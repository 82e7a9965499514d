----------------------------- MODULE ListPlanner -----------------------------
(***************************************************************************)
(* ListPlanner and the dialog that uses it, CompliantPlannerDlg: the       *)
(* dialog samples a list of pre-grasps, the planner evaluates one of them  *)
(* per call of its idle sensor and ranks the legal ones; the user may      *)
(* generate, start, pause and look at results at any time between two      *)
(* calls.                                                                  *)
(***************************************************************************)
EXTENDS SensorPlanner, Sequences, FiniteSets

CONSTANTS
  Grasp,         (* the pre-grasps the dialog may sample                   *)
  EnergyType,    (* the entries of energyTypeBox                           *)
  Compliant,     (* the one the design test uses                           *)
  IsLegal(_),    (* analyzeState() finds the grasp legal                   *)
  Energy(_, _),  (* the energy of a grasp under a type of energy           *)
  Ceiling,       (* the energy of 1.0e5 a grasp must stay below            *)
  BestListSize,  (* BEST_LIST_SIZE                                         *)
  MaxInput       (* bound: grasps in a list                                *)

ASSUME ListConstants ==
  /\ Compliant \in EnergyType
  /\ Ceiling \in Nat /\ BestListSize \in Nat \ {0} /\ MaxInput \in Nat \ {0}
  /\ \A g \in Grasp : IsLegal(g) \in BOOLEAN
  /\ \A t \in EnergyType, g \in Grasp : Energy(t, g) \in Nat

VARIABLES
  planner,        (* the members of EGPlanner                              *)
  mEnergyType,    (* what mEnergyCalculator computes                       *)
  mInputList,
  iterator,       (* the index mPlanningIterator stands at                 *)
  mBestList,      (* grasp, its energy and its mItNumber                   *)
  mNumCandidates,
  mBestGraspNum,  (* the rank the dialog shows                             *)
  testOne,        (* the number in testOneEdit                             *)
  mBatch,
  isOpen,         (* the dialog is open                                    *)
  tried           (* history: the energies computed since the last reset   *)

dialog == <<mNumCandidates, mBestGraspNum, testOne, mBatch, isOpen>>
list == <<mInputList, iterator, mBestList, tried>>
vars == <<planner, mEnergyType, list, dialog>>

Result == [grasp : Grasp, energy : Nat, itNumber : Nat]
ResultEnergy(r) == r.energy
Never(r, s) == FALSE
Ranking == INSTANCE SolutionLists WITH Energy <- ResultEnergy, Near <- Never

Inputs == UNION {[1..n -> Grasp] : n \in 1..MaxInput}

Init ==
  /\ planner = NewPlanner(-1, FALSE) /\ mEnergyType = Compliant
  /\ mInputList = <<>> /\ iterator = 1 /\ mBestList = <<>> /\ tried = <<>>
  /\ mNumCandidates = 0 /\ mBestGraspNum = 0 /\ testOne = 0
  /\ mBatch = FALSE /\ isOpen = TRUE

-----------------------------------------------------------------------------
(* The planner.                                                            *)

(* setInput(input) and resetPlanner(), which the dialog calls one after    *)
(* the other: both refuse a planner that runs.                             *)
SetInputAndReset(input) ==
  LET fed == Invalidated([planner EXCEPT !.maxSteps = Len(input)])
  IN  IF IsActive(planner) \/ ~CanReset(fed, input # <<>>)
      THEN UNCHANGED <<planner, list>>
      ELSE /\ planner' = ResetDone(fed)
           /\ mInputList' = input /\ iterator' = 1
           /\ mBestList' = <<>> /\ tried' = <<>>

(* Mutant of Insert: the number is the one of the next grasp.              *)
InsertNext(grasp, energy) ==
  LET worst == IF Len(mBestList) < BestListSize THEN Ceiling
               ELSE mBestList[Len(mBestList)].energy
      result == [grasp |-> grasp, energy |-> energy,
                 itNumber |-> planner.step + 1]
  IN  IF IsLegal(grasp) /\ energy < worst
      THEN \E sorted \in Ranking!Sortings(Append(mBestList, result)) :
             mBestList' = Ranking!CutTo(sorted, BestListSize)
      ELSE UNCHANGED mBestList

(* What mainLoop() does with a grasp it has analyzed.                      *)
Insert(grasp, energy) ==
  LET worst == IF Len(mBestList) < BestListSize THEN Ceiling
               ELSE mBestList[Len(mBestList)].energy
      result == [grasp |-> grasp, energy |-> energy,
                 itNumber |-> planner.step]
  IN  IF IsLegal(grasp) /\ energy < worst
      THEN \E sorted \in Ranking!Sortings(Append(mBestList, result)) :
             mBestList' = Ranking!CutTo(sorted, BestListSize)
      ELSE UNCHANGED mBestList

(* mainLoop() and, after it, the sensor scheduled again.                   *)
MainLoop ==
  LET grasp == mInputList[iterator]
      energy == Energy(mEnergyType, grasp)
  IN  IF iterator > Len(mInputList)
      THEN /\ planner' = [planner EXCEPT !.step = planner.maxSteps + 1,
                                         !.sensor = "scheduled"]
           /\ UNCHANGED list
      ELSE /\ Insert(grasp, energy)
           /\ tried' = Append(tried, energy)
           /\ iterator' = iterator + 1
           /\ planner' = [planner EXCEPT !.step = @ + 1, !.sensor = "scheduled"]
           /\ UNCHANGED mInputList

(* The idle sensor calls the planner.                                      *)
SensorCB ==
  /\ planner.sensor = "scheduled"
  /\ IF Terminates(planner)
     THEN planner' = Checked([planner EXCEPT !.sensor = "called"])
          /\ UNCHANGED list
     ELSE MainLoop
  /\ UNCHANGED <<mEnergyType, dialog>>

-----------------------------------------------------------------------------
(* The dialog.                                                             *)

GenerateButtonClicked ==
  /\ isOpen
  /\ \E input \in Inputs :
       mNumCandidates' = Len(input) /\ SetInputAndReset(input)
  /\ UNCHANGED <<mEnergyType, mBestGraspNum, testOne, mBatch, isOpen>>

(* Starts the planner, or pauses it; the type of energy is set either way. *)
TestButtonClicked ==
  /\ isOpen
  /\ mEnergyType' \in EnergyType
  /\ IF IsActive(planner)
     THEN planner' = Paused(planner) /\ UNCHANGED mBatch
     ELSE planner' = Started(planner) /\ mBatch' = FALSE
  /\ UNCHANGED <<list, mNumCandidates, mBestGraspNum, testOne, isOpen>>

(* The type of energy is set before the dialog finds that the planner runs *)
(* and refuses; the test itself only prints.                               *)
TestOneButtonClicked ==
  /\ isOpen
  /\ mEnergyType' \in EnergyType
  /\ UNCHANGED <<planner, list, dialog>>

DesignTestButtonClicked ==
  /\ isOpen
  /\ mEnergyType' = Compliant /\ mBatch' = TRUE
  /\ planner' = Started(planner)
  /\ UNCHANGED <<list, mNumCandidates, mBestGraspNum, testOne, isOpen>>

(* showResult(): the rank is brought into the list, and the number of the  *)
(* input it came from into testOneEdit.                                    *)
ShowResult(rank) ==
  LET size == Len(mBestList)
      shown == IF size = 0 \/ rank < 0 THEN 0
               ELSE IF rank >= size THEN size - 1 ELSE rank
  IN  /\ mBestGraspNum' = shown
      /\ testOne' = IF size = 0 THEN 0 ELSE mBestList[shown + 1].itNumber
      /\ UNCHANGED <<planner, mEnergyType, list, mNumCandidates, mBatch, isOpen>>

PrevButtonClicked == isOpen /\ ShowResult(mBestGraspNum - 1)
NextButtonClicked == isOpen /\ ShowResult(mBestGraspNum + 1)
BestButtonClicked == isOpen /\ ShowResult(0)

(* Closing the dialog deletes the planner, and the planner its sensor and  *)
(* its lists.                                                              *)
Close ==
  /\ isOpen /\ isOpen' = FALSE
  /\ planner' = [planner EXCEPT !.sensor = "NULL"]
  /\ mInputList' = <<>> /\ iterator' = 1 /\ mBestList' = <<>> /\ tried' = <<>>
  /\ UNCHANGED <<mEnergyType, mNumCandidates, mBestGraspNum, testOne, mBatch>>

Next ==
  \/ SensorCB
  \/ GenerateButtonClicked \/ TestButtonClicked \/ TestOneButtonClicked
  \/ DesignTestButtonClicked
  \/ PrevButtonClicked \/ NextButtonClicked \/ BestButtonClicked
  \/ Close

(* Inventor empties its queue of idle sensors between two events.          *)
Fairness == WF_vars(SensorCB)

Spec == Init /\ [][Next]_vars /\ Fairness

-----------------------------------------------------------------------------

TypeOK ==
  /\ planner \in Planner(0..MaxInput + 1)
  /\ mEnergyType \in EnergyType
  /\ mInputList \in {<<>>} \cup Inputs
  /\ iterator \in 1..Len(mInputList) + 1
  /\ mBestList \in Seq(Result) /\ Len(mBestList) <= BestListSize
  /\ tried \in Seq(Nat)
  /\ mNumCandidates \in 0..MaxInput /\ mBestGraspNum \in 0..BestListSize
  /\ testOne \in 0..MaxInput
  /\ mBatch \in BOOLEAN /\ isOpen \in BOOLEAN

(* An open dialog's planner has a sensor exactly while it runs, and the    *)
(* sensor waits for its next turn: sensorCB() never finds it deleted when  *)
(* it schedules it again, and no running planner is forgotten by the queue.*)
SensorMatches ==
  planner.sensor = IF isOpen /\ IsActive(planner) THEN "scheduled" ELSE "NULL"

(* "Simply takes the next input grasp from the list, tries it and then     *)
(* places is in the output depending on the quality": whatever the user    *)
(* did in between, every input before the iterator was tried once, every   *)
(* result names the input it is of, in order of energy, and only legal     *)
(* inputs worse than all of a full list were left out.                     *)
ResultsMatch ==
  LET found == {mBestList[i].itNumber : i \in DOMAIN mBestList}
      good == {k \in 0..Len(tried) - 1 :
                 IsLegal(mInputList[k + 1]) /\ tried[k + 1] < Ceiling}
  IN  /\ TypeOK
      /\ Len(tried) = iterator - 1
      /\ found \subseteq good /\ Cardinality(found) = Len(mBestList)
      /\ \A i \in DOMAIN mBestList :
           LET r == mBestList[i]
           IN  r.grasp = mInputList[r.itNumber + 1] /\ r.energy = tried[r.itNumber + 1]
      /\ Ranking!InOrder(mBestList)
      /\ \A k \in good \ found :
           /\ Len(mBestList) = BestListSize
           /\ tried[k + 1] >= mBestList[BestListSize].energy

(* The planner keeps the life cycle of every EGPlanner.                    *)
Life == INSTANCE PlannerLife WITH state <- planner.state
LifeCycle == Life!Spec

(* A list is finite: a planner that runs comes to its end, or its dialog   *)
(* is closed, whatever the user does.                                      *)
TestEnds == IsActive(planner) ~> (~IsActive(planner) \/ ~isOpen)
=============================================================================

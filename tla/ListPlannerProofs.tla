-------------------------- MODULE ListPlannerProofs --------------------------
(***************************************************************************)
(* Proofs about ListPlanner for lists of every length, every number of     *)
(* pre-grasps and energies: a planner without a thread keeps its idle      *)
(* sensor and the life cycle of every EGPlanner, and its results are those *)
(* of its list.                                                            *)
(***************************************************************************)
EXTENDS ListPlanner, SequenceTheorems, FiniteSetTheorems, TLAPS

(* What is known of lists of solutions, here ranked by energy alone.       *)
Facts == INSTANCE SolutionListsProofs WITH Energy <- ResultEnergy, Near <- Never

(* What CompliantPlannerDlg's planner is between two events: it never      *)
(* repeats, is never stopped for good, and has a sensor while it runs; its *)
(* dialog deletes it with its sensor, whatever its state.                  *)
State == {"INIT", "READY", "RUNNING"}
Members == [state : State, sensor : Sensor, step : Int, maxSteps : Int,
            repeat : {FALSE}]
Steady ==
  /\ planner \in Members
  /\ isOpen \in BOOLEAN

(* The inductive invariant.                                                *)
IInv == Steady /\ SensorMatches

(* A step that keeps the life cycle.                                       *)
LifeStep == [Life!Next]_(planner.state)

-----------------------------------------------------------------------------

(* The dialog starts with a planner that does not run.                     *)
LEMMA SteadyInit == Init => IInv
  BY DEF Init, IInv, Steady, State, Members, SensorMatches, NewPlanner, Sensor, IsActive

(* The functions of EGPlanner on such a planner.                           *)
LEMMA StateSet ==
  ASSUME NEW p \in Members, NEW t \in State
  PROVE  /\ SetState(p, t) \in Members
         /\ SetState(p, t).state = t
         /\ SetState(p, t).sensor = p.sensor
<1>1. p.state \in State
  BY DEF Members
<1>2. Rules!Accept(p.state, t) = t
  BY <1>1 DEF Rules!Accept, Rules!Dead, State
<1> QED BY <1>2 DEF SetState, Members

(* The sensor of a planner is put in place or deleted.                     *)
LEMMA SensorSet ==
  ASSUME NEW p \in Members, NEW n \in Sensor
  PROVE  /\ [p EXCEPT !.sensor = n] \in Members
         /\ [p EXCEPT !.sensor = n].state = p.state
         /\ [p EXCEPT !.sensor = n].sensor = n
  BY DEF Members

(* The steps are counted.                                                  *)
LEMMA StepSet ==
  ASSUME NEW p \in Members, NEW k \in Int
  PROVE  /\ [p EXCEPT !.step = k] \in Members
         /\ [p EXCEPT !.step = k].state = p.state
         /\ [p EXCEPT !.step = k].sensor = p.sensor
  BY DEF Members

(* startPlanner() and pausePlanner().                                      *)
LEMMA Functions ==
  ASSUME NEW p \in Members,
         p.sensor = (IF IsActive(p) THEN "scheduled" ELSE "NULL")
  PROVE  /\ Started(p) \in Members
         /\ Started(p).sensor =
              (IF IsActive(Started(p)) THEN "scheduled" ELSE "NULL")
         /\ Started(p).state =
              (IF p.state = "READY" THEN "RUNNING" ELSE p.state)
         /\ Paused(p) \in Members
         /\ Paused(p).sensor = "NULL"
         /\ Paused(p).state =
              (IF p.state = "RUNNING" THEN "READY" ELSE p.state)
<1>1. p.state \in State /\ {"scheduled", "NULL"} \subseteq Sensor
      /\ {"READY", "RUNNING"} \subseteq State
  BY DEF Members, Sensor, State
<1>2. [p EXCEPT !.sensor = "scheduled"] \in Members
      /\ [p EXCEPT !.sensor = "scheduled"].sensor = "scheduled"
  BY <1>1, SensorSet
<1>3. [p EXCEPT !.sensor = "NULL"] \in Members
      /\ [p EXCEPT !.sensor = "NULL"].sensor = "NULL"
  BY <1>1, SensorSet
<1> DEFINE up == SetState([p EXCEPT !.sensor = "scheduled"], "RUNNING")
           down == SetState([p EXCEPT !.sensor = "NULL"], "READY")
<1>4. up \in Members /\ up.state = "RUNNING" /\ up.sensor = "scheduled"
  BY <1>1, <1>2, StateSet
<1>5. down \in Members /\ down.state = "READY" /\ down.sensor = "NULL"
  BY <1>1, <1>3, StateSet
<1>6. Started(p) = IF p.state = "READY" THEN up ELSE p
  BY DEF Started, IsReady
<1>7. Paused(p) = IF p.state = "RUNNING" THEN down ELSE p
  BY DEF Paused, IsActive
<1> HIDE DEF up, down
<1> QED BY <1>1, <1>4, <1>5, <1>6, <1>7 DEF IsActive

(* setInput() followed by resetPlanner(), by a dialog that is open.        *)
LEMMA InputStep ==
  ASSUME IInv, isOpen, isOpen' = isOpen, NEW input, Len(input) \in Int,
         SetInputAndReset(input)
  PROVE  IInv' /\ LifeStep
<1>1. planner \in Members /\ isOpen \in BOOLEAN
      /\ planner.sensor = IF IsActive(planner) THEN "scheduled" ELSE "NULL"
  BY DEF IInv, Steady, SensorMatches
<1>2. CASE planner' = planner
  BY <1>1, <1>2 DEF IInv, Steady, SensorMatches, IsActive, LifeStep
<1>3. CASE planner' # planner
  <2> DEFINE max == [planner EXCEPT !.maxSteps = Len(input)]
             fed == Invalidated(max)
             cleared == [fed EXCEPT !.step = 0]
  <2>1. ~IsActive(planner) /\ planner' = SetState(cleared, "READY")
    BY <1>3 DEF SetInputAndReset, ResetDone
  <2>2. max \in Members /\ max.state = planner.state
        /\ max.sensor = planner.sensor
    BY <1>1 DEF Members
  <2>3. "INIT" \in State /\ "READY" \in State
    BY DEF State
  <2>4. fed \in Members /\ fed.sensor = "NULL"
    <3> HIDE DEF max
    <3>1. max.sensor = "NULL"
      BY <1>1, <2>1, <2>2
    <3> QED BY <2>2, <2>3, <3>1, StateSet DEF Invalidated
  <2>5. cleared \in Members /\ cleared.sensor = "NULL"
    <3> HIDE DEF fed
    <3> QED BY <2>4, StepSet
  <2>6. planner' \in Members /\ planner'.state = "READY"
        /\ planner'.sensor = "NULL"
    <3> HIDE DEF cleared
    <3> QED BY <2>1, <2>3, <2>5, StateSet
  <2>7. planner.state \in {"INIT", "READY"}
    BY <1>1, <2>1 DEF Members, State, IsActive
  <2>8. LifeStep
    BY <2>6, <2>7 DEF LifeStep, Life!Next, Life!Reset
  <2> QED BY <1>1, <2>6, <2>8 DEF IInv, Steady, SensorMatches, IsActive
<1> QED BY <1>2, <1>3

(* A call of startPlanner() or pausePlanner(), or none.                    *)
LEMMA ButtonStep ==
  ASSUME IInv, isOpen, isOpen' = isOpen,
         planner' \in {planner, Started(planner), Paused(planner)}
  PROVE  IInv' /\ LifeStep
<1>1. planner \in Members /\ isOpen \in BOOLEAN
      /\ planner.sensor = IF IsActive(planner) THEN "scheduled" ELSE "NULL"
  BY DEF IInv, Steady, SensorMatches
<1>2. CASE planner' = planner
  BY <1>1, <1>2 DEF IInv, Steady, SensorMatches, IsActive, LifeStep
<1>3. CASE planner' = Started(planner)
  <2>1. /\ planner' \in Members
        /\ planner'.sensor = IF IsActive(planner') THEN "scheduled" ELSE "NULL"
        /\ planner'.state =
             IF planner.state = "READY" THEN "RUNNING" ELSE planner.state
    BY <1>1, <1>3, Functions
  <2> QED BY <1>1, <2>1
          DEF IInv, Steady, SensorMatches, IsActive, LifeStep, Life!Next, Life!Start
<1>4. CASE planner' = Paused(planner)
  <2>1. /\ planner' \in Members
        /\ planner'.sensor = "NULL"
        /\ planner'.state =
             IF planner.state = "RUNNING" THEN "READY" ELSE planner.state
    BY <1>1, <1>4, Functions
  <2> QED BY <1>1, <2>1
          DEF IInv, Steady, SensorMatches, IsActive, LifeStep, Life!Next, Life!Pause
<1> QED BY <1>2, <1>3, <1>4

(* The idle sensor's call: it pauses a planner at its limit, or turns the  *)
(* planner's loop once and schedules the sensor again.                     *)
LEMMA SensorStep ==
  ASSUME IInv, SensorCB
  PROVE  IInv' /\ LifeStep
<1>1. /\ planner \in Members /\ isOpen \in BOOLEAN
      /\ planner.sensor = IF isOpen /\ IsActive(planner) THEN "scheduled" ELSE "NULL"
      /\ isOpen' = isOpen
  BY DEF IInv, Steady, SensorMatches, SensorCB, dialog
<1>2. isOpen /\ planner.state = "RUNNING"
  BY <1>1 DEF SensorCB, IsActive
<1>3. CASE Terminates(planner)
  <2> DEFINE called == [planner EXCEPT !.sensor = "called"]
             gone == [called EXCEPT !.sensor = "NULL"]
  <2>1. planner' = Checked(called)
    BY <1>3 DEF SensorCB
  <2>2. called \in Members /\ called.state = "RUNNING" /\ called.repeat = FALSE
        /\ AtLimit(called) = AtLimit(planner)
    BY <1>1, <1>2 DEF Members, Sensor, AtLimit
  <2>3. AtLimit(planner)
    BY <1>2, <1>3 DEF Terminates, IsActive
  <2>4. gone \in Members /\ gone.sensor = "NULL"
    <3> HIDE DEF called
    <3> QED BY <2>2, SensorSet DEF Sensor
  <2>5. planner' = SetState(gone, "READY")
    <3> HIDE DEF called
    <3> QED BY <2>1, <2>2, <2>3 DEF Checked, Paused, IsActive
  <2>6. planner' \in Members /\ planner'.state = "READY"
        /\ planner'.sensor = "NULL"
    <3> HIDE DEF gone
    <3> QED BY <2>4, <2>5, StateSet DEF State
  <2> QED BY <1>1, <1>2, <2>6
          DEF IInv, Steady, SensorMatches, IsActive, LifeStep, Life!Next, Life!Pause
<1>4. CASE ~Terminates(planner)
  <2>1. MainLoop
    BY <1>4 DEF SensorCB
  <2>2. \/ planner' = [planner EXCEPT !.step = planner.maxSteps + 1,
                                      !.sensor = "scheduled"]
        \/ planner' = [planner EXCEPT !.step = @ + 1, !.sensor = "scheduled"]
    BY <2>1 DEF MainLoop
  <2>3. planner' \in Members /\ planner'.state = "RUNNING"
        /\ planner'.sensor = "scheduled"
    <3>1. /\ planner.maxSteps + 1 \in Int /\ planner.step + 1 \in Int
          /\ "scheduled" \in Sensor
      BY <1>1 DEF Members, Sensor
    <3>2. PICK k \in Int :
            planner' = [planner EXCEPT !.step = k, !.sensor = "scheduled"]
      BY <2>2, <3>1
    <3> DEFINE moved == [planner EXCEPT !.step = k, !.sensor = "scheduled"]
    <3>3. moved \in Members /\ moved.state = planner.state
          /\ moved.sensor = "scheduled"
      BY <1>1, <3>1 DEF Members
    <3> HIDE DEF moved
    <3>4. planner' = moved
      BY <3>2 DEF moved
    <3> QED BY <1>2, <3>3, <3>4
  <2> QED BY <1>1, <1>2, <2>3
          DEF IInv, Steady, SensorMatches, IsActive, LifeStep
<1> QED BY <1>3, <1>4

-----------------------------------------------------------------------------

(* Whatever the user clicks, and whenever the sensor calls.                *)
LEMMA SteadyNext == IInv /\ [Next]_vars => IInv' /\ LifeStep
<1> SUFFICES ASSUME IInv, [Next]_vars PROVE IInv' /\ LifeStep
  OBVIOUS
<1>1. CASE SensorCB
  BY <1>1, SensorStep
<1>2. CASE GenerateButtonClicked
  <2>1. PICK input \in Inputs : SetInputAndReset(input)
    BY <1>2 DEF GenerateButtonClicked
  <2>2. Len(input) \in Int
    BY <2>1, ListConstants DEF Inputs
  <2> QED BY <1>2, <2>1, <2>2, InputStep DEF GenerateButtonClicked
<1>3. CASE TestButtonClicked \/ DesignTestButtonClicked
  BY <1>3, ButtonStep DEF TestButtonClicked, DesignTestButtonClicked
<1>4. CASE TestOneButtonClicked
  BY <1>4, ButtonStep DEF TestOneButtonClicked, dialog
<1>5. CASE PrevButtonClicked \/ NextButtonClicked \/ BestButtonClicked
  BY <1>5, ButtonStep DEF PrevButtonClicked, NextButtonClicked,
                          BestButtonClicked, ShowResult
<1>6. CASE Close
  <2>1. planner' = [planner EXCEPT !.sensor = "NULL"] /\ planner \in Members
        /\ isOpen' = FALSE
    BY <1>6 DEF Close, IInv, Steady
  <2>2. planner' \in Members /\ planner'.sensor = "NULL"
        /\ planner'.state = planner.state
    BY <2>1, SensorSet DEF Sensor
  <2> QED BY <2>1, <2>2 DEF IInv, Steady, SensorMatches, LifeStep
<1>7. CASE UNCHANGED vars
  BY <1>7 DEF vars, dialog, IInv, Steady, SensorMatches, IsActive, LifeStep
<1> QED BY <1>1, <1>2, <1>3, <1>4, <1>5, <1>6, <1>7 DEF Next

(* While its dialog is open, a planner without a thread has an idle sensor *)
(* exactly while it runs, whatever the user clicks and however long the    *)
(* list: sensorCB() never schedules a sensor that pausePlanner() deleted.  *)
THEOREM SensorAlwaysMatches == Spec => []SensorMatches
<1>1. IInv => SensorMatches
  BY DEF IInv
<1> QED BY SteadyInit, SteadyNext, <1>1, PTL DEF Spec

(* The safety part of LifeCycle: every step of the dialog and its planner  *)
(* is a step of the life cycle of an EGPlanner or leaves its state alone.  *)
THEOREM KeepsLifeCycle ==
  Spec => Life!Init /\ [][Life!Next]_(planner.state)
<1>1. Init => Life!Init
  BY DEF Init, NewPlanner, Life!Init
<1>2. IInv /\ [Next]_vars => [Life!Next]_(planner.state)
  BY SteadyNext DEF LifeStep
<1> QED BY SteadyInit, SteadyNext, <1>1, <1>2, PTL DEF Spec

-----------------------------------------------------------------------------
(* The results.                                                            *)

(* A result is that of the input it names, which was legal and below the   *)
(* ceiling when it was tried.                                              *)
Good(k, input, energies) ==
  /\ k \in 0..Len(energies) - 1
  /\ IsLegal(input[k + 1]) /\ energies[k + 1] < Ceiling
Names(r, input, energies) ==
  /\ Good(r.itNumber, input, energies)
  /\ r.grasp = input[r.itNumber + 1] /\ r.energy = energies[r.itNumber + 1]

Missing(k, results) == \A i \in DOMAIN results : results[i].itNumber # k

(* The results of an input of which the first grasps had these energies.   *)
Ranked(results, input, energies) ==
  /\ results \in Seq(Result) /\ Len(results) <= BestListSize
  /\ \A i \in DOMAIN results : Names(results[i], input, energies)
  /\ \A i, j \in DOMAIN results :
       i # j => results[i].itNumber # results[j].itNumber
  /\ Ranking!InOrder(results)
  /\ \A k \in Nat :
       Good(k, input, energies) /\ Missing(k, results) =>
         /\ Len(results) = BestListSize
         /\ energies[k + 1] >= results[BestListSize].energy

(* The planner and its list count the grasps that were tried in step.      *)
Counted ==
  /\ mInputList \in {<<>>} \cup Inputs
  /\ iterator \in 1..Len(mInputList) + 1
  /\ tried \in Seq(Nat) /\ Len(tried) = iterator - 1
  /\ planner.step \in 0..MaxInput + 1
  /\ planner.maxSteps \in (0..MaxInput + 1) \cup {-1}
  /\ isOpen => /\ planner.step = iterator - 1
               /\ IF mInputList = <<>> THEN planner.state = "INIT"
                  ELSE planner.maxSteps = Len(mInputList)

DialogOK ==
  /\ mEnergyType \in EnergyType
  /\ mNumCandidates \in 0..MaxInput /\ mBestGraspNum \in 0..BestListSize
  /\ testOne \in 0..MaxInput /\ mBatch \in BOOLEAN

(* The inductive invariant of the results.                                 *)
RInv ==
  /\ IInv /\ Counted /\ DialogOK
  /\ Ranked(mBestList, mInputList, tried)

-----------------------------------------------------------------------------

(* Sorting by energy alone is sorting.                                     *)
LEMMA SameLists ==
  ASSUME NEW l
  PROVE  /\ Ranking!Sortings(l) = Facts!Sortings(l)
         /\ \A n : Ranking!CutTo(l, n) = Facts!CutTo(l, n)
         /\ Ranking!InOrder(l) <=> Facts!InOrder(l)
         /\ \A s : s \in Ranking!Sortings(l) =>
              s \in Facts!Rearrangements(l) /\ Ranking!InOrder(s)
<1>1. Ranking!Rearrangements(l) = Facts!Rearrangements(l)
  BY DEF Ranking!Rearrangements, Facts!Rearrangements,
         Ranking!Bijection, Facts!Bijection, Ranking!Injection, Facts!Injection,
         Ranking!Surjection, Facts!Surjection,
         Ranking!IsInjective, Facts!IsInjective
<1>2. \A s : Ranking!InOrder(s) <=> Facts!InOrder(s)
  BY DEF Ranking!InOrder, Facts!InOrder
<1>3. Ranking!Sortings(l) = Facts!Sortings(l)
  BY <1>1, <1>2 DEF Ranking!Sortings, Facts!Sortings
<1>4. \A n : Ranking!CutTo(l, n) = Facts!CutTo(l, n)
  BY DEF Ranking!CutTo, Facts!CutTo
<1>5. \A s : s \in Ranking!Sortings(l) =>
             s \in Facts!Rearrangements(l) /\ Ranking!InOrder(s)
  BY <1>1 DEF Ranking!Sortings
<1> QED BY <1>2, <1>3, <1>4, <1>5

(* The front of a sorted list of the same results.                         *)
CutFrom(new, sorted, more, n) ==
  /\ new \in Seq(Result) /\ Len(new) <= n /\ Ranking!InOrder(new)
  /\ \E f \in [DOMAIN new -> DOMAIN more] :
       /\ \A k \in DOMAIN new : new[k] = more[f[k]]
       /\ \A k, l \in DOMAIN new : k # l => f[k] # f[l]
  /\ sorted \in Seq(Result) /\ Len(sorted) = Len(more)
  /\ Ranking!InOrder(sorted)
  /\ \A j \in DOMAIN more : \E i \in DOMAIN sorted : sorted[i] = more[j]
  /\ \A i \in DOMAIN sorted : \E j \in DOMAIN more : sorted[i] = more[j]
  /\ \A i \in DOMAIN new : i \in DOMAIN sorted /\ new[i] = sorted[i]
  /\ Len(new) = IF Len(more) > n THEN n ELSE Len(more)

(* What Insert does to the list when it takes the result in.               *)
LEMMA RankAndCut ==
  ASSUME NEW more \in Seq(Result), NEW sorted \in Ranking!Sortings(more),
         NEW n \in Nat
  PROVE  CutFrom(Ranking!CutTo(sorted, n), sorted, more, n)
<1> DEFINE new == Ranking!CutTo(sorted, n)
<1>1. sorted \in Facts!Sortings(more) /\ sorted \in Facts!Rearrangements(more)
      /\ Ranking!InOrder(sorted)
  BY SameLists
<1>2. new = Facts!CutTo(sorted, n)
  BY SameLists
<1>3. /\ new \in Seq(Result) /\ Len(new) <= n
      /\ Len(new) = IF Len(more) > n THEN n ELSE Len(more)
      /\ Facts!IsTaken(new, more) /\ Facts!InOrder(new)
  BY <1>1, <1>2, Facts!SortedAndCut
<1>4. /\ sorted \in Seq(Result) /\ Len(sorted) = Len(more)
      /\ Facts!InList(sorted) = Facts!InList(more)
  BY <1>1, Facts!SortingTakes
<1>5. \A i \in DOMAIN new : i \in DOMAIN sorted /\ new[i] = sorted[i]
  BY <1>2, <1>4, Facts!CutKeeps
<1> HIDE DEF new
<1>6. \E f \in [DOMAIN new -> DOMAIN more] :
        /\ \A k \in DOMAIN new : new[k] = more[f[k]]
        /\ \A k, l \in DOMAIN new : k # l => f[k] # f[l]
  BY <1>3 DEF Facts!IsTaken
<1>7. Ranking!InOrder(new)
  BY <1>3, SameLists
<1>8. /\ \A j \in DOMAIN more : \E i \in DOMAIN sorted : sorted[i] = more[j]
      /\ \A i \in DOMAIN sorted : \E j \in DOMAIN more : sorted[i] = more[j]
  BY <1>4 DEF Facts!InList
<1> QED BY <1>1, <1>3, <1>4, <1>5, <1>6, <1>7, <1>8 DEF new, CutFrom

(* One more grasp is tried.                                                *)
LEMMA OneMoreTried ==
  ASSUME NEW input, NEW energies \in Seq(Nat), NEW e \in Nat
  PROVE  LET more == Append(energies, e)
             last == Len(energies)
         IN  /\ more \in Seq(Nat) /\ Len(more) = last + 1 /\ last \in Nat
             /\ more[last + 1] = e
             /\ \A k \in 0..last - 1 : more[k + 1] = energies[k + 1]
             /\ \A k \in Nat : Good(k, input, more) <=>
                  \/ Good(k, input, energies)
                  \/ k = last /\ IsLegal(input[last + 1]) /\ e < Ceiling
             /\ \A r \in Result :
                  Names(r, input, energies) => Names(r, input, more)
<1> DEFINE more == Append(energies, e)
           last == Len(energies)
<1>1. /\ more \in Seq(Nat) /\ Len(more) = last + 1 /\ last \in Nat
      /\ more[last + 1] = e
      /\ \A i \in 1..last : more[i] = energies[i]
  BY AppendProperties
<1> HIDE DEF more
<1>2. \A k \in 0..last - 1 : more[k + 1] = energies[k + 1]
  BY <1>1
<1> HIDE DEF last
<1>3. 0..Len(more) - 1 = 0..last
  BY <1>1
<1>4. ASSUME NEW k \in Nat
      PROVE  Good(k, input, more) <=>
                  \/ Good(k, input, energies)
                  \/ k = last /\ IsLegal(input[last + 1]) /\ e < Ceiling
  <2>1. k \in 0..last <=> (k \in 0..last - 1 \/ k = last)
    BY <1>1
  <2>2. k = last => k \notin 0..last - 1
    BY <1>1
  <2>3. Good(k, input, energies) <=>
          k \in 0..last - 1 /\ IsLegal(input[k + 1]) /\ energies[k + 1] < Ceiling
    BY DEF Good, last
  <2>4. Good(k, input, more) <=>
          k \in 0..last /\ IsLegal(input[k + 1]) /\ more[k + 1] < Ceiling
    BY <1>3 DEF Good
  <2> QED BY <1>1, <1>2, <2>1, <2>2, <2>3, <2>4
<1>5. ASSUME NEW r \in Result, Names(r, input, energies)
      PROVE  Names(r, input, more)
  <2>1. r.itNumber \in Nat
    BY DEF Result
  <2>2. r.itNumber \in 0..last - 1
    BY <1>5 DEF Names, Good, last
  <2>3. Good(r.itNumber, input, more)
    BY <1>4, <1>5, <2>1 DEF Names
  <2> QED BY <1>2, <1>5, <2>2, <2>3 DEF Names
<1> QED BY <1>1, <1>2, <1>4, <1>5 DEF more, last

(* A grasp that is illegal, or no better than the worst of a full list, is *)
(* left out.                                                               *)
LEMMA LeftOut ==
  ASSUME NEW input, NEW energies \in Seq(Nat), NEW e \in Nat,
         NEW results, Ranked(results, input, energies),
         ~(/\ IsLegal(input[Len(energies) + 1])
           /\ e < IF Len(results) < BestListSize THEN Ceiling
                  ELSE results[Len(results)].energy)
  PROVE  Ranked(results, input, Append(energies, e))
<1> DEFINE more == Append(energies, e)
           last == Len(energies)
<1>1. /\ last \in Nat /\ more[last + 1] = e
      /\ \A k \in 0..last - 1 : more[k + 1] = energies[k + 1]
      /\ \A k \in Nat : Good(k, input, more) <=>
           \/ Good(k, input, energies)
           \/ k = last /\ IsLegal(input[last + 1]) /\ e < Ceiling
      /\ \A r \in Result :
           Names(r, input, energies) => Names(r, input, more)
  BY OneMoreTried
<1> HIDE DEF more
<1>2. /\ results \in Seq(Result) /\ Len(results) <= BestListSize
      /\ BestListSize \in Nat \ {0} /\ Ceiling \in Nat
  BY ListConstants DEF Ranked
<1>3. \A i \in DOMAIN results : Names(results[i], input, more)
  BY <1>1, <1>2 DEF Ranked
<1>4. ASSUME NEW k \in Nat, Good(k, input, more), Missing(k, results)
      PROVE  /\ Len(results) = BestListSize
             /\ more[k + 1] >= results[BestListSize].energy
  <2>1. CASE Good(k, input, energies)
    <3>1. k \in 0..last - 1
      BY <2>1 DEF Good
    <3>2. /\ Len(results) = BestListSize
          /\ energies[k + 1] >= results[BestListSize].energy
      BY <1>4, <2>1 DEF Ranked
    <3> QED BY <1>1, <3>1, <3>2
  <2>2. CASE k = last /\ IsLegal(input[last + 1]) /\ e < Ceiling
    <3>1. Len(results) = BestListSize
      BY <1>2, <2>2
    <3>2. ~(e < results[BestListSize].energy)
      BY <2>2, <3>1
    <3>3. BestListSize \in DOMAIN results
      BY <1>2, <3>1
    <3>4. results[BestListSize] \in Result
      BY <1>2, <3>3
    <3>5. results[BestListSize].energy \in Nat
      BY <3>4 DEF Result
    <3> QED BY <1>1, <2>2, <3>1, <3>2, <3>5
  <2> QED BY <1>1, <1>4, <2>1, <2>2
<1> QED BY <1>2, <1>3, <1>4 DEF Ranked, more

(* A grasp that is taken in may push the worst out.                        *)
LEMMA TakenIn ==
  ASSUME NEW input, NEW energies \in Seq(Nat), NEW e \in Nat,
         NEW results, Ranked(results, input, energies),
         input[Len(energies) + 1] \in Grasp,
         IsLegal(input[Len(energies) + 1]),
         \/ Len(results) < BestListSize /\ e < Ceiling
         \/ ~(Len(results) < BestListSize) /\ e < results[Len(results)].energy,
         NEW sorted \in Ranking!Sortings(Append(results,
           [grasp |-> input[Len(energies) + 1], energy |-> e,
            itNumber |-> Len(energies)]))
  PROVE  Ranked(Ranking!CutTo(sorted, BestListSize), input, Append(energies, e))
<1> DEFINE last == Len(energies)
           tries == Append(energies, e)
           r == [grasp |-> input[last + 1], energy |-> e, itNumber |-> last]
           more == Append(results, r)
           m == Len(results)
           n == BestListSize
           new == Ranking!CutTo(sorted, n)
<1>1. /\ last \in Nat /\ tries[last + 1] = e
      /\ \A k \in 0..last - 1 : tries[k + 1] = energies[k + 1]
      /\ \A k \in Nat : Good(k, input, tries) <=>
           \/ Good(k, input, energies)
           \/ k = last /\ IsLegal(input[last + 1]) /\ e < Ceiling
      /\ \A s \in Result :
           Names(s, input, energies) => Names(s, input, tries)
  BY OneMoreTried
<1> HIDE DEF tries
<1>2. /\ results \in Seq(Result) /\ m \in Nat /\ m <= n /\ n \in Nat \ {0}
      /\ n \in Nat /\ Ceiling \in Nat /\ DOMAIN results = 1..m
  BY ListConstants DEF Ranked
<1> HIDE DEF m
<1>3. /\ \A i \in 1..m : results[i] \in Result /\ Names(results[i], input, energies)
      /\ \A i, j \in 1..m :
           i # j => results[i].itNumber # results[j].itNumber
      /\ \A i, j \in 1..m :
           i < j => results[i].energy <= results[j].energy
      /\ \A k \in Nat :
           Good(k, input, energies) /\ Missing(k, results) =>
             /\ m = n /\ energies[k + 1] >= results[n].energy
  <2>1. \A i \in 1..m : results[i] \in Result /\ Names(results[i], input, energies)
    <3>1. \A i \in 1..m : results[i] \in Result
      BY <1>2
    <3>2. \A i \in 1..m : Names(results[i], input, energies)
      BY <1>2 DEF Ranked
    <3> QED BY <3>1, <3>2
  <2>2. \A i, j \in 1..m : i # j => results[i].itNumber # results[j].itNumber
    BY <1>2 DEF Ranked
  <2>3. \A i, j \in 1..m : i < j => results[i].energy <= results[j].energy
    BY <1>2 DEF Ranked, Ranking!InOrder, ResultEnergy
  <2>4. \A k \in Nat :
           Good(k, input, energies) /\ Missing(k, results) =>
             /\ m = n /\ energies[k + 1] >= results[n].energy
    BY DEF Ranked, m
  <2> QED BY <2>1, <2>2, <2>3, <2>4
<1>4. \A i \in 1..m : /\ results[i].itNumber \in 0..last - 1
                      /\ results[i].energy < Ceiling /\ results[i].energy \in Nat
                      /\ results[i].energy <= results[m].energy
  <2> SUFFICES ASSUME NEW i \in 1..m
               PROVE  /\ results[i].itNumber \in 0..last - 1
                      /\ results[i].energy < Ceiling /\ results[i].energy \in Nat
                      /\ results[i].energy <= results[m].energy
    OBVIOUS
  <2>1. /\ results[i].itNumber \in 0..last - 1
        /\ results[i].energy < Ceiling
    BY <1>3 DEF Names, Good
  <2>2. results[i].energy \in Nat
    BY <1>3 DEF Result
  <2>3. i < m \/ i = m
    BY <1>2
  <2> QED BY <1>2, <1>3, <2>1, <2>2, <2>3
<1>5. r \in Result /\ r.energy = e /\ r.itNumber = last /\ r.grasp = input[last + 1]
  BY <1>1 DEF Result
<1> HIDE DEF r, last
<1>6. e < Ceiling /\ (m = n => e < results[m].energy)
  <2>1. CASE m < n
    <3>1. ~(m = n)
      BY <1>2, <2>1
    <3>2. e < Ceiling
      BY <2>1 DEF m
    <3> QED BY <3>1, <3>2
  <2>2. CASE ~(m < n)
    <3>1. m = n /\ m \in 1..m
      BY <1>2, <2>2
    <3>2. e < results[m].energy /\ results[m].energy < Ceiling /\ results[m].energy \in Nat
      BY <1>4, <2>2, <3>1 DEF m
    <3> QED BY <1>2, <3>1, <3>2
  <2> QED BY <2>1, <2>2
<1>7. Names(r, input, tries)
  <2>1. Good(last, input, tries)
    BY <1>1, <1>6 DEF last
  <2> QED BY <1>1, <1>5, <2>1 DEF Names
<1>8. /\ more \in Seq(Result) /\ Len(more) = m + 1 /\ more[m + 1] = r
      /\ \A i \in 1..m : more[i] = results[i]
  BY <1>2, <1>5, AppendProperties DEF m
<1>9. DOMAIN more = 1..m + 1 /\ \A i \in 1..m + 1 : i \in 1..m \/ i = m + 1
  BY <1>2, <1>8
<1>10. sorted \in Ranking!Sortings(more)
  BY DEF r, last
<1> HIDE DEF more
<1>11. /\ new \in Seq(Result) /\ Len(new) <= n /\ Ranking!InOrder(new)
       /\ \E f \in [DOMAIN new -> DOMAIN more] :
            /\ \A k \in DOMAIN new : new[k] = more[f[k]]
            /\ \A k, l \in DOMAIN new : k # l => f[k] # f[l]
       /\ sorted \in Seq(Result) /\ Len(sorted) = Len(more)
       /\ Ranking!InOrder(sorted)
       /\ \A j \in DOMAIN more : \E i \in DOMAIN sorted : sorted[i] = more[j]
       /\ \A i \in DOMAIN sorted : \E j \in DOMAIN more : sorted[i] = more[j]
       /\ \A i \in DOMAIN new : i \in DOMAIN sorted /\ new[i] = sorted[i]
       /\ Len(new) = IF Len(more) > n THEN n ELSE Len(more)
  <2>1. n \in Nat
    BY <1>2
  <2>2. CutFrom(new, sorted, more, n)
    BY <1>8, <1>10, <2>1, RankAndCut
  <2> QED BY <2>2 DEF CutFrom
<1> HIDE DEF new
<1>12. \A j \in 1..m + 1 : Names(more[j], input, tries)
  BY <1>1, <1>3, <1>7, <1>8, <1>9
<1>13. \A i \in DOMAIN new : Names(new[i], input, tries)
  BY <1>9, <1>11, <1>12
<1>14. \A i, j \in 1..m + 1 : i # j => more[i].itNumber # more[j].itNumber
  <2>1. \A i \in 1..m : results[i].itNumber # last
    BY <1>1, <1>4 DEF last
  <2> QED BY <1>3, <1>5, <1>8, <1>9, <2>1
<1>15. \A i, j \in DOMAIN new : i # j => new[i].itNumber # new[j].itNumber
  <2>1. PICK f \in [DOMAIN new -> 1..m + 1] :
            /\ \A k \in DOMAIN new : new[k] = more[f[k]]
            /\ \A k, l \in DOMAIN new : k # l => f[k] # f[l]
    BY <1>9, <1>11
  <2> QED BY <1>14, <2>1
<1>16. \A i \in DOMAIN sorted :
         /\ sorted[i].energy \in Nat
         /\ m = n => sorted[i].energy <= results[n].energy
  <2> SUFFICES ASSUME NEW i \in DOMAIN sorted
               PROVE  /\ sorted[i].energy \in Nat
                      /\ m = n => sorted[i].energy <= results[n].energy
    OBVIOUS
  <2>1. PICK j \in 1..m + 1 : sorted[i] = more[j]
    BY <1>9, <1>11
  <2>2. CASE j \in 1..m
    BY <1>4, <1>8, <2>1, <2>2
  <2>3. CASE j = m + 1
    <3>1. sorted[i].energy = e
      BY <1>5, <1>8, <2>1, <2>3
    <3>2. m = n => m \in 1..m /\ results[m].energy \in Nat
      BY <1>2, <1>4
    <3> QED BY <1>6, <3>1, <3>2
  <2> QED BY <1>9, <2>2, <2>3
<1>17. ASSUME NEW k \in Nat, Good(k, input, tries), Missing(k, new)
       PROVE  Len(new) = n /\ tries[k + 1] >= new[n].energy
  <2>1. DOMAIN sorted = 1..m + 1
    BY <1>8, <1>11
  <2>2. CASE \E j \in 1..m + 1 : more[j].itNumber = k
    <3>1. PICK j \in 1..m + 1 : more[j].itNumber = k
      BY <2>2
    <3>2. PICK i \in 1..m + 1 : sorted[i] = more[j]
      BY <1>9, <1>11, <2>1, <3>1
    <3>3. i \notin DOMAIN new
      BY <1>11, <1>17, <3>1, <3>2 DEF Missing
    <3>4. m + 1 > n /\ m = n /\ Len(new) = n /\ DOMAIN new = 1..n /\ i = n + 1
      BY <1>2, <1>8, <1>11, <3>3
    <3>5. n \in DOMAIN new /\ n \in DOMAIN sorted /\ i \in DOMAIN sorted /\ n < i
      BY <1>2, <2>1, <3>4
    <3>6. sorted[n].energy <= sorted[i].energy
      BY <1>11, <3>5 DEF Ranking!InOrder, ResultEnergy
    <3>7. tries[k + 1] = sorted[i].energy
      BY <1>12, <3>1, <3>2 DEF Names
    <3>8. new[n] = sorted[n] /\ sorted[n].energy \in Nat /\ sorted[i].energy \in Nat
      BY <1>11, <1>16, <3>5
    <3> QED BY <3>4, <3>6, <3>7, <3>8
  <2>3. CASE \A j \in 1..m + 1 : more[j].itNumber # k
    <3>1. k # last
      BY <1>2, <1>5, <1>8, <1>9, <2>3
    <3>2. Good(k, input, energies)
      BY <1>1, <1>17, <3>1 DEF last
    <3>3. Missing(k, results)
      <4> SUFFICES ASSUME NEW j \in 1..m PROVE results[j].itNumber # k
        BY <1>2 DEF Missing, m
      <4>1. j \in 1..m + 1
        BY <1>2
      <4> QED BY <1>8, <2>3, <4>1
    <3>4. m = n /\ energies[k + 1] >= results[n].energy
      BY <1>3, <3>2, <3>3 DEF m
    <3>5. k \in 0..last - 1 /\ tries[k + 1] = energies[k + 1]
      BY <1>1, <3>2 DEF Good, last
    <3>6. energies[k + 1] \in Nat
      <4>1. k + 1 \in 1..last /\ energies \in [1..last -> Nat]
        BY <1>1, <3>5 DEF last
      <4> QED BY <4>1
    <3>7. Len(new) = n
      BY <1>2, <1>8, <1>11, <3>4
    <3>8. n \in DOMAIN new /\ n \in DOMAIN sorted
      BY <1>2, <1>11, <2>1, <3>4, <3>7
    <3>9. new[n].energy <= results[n].energy /\ new[n].energy \in Nat
      BY <1>11, <1>16, <3>4, <3>8
    <3>10. results[n].energy \in Nat
      BY <1>2, <1>4, <3>4
    <3>11. energies[k + 1] >= new[n].energy
      <4>1. \A a, b, c \in Nat : a <= b /\ c >= b => c >= a
        OBVIOUS
      <4>2. new[n].energy <= results[n].energy /\ energies[k + 1] >= results[n].energy
        BY <3>4, <3>9
      <4> QED BY <3>6, <3>9, <3>10, <4>1, <4>2
    <3>12. tries[k + 1] = energies[k + 1]
      BY <3>5
    <3> QED BY <3>7, <3>11, <3>12
  <2> QED BY <2>2, <2>3
<1> QED BY <1>11, <1>13, <1>15, <1>17 DEF Ranked, new, tries

-----------------------------------------------------------------------------
(* The steps of the planner and of its dialog.                             *)

(* No function of EGPlanner but resetPlanner() touches the counters.       *)
LEMMA StateCounts ==
  ASSUME NEW p \in Members, NEW s \in State
  PROVE  SetState(p, s).step = p.step /\ SetState(p, s).maxSteps = p.maxSteps
  BY DEF SetState, Members

LEMMA ButtonCounts ==
  ASSUME NEW p \in Members, NEW q \in {p, Started(p), Paused(p)}
  PROVE  /\ q.step = p.step /\ q.maxSteps = p.maxSteps
         /\ p.state = "INIT" => q = p
<1> DEFINE on == [p EXCEPT !.sensor = "scheduled"]
           off == [p EXCEPT !.sensor = "NULL"]
<1>1. on \in Members /\ on.step = p.step /\ on.maxSteps = p.maxSteps
  BY DEF Members, Sensor
<1>2. off \in Members /\ off.step = p.step /\ off.maxSteps = p.maxSteps
  BY DEF Members, Sensor
<1>3. q \in {p, SetState(on, "RUNNING"), SetState(off, "READY")}
      /\ (p.state = "INIT" => q = p)
  BY DEF Started, Paused, IsReady, IsActive
<1> HIDE DEF on, off
<1>4. /\ SetState(on, "RUNNING").step = on.step
      /\ SetState(on, "RUNNING").maxSteps = on.maxSteps
      /\ SetState(off, "READY").step = off.step
      /\ SetState(off, "READY").maxSteps = off.maxSteps
  BY <1>1, <1>2, StateCounts DEF State
<1> QED BY <1>1, <1>2, <1>3, <1>4

(* A list of inputs, and the empty one.                                    *)
LEMMA InputsAre ==
  ASSUME NEW input \in {<<>>} \cup Inputs
  PROVE  /\ input \in Seq(Grasp) /\ Len(input) \in 0..MaxInput
         /\ input \in Inputs => input # <<>> /\ Len(input) \in 1..MaxInput
<1>1. CASE input = <<>>
  <2>1. <<>> \notin Inputs
    BY ListConstants DEF Inputs
  <2> QED BY <1>1, <2>1, ListConstants
<1>2. CASE input \in Inputs
  <2>1. PICK n \in 1..MaxInput : input \in [1..n -> Grasp]
    BY <1>2 DEF Inputs
  <2>2. n \in Nat /\ n # 0 /\ n \in 0..MaxInput
    BY ListConstants
  <2>3. input \in Seq(Grasp) /\ Len(input) = n
    BY <2>1, <2>2
  <2> QED BY <2>2, <2>3
<1> QED BY <1>1, <1>2

(* An empty list of results ranks what has not been tried.                 *)
LEMMA NothingRanked ==
  ASSUME NEW input PROVE Ranked(<<>>, input, <<>>)
  BY ListConstants DEF Ranked, Good, Ranking!InOrder

LEMMA RInvInit == Init => RInv
<1> SUFFICES ASSUME Init PROVE RInv
  OBVIOUS
<1>1. IInv
  BY SteadyInit
<1>2. Counted
  BY ListConstants DEF Init, Counted, NewPlanner
<1>3. DialogOK
  <2>1. 0 \in 0..MaxInput /\ 0 \in 0..BestListSize /\ Compliant \in EnergyType
    BY ListConstants
  <2>2. /\ mEnergyType = Compliant /\ mNumCandidates = 0 /\ mBestGraspNum = 0
        /\ testOne = 0 /\ mBatch = FALSE
    BY DEF Init
  <2> QED BY <2>1, <2>2 DEF DialogOK
<1> QED BY <1>1, <1>2, <1>3, NothingRanked DEF RInv, Init

(* The user gives the planner another list.                                *)
LEMMA InputCounts ==
  ASSUME RInv, isOpen, isOpen' = isOpen, NEW input \in Inputs,
         SetInputAndReset(input)
  PROVE  Counted' /\ Ranked(mBestList, mInputList, tried)'
<1>1. CASE UNCHANGED <<planner, list>>
  BY <1>1 DEF RInv, Counted, list
<1>2. CASE ~UNCHANGED <<planner, list>>
  <2> DEFINE max == [planner EXCEPT !.maxSteps = Len(input)]
             fed == Invalidated(max)
             cleared == [fed EXCEPT !.step = 0]
  <2>1. /\ planner' = SetState(cleared, "READY")
        /\ mInputList' = input /\ iterator' = 1
        /\ mBestList' = <<>> /\ tried' = <<>>
    BY <1>2 DEF SetInputAndReset, ResetDone
  <2>2. input # <<>> /\ Len(input) \in 1..MaxInput /\ MaxInput \in Nat
    BY InputsAre, ListConstants
  <2>3. planner \in Members
    BY DEF RInv, IInv, Steady
  <2>4. max \in Members /\ max.maxSteps = Len(input)
    <3>1. Len(input) \in Int
      BY <2>2
    <3> QED BY <2>3, <3>1 DEF Members
  <2>5. fed \in Members /\ fed.maxSteps = Len(input)
    <3> HIDE DEF max
    <3> QED BY <2>4, StateSet, StateCounts DEF Invalidated, State
  <2>6. cleared \in Members /\ cleared.maxSteps = Len(input) /\ cleared.step = 0
    <3> HIDE DEF fed
    <3>1. cleared \in Members
      BY <2>5, StepSet
    <3>2. cleared.step = 0 /\ cleared.maxSteps = fed.maxSteps
      BY <2>5 DEF Members
    <3> QED BY <2>5, <3>1, <3>2
  <2>7. planner'.step = 0 /\ planner'.maxSteps = Len(input)
    <3> HIDE DEF cleared
    <3> QED BY <2>1, <2>6, StateCounts DEF State
  <2>8. Counted'
    <3>1. /\ mInputList' \in {<<>>} \cup Inputs
          /\ iterator' \in 1..Len(mInputList') + 1
      BY <2>1, <2>2
    <3>2. tried' \in Seq(Nat) /\ Len(tried') = iterator' - 1
      BY <2>1
    <3>3. /\ planner'.step \in 0..MaxInput + 1
          /\ planner'.maxSteps \in (0..MaxInput + 1) \cup {-1}
          /\ planner'.step = iterator' - 1
      BY <2>1, <2>2, <2>7
    <3> QED BY <2>1, <2>2, <2>7, <3>1, <3>2, <3>3 DEF Counted
  <2>9. Ranked(mBestList', mInputList', tried')
    BY <2>1, NothingRanked
  <2> QED BY <2>8, <2>9
<1> QED BY <1>1, <1>2

(* start and pause leave the list and its counters alone.                  *)
LEMMA ButtonRanks ==
  ASSUME RInv, isOpen' = isOpen, UNCHANGED list,
         planner' \in {planner, Started(planner), Paused(planner)}
  PROVE  Counted' /\ Ranked(mBestList, mInputList, tried)'
<1>1. planner \in Members
  BY DEF RInv, IInv, Steady
<1>2. /\ planner'.step = planner.step /\ planner'.maxSteps = planner.maxSteps
      /\ planner.state = "INIT" => planner' = planner
  BY <1>1, ButtonCounts
<1>3. Counted'
  BY <1>2 DEF RInv, Counted, list
<1>4. Ranked(mBestList', mInputList', tried')
  BY DEF RInv, list
<1> QED BY <1>3, <1>4

(* One grasp is tried.                                                     *)
LEMMA LoopRanks ==
  ASSUME RInv, isOpen, isOpen' = isOpen, planner.state = "RUNNING",
         ~Terminates(planner), MainLoop
  PROVE  Counted' /\ Ranked(mBestList, mInputList, tried)'
<1> DEFINE n == Len(mInputList)
           k == Len(tried)
           grasp == mInputList[iterator]
           e == Energy(mEnergyType, grasp)
           r == [grasp |-> grasp, energy |-> e, itNumber |-> planner.step]
<1>1. /\ planner \in Members /\ planner.repeat = FALSE
  BY DEF RInv, IInv, Steady, Members
<1>2. /\ mInputList \in {<<>>} \cup Inputs /\ iterator \in 1..n + 1
      /\ tried \in Seq(Nat) /\ k = iterator - 1 /\ planner.step = iterator - 1
      /\ mInputList # <<>> /\ planner.maxSteps = n
  BY DEF RInv, Counted
<1>3. mInputList \in Seq(Grasp) /\ n \in 1..MaxInput /\ MaxInput \in Nat
  BY <1>2, InputsAre, ListConstants
<1>4. ~(planner.step >= n) /\ iterator \in 1..n
  <2>1. ~AtLimit(planner)
    BY <1>1 DEF Terminates
  <2>2. n # -1
    BY <1>3
  <2>3. ~(planner.step >= n)
    BY <1>2, <2>1, <2>2 DEF AtLimit
  <2> QED BY <1>2, <1>3, <2>3
<1>5. grasp \in Grasp /\ e \in Nat
  BY <1>3, <1>4, ListConstants DEF RInv, DialogOK
<1>6. /\ Insert(grasp, e) /\ tried' = Append(tried, e) /\ iterator' = iterator + 1
      /\ planner' = [planner EXCEPT !.step = @ + 1, !.sensor = "scheduled"]
      /\ mInputList' = mInputList
  <2>1. ~(iterator > n)
    BY <1>3, <1>4
  <2> QED BY <2>1 DEF MainLoop
<1>7. /\ planner'.step = planner.step + 1 /\ planner'.maxSteps = planner.maxSteps
  BY <1>1, <1>6 DEF Members
<1>8. Counted'
  <2>1. Append(tried, e) \in Seq(Nat) /\ Len(Append(tried, e)) = k + 1
    BY <1>2, <1>5, AppendProperties
  <2>2. k \in Nat
    BY <1>2
  <2> HIDE DEF k, e, n
  <2>3. tried' \in Seq(Nat) /\ Len(tried') = iterator' - 1
    BY <1>2, <1>3, <1>6, <2>1, <2>2
  <2>4. iterator' \in 1..n + 1
    BY <1>3, <1>4, <1>6
  <2>5. planner'.step = iterator' - 1 /\ planner'.step \in 0..MaxInput + 1
    <3>1. planner.step = iterator - 1 /\ iterator' = iterator + 1
          /\ planner'.step = planner.step + 1
      BY <1>2, <1>6, <1>7
    <3>2. iterator \in 1..n /\ n \in 1..MaxInput /\ MaxInput \in Nat
      BY <1>3, <1>4
    <3> QED BY <3>1, <3>2
  <2>6. planner'.maxSteps = n /\ n \in (0..MaxInput + 1) \cup {-1}
    BY <1>2, <1>3, <1>7
  <2> QED BY <1>2, <1>6, <2>3, <2>4, <2>5, <2>6 DEF Counted, n
<1>9. Ranked(mBestList, mInputList, tried)
  BY DEF RInv
<1>10. iterator = k + 1 /\ planner.step = k
  BY <1>2, <1>4
<1> HIDE DEF e
<1>11. CASE IsLegal(grasp)
            /\ e < IF Len(mBestList) < BestListSize THEN Ceiling
                   ELSE mBestList[Len(mBestList)].energy
  <2>1. PICK sorted \in Ranking!Sortings(Append(mBestList, r)) :
           mBestList' = Ranking!CutTo(sorted, BestListSize)
    BY <1>6, <1>11 DEF Insert
  <2>2. r = [grasp |-> mInputList[k + 1], energy |-> e, itNumber |-> k]
        /\ grasp = mInputList[k + 1]
    BY <1>10
  <2>3. \/ Len(mBestList) < BestListSize /\ e < Ceiling
        \/ ~(Len(mBestList) < BestListSize) /\ e < mBestList[Len(mBestList)].energy
    BY <1>11
  <2>4. Ranked(Ranking!CutTo(sorted, BestListSize), mInputList, Append(tried, e))
    <3>1. sorted \in Ranking!Sortings(Append(mBestList,
            [grasp |-> mInputList[k + 1], energy |-> e, itNumber |-> k]))
      BY <2>1, <2>2
    <3>2. mInputList[Len(tried) + 1] \in Grasp /\ IsLegal(mInputList[Len(tried) + 1])
      BY <1>5, <1>11, <2>2
    <3> QED BY <1>2, <1>5, <1>9, <2>3, <3>1, <3>2, TakenIn
  <2> QED BY <1>6, <1>8, <2>1, <2>4
<1>12. CASE ~(IsLegal(grasp)
              /\ e < IF Len(mBestList) < BestListSize THEN Ceiling
                     ELSE mBestList[Len(mBestList)].energy)
  <2>1. mBestList' = mBestList
    BY <1>6, <1>12 DEF Insert
  <2>2. Ranked(mBestList, mInputList, Append(tried, e))
    BY <1>2, <1>5, <1>9, <1>10, <1>12, LeftOut
  <2> QED BY <1>6, <1>8, <2>1, <2>2
<1> QED BY <1>11, <1>12

(* The idle sensor's call.                                                 *)
LEMMA SensorRanks ==
  ASSUME RInv, SensorCB
  PROVE  Counted' /\ Ranked(mBestList, mInputList, tried)'
<1>1. /\ planner \in Members /\ isOpen \in BOOLEAN
      /\ planner.sensor = IF isOpen /\ IsActive(planner) THEN "scheduled" ELSE "NULL"
      /\ isOpen' = isOpen
  BY DEF RInv, IInv, Steady, SensorMatches, SensorCB, dialog
<1>2. isOpen /\ planner.state = "RUNNING"
  BY <1>1 DEF SensorCB, IsActive
<1>3. CASE ~Terminates(planner)
  BY <1>1, <1>2, <1>3, LoopRanks DEF SensorCB
<1>4. CASE Terminates(planner)
  <2> DEFINE called == [planner EXCEPT !.sensor = "called"]
  <2>1. planner' = Checked(called) /\ UNCHANGED list
    BY <1>4 DEF SensorCB
  <2>2. /\ called \in Members /\ called.step = planner.step
        /\ called.maxSteps = planner.maxSteps /\ called.state = planner.state
        /\ called.repeat = FALSE
    BY <1>1 DEF Members, Sensor
  <2> HIDE DEF called
  <2>3. planner' \in {called, Paused(called)}
    BY <2>1, <2>2 DEF Checked
  <2>4. planner'.step = planner.step /\ planner'.maxSteps = planner.maxSteps
    BY <2>2, <2>3, ButtonCounts
  <2>5. mInputList # <<>>
    BY <1>2 DEF RInv, Counted
  <2>6. Counted'
    BY <1>1, <2>1, <2>4, <2>5 DEF RInv, Counted, list
  <2>7. Ranked(mBestList', mInputList', tried')
    BY <2>1 DEF RInv, list
  <2> QED BY <2>6, <2>7
<1> QED BY <1>3, <1>4

(* The dialog shows a result.                                              *)
LEMMA ShowCounts ==
  ASSUME RInv, NEW rank \in Int, ShowResult(rank)
  PROVE  mBestGraspNum' \in 0..BestListSize /\ testOne' \in 0..MaxInput
<1> DEFINE size == Len(mBestList)
           shown == IF size = 0 \/ rank < 0 THEN 0
                    ELSE IF rank >= size THEN size - 1 ELSE rank
<1>1. /\ mBestList \in Seq(Result) /\ size <= BestListSize /\ size \in Nat
      /\ DOMAIN mBestList = 1..size
      /\ BestListSize \in Nat /\ MaxInput \in Nat
  BY ListConstants DEF RInv, Ranked
<1>2. /\ mBestGraspNum' = shown
      /\ testOne' = IF size = 0 THEN 0 ELSE mBestList[shown + 1].itNumber
  BY DEF ShowResult
<1> HIDE DEF size
<1>3. shown \in 0..BestListSize /\ (size # 0 => shown + 1 \in 1..size)
  BY <1>1
<1>4. \A i \in 1..size : mBestList[i].itNumber \in 0..MaxInput
  <2> SUFFICES ASSUME NEW i \in 1..size PROVE mBestList[i].itNumber \in 0..MaxInput
    OBVIOUS
  <2>1. mBestList[i].itNumber \in 0..Len(tried) - 1
    BY <1>1 DEF RInv, Ranked, Names, Good
  <2>2. /\ Len(tried) = iterator - 1 /\ iterator \in 1..Len(mInputList) + 1
        /\ Len(mInputList) \in 0..MaxInput
    BY InputsAre DEF RInv, Counted
  <2> QED BY <1>1, <2>1, <2>2
<1> HIDE DEF shown
<1> QED BY <1>1, <1>2, <1>3, <1>4

LEMMA RInvNext == RInv /\ [Next]_vars => RInv'
<1> SUFFICES ASSUME RInv, [Next]_vars PROVE RInv'
  OBVIOUS
<1>1. IInv'
  BY SteadyNext DEF RInv
<1>2. DialogOK
  BY DEF RInv
<1>3. CASE SensorCB
  <2>1. DialogOK'
    BY <1>2, <1>3 DEF SensorCB, DialogOK, dialog
  <2> QED BY <1>1, <1>3, <2>1, SensorRanks DEF RInv
<1>4. CASE GenerateButtonClicked
  <2>1. PICK input \in Inputs : mNumCandidates' = Len(input) /\ SetInputAndReset(input)
    BY <1>4 DEF GenerateButtonClicked
  <2>2. Counted' /\ Ranked(mBestList, mInputList, tried)'
    BY <1>4, <2>1, InputCounts DEF GenerateButtonClicked
  <2>3. Len(input) \in 0..MaxInput
    BY InputsAre
  <2>4. DialogOK'
    BY <1>2, <1>4, <2>1, <2>3 DEF GenerateButtonClicked, DialogOK
  <2> QED BY <1>1, <2>2, <2>4 DEF RInv
<1>5. CASE TestButtonClicked \/ TestOneButtonClicked \/ DesignTestButtonClicked
  <2>1. Counted' /\ Ranked(mBestList, mInputList, tried)'
    BY <1>5, ButtonRanks
       DEF TestButtonClicked, TestOneButtonClicked, DesignTestButtonClicked, dialog
  <2>2. DialogOK'
    BY <1>2, <1>5, ListConstants
       DEF TestButtonClicked, TestOneButtonClicked, DesignTestButtonClicked,
           dialog, DialogOK
  <2> QED BY <1>1, <2>1, <2>2 DEF RInv
<1>6. CASE PrevButtonClicked \/ NextButtonClicked \/ BestButtonClicked
  <2>1. PICK rank \in {mBestGraspNum - 1, mBestGraspNum + 1, 0} : ShowResult(rank)
    BY <1>6 DEF PrevButtonClicked, NextButtonClicked, BestButtonClicked
  <2>2. rank \in Int
    BY <1>2, ListConstants DEF DialogOK
  <2>3. mBestGraspNum' \in 0..BestListSize /\ testOne' \in 0..MaxInput
    BY <2>1, <2>2, ShowCounts
  <2>4. UNCHANGED <<planner, mEnergyType, list, mNumCandidates, mBatch, isOpen>>
    BY <2>1 DEF ShowResult
  <2>5. Counted' /\ Ranked(mBestList, mInputList, tried)'
    BY <2>4, ButtonRanks
  <2> QED BY <1>1, <1>2, <2>3, <2>4, <2>5 DEF RInv, DialogOK
<1>7. CASE Close
  <2>1. /\ isOpen' = FALSE /\ planner' = [planner EXCEPT !.sensor = "NULL"]
        /\ mInputList' = <<>> /\ iterator' = 1 /\ mBestList' = <<>> /\ tried' = <<>>
    BY <1>7 DEF Close
  <2>2. planner \in Members
    BY DEF RInv, IInv, Steady
  <2>3. planner'.step = planner.step /\ planner'.maxSteps = planner.maxSteps
    BY <2>1, <2>2 DEF Members
  <2>4. Counted'
    BY <2>1, <2>3 DEF RInv, Counted
  <2>5. Ranked(mBestList', mInputList', tried')
    BY <2>1, NothingRanked
  <2>6. DialogOK'
    BY <1>2, <1>7 DEF Close, DialogOK
  <2> QED BY <1>1, <2>4, <2>5, <2>6 DEF RInv
<1>8. CASE UNCHANGED vars
  <2>1. Counted' /\ Ranked(mBestList, mInputList, tried)'
    BY <1>8, ButtonRanks DEF vars, dialog
  <2> QED BY <1>1, <1>2, <1>8, <2>1 DEF RInv, DialogOK, vars, dialog
<1> QED BY <1>3, <1>4, <1>5, <1>6, <1>7, <1>8 DEF Next

(* As many results as numbers of inputs.                                   *)
LEMMA NumbersCount ==
  ASSUME RInv
  PROVE  Cardinality({mBestList[i].itNumber : i \in DOMAIN mBestList})
           = Len(mBestList)
<1> DEFINE n == Len(mBestList)
           found == {mBestList[i].itNumber : i \in DOMAIN mBestList}
           f == [i \in 1..n |-> mBestList[i].itNumber]
<1>1. n \in Nat /\ DOMAIN mBestList = 1..n
  BY DEF RInv, Ranked
<1>2. \A i, j \in 1..n : i # j => mBestList[i].itNumber # mBestList[j].itNumber
  BY <1>1 DEF RInv, Ranked
<1>3. f \in Surjection(1..n, found)
  BY <1>1 DEF Surjection
<1>4. f \in Injection(1..n, found)
  BY <1>1, <1>2 DEF Injection, IsInjective
<1> HIDE DEF f, found, n
<1>5. IsFiniteSet(1..n) /\ Cardinality(1..n) = n
  <2>1. 1 \in Int /\ n \in Int /\ n \in Nat
    BY <1>1
  <2>2. IsFiniteSet(1..n) /\ Cardinality(1..n) = IF 1 > n THEN 0 ELSE n - 1 + 1
    BY <2>1, FS_Interval
  <2> QED BY <2>1, <2>2
<1>6. Cardinality(found) = Cardinality(1..n)
  BY <1>3, <1>4, <1>5, FS_Surjection
<1> QED BY <1>5, <1>6 DEF found, n

LEMMA RInvImplies == RInv => ResultsMatch
<1> SUFFICES ASSUME RInv PROVE ResultsMatch
  OBVIOUS
<1> DEFINE found == {mBestList[i].itNumber : i \in DOMAIN mBestList}
           good == {k \in 0..Len(tried) - 1 :
                      IsLegal(mInputList[k + 1]) /\ tried[k + 1] < Ceiling}
<1>1. Ranked(mBestList, mInputList, tried) /\ Counted /\ DialogOK /\ IInv
  BY DEF RInv
<1>2. TypeOK
  <2>1. planner \in Planner(0..MaxInput + 1)
    BY <1>1 DEF IInv, Steady, Members, State, Planner, Rules!PlannerState, Counted
  <2> QED BY <1>1, <2>1 DEF IInv, Steady, Counted, DialogOK, Ranked, TypeOK
<1>3. \A k : k \in good <=> Good(k, mInputList, tried)
  BY DEF Good
<1> HIDE DEF good
<1>4. found \subseteq good
  BY <1>1, <1>3 DEF Ranked, Names
<1>5. ASSUME NEW k \in good \ found
      PROVE  /\ Len(mBestList) = BestListSize
             /\ tried[k + 1] >= mBestList[BestListSize].energy
  <2>1. k \in Nat /\ Good(k, mInputList, tried)
    <3>1. Good(k, mInputList, tried)
      BY <1>3
    <3>2. k \in 0..Len(tried) - 1
      BY <3>1 DEF Good
    <3> QED BY <3>1, <3>2
  <2>2. Missing(k, mBestList)
    BY DEF Missing
  <2> QED BY <1>1, <2>1, <2>2 DEF Ranked
<1>6. \A i \in DOMAIN mBestList :
        /\ mBestList[i].grasp = mInputList[mBestList[i].itNumber + 1]
        /\ mBestList[i].energy = tried[mBestList[i].itNumber + 1]
  BY <1>1 DEF Ranked, Names
<1>7. Cardinality(found) = Len(mBestList)
  BY NumbersCount
<1>8. Ranking!InOrder(mBestList) /\ Len(tried) = iterator - 1
  BY <1>1 DEF Ranked, Counted
<1> QED BY <1>2, <1>4, <1>5, <1>6, <1>7, <1>8 DEF ResultsMatch, good

(* Whatever the user clicks, every result is that of a legal input tried   *)
(* before, each once, the best first, and only inputs no better than all   *)
(* of a full list are missing.                                             *)
THEOREM ResultsAlwaysMatch == Spec => []ResultsMatch
<1> QED BY RInvInit, RInvNext, RInvImplies, PTL DEF Spec
=============================================================================

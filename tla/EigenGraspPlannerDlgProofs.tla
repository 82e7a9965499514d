---------------------- MODULE EigenGraspPlannerDlgProofs ----------------------
(***************************************************************************)
(* Proofs about EigenGraspPlannerDlg and the LoopPlanner it may run.  For  *)
(* every kind of planner, energy, space and number of steps: the buttons   *)
(* follow the planner whatever the user and the idle sensor do, and a      *)
(* planner that runs computes what the boxes show.  For every set of       *)
(* states, energies, distances and size of the list: the list of solutions *)
(* keeps the best state and no two near ones, and loops do not repeat each *)
(* other.                                                                  *)
(***************************************************************************)
EXTENDS EigenGraspPlannerDlg, LoopPlanner, SolutionListsProofs, TLAPS

-----------------------------------------------------------------------------
(* The dialog.                                                             *)

(* A button that is enabled suits the planner's state, and of those that   *)
(* suit it only Start may be disabled.                                     *)
ButtonsFollow ==
  isOpen => /\ enabled \subseteq ButtonsFor(planner)
            /\ ButtonsFor(planner) \subseteq enabled \cup {"Start"}

(* A planner that could be started has the energy of the box: without this *)
(* the planner that runs after Start need not have it.                     *)
ReadyAsShown ==
  ~touched /\ planner # None /\ (IsReady(planner) \/ IsActive(planner))
    => copy.energy = box.energy

(* The limit of a planner is one that the user asked for.                  *)
Limited == planner # None => planner.maxSteps \in StepsEdit

(* The inductive invariant.                                                *)
IInv == TypeOK /\ Limited /\ ButtonsFollow /\ ReadyAsShown

(* The planners with such a limit.                                         *)
Members == {p \in Planner(Steps) : p.maxSteps \in StepsEdit}

-----------------------------------------------------------------------------
(* The numbers of steps.                                                   *)

(* The count never leaves Steps: a planner counts from 0 or DEF_K0 and     *)
(* only below its limit.                                                   *)
LEMMA StepsBound ==
  /\ Steps \subseteq Nat /\ 0 \in Steps /\ FirstStep \in Steps
  /\ FirstStep + 1 \in Steps /\ StepsEdit \subseteq Steps
  /\ \A k \in Steps, n \in StepsEdit : ~(k >= n) => k + 1 \in Steps
<1> DEFINE m == CHOOSE m \in StepsEdit : \A n \in StepsEdit : n <= m
<1>1. m \in StepsEdit /\ \A n \in StepsEdit : n <= m
  BY DlgConstants
<1>2. Steps = 0..FirstStep + 1 + m
  BY DEF Steps
<1>3. m \in Nat /\ FirstStep \in Nat /\ StepsEdit \subseteq Nat
  BY <1>1, DlgConstants
<1> HIDE DEF m
<1> QED BY <1>1, <1>2, <1>3

(* A planner is not NULL.                                                  *)
LEMMA NotNone ==
  ASSUME NEW p \in Members
  PROVE  p # None /\ p \in Planner(Steps)
<1>1. Planner(Steps) \subseteq Planner(Nat)
  BY StepsBound DEF Planner
<1> QED BY <1>1, DlgConstants DEF Members

-----------------------------------------------------------------------------
(* The functions of EGPlanner on a planner of this dialog.                 *)

(* setState() to a state that does not end the planner's life.             *)
LEMMA StateSet ==
  ASSUME NEW p \in Members, NEW t \in {"INIT", "READY", "RUNNING"}
  PROVE  /\ SetState(p, t) \in Members
         /\ SetState(p, t).state \in {p.state, t}
         /\ SetState(p, t).repeat = p.repeat
         /\ SetState(p, t).maxSteps = p.maxSteps
<1>1. p.state \in Rules!PlannerState
  BY DEF Members, Planner
<1> DEFINE u == Rules!Accept(p.state, t)
<1>2. u \in {p.state, t} /\ u \in Rules!PlannerState
  BY <1>1 DEF Rules!Accept, Rules!PlannerState
<1>3. SetState(p, t) = [p EXCEPT !.state = u]
  BY DEF SetState
<1> HIDE DEF u
<1> QED BY <1>2, <1>3 DEF Members, Planner

(* The sensor and the count.                                               *)
LEMMA CountSet ==
  ASSUME NEW p \in Members, NEW s \in Sensor, NEW k \in Steps
  PROVE  /\ [p EXCEPT !.sensor = s] \in Members
         /\ [p EXCEPT !.sensor = s].state = p.state
         /\ [p EXCEPT !.sensor = s, !.step = k] \in Members
         /\ [p EXCEPT !.sensor = s, !.step = k].state = p.state
  BY StepsBound DEF Members, Planner

(* The limit and the count.                                                *)
LEMMA LimitSet ==
  ASSUME NEW p \in Members, NEW n \in StepsEdit, NEW k \in Steps
  PROVE  /\ [p EXCEPT !.maxSteps = n] \in Members
         /\ [p EXCEPT !.maxSteps = n, !.step = k] \in Members
         /\ [p EXCEPT !.step = k] \in Members
         /\ [p EXCEPT !.step = k].state = p.state
  BY StepsBound DEF Members, Planner

(* startPlanner(), pausePlanner(), invalidateReset().                      *)
LEMMA Functions ==
  ASSUME NEW p \in Members
  PROVE  /\ Started(p) \in Members /\ Paused(p) \in Members
         /\ Invalidated(p) \in Members
         /\ Started(p).state \in {"READY", "RUNNING"} => IsReady(p) \/ IsActive(p)
         /\ Paused(p).state \in {"READY", "RUNNING"} => IsReady(p) \/ IsActive(p)
         /\ ~IsReady(Invalidated(p))
         /\ IsActive(Invalidated(p)) => IsActive(p)
<1>1. p.state \in Rules!PlannerState /\ {"scheduled", "NULL"} \subseteq Sensor
  BY DEF Members, Planner, Sensor
<1> DEFINE up == [p EXCEPT !.sensor = "scheduled"]
           down == [p EXCEPT !.sensor = "NULL"]
<1>2. up \in Members /\ down \in Members
  BY <1>1, CountSet, StepsBound, DlgConstants
<1>3. Started(p) = IF IsReady(p) THEN SetState(up, "RUNNING") ELSE p
  BY DEF Started
<1>4. Paused(p) = IF IsActive(p) THEN SetState(down, "READY") ELSE p
  BY DEF Paused
<1>5. Invalidated(p) = IF IsReady(p) THEN SetState(p, "INIT") ELSE p
  BY DEF Invalidated
<1>6. IsReady(p) => SetState(p, "INIT").state = "INIT"
  BY <1>1 DEF SetState, IsReady, Rules!Accept, Rules!Dead, Members, Planner
<1> HIDE DEF up, down
<1> QED BY <1>2, <1>3, <1>4, <1>5, <1>6, StateSet DEF IsReady, IsActive

-----------------------------------------------------------------------------
(* The steps.                                                              *)

(* What IInv says of a planner, or of none.                                *)
LEMMA PlannerOK ==
  (TypeOK /\ Limited) <=>
    /\ planner \in Members \cup {None}
    /\ copy \in [energy : EnergyBox, space : Space] /\ box \in Boxes
    /\ enabled \subseteq Button /\ aborted \in BOOLEAN /\ isOpen \in BOOLEAN
    /\ touched \in BOOLEAN
<1>1. None \notin Members
  BY NotNone
<1>2. Members \subseteq Planner(Steps)
  BY DEF Members
<1> QED BY <1>1, <1>2 DEF TypeOK, Limited, Members

(* No step leaves the range of touched.                                    *)
LEMMA TouchedKept == TypeOK /\ Next => touched' \in BOOLEAN
  BY Zenon DEF TypeOK, Next, PlannerInitClicked, PlannerResetClicked, Reset,
     PlannerStartClicked, PlannerTypeBoxActivated, EnergyBoxActivated,
     SpaceSearchBoxActivated, VariableCheckBoxChanged, AnnStepsEdited,
     SensorCB, Destroy

(* updateStatus() leaves the buttons that suit the planner.                *)
LEMMA ButtonsSet ==
  ASSUME UpdateStatus
  PROVE  ButtonsFollow' /\ enabled' \subseteq Button /\ aborted' \in BOOLEAN
<1>1. ButtonsFor(planner') \subseteq Button
  BY DEF ButtonsFor, Button
<1>2. enabled' = ButtonsFor(planner')
  BY DEF UpdateStatus
<1>3. aborted' \in BOOLEAN
  BY DEF UpdateStatus, OutOfRange
<1> QED BY <1>1, <1>2, <1>3 DEF ButtonsFollow

(* The buttons depend on the planner's state only.                         *)
LEMMA SameButtons ==
  ASSUME NEW p \in Members, NEW q \in Members, p.state = q.state
  PROVE  ButtonsFor(p) = ButtonsFor(q)
  BY NotNone DEF ButtonsFor

(* readPlannerSettings() and resetPlanner().                               *)
LEMMA ResetKeeps ==
  ASSUME NEW p \in Members, NEW space \in Space, Reset(p, space), box \in Boxes
  PROVE  /\ planner' \in Members
         /\ copy' \in [energy : EnergyBox, space : Space]
         /\ copy'.energy = box.energy
<1>1. box.steps \in StepsEdit /\ box.energy \in EnergyBox
  BY DEF Boxes
<1>2. copy' = [energy |-> box.energy, space |-> space]
  BY DEF Reset
<1> DEFINE zero == [p EXCEPT !.step = 0]
           ready == SetState(zero, "READY")
<1>3. zero \in Members
  BY <1>1, StepsBound, LimitSet
<1>4. ready \in Members
  <2> HIDE DEF zero
  <2> QED BY <1>3, StateSet
<1>5. planner' \in {[ready EXCEPT !.maxSteps = box.steps, !.step = FirstStep],
                    [p EXCEPT !.maxSteps = box.steps]}
  BY DEF Reset, ResetDone
<1>6. planner' \in Members
  <2> HIDE DEF ready
  <2>1. "NULL" \in Sensor /\ FirstStep \in Steps /\ box.steps \in StepsEdit
    BY <1>1, StepsBound DEF Sensor
  <2>2. [ready EXCEPT !.maxSteps = box.steps, !.step = FirstStep] \in Members
    BY <1>4, <2>1, LimitSet
  <2>3. [p EXCEPT !.maxSteps = box.steps] \in Members
    BY <2>1, LimitSet
  <2> QED BY <1>5, <2>2, <2>3
<1> QED BY <1>1, <1>2, <1>6

(* The buttons and the type box.                                           *)
LEMMA ButtonSteps ==
  ASSUME IInv,
         \/ PlannerInitClicked \/ PlannerResetClicked \/ PlannerStartClicked
         \/ PlannerTypeBoxActivated
  PROVE  IInv'
<1>0. touched' \in BOOLEAN
  BY TouchedKept DEF IInv, Next
<1>1. /\ planner \in Members \cup {None} /\ box \in Boxes
      /\ copy \in [energy : EnergyBox, space : Space] /\ isOpen \in BOOLEAN
      /\ copy.space \in Space /\ box.space \in Space
  BY PlannerOK DEF IInv, Boxes
<1>2. ButtonsFollow' /\ enabled' \subseteq Button /\ aborted' \in BOOLEAN
  BY ButtonsSet DEF PlannerInitClicked, PlannerResetClicked, PlannerStartClicked,
                    PlannerTypeBoxActivated
<1>3. isOpen' = isOpen
  BY DEF PlannerInitClicked, PlannerResetClicked, PlannerStartClicked,
         PlannerTypeBoxActivated
<1>4. ASSUME planner' \in Members \cup {None}, box' \in Boxes,
             copy' \in [energy : EnergyBox, space : Space]
      PROVE  TypeOK' /\ Limited'
  <2>1. None \notin Members /\ Members \subseteq Planner(Steps)
    BY NotNone DEF Members
  <2> QED BY <1>0, <1>1, <1>2, <1>3, <1>4, <2>1 DEF TypeOK, Limited, Members
<1>5. CASE PlannerInitClicked
  <2> DEFINE new == NewPlanner(box.steps, Repeats(box.kind))
  <2>1. box.kind \in Kind /\ box.steps \in StepsEdit /\ box.steps \in Steps
    BY <1>1, StepsBound DEF Boxes
  <2>2. new \in Members
    BY <2>1, StepsBound, DlgConstants
       DEF NewPlanner, Members, Planner, Sensor, Rules!PlannerState
  <2>3. Reset(new, box.space) /\ box' = box
    BY <1>5 DEF PlannerInitClicked
  <2> HIDE DEF new
  <2>4. /\ planner' \in Members /\ copy' \in [energy : EnergyBox, space : Space]
        /\ copy'.energy = box.energy
    BY <1>1, <2>2, <2>3, ResetKeeps
  <2> QED BY <1>1, <1>2, <1>4, <2>3, <2>4 DEF IInv, ReadyAsShown
<1>6. CASE PlannerResetClicked
  <2>1. planner \in Members /\ Reset(planner, copy.space) /\ box' = box
    BY <1>1, <1>6 DEF PlannerResetClicked
  <2>2. /\ planner' \in Members /\ copy' \in [energy : EnergyBox, space : Space]
        /\ copy'.energy = box.energy
    BY <1>1, <2>1, ResetKeeps
  <2> QED BY <1>1, <1>2, <1>4, <2>1, <2>2 DEF IInv, ReadyAsShown
<1>7. CASE PlannerStartClicked
  <2>1. isOpen /\ "Start" \in enabled /\ box' = box /\ copy' = copy
        /\ touched' = touched /\ planner' \in {Started(planner), Paused(planner)}
    BY <1>7 DEF PlannerStartClicked, Ready
  <2>2. "Start" \in ButtonsFor(planner)
    BY <2>1 DEF IInv, ButtonsFollow
  <2>3. planner \in Members
    BY <1>1, <2>2 DEF ButtonsFor
  <2>4. /\ planner' \in Members
        /\ IsReady(planner') \/ IsActive(planner')
             => IsReady(planner) \/ IsActive(planner)
    BY <2>1, <2>3, Functions DEF IsReady, IsActive
  <2>5. planner # None
    BY <2>3, NotNone
  <2>6. ReadyAsShown'
    BY <2>1, <2>4, <2>5 DEF IInv, ReadyAsShown, IsReady, IsActive
  <2> QED BY <1>1, <1>2, <1>4, <2>1, <2>4, <2>6 DEF IInv
<1>8. CASE PlannerTypeBoxActivated
  <2>1. planner' = None /\ copy' = copy
        /\ \E k \in Kind : box' = [box EXCEPT !.kind = k]
    BY <1>8 DEF PlannerTypeBoxActivated
  <2>2. box' \in Boxes
    BY <1>1, <2>1 DEF Boxes
  <2> QED BY <1>1, <1>2, <1>4, <2>1, <2>2 DEF IInv, ReadyAsShown
<1> QED BY <1>5, <1>6, <1>7, <1>8

(* The boxes.  After a change of the energy a planner that is not running  *)
(* is not READY either; that one is running is what touched remembers.     *)
LEMMA BoxSteps ==
  ASSUME IInv,
         \/ EnergyBoxActivated \/ SpaceSearchBoxActivated
         \/ VariableCheckBoxChanged \/ AnnStepsEdited
  PROVE  IInv'
<1>0. touched' \in BOOLEAN
  BY TouchedKept DEF IInv, Next
<1>1. /\ planner \in Members \cup {None} /\ box \in Boxes
      /\ copy \in [energy : EnergyBox, space : Space] /\ isOpen \in BOOLEAN
      /\ enabled \subseteq Button /\ aborted \in BOOLEAN
  BY PlannerOK DEF IInv
<1>2. copy' = copy /\ isOpen' = isOpen
  BY DEF EnergyBoxActivated, SpaceSearchBoxActivated, VariableCheckBoxChanged,
         AnnStepsEdited
<1>3. ASSUME planner' \in Members \cup {None}, box' \in Boxes,
             enabled' \subseteq Button, aborted' \in BOOLEAN
      PROVE  TypeOK' /\ Limited'
  <2>1. None \notin Members /\ Members \subseteq Planner(Steps)
    BY NotNone DEF Members
  <2> QED BY <1>0, <1>1, <1>2, <1>3, <2>1 DEF TypeOK, Limited, Members
<1>4. CASE EnergyBoxActivated \/ SpaceSearchBoxActivated
  <2>1. /\ ForceReset /\ UpdateStatus
        /\ \/ /\ \E e \in EnergyBox : box' = [box EXCEPT !.energy = e]
              /\ touched' = (touched \/ Running)
           \/ /\ \E s \in Space : box' = [box EXCEPT !.space = s]
              /\ touched' = touched
    BY <1>4 DEF EnergyBoxActivated, SpaceSearchBoxActivated
  <2>2. box' \in Boxes
    BY <1>1, <2>1 DEF Boxes
  <2>3. ButtonsFollow' /\ enabled' \subseteq Button /\ aborted' \in BOOLEAN
    BY <2>1, ButtonsSet
  <2>4. CASE planner = None
    <3>1. planner' = None
      BY <2>1, <2>4 DEF ForceReset
    <3> QED BY <1>3, <2>2, <2>3, <3>1 DEF IInv, ReadyAsShown
  <2>5. CASE planner # None
    <3>1. planner \in Members /\ planner' = Invalidated(planner)
      BY <1>1, <2>1, <2>5 DEF ForceReset
    <3>2. planner' \in Members /\ ~IsReady(planner')
          /\ (IsActive(planner') => IsActive(planner))
      BY <3>1, Functions
    <3>3. ASSUME ~touched', IsActive(planner') PROVE copy.energy = box'.energy
      <4>1. IsActive(planner) /\ Running /\ ~touched
        <5>1. IsActive(planner) /\ Running
          BY <2>5, <3>2, <3>3 DEF Running
        <5>2. touched => touched'
          BY <2>1, Zenon
        <5> QED BY <3>3, <5>1, <5>2, Zenon
      <4>2. copy.energy = box.energy
        BY <2>5, <4>1 DEF IInv, ReadyAsShown
      <4>3. \E t \in Space : box' = [box EXCEPT !.space = t]
        <5>1. touched' # (touched \/ Running)
          BY <3>3, <4>1, Zenon
        <5> QED BY <2>1, <5>1, Zenon
      <4> QED BY <1>1, <4>2, <4>3 DEF Boxes
    <3>4. ReadyAsShown'
      BY <1>2, <3>2, <3>3 DEF ReadyAsShown
    <3> QED BY <1>3, <2>2, <2>3, <3>2, <3>4 DEF IInv
  <2> QED BY <2>4, <2>5
<1>5. CASE VariableCheckBoxChanged
  <2>1. planner' = planner /\ box' = box /\ aborted' = aborted
        /\ touched' = touched /\ enabled' = enabled \ {"Start"}
    BY <1>5 DEF VariableCheckBoxChanged
  <2>2. ButtonsFollow'
    BY <1>2, <2>1 DEF IInv, ButtonsFollow
  <2> QED BY <1>1, <1>2, <1>3, <2>1, <2>2 DEF IInv, ReadyAsShown
<1>6. CASE AnnStepsEdited
  <2>1. /\ planner' = planner /\ enabled' = enabled /\ aborted' = aborted
        /\ touched' = touched
        /\ \E n \in StepsEdit : box' = [box EXCEPT !.steps = n]
    BY <1>6 DEF AnnStepsEdited
  <2>2. box' \in Boxes /\ box'.energy = box.energy
    BY <1>1, <2>1 DEF Boxes
  <2>3. ButtonsFollow' /\ ReadyAsShown'
    BY <1>2, <2>1, <2>2 DEF IInv, ButtonsFollow, ReadyAsShown
  <2> QED BY <1>1, <1>3, <2>1, <2>2, <2>3 DEF IInv
<1> QED BY <1>4, <1>5, <1>6

(* The end of a run that was paused or reached its limit.                  *)
LEMMA CheckedKeeps ==
  ASSUME NEW p \in Members, Terminates(p)
  PROVE  /\ Checked(p) \in Members
         /\ Checked(p).state \in {"READY", "RUNNING"} => IsReady(p) \/ IsActive(p)
<1>1. Checked(p) \in {p, Paused(p)}
  BY DEF Checked, Terminates
<1> QED BY <1>1, Functions DEF IsReady, IsActive

(* One call of mainLoop() by a planner that has not reached its limit.     *)
LEMMA LoopKeeps ==
  ASSUME NEW p \in Members, ~Terminates(p), NEW q \in MainLoop(Repeated(p))
  PROVE  q \in Members /\ q.state = p.state
<1>1. "scheduled" \in Sensor /\ p.step \in Steps /\ p.maxSteps \in StepsEdit
  BY DEF Sensor, Members, Planner
<1>2. p.maxSteps # -1
  BY <1>1, DlgConstants
<1>3. CASE p.step >= p.maxSteps
  <2> DEFINE r == [p EXCEPT !.step = FirstStep]
  <2>1. AtLimit(p) /\ p.repeat
    BY <1>2, <1>3 DEF AtLimit, Terminates
  <2>2. r \in Members /\ r.state = p.state /\ r.step = FirstStep
    BY <1>1, StepsBound, LimitSet DEF Members, Planner
  <2>3. Repeated(p) = r
    BY <2>1 DEF Repeated
  <2> HIDE DEF r
  <2>4. \E k \in {FirstStep, FirstStep + 1} :
          q = [r EXCEPT !.sensor = "scheduled", !.step = k]
    BY <2>2, <2>3 DEF MainLoop
  <2>5. PICK k \in {FirstStep, FirstStep + 1} :
          q = [r EXCEPT !.sensor = "scheduled", !.step = k]
    BY <2>4
  <2>6. k \in Steps
    BY StepsBound
  <2>7. q \in Members /\ q.state = r.state
    BY <1>1, <2>2, <2>5, <2>6, CountSet
  <2> QED BY <2>2, <2>7
<1>4. CASE ~(p.step >= p.maxSteps)
  <2>1. Repeated(p) = p
    BY <1>4 DEF Repeated, AtLimit
  <2>2. \E k \in {p.step, p.step + 1} :
          q = [p EXCEPT !.sensor = "scheduled", !.step = k]
    BY <2>1 DEF MainLoop
  <2>3. {p.step, p.step + 1} \subseteq Steps
    BY <1>1, <1>4, StepsBound
  <2>4. PICK k \in {p.step, p.step + 1} :
          q = [p EXCEPT !.sensor = "scheduled", !.step = k]
    BY <2>2
  <2>5. k \in Steps
    BY <2>3
  <2> QED BY <1>1, <2>4, <2>5, CountSet
<1> QED BY <1>3, <1>4

(* The planner's own steps and the end of the dialog.                      *)
LEMMA OtherSteps ==
  ASSUME IInv, SensorCB \/ Destroy
  PROVE  IInv'
<1>0. touched' \in BOOLEAN
  BY TouchedKept DEF IInv, Next
<1>1. /\ planner \in Members \cup {None} /\ box \in Boxes
      /\ copy \in [energy : EnergyBox, space : Space] /\ isOpen \in BOOLEAN
      /\ enabled \subseteq Button /\ aborted \in BOOLEAN
  BY PlannerOK DEF IInv
<1>2. copy' = copy /\ box' = box /\ touched' = touched
  BY DEF SensorCB, Destroy
<1>3. ASSUME planner' \in Members \cup {None}, isOpen' \in BOOLEAN,
             enabled' \subseteq Button, aborted' \in BOOLEAN
      PROVE  TypeOK' /\ Limited'
  <2>1. None \notin Members /\ Members \subseteq Planner(Steps)
    BY NotNone DEF Members
  <2> QED BY <1>0, <1>1, <1>2, <1>3, <2>1 DEF TypeOK, Limited, Members
<1>4. CASE SensorCB
  <2>1. planner \in Members /\ planner # None /\ isOpen /\ isOpen' = isOpen
    BY <1>1, <1>4 DEF SensorCB, Ready
  <2>2. CASE Terminates(planner)
    <3>1. planner' = Checked(planner) /\ UpdateStatus
      BY <1>4, <2>2 DEF SensorCB
    <3>2. /\ planner' \in Members
          /\ IsReady(planner') \/ IsActive(planner')
               => IsReady(planner) \/ IsActive(planner)
      BY <2>1, <2>2, <3>1, CheckedKeeps DEF IsReady, IsActive
    <3>3. ButtonsFollow' /\ enabled' \subseteq Button /\ aborted' \in BOOLEAN
      BY <3>1, ButtonsSet
    <3>4. ReadyAsShown'
      BY <1>2, <2>1, <3>2 DEF IInv, ReadyAsShown
    <3> QED BY <1>1, <1>3, <2>1, <3>2, <3>3, <3>4 DEF IInv
  <2>3. CASE ~Terminates(planner)
    <3>1. /\ planner' \in MainLoop(Repeated(planner))
          /\ enabled' = enabled /\ aborted' = aborted
      BY <1>4, <2>3 DEF SensorCB
    <3>2. planner' \in Members /\ planner'.state = planner.state
      BY <2>1, <2>3, <3>1, LoopKeeps
    <3>3. ButtonsFor(planner') = ButtonsFor(planner)
      BY <2>1, <3>2, SameButtons
    <3>4. ButtonsFollow' /\ ReadyAsShown'
      BY <1>2, <2>1, <3>1, <3>2, <3>3
         DEF IInv, ButtonsFollow, ReadyAsShown, IsReady, IsActive
    <3> QED BY <1>1, <1>3, <2>1, <3>1, <3>2, <3>4 DEF IInv
  <2> QED BY <2>2, <2>3
<1>5. CASE Destroy
  <2>1. planner' = None /\ enabled' = {} /\ isOpen' = FALSE /\ aborted' = aborted
    BY <1>5 DEF Destroy
  <2> QED BY <1>1, <1>3, <2>1 DEF IInv, ButtonsFollow, ReadyAsShown
<1> QED BY <1>4, <1>5

-----------------------------------------------------------------------------

(* The dialog starts without a planner.                                    *)
LEMMA InvInit == Init => IInv
<1> SUFFICES ASSUME Init PROVE IInv
  OBVIOUS
<1>1. box \in Boxes /\ copy \in [energy : EnergyBox, space : Space]
  BY DlgConstants DEF Init, Boxes
<1> QED BY <1>1 DEF Init, IInv, TypeOK, Limited, ButtonsFollow, ReadyAsShown,
                    ButtonsFor, Button

(* The invariant is inductive.                                             *)
LEMMA InvNext == IInv /\ [Next]_vars => IInv'
<1> SUFFICES ASSUME IInv, [Next]_vars PROVE IInv'
  OBVIOUS
<1>1. CASE UNCHANGED vars
  BY <1>1 DEF vars, IInv, TypeOK, Limited, ButtonsFollow, ReadyAsShown
<1> QED BY <1>1, ButtonSteps, BoxSteps, OtherSteps DEF Next

(* What the invariant says of the buttons and of a planner that runs.      *)
LEMMA InvImplies == IInv => ButtonsMatch /\ RunsAsShown
<1> SUFFICES ASSUME IInv PROVE ButtonsMatch /\ RunsAsShown
  OBVIOUS
<1>1. RunsAsShown
  BY DEF IInv, ReadyAsShown, RunsAsShown, Running
<1>2. ASSUME isOpen
      PROVE  /\ enabled \cup {"Start"} = ButtonsFor(planner) \cup {"Start"}
             /\ enabled \subseteq ButtonsFor(planner)
  BY <1>2 DEF IInv, ButtonsFollow
<1>3. /\ "Reset" \in ButtonsFor(planner) => planner # None /\ ~IsActive(planner)
      /\ "Start" \in ButtonsFor(planner)
           => planner # None /\ (IsReady(planner) \/ IsActive(planner))
      /\ "Results" \in ButtonsFor(planner) => planner # None /\ IsReady(planner)
  BY DEF ButtonsFor, IsReady, IsActive
<1> QED BY <1>1, <1>2, <1>3 DEF IInv, ButtonsMatch

(* Whatever the user clicks and whenever the idle sensor runs or ends the  *)
(* planner, a button is enabled only when its slot can do what it says:    *)
(* updateStatus() is called after everything that changes the state.       *)
THEOREM ButtonsAlwaysMatch == Spec => []ButtonsMatch
<1>1. IInv => ButtonsMatch
  BY InvImplies
<1> QED BY <1>1, InvInit, InvNext, PTL DEF Spec

(* A planner that runs computes the energy its dialog shows, whatever the  *)
(* user does, unless that energy was changed while a planner ran.          *)
THEOREM AlwaysRunsAsShown == Spec => []RunsAsShown
<1>1. IInv => RunsAsShown
  BY InvImplies
<1> QED BY <1>1, InvInit, InvNext, PTL DEF Spec

-----------------------------------------------------------------------------
(* The lists of a LoopPlanner.                                             *)

(* The inductive invariant.  What BestIsKept says of the first state needs *)
(* the order of the whole list: the scan of addToListOfUniqueSolutions()   *)
(* deletes the states it meets before one that stops it, which are never   *)
(* the best of a sorted list.                                              *)
LoopInv ==
  /\ LoopTypeOK
  /\ Apart(best) /\ Tops(best, lowest, Ceiling)
  /\ AvoidListServes

LEMMA LoopInvInit == LoopInit => LoopInv
<1> SUFFICES ASSUME LoopInit PROVE LoopInv
  OBVIOUS
<1>1. LoopTypeOK
  BY LoopConstants DEF LoopInit, LoopTypeOK
<1>2. Apart(best) /\ Tops(best, lowest, Ceiling)
  BY DEF LoopInit, Apart, Tops, InOrder
<1>3. AvoidListServes
  BY EmptyHasNone DEF LoopInit, AvoidListServes, LoopsDiffer, SavedAreGood
<1> QED BY <1>1, <1>2, <1>3 DEF LoopInv

(* The annealing jumps to a state that no state of mAvoidList forbids.     *)
LEMMA JumpKeeps ==
  ASSUME LoopInv, Jump PROVE LoopInv'
<1>1. PICK s \in Solution :
        /\ \A t \in avoid : ~Avoided(t, s)
        /\ best' \in Offers(best, s, BestListSize, Ceiling)
        /\ lowest' = IF Energy(s) < lowest THEN Energy(s) ELSE lowest
        /\ avoid' = avoid /\ given' = given
  BY DEF Jump, Legal
<1>2. /\ best \in Seq(Solution) /\ Len(best) <= BestListSize
      /\ avoid \subseteq Solution /\ given \subseteq avoid /\ lowest \in Int
  BY DEF LoopInv, LoopTypeOK
<1>3. /\ BestListSize \in Nat \ {0} /\ BestListSize \in Nat /\ Ceiling \in Int
      /\ \A x \in Solution : Energy(x) \in Int
      /\ \A x, y \in Solution : Near(x, y) <=> Near(y, x)
      /\ \A x, y \in Solution : Avoided(x, y) <=> Avoided(y, x)
      /\ \A x, y \in Solution : Avoided(x, y) => Near(x, y)
  BY LoopConstants
<1>4. Apart(best) /\ Tops(best, lowest, Ceiling)
  BY DEF LoopInv
<1>5. /\ best' \in Seq(Solution) /\ Len(best') <= BestListSize
      /\ Apart(best') /\ InList(best') \subseteq InList(best) \cup {s}
  BY <1>1, <1>2, <1>3, <1>4, OffersApart
<1>6. Tops(best', lowest', Ceiling)
  BY <1>1, <1>2, <1>3, <1>4, OffersTops
<1>7. lowest' \in Int
  BY <1>1, <1>2, <1>3
<1>8. LoopTypeOK'
  BY <1>1, <1>2, <1>5, <1>7 DEF LoopTypeOK
<1>9. \A x \in InList(best'), t \in avoid : ~Avoided(t, x)
  BY <1>1, <1>5 DEF LoopInv, AvoidListServes, LoopsDiffer
<1>10. \A x \in InList(best') : x \in Solution
  BY <1>5 DEF InList
<1>11. \A x, y \in InList(best') : x # y => ~Avoided(x, y)
  <2> SUFFICES ASSUME NEW x \in InList(best'), NEW y \in InList(best'), x # y
               PROVE  ~Avoided(x, y)
    OBVIOUS
  <2>1. PICK i \in DOMAIN best' : x = best'[i]
    BY DEF InList
  <2>2. PICK j \in DOMAIN best' : y = best'[j]
    BY DEF InList
  <2>3. ~Near(x, y)
    BY <1>5, <2>1, <2>2 DEF Apart
  <2> QED BY <1>3, <1>10, <2>3
<1>12. \A x, y \in avoid \ given : x # y => ~Avoided(x, y)
  BY DEF LoopInv, AvoidListServes, LoopsDiffer
<1>13. \A x, y \in (avoid \ given) \cup InList(best') : x # y => ~Avoided(x, y)
  <2> SUFFICES ASSUME NEW x \in (avoid \ given) \cup InList(best'),
                      NEW y \in (avoid \ given) \cup InList(best'), x # y
               PROVE  ~Avoided(x, y)
    OBVIOUS
  <2>1. x \in Solution /\ y \in Solution
    BY <1>2, <1>10
  <2>2. CASE x \in avoid /\ y \in InList(best')
    BY <1>9, <2>2
  <2>3. CASE y \in avoid /\ x \in InList(best')
    BY <1>3, <1>9, <2>1, <2>3
  <2> QED BY <1>11, <1>12, <2>2, <2>3
<1>14. AvoidListServes'
  BY <1>1, <1>9, <1>13
     DEF LoopInv, AvoidListServes, LoopsDiffer, SavedAreGood, InList
<1> QED BY <1>5, <1>6, <1>8, <1>14 DEF LoopInv

(* The next loop, grasps of the task's, and a reset: the list is empty.    *)
LEMMA OtherLoopSteps ==
  ASSUME LoopInv, LoopUpdate \/ AddToAvoidList \/ ClearSolutions
  PROVE  LoopInv'
<1>1. /\ best \in Seq(Solution) /\ Len(best) <= BestListSize
      /\ avoid \subseteq Solution /\ given \subseteq avoid /\ lowest \in Int
  BY DEF LoopInv, LoopTypeOK
<1>2. /\ best' = <<>>
      /\ lowest' = Ceiling \/ (best = <<>> /\ lowest' = lowest)
  BY DEF LoopUpdate, AddToAvoidList, ClearSolutions
<1>3. lowest' = Ceiling
  BY <1>2 DEF LoopInv, Tops
<1>4. Apart(best') /\ Tops(best', lowest', Ceiling) /\ InList(best') = {}
  BY <1>2, <1>3, EmptyHasNone DEF Apart, Tops, InOrder
<1>5. InList(best) \subseteq Solution
  BY <1>1 DEF InList
<1>6. avoid' \subseteq Solution /\ given' \subseteq avoid'
  BY <1>1, <1>5 DEF LoopUpdate, AddToAvoidList, ClearSolutions
<1>7. LoopTypeOK'
  BY <1>2, <1>3, <1>6, LoopConstants DEF LoopTypeOK
<1>8. /\ avoid' \ given' \subseteq (avoid \ given) \cup InList(best)
      /\ \A s \in avoid' \ given' :
           s \in avoid \ given \/ Energy(s) <= SaveThreshold
  BY DEF LoopUpdate, AddToAvoidList, ClearSolutions
<1>9. AvoidListServes'
  <2>1. LoopsDiffer /\ SavedAreGood
    BY DEF LoopInv, AvoidListServes
  <2>2. SavedAreGood'
    BY <1>8, <2>1 DEF SavedAreGood
  <2>3. LoopsDiffer'
    BY <1>4, <1>8, <2>1 DEF LoopsDiffer
  <2> QED BY <2>2, <2>3 DEF AvoidListServes
<1> QED BY <1>4, <1>7, <1>9 DEF LoopInv

LEMMA LoopInvNext == LoopInv /\ [LoopNext]_loopVars => LoopInv'
<1> SUFFICES ASSUME LoopInv, [LoopNext]_loopVars PROVE LoopInv'
  OBVIOUS
<1>1. CASE Jump
  BY <1>1, JumpKeeps
<1>2. CASE LoopUpdate \/ AddToAvoidList \/ ClearSolutions
  BY <1>2, OtherLoopSteps
<1>3. CASE UNCHANGED loopVars
  BY <1>3 DEF loopVars, LoopInv, LoopTypeOK, Apart, AvoidListServes,
              LoopsDiffer, SavedAreGood, InList, Tops, InOrder
<1> QED BY <1>1, <1>2, <1>3 DEF LoopNext

(* Whatever states the annealing proposes, and however the sort orders     *)
(* equal ones: mBestList never outgrows BEST_LIST_SIZE.                    *)
THEOREM ListKeepsItsSize == LoopSpec => []LoopTypeOK
<1>1. LoopInv => LoopTypeOK
  BY DEF LoopInv
<1> QED BY <1>1, LoopInvInit, LoopInvNext, PTL DEF LoopSpec

(* addToListOfUniqueSolutions() never lets two states near each other into *)
(* mBestList, for any distance that is symmetric.                          *)
THEOREM AlwaysUnique == LoopSpec => []Unique
<1>1. LoopInv => Unique
  BY DEF LoopInv, Apart, Unique
<1> QED BY <1>1, LoopInvInit, LoopInvNext, PTL DEF LoopSpec

(* The best state a loop has met stays at the head of mBestList: neither a *)
(* near state, nor the sort, nor the cut takes it away.                    *)
THEOREM BestIsAlwaysKept == LoopSpec => []BestIsKept
<1>1. LoopInv => BestIsKept
  <2> SUFFICES ASSUME LoopInv, lowest < Ceiling
               PROVE  Len(best) > 0 /\ Energy(best[1]) = lowest
    BY DEF BestIsKept
  <2>1. best \in Seq(Solution) /\ lowest \in Int /\ Ceiling \in Int
    BY LoopConstants DEF LoopInv, LoopTypeOK
  <2>2. best # <<>> /\ Energy(best[1]) = lowest
    BY <2>1 DEF LoopInv, Tops
  <2> QED BY <2>1, <2>2, EmptySeq
<1> QED BY <1>1, LoopInvInit, LoopInvNext, PTL DEF LoopSpec

(* No two solutions a LoopPlanner hands out, in however many loops, are    *)
(* within mThreshold of each other, and each is good enough to be saved.   *)
THEOREM AvoidListAlwaysServes == LoopSpec => []AvoidListServes
<1>1. LoopInv => AvoidListServes
  BY DEF LoopInv
<1> QED BY <1>1, LoopInvInit, LoopInvNext, PTL DEF LoopSpec
=============================================================================

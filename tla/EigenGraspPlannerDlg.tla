------------------------- MODULE EigenGraspPlannerDlg -------------------------
(***************************************************************************)
(* EigenGraspPlannerDlg with the planners it runs in the graphics thread,  *)
(* SimAnnPlanner and LoopPlanner.  Its boxes hold what the user asks for;  *)
(* the planner has copies, of the energy and the number of steps since its *)
(* last reset and of the search space since it was created; the buttons    *)
(* are enabled by updateStatus(), which also shows the planner's target.   *)
(***************************************************************************)
EXTENDS SensorPlanner

CONSTANTS
  None,          (* mPlanner = NULL                                        *)
  Kind,          (* the entries of plannerTypeBox                          *)
  Repeats(_),    (* mRepeat of a new planner of that kind                  *)
  EnergyBox,     (* the entries of energyBox                               *)
  Space,         (* the entries of spaceSearchBox                          *)
  NumVars(_),    (* the variables of a position of that space              *)
  FirstKind, FirstEnergy, FirstSpace,
  FirstStep,     (* DEF_K0, from which SimAnn counts its steps             *)
  StepsEdit      (* the numbers the user may ask for in annStepsEdit       *)

ASSUME DlgConstants ==
  /\ FirstKind \in Kind /\ FirstEnergy \in EnergyBox /\ FirstSpace \in Space
  /\ \A k \in Kind : Repeats(k) \in BOOLEAN
  /\ \A s \in Space : NumVars(s) \in Nat
  /\ FirstStep \in Nat /\ StepsEdit \subseteq Nat \ {0}
  /\ \E m \in StepsEdit : \A n \in StepsEdit : n <= m   (* its validator  *)
  /\ None \notin Planner(Nat)

VARIABLES
  planner,     (* mPlanner: the members of EGPlanner, or None              *)
  copy,        (* the planner's energy and the space of its target state   *)
  box,         (* kind, energy, space and steps of the boxes               *)
  enabled,     (* the buttons that are enabled                             *)
  aborted,     (* an assertion has failed                                  *)
  isOpen,
  touched      (* history variable: the energy was changed while a planner *)
               (* ran, and no reset has been made since                    *)

vars == <<planner, copy, box, enabled, aborted, isOpen, touched>>

Boxes == [kind : Kind, energy : EnergyBox, space : Space, steps : StepsEdit]
Button == {"Init", "Reset", "Start", "Results"}

Steps == 0..FirstStep + 1 + (CHOOSE m \in StepsEdit : \A n \in StepsEdit : n <= m)

(* The switch of updateStatus().                                           *)
ButtonsFor(p) ==
  IF p = None THEN {"Init"}
  ELSE CASE p.state = "INIT" -> {"Reset"}
         [] p.state = "READY" -> {"Reset", "Start", "Results"}
         [] p.state = "RUNNING" -> {"Start"}
         [] OTHER -> {"Init"}

(* updateInputLayout() reads as many variables of the planner's target as  *)
(* the dialog's own state has; getVariable() asserts that they exist.      *)
ReadsTarget(p) == p # None /\ (IsReady(p) \/ IsActive(p))
OutOfRange(p, space, target) ==
  ReadsTarget(p) /\ NumVars(space) > NumVars(target)

(* updateStatus().                                                         *)
UpdateStatus ==
  /\ enabled' = ButtonsFor(planner')
  /\ aborted' = OutOfRange(planner', box'.space, copy'.space)

Init ==
  /\ planner = None /\ copy = [energy |-> FirstEnergy, space |-> FirstSpace]
  /\ box \in [kind : {FirstKind}, energy : {FirstEnergy}, space : {FirstSpace},
              steps : StepsEdit]
  /\ enabled = {"Init"} /\ aborted = FALSE /\ isOpen = TRUE
  /\ touched = FALSE

Ready == isOpen /\ ~aborted
Running == planner # None /\ IsActive(planner)

-----------------------------------------------------------------------------
(* The buttons.                                                            *)

(* readPlannerSettings() and resetPlanner(): SimAnn starts its count anew. *)
Reset(p, space) ==
  /\ planner' = IF CanReset(p, TRUE)
                THEN [ResetDone(p) EXCEPT !.maxSteps = box.steps, !.step = FirstStep]
                ELSE [p EXCEPT !.maxSteps = box.steps]
  /\ copy' = [energy |-> box.energy, space |-> space]
  /\ touched' = FALSE

(* A new planner gets a copy of mHandObjectState and is reset.             *)
PlannerInitClicked ==
  /\ Ready /\ "Init" \in enabled
  /\ Reset(NewPlanner(box.steps, Repeats(box.kind)), box.space)
  /\ UNCHANGED <<box, isOpen>> /\ UpdateStatus

(* Asserts that there is a planner, which keeps its copy of the space.     *)
PlannerResetClicked ==
  /\ Ready /\ "Reset" \in enabled
  /\ planner # None
  /\ Reset(planner, copy.space)
  /\ UNCHANGED <<box, isOpen>> /\ UpdateStatus

(* Starts or pauses; complete() of the pause reaches plannerComplete().    *)
PlannerStartClicked ==
  /\ Ready /\ "Start" \in enabled
  /\ planner' = IF IsActive(planner) THEN Paused(planner) ELSE Started(planner)
  /\ UNCHANGED <<copy, box, isOpen, touched>> /\ UpdateStatus

-----------------------------------------------------------------------------
(* The boxes.                                                              *)

(* Another kind of planner: the old one is deleted, running or not.        *)
PlannerTypeBoxActivated ==
  /\ Ready
  /\ \E k \in Kind : box' = [box EXCEPT !.kind = k]
  /\ planner' = None
  /\ UNCHANGED <<copy, isOpen, touched>> /\ UpdateStatus

(* Mutant of ForceReset: the planner is not told.                          *)
ForceResetForgotten == planner' = planner

(* invalidateReset().                                                      *)
ForceReset == planner' = IF planner = None THEN None ELSE Invalidated(planner)

(* "force a reset of the planner".                                         *)
EnergyBoxActivated ==
  /\ Ready
  /\ \E e \in EnergyBox : box' = [box EXCEPT !.energy = e]
  /\ touched' = (touched \/ Running)
  /\ ForceReset
  /\ UNCHANGED <<copy, isOpen>> /\ UpdateStatus

(* The dialog's own state takes the new space.                             *)
SpaceSearchBoxActivated ==
  /\ Ready
  /\ \E s \in Space : box' = [box EXCEPT !.space = s]
  /\ ForceReset
  /\ UNCHANGED <<copy, isOpen, touched>> /\ UpdateStatus

(* A variable is fixed or freed in the dialog's own state; the planner is  *)
(* not told, only Start is disabled until the next updateStatus().         *)
VariableCheckBoxChanged ==
  /\ Ready
  /\ enabled' = enabled \ {"Start"}
  /\ UNCHANGED <<planner, copy, box, aborted, isOpen, touched>>

(* annStepsEdit has no slot: it is read at the next reset.                 *)
AnnStepsEdited ==
  /\ Ready
  /\ \E n \in StepsEdit : box' = [box EXCEPT !.steps = n]
  /\ UNCHANGED <<planner, copy, enabled, aborted, isOpen, touched>>

-----------------------------------------------------------------------------
(* The planner.                                                            *)

(* SimAnnPlanner::mainLoop(): iterate() may fail, and then has not counted *)
(* a step.                                                                 *)
MainLoop(p) == {[p EXCEPT !.sensor = "scheduled", !.step = k] : k \in {p.step, p.step + 1}}

(* A planner that repeats counts anew and goes on.                         *)
Repeated(p) == IF AtLimit(p) /\ p.repeat THEN [p EXCEPT !.step = FirstStep] ELSE p

(* Mutant of SensorCB: complete() is not heard.                            *)
SensorCBDeaf ==
  /\ Ready /\ planner # None /\ planner.sensor = "scheduled"
  /\ UNCHANGED <<copy, box, isOpen, touched>>
  /\ IF Terminates(planner)
     THEN planner' = Checked(planner) /\ UNCHANGED <<enabled, aborted>>
     ELSE /\ planner' \in MainLoop(Repeated(planner))
          /\ UNCHANGED <<enabled, aborted>>

(* The idle sensor: at the limit complete() reaches plannerComplete().     *)
SensorCB ==
  /\ Ready /\ planner # None /\ planner.sensor = "scheduled"
  /\ UNCHANGED <<copy, box, isOpen, touched>>
  /\ IF Terminates(planner)
     THEN planner' = Checked(planner) /\ UpdateStatus
     ELSE /\ planner' \in MainLoop(Repeated(planner))
          /\ UNCHANGED <<enabled, aborted>>

(* The dialog is closed and deletes its planner.                           *)
Destroy ==
  /\ Ready /\ isOpen' = FALSE /\ planner' = None /\ enabled' = {}
  /\ UNCHANGED <<copy, box, aborted, touched>>

Next ==
  \/ PlannerInitClicked \/ PlannerResetClicked \/ PlannerStartClicked
  \/ PlannerTypeBoxActivated \/ EnergyBoxActivated \/ SpaceSearchBoxActivated
  \/ VariableCheckBoxChanged \/ AnnStepsEdited
  \/ SensorCB \/ Destroy

Spec == Init /\ [][Next]_vars

-----------------------------------------------------------------------------

TypeOK ==
  /\ planner \in Planner(Steps) \cup {None}
  /\ copy \in [energy : EnergyBox, space : Space] /\ box \in Boxes
  /\ enabled \subseteq Button /\ aborted \in BOOLEAN /\ isOpen \in BOOLEAN
  /\ touched \in BOOLEAN

(* A button is enabled only when its slot can do what it says: the slots   *)
(* assert that there is a planner, or take its state for granted.  After   *)
(* every event, also one the planner caused itself, the buttons follow the *)
(* planner's state; only Start may be taken away on top.                   *)
ButtonsMatch ==
  /\ TypeOK
  /\ isOpen =>
       /\ enabled \cup {"Start"} = ButtonsFor(planner) \cup {"Start"}
       /\ "Reset" \in enabled => planner # None /\ ~IsActive(planner)
       /\ "Start" \in enabled => planner # None /\ (IsReady(planner) \/ IsActive(planner))
       /\ "Results" \in enabled => planner # None /\ IsReady(planner)

(* "force a reset of the planner": whoever changes the box when no planner *)
(* runs cannot start one before it has been reset, so a planner that runs  *)
(* computes the energy the box shows, unless the box was changed while one *)
(* ran: that planner goes on, and can be paused and started again, with    *)
(* the energy of its last reset.                                           *)
RunsAsShown == Running /\ ~touched => copy.energy = box.energy
=============================================================================

----------------------------- MODULE PlannerLife -----------------------------
(***************************************************************************)
(* What an EGPlanner promises of its state, whoever calls it and in        *)
(* whichever order: the enumeration PlannerState, the rule by which        *)
(* setState() accepts or refuses a new state, and the life cycle that      *)
(* follows from it.  The planners that run in a thread of their own        *)
(* (EGPlannerThread) implement Spec, and so does one that an idle sensor   *)
(* drives (ListPlanner).                                                   *)
(***************************************************************************)

VARIABLE state    (* mState *)

PlannerState ==
  {"INIT", "READY", "RUNNING", "DONE", "EXITED", "STARTING_THREAD"}

(* A planner in one of these states has been stopped for good.             *)
Dead == {"DONE", "EXITED"}

(* Mutant of Accept: setState() without its guard.                         *)
AcceptAlways(cur, s) == s

(* setState(s) on a planner in state cur: DONE can only be left for        *)
(* EXITED, EXITED is never left, everything else is accepted.              *)
Accept(cur, s) ==
  IF \/ cur = "DONE" /\ s \notin Dead
     \/ cur = "EXITED" /\ s # "EXITED"
  THEN cur ELSE s

-----------------------------------------------------------------------------

Init == state = "INIT"

StartThread  == state \in {"INIT", "READY"} /\ state' = "STARTING_THREAD"
ThreadUp     == state = "STARTING_THREAD" /\ state' = "INIT"
Reset        == state = "INIT" /\ state' = "READY"
Start        == state = "READY" /\ state' = "RUNNING"
Pause        == state = "RUNNING" /\ state' = "READY"
Invalidate   == state = "READY" /\ state' = "INIT"
Stop         == state \in {"INIT", "READY", "RUNNING"} /\ state' = "DONE"
Exit         == state = "DONE" /\ state' = "EXITED"

Next == StartThread \/ ThreadUp \/ Reset \/ Start \/ Pause \/ Invalidate
          \/ Stop \/ Exit

(* A thread that is being started comes up, and a planner that was stopped *)
(* leaves its loop.                                                        *)
Spec == Init /\ [][Next]_state /\ WF_state(ThreadUp) /\ WF_state(Exit)
=============================================================================

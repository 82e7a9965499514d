---------------------------- MODULE SensorPlanner ----------------------------
(***************************************************************************)
(* An EGPlanner without a thread of its own: the functions of EGPlanner as *)
(* they act on a planner of the graphics thread, where an idle sensor of   *)
(* Inventor calls mainLoop() whenever there is nothing else to do.  Every  *)
(* function runs to its end inside one event of that thread.  A planner is *)
(* the record of the members these functions touch.                        *)
(***************************************************************************)
EXTENDS Integers

Rules == INSTANCE PlannerLife WITH state <- "INIT"

(* mIdleSensor: none, waiting for its turn in the queue of idle sensors,   *)
(* or taken out of it by its own callback.                                 *)
Sensor == {"NULL", "scheduled", "called"}

Planner(steps) ==
  [state : Rules!PlannerState, sensor : Sensor, step : steps,
   maxSteps : steps \cup {-1}, repeat : BOOLEAN]

NewPlanner(max, again) ==
  [state |-> "INIT", sensor |-> "NULL", step |-> 0, maxSteps |-> max,
   repeat |-> again]

IsActive(p) == p.state = "RUNNING"
IsReady(p) == p.state = "READY"

SetState(p, s) == [p EXCEPT !.state = Rules!Accept(p.state, s)]

Invalidated(p) == IF IsReady(p) THEN SetState(p, "INIT") ELSE p

(* Mutant of Started: the state is not asked.                              *)
StartedAlways(p) == SetState([p EXCEPT !.sensor = "scheduled"], "RUNNING")

Started(p) ==
  IF IsReady(p) THEN SetState([p EXCEPT !.sensor = "scheduled"], "RUNNING")
  ELSE p

(* Mutant of Paused: the sensor stays.                                     *)
PausedKeepSensor(p) == IF IsActive(p) THEN SetState(p, "READY") ELSE p

(* Mutant of Paused: the state stays.                                      *)
PausedStateKept(p) == p

Paused(p) ==
  IF IsActive(p) THEN SetState([p EXCEPT !.sensor = "NULL"], "READY") ELSE p

(* resetPlanner() refuses a planner that runs or is dead; a planner that   *)
(* has its input is cleared and becomes READY.                             *)
CanReset(p, initialized) == p.state \notin {"RUNNING", "DONE"} /\ initialized

ResetDone(p) == SetState([p EXCEPT !.step = 0], "READY")

AtLimit(p) == p.maxSteps # -1 /\ p.step >= p.maxSteps

(* checkTerminationConditions(): a planner at its limit is paused, one     *)
(* that repeats starts over.  No caller of a sensor planner sets mMaxTime. *)
Checked(p) ==
  IF ~IsActive(p) \/ ~AtLimit(p) THEN p
  ELSE IF p.repeat THEN [p EXCEPT !.step = 0] ELSE Paused(p)

Terminates(p) == ~IsActive(p) \/ (AtLimit(p) /\ ~p.repeat)
=============================================================================

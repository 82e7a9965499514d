--------------------------- MODULE EGPlannerThread ---------------------------
(***************************************************************************)
(* A planner that runs in a thread of its own, as GraspTester and the      *)
(* children of GuidedPlanner do.  Two threads run the methods of           *)
(* EGPlanner: the owner (the thread that constructed the planner and calls *)
(* startThread, resetPlanner, startPlanner, pausePlanner, stopPlanner and  *)
(* finally delete) and the worker (run, threadLoop, mainLoop,              *)
(* checkTerminationConditions).  Both call pausePlanner and stopPlanner.   *)
(*                                                                         *)
(* mState is read and written under mControlMutex, one call at a time, so  *)
(* every getState() and every setState() is one step and the decisions     *)
(* taken on what getState() returned may be stale.  mCurrentStep and       *)
(* mBestList are shared without a lock.                                    *)
(*                                                                         *)
(* startThread() is the first call after the constructor in both users     *)
(* (OnLinePlanner and GuidedPlanner::startChild).                          *)
(***************************************************************************)
EXTENDS Integers

CONSTANTS
  MaxSteps,      (* mMaxSteps; -1 lets the planner run forever             *)
  TimeLimit,     (* mMaxTime # -1                                          *)
  Joins,         (* does the owner call QThread::wait() before delete?     *)
  ThreadStarts,  (* how often the owner calls startThread()                *)
  Resets,        (* bound: how often the owner calls resetPlanner()        *)
  StepCap        (* bound: mCurrentStep is counted up to StepCap           *)

ASSUME ThreadConstants ==
  /\ MaxSteps \in Nat \cup {-1}
  /\ TimeLimit \in BOOLEAN /\ Joins \in BOOLEAN
  /\ ThreadStarts \in Nat
  /\ Resets \in Nat
  /\ StepCap \in Nat
  /\ MaxSteps < StepCap

VARIABLES
  repeat,     (* mRepeat: start again at mMaxSteps instead of pausing; the *)
              (* constructors set it for good                              *)
  state,      (* mState                                                    *)
  pc,         (* where each of the two threads is                          *)
  step,       (* mCurrentStep                                              *)
  seen,       (* mCurrentStep as the worker read it when it entered mainLoop *)
  starts,     (* calls of startThread() so far                             *)
  epoch,      (* calls of resetPlanner() that went through so far          *)
  begun,      (* the epoch in which the worker entered mainLoop            *)
  best,       (* mBestList: the epochs in which its solutions were found   *)
  stopped,    (* the owner's stopPlanner() has returned                    *)
  complete,   (* complete() was emitted since the last start               *)
  input       (* history variable: "prepared" by a reset since it last     *)
              (* changed, "changed", or "late": changed, and a             *)
              (* pausePlanner() has moved the planner from INIT to READY   *)

vars == <<repeat, state, pc, step, seen, starts, epoch, begun, best, stopped,
          complete, input>>

(* The search of the worker, and what is known of the calls made so far.   *)
search == <<step, seen, epoch, begun, best>>
calls  == <<starts, stopped, complete, input>>

Life == INSTANCE PlannerLife

Thread == {"owner", "worker"}

OwnerPoint  == {"idle", "startSpin", "clear", "resetSet", "startSet",
                "invalidateTest", "invalidateSet", "deleted"}
WorkerPoint == {"unborn", "clone", "signal", "loop", "main", "check", "emit",
                "exit", "returning", "ended"}
(* Points of pausePlanner() and stopPlanner(), which both threads run.     *)
SharedPoint == {"pause", "pauseSet", "stop", "stopPause", "stopPauseSet",
                "stopSet", "stopSpin"}

At(t, p)         == pc[t] = p
Go(t, p)         == pc' = [pc EXCEPT ![t] = p]
Transition(t, p, q) == At(t, p) /\ Go(t, q)
SetState(s)      == state' = Life!Accept(state, s)

(* Mutant of Back: whoever paused or stopped the planner emits complete(). *)
BackToEmit(t) == "emit"

(* Where pausePlanner() and stopPlanner() return to: the worker calls them *)
(* from checkTerminationConditions(), which then emits complete().         *)
Back(t) == IF t = "owner" THEN "idle" ELSE "emit"

AtMost(n) == IF n > StepCap THEN StepCap ELSE n

Init ==
  /\ repeat \in BOOLEAN
  /\ state = "INIT"
  /\ pc = [t \in Thread |-> IF t = "owner" THEN "idle" ELSE "unborn"]
  /\ step = 0 /\ seen = 0
  /\ starts = 0 /\ epoch = 0 /\ begun = 0
  /\ best = {}
  /\ stopped = FALSE /\ complete = FALSE
  /\ input = "changed"

-----------------------------------------------------------------------------
(* The owner: startThread(), resetPlanner(), startPlanner(),               *)
(* setModelState() or setInput(), and delete.                              *)

Live == starts > 0

(* startThread() tells its caller when the thread already exists or the    *)
(* state is not INIT, and goes on.  QThread::start() does nothing while    *)
(* the thread is running.                                                  *)
StartThread ==
  /\ At("owner", "idle") /\ starts < ThreadStarts
  /\ SetState("STARTING_THREAD")
  /\ pc' = [t \in Thread |->
              IF t = "owner" THEN "startSpin"
              ELSE IF pc[t] \in {"unborn", "ended"} THEN "clone" ELSE pc[t]]
  /\ starts' = starts + 1
  /\ UNCHANGED <<search, stopped, complete, input>>

StartThreadReturn ==
  /\ Transition("owner", "startSpin", "idle")
  /\ state # "STARTING_THREAD"
  /\ UNCHANGED <<state, search, calls>>

ResetPlanner ==
  /\ Live /\ epoch < Resets
  /\ state \notin {"RUNNING", "DONE"}
  /\ Transition("owner", "idle", "clear")
  /\ UNCHANGED <<state, search, calls>>

(* Mutant of ResetClear: resetParameters() alone.                          *)
ResetKeepsSolutions ==
  /\ Transition("owner", "clear", "resetSet")
  /\ step' = 0
  /\ epoch' = epoch + 1
  /\ UNCHANGED <<state, seen, starts, begun, best, stopped, complete, input>>

(* clearSolutions() and resetParameters(), without a lock.                 *)
ResetClear ==
  /\ Transition("owner", "clear", "resetSet")
  /\ best' = {}
  /\ step' = 0
  /\ epoch' = epoch + 1
  /\ UNCHANGED <<state, seen, starts, begun, stopped, complete, input>>

ResetSet ==
  /\ Transition("owner", "resetSet", "idle")
  /\ SetState("READY")
  /\ input' = "prepared"
  /\ UNCHANGED <<search, starts, stopped, complete>>

(* Mutant of StartPlanner: its test of READY also lets INIT through.       *)
StartPlannerUnprepared ==
  /\ Live /\ state \in {"INIT", "READY"}
  /\ Transition("owner", "idle", "startSet")
  /\ UNCHANGED <<state, search, calls>>

StartPlanner ==
  /\ Live /\ state = "READY"
  /\ Transition("owner", "idle", "startSet")
  /\ UNCHANGED <<state, search, calls>>

StartSet ==
  /\ Transition("owner", "startSet", "idle")
  /\ SetState("RUNNING")
  /\ complete' = FALSE
  /\ UNCHANGED <<search, starts, stopped, input>>

(* SimAnnPlanner::setModelState() and ListPlanner::setInput() refuse new   *)
(* input while the planner runs, and end in invalidateReset().             *)
ChangeInput ==
  /\ Live /\ state # "RUNNING"
  /\ Transition("owner", "idle", "invalidateTest")
  /\ input' = "changed"
  /\ UNCHANGED <<state, search, starts, stopped, complete>>

InvalidateTest ==
  /\ At("owner", "invalidateTest")
  /\ Go("owner", IF state = "READY" THEN "invalidateSet" ELSE "idle")
  /\ UNCHANGED <<state, search, calls>>

InvalidateSet ==
  /\ Transition("owner", "invalidateSet", "idle")
  /\ SetState("INIT")
  /\ input' = "changed"
  /\ UNCHANGED <<search, starts, stopped, complete>>

OwnerPause ==
  /\ Live
  /\ Transition("owner", "idle", "pause")
  /\ UNCHANGED <<state, search, calls>>

OwnerStop ==
  /\ Live
  /\ Transition("owner", "idle", "stop")
  /\ UNCHANGED <<state, search, calls>>

(* OnLinePlanner waits for the thread before it deletes the planner,       *)
(* GuidedPlanner::checkChildren() deletes it as soon as stopChild() is     *)
(* through.                                                                *)
Delete ==
  /\ stopped
  /\ Joins => At("worker", "ended")
  /\ Transition("owner", "idle", "deleted")
  /\ UNCHANGED <<state, search, calls>>

-----------------------------------------------------------------------------
(* pausePlanner() and stopPlanner(), run by either thread.                 *)

(* setState(READY) in pausePlanner(), whose test of RUNNING may be old.     *)
ReadyAgain ==
  /\ SetState("READY")
  /\ input' = IF state = "INIT" THEN "late" ELSE input

PauseTest(t) ==
  /\ At(t, "pause")
  /\ Go(t, IF state = "RUNNING" THEN "pauseSet" ELSE Back(t))
  /\ UNCHANGED <<state, search, calls>>

PauseSet(t) ==
  /\ Transition(t, "pauseSet", Back(t))
  /\ ReadyAgain
  /\ UNCHANGED <<search, starts, stopped, complete>>

StopTest(t) ==
  /\ At(t, "stop")
  /\ IF state \in Life!Dead
     THEN /\ Go(t, Back(t))
          /\ stopped' = (stopped \/ t = "owner")
     ELSE /\ Go(t, "stopPause")
          /\ UNCHANGED stopped
  /\ UNCHANGED <<state, search, starts, complete, input>>

StopPauseTest(t) ==
  /\ At(t, "stopPause")
  /\ Go(t, IF state = "RUNNING" THEN "stopPauseSet" ELSE "stopSet")
  /\ UNCHANGED <<state, search, calls>>

StopPauseSet(t) ==
  /\ Transition(t, "stopPauseSet", "stopSet")
  /\ ReadyAgain
  /\ UNCHANGED <<search, starts, stopped, complete>>

StopSet(t) ==
  /\ Transition(t, "stopSet", "stopSpin")
  /\ SetState("DONE")
  /\ UNCHANGED <<search, calls>>

(* Mutant of StopReturn: stopPlanner() does not wait for the thread.       *)
StopReturnAtOnce(t) ==
  /\ Transition(t, "stopSpin", Back(t))
  /\ stopped' = (stopped \/ t = "owner")
  /\ UNCHANGED <<state, search, starts, complete, input>>

(* while (getState() != EXITED);                                           *)
StopReturn(t) ==
  /\ Transition(t, "stopSpin", Back(t))
  /\ state = "EXITED"
  /\ stopped' = (stopped \/ t = "owner")
  /\ UNCHANGED <<state, search, starts, complete, input>>

-----------------------------------------------------------------------------
(* The worker: run(), threadLoop() and checkTerminationConditions().       *)

CreateAndUseClone ==
  /\ Transition("worker", "clone", "signal")
  /\ UNCHANGED <<state, search, calls>>

(* Mutant of SignalInit: run() enters threadLoop() without setState(INIT). *)
SignalForgotten ==
  /\ Transition("worker", "signal", "loop")
  /\ UNCHANGED <<state, search, calls>>

SignalInit ==
  /\ Transition("worker", "signal", "loop")
  /\ SetState("INIT")
  /\ UNCHANGED <<search, calls>>

(* One turn of threadLoop() up to the call it makes for the state it read. *)
ThreadLoop ==
  /\ At("worker", "loop")
  /\ Go("worker", CASE state = "RUNNING" -> "main"
                    [] state = "DONE"    -> "exit"
                    [] OTHER             -> "check")
  /\ IF state = "RUNNING"
     THEN seen' = step /\ begun' = epoch
     ELSE UNCHANGED <<seen, begun>>
  /\ UNCHANGED <<state, step, starts, epoch, best, stopped, complete, input>>

(* mainLoop() of a subclass returns: it has counted one step, and may have *)
(* put a solution in mBestList.  The count is a read and a write that      *)
(* resetParameters() of the owner can fall between.                        *)
MainLoop ==
  /\ Transition("worker", "main", "check")
  /\ step' \in {AtMost(step + 1), AtMost(seen + 1)}
  /\ best' \in {best, best \cup {begun}}
  /\ UNCHANGED <<state, seen, starts, epoch, begun, stopped, complete, input>>

(* Mutant of StepLimit: the limit is missed when the count jumps over it.  *)
StepLimitExact == step = MaxSteps

StepLimit == MaxSteps # -1 /\ step >= MaxSteps

CheckInactive ==
  /\ state # "RUNNING"
  /\ Transition("worker", "check", "loop")
  /\ UNCHANGED <<state, search, calls>>

CheckSteps ==
  /\ state = "RUNNING" /\ StepLimit
  /\ At("worker", "check")
  /\ IF repeat
     THEN Go("worker", "loop") /\ step' = 0
     ELSE Go("worker", "pause") /\ UNCHANGED step
  /\ UNCHANGED <<state, seen, starts, epoch, begun, best, stopped, complete, input>>

(* The running time may or may not have passed mMaxTime.                   *)
CheckTime ==
  /\ state = "RUNNING" /\ ~StepLimit
  /\ At("worker", "check")
  /\ \/ Go("worker", "loop")
     \/ TimeLimit /\ Go("worker", "stop")
  /\ UNCHANGED <<state, search, calls>>

EmitComplete ==
  /\ Transition("worker", "emit", "loop")
  /\ complete' = TRUE
  /\ UNCHANGED <<state, search, starts, stopped, input>>

ThreadExit ==
  /\ Transition("worker", "exit", "returning")
  /\ SetState("EXITED")
  /\ UNCHANGED <<search, calls>>

(* The rest of setState(), threadLoop() and run(), which still use the     *)
(* planner.                                                                *)
RunReturn ==
  /\ Transition("worker", "returning", "ended")
  /\ UNCHANGED <<state, search, calls>>

-----------------------------------------------------------------------------

OwnerCall ==
  /\ UNCHANGED repeat
  /\ \/ StartThread \/ ResetPlanner \/ StartPlanner \/ ChangeInput
     \/ OwnerPause \/ OwnerStop \/ Delete

PauseOrStop(t) ==
  \/ PauseTest(t) \/ PauseSet(t)
  \/ StopTest(t) \/ StopPauseTest(t) \/ StopPauseSet(t) \/ StopSet(t)
  \/ StopReturn(t)

(* The owner inside a call it has made.                                    *)
OwnerStep ==
  /\ UNCHANGED repeat
  /\ \/ StartThreadReturn \/ ResetClear \/ ResetSet \/ StartSet
     \/ InvalidateTest \/ InvalidateSet \/ PauseOrStop("owner")

WorkerStep ==
  /\ UNCHANGED repeat
  /\ \/ CreateAndUseClone \/ SignalInit \/ ThreadLoop \/ MainLoop
     \/ CheckInactive \/ CheckSteps \/ CheckTime \/ EmitComplete
     \/ ThreadExit \/ RunReturn
     \/ PauseOrStop("worker")

Next == OwnerCall \/ OwnerStep \/ WorkerStep

(* The owner may stop calling at any time; a call it has made and the      *)
(* thread are scheduled by the operating system.                           *)
Fairness == WF_vars(OwnerStep) /\ WF_vars(WorkerStep)

Spec == Init /\ [][Next]_vars /\ Fairness
-----------------------------------------------------------------------------
(* What the threads must not do to the planner and to each other.          *)

FlagsOK ==
  repeat \in BOOLEAN /\ stopped \in BOOLEAN /\ complete \in BOOLEAN

RangesOK ==
  /\ state \in Life!PlannerState
  /\ pc \in [Thread -> OwnerPoint \cup WorkerPoint \cup SharedPoint]
  /\ pc["owner"] \in OwnerPoint \cup SharedPoint
  /\ pc["worker"] \in WorkerPoint \cup SharedPoint
  /\ step \in 0..StepCap /\ seen \in 0..StepCap
  /\ starts \in 0..ThreadStarts
  /\ input \in {"prepared", "changed", "late"}
  /\ epoch \in 0..Resets /\ begun \in 0..Resets
  /\ best \subseteq 0..Resets

(* Every variable stays in its range; a thread is only at its own points.  *)
TypeOK == RangesOK /\ FlagsOK

(* Whatever the two threads interleave, mState follows the life cycle, and *)
(* a planner that is starting or stopping gets there.                      *)
LifeCycle == Life!Spec

(* Its safety part, proved in EGPlannerThreadProofs.                       *)
LifeCycleSafety == Life!Init /\ [][Life!Next]_state

(* When stopPlanner() has returned to the owner, the worker has left       *)
(* threadLoop() and will not enter mainLoop() again.                       *)
StopMeansExited ==
  stopped => state = "EXITED" /\ pc["worker"] \in {"returning", "ended"}

(* No thread runs a method of a planner that has been deleted.             *)
NoUseAfterDelete ==
  At("owner", "deleted") => pc["worker"] \in {"unborn", "ended"}

(* A planner runs on input that resetPlanner() has prepared since it last  *)
(* changed, after which "initialization is no longer valid" (egPlanner.h); *)
(* a planner that repeats always does.  One late call gets through: a      *)
(* worker that pauses the planner at mMaxSteps may have read RUNNING       *)
(* before the owner paused the planner and gave it new input, and then its *)
(* setState(READY) undoes the owner's invalidateReset().                   *)
RunsOnPreparedInput ==
  state = "RUNNING" => input = "prepared" \/ (input = "late" /\ ~repeat)

(* A reset clears mBestList while the worker may still be in the step it   *)
(* began before: whatever was reset in the meantime, the list then holds   *)
(* solutions of the search that goes on and of at most one earlier one.    *)
OneStaleSearch == \A e, f \in best \ {epoch} : e = f

(* stopPlanner() returns, whatever the worker is doing when it is called.  *)
StopReturns ==
  pc["owner"] \in {"stop", "stopPause", "stopPauseSet", "stopSet", "stopSpin"}
    ~> At("owner", "idle")

(* A planner that has reached mMaxSteps does not keep running past it.     *)
LimitStops ==
  LET PastLimit == state = "RUNNING" /\ MaxSteps # -1 /\ step >= MaxSteps
  IN  PastLimit ~> ~PastLimit

(* setState(): "DONE is essentially just a flag that is guaranteed to stop *)
(* the thread".                                                            *)
DoneStopsThread == state = "DONE" ~> state = "EXITED"

=============================================================================

------------------------ MODULE EGPlannerThreadProofs ------------------------
(***************************************************************************)
(* Proofs about EGPlannerThread for every value of its constants: any      *)
(* limit on steps, any number of resets.  Assumed is what they depend on:  *)
(* the owner calls startThread() once and the planner has no time limit.   *)
(***************************************************************************)
EXTENDS EGPlannerThread, TLAPS

(* Where the owner is between a test of the state and the setState() that  *)
(* follows it, the state is still one the test let through.                *)
OwnerSafe ==
  /\ pc["owner"] = "startSpin" => starts > 0
  /\ pc["owner"] \in {"startSet", "invalidateSet"} => state = "READY"
  /\ pc["owner"] \in {"clear", "resetSet"} => state \notin {"RUNNING", "DONE"}
  /\ pc["owner"] \in {"stopPause", "stopPauseSet", "stopSet"}
       => state \notin Life!Dead
  /\ pc["owner"] = "stopSpin" => state \in Life!Dead
  /\ stopped => state = "EXITED"
  /\ pc["owner"] = "deleted" => stopped

(* The state and the position of the worker in run() and threadLoop().     *)
WorkerSafe ==
  /\ pc["worker"] = "unborn" <=> starts = 0
  /\ starts <= 1
  /\ starts = 0 => pc["owner"] = "idle" /\ state = "INIT" /\ ~stopped
  /\ pc["worker"] \in {"clone", "signal"} <=> state = "STARTING_THREAD"
  /\ state = "STARTING_THREAD" => pc["owner"] = "startSpin"
  /\ pc["worker"] \in {"returning", "ended"} <=> state = "EXITED"
  /\ pc["worker"] = "exit" => state = "DONE"
  /\ state = "DONE" => pc["owner"] = "stopSpin"
  /\ pc["worker"] \notin
       {"stop", "stopPause", "stopPauseSet", "stopSet", "stopSpin"}

(* What is known of the input where the planner is READY or RUNNING, and   *)
(* where a call is about to move it there.  Only the worker's own pause    *)
(* comes late, in a planner that does not repeat.                          *)
InputSafe ==
  /\ state = "RUNNING" => input # "changed"
  /\ state = "READY" /\ input = "changed"
       => pc["owner"] \in {"invalidateTest", "invalidateSet"}
  /\ pc["owner"] \in {"pauseSet", "stopPauseSet"}
       => state \in {"READY", "RUNNING"} /\ input # "changed"
  /\ pc["worker"] \in {"pause", "pauseSet"} => ~repeat
  /\ input = "late" => ~repeat

(* A worker whose step began before the last reset finds the list as that  *)
(* reset left it, and leaves the step when it has added to it.             *)
SearchSafe ==
  /\ pc["worker"] = "main" /\ begun # epoch => best \subseteq {epoch}
  /\ OneStaleSearch

(* resetPlanner() is only entered while a reset is left to make.           *)
ResetLeft == At("owner", "clear") => epoch < Resets

(* The inductive invariant; SearchSafe is inductive by itself.             *)
IInv == TypeOK /\ ResetLeft /\ OwnerSafe /\ WorkerSafe /\ InputSafe

(* How the owner uses the planner in the theorems that follow.             *)
Usage == ~TimeLimit /\ ThreadStarts <= 1

-----------------------------------------------------------------------------

(* Everything starts in its range.                                         *)
LEMMA RangesInit == Init => RangesOK /\ ResetLeft
  BY ThreadConstants DEF Init, RangesOK, ResetLeft, At, Thread, OwnerPoint,
     WorkerPoint, SharedPoint, Life!PlannerState

(* No step of either thread leaves a range.                                *)
LEMMA RangesStep ==
  ASSUME RangesOK, ResetLeft, [Next]_vars
  PROVE  RangesOK' /\ ResetLeft'
<1> USE ThreadConstants
<1> USE DEF RangesOK, ResetLeft, Thread, OwnerPoint, WorkerPoint, SharedPoint,
            Transition, At, Go, ReadyAgain, search, calls, Back, SetState,
            Life!Accept, Life!PlannerState
<1>1. CASE StartThread
  BY <1>1 DEF StartThread
<1>2. CASE ResetPlanner
  BY <1>2 DEF ResetPlanner
<1>3. CASE StartPlanner
  BY <1>3 DEF StartPlanner
<1>4. CASE ChangeInput
  BY <1>4 DEF ChangeInput
<1>5. CASE OwnerPause
  BY <1>5 DEF OwnerPause
<1>6. CASE OwnerStop
  BY <1>6 DEF OwnerStop
<1>7. CASE Delete
  BY <1>7 DEF Delete
<1>8. CASE StartThreadReturn
  BY <1>8 DEF StartThreadReturn
<1>9. CASE ResetClear
  BY <1>9 DEF ResetClear
<1>10. CASE ResetSet
  BY <1>10 DEF ResetSet
<1>11. CASE StartSet
  BY <1>11 DEF StartSet
<1>12. CASE InvalidateTest \/ InvalidateSet
  <2>1. CASE InvalidateTest
    BY <2>1 DEF InvalidateTest
  <2>2. CASE InvalidateSet
    BY <2>2 DEF InvalidateSet
  <2> QED BY <1>12, <2>1, <2>2
<1>13. ASSUME NEW t \in Thread, PauseOrStop(t) PROVE RangesOK' /\ ResetLeft'
  <2>1. CASE PauseTest(t)
    BY <2>1 DEF PauseTest
  <2>2. CASE PauseSet(t)
    BY <2>2 DEF PauseSet
  <2>3. CASE StopTest(t)
    BY <2>3 DEF StopTest
  <2>4. CASE StopPauseTest(t)
    BY <2>4 DEF StopPauseTest
  <2>5. CASE StopPauseSet(t)
    BY <2>5 DEF StopPauseSet
  <2>6. CASE StopSet(t)
    BY <2>6 DEF StopSet
  <2>7. CASE StopReturn(t)
    BY <2>7 DEF StopReturn
  <2> QED BY <1>13, <2>1, <2>2, <2>3, <2>4, <2>5, <2>6, <2>7 DEF PauseOrStop
<1>14. CASE CreateAndUseClone
  BY <1>14 DEF CreateAndUseClone
<1>15. CASE SignalInit
  BY <1>15 DEF SignalInit
<1>16. CASE ThreadLoop
  BY <1>16 DEF ThreadLoop
<1>17. CASE MainLoop
  BY <1>17 DEF MainLoop, AtMost
<1>18. CASE CheckInactive
  BY <1>18 DEF CheckInactive
<1>19. CASE CheckSteps
  BY <1>19 DEF CheckSteps
<1>20. CASE CheckTime
  BY <1>20 DEF CheckTime
<1>21. CASE EmitComplete
  BY <1>21 DEF EmitComplete
<1>22. CASE ThreadExit
  BY <1>22 DEF ThreadExit
<1>23. CASE RunReturn
  BY <1>23 DEF RunReturn
<1>24. CASE UNCHANGED vars
  BY <1>24 DEF vars
<1> QED
  BY <1>1, <1>2, <1>3, <1>4, <1>5, <1>6, <1>7, <1>8, <1>9, <1>10, <1>11,
     <1>12, <1>13, <1>14, <1>15, <1>16, <1>17, <1>18, <1>19, <1>20, <1>21,
     <1>22, <1>23, <1>24 DEF Next, OwnerCall, OwnerStep, WorkerStep

(* Every variable stays in its range, however the planner is used: also    *)
(* with a time limit and when startThread() is called twice.               *)
THEOREM TypeCorrect == Spec => []TypeOK
<1>1. Init => FlagsOK
  BY DEF Init, FlagsOK
<1>2. FlagsOK /\ [Next]_vars => FlagsOK'
  <2> SUFFICES ASSUME FlagsOK, [Next]_vars PROVE FlagsOK'
    OBVIOUS
  <2>0. repeat' \in BOOLEAN
    BY Zenon DEF FlagsOK, Next, OwnerCall, OwnerStep, WorkerStep, vars
  <2> USE <2>0 DEF FlagsOK, calls, search
  <2>1. CASE OwnerCall \/ UNCHANGED vars
    BY <2>1, Zenon DEF OwnerCall, StartThread, ResetPlanner, StartPlanner,
                       ChangeInput, OwnerPause, OwnerStop, Delete, vars
  <2>2. CASE StartThreadReturn \/ ResetClear \/ ResetSet \/ StartSet
               \/ InvalidateTest \/ InvalidateSet
    BY <2>2, Zenon DEF StartThreadReturn, ResetClear, ResetSet, StartSet,
                       InvalidateTest, InvalidateSet
  <2>3. ASSUME NEW t \in Thread, PauseOrStop(t) PROVE FlagsOK'
    BY <2>3, Zenon DEF PauseOrStop, PauseTest, PauseSet, StopTest,
                       StopPauseTest, StopPauseSet, StopSet, StopReturn
  <2>4. CASE CreateAndUseClone \/ SignalInit \/ ThreadLoop \/ MainLoop
               \/ CheckInactive \/ CheckSteps \/ CheckTime
    BY <2>4, Zenon DEF CreateAndUseClone, SignalInit, ThreadLoop, MainLoop,
                       CheckInactive, CheckSteps, CheckTime
  <2>5. CASE EmitComplete \/ ThreadExit \/ RunReturn
    BY <2>5, Zenon DEF EmitComplete, ThreadExit, RunReturn
  <2> QED
    BY <2>1, <2>2, <2>3, <2>4, <2>5
    DEF Next, OwnerStep, WorkerStep, Thread
<1> QED
  BY <1>1, <1>2, RangesInit, RangesStep, PTL DEF Spec, TypeOK

-----------------------------------------------------------------------------

(* Nobody has called anything yet.                                         *)
LEMMA SafeInit == Init => OwnerSafe /\ WorkerSafe /\ InputSafe
  BY DEF Init, OwnerSafe, WorkerSafe, InputSafe, Thread, Life!Dead

(* What the threads know of the state survives every step of the other.    *)
LEMMA SafeStep ==
  ASSUME Usage, RangesOK, ResetLeft, OwnerSafe, WorkerSafe,
         [Next]_vars
  PROVE  OwnerSafe' /\ WorkerSafe'
<1> USE ThreadConstants
<1> USE DEF Usage, RangesOK, ResetLeft, OwnerSafe, WorkerSafe,
            Thread, OwnerPoint, WorkerPoint, SharedPoint, Transition, At, Go,
            ReadyAgain, search, calls, Back, SetState, Live, Life!Accept,
            Life!PlannerState, Life!Dead
<1>1. CASE StartThread
  BY <1>1 DEF StartThread
<1>2. CASE ResetPlanner
  BY <1>2 DEF ResetPlanner
<1>3. CASE StartPlanner
  BY <1>3 DEF StartPlanner
<1>4. CASE ChangeInput
  BY <1>4 DEF ChangeInput
<1>5. CASE OwnerPause
  BY <1>5 DEF OwnerPause
<1>6. CASE OwnerStop
  BY <1>6 DEF OwnerStop
<1>7. CASE Delete
  BY <1>7 DEF Delete
<1>8. CASE StartThreadReturn
  BY <1>8 DEF StartThreadReturn
<1>9. CASE ResetClear
  BY <1>9 DEF ResetClear
<1>10. CASE ResetSet
  BY <1>10 DEF ResetSet
<1>11. CASE StartSet
  BY <1>11 DEF StartSet
<1>12. CASE InvalidateTest \/ InvalidateSet
  BY <1>12 DEF InvalidateTest, InvalidateSet
<1>13. ASSUME NEW t \in Thread, PauseOrStop(t)
      PROVE  OwnerSafe' /\ WorkerSafe'
  <2>1. CASE PauseTest(t)
    BY <2>1 DEF PauseTest
  <2>2. CASE PauseSet(t)
    BY <2>2 DEF PauseSet
  <2>3. CASE StopTest(t)
    BY <2>3 DEF StopTest
  <2>4. CASE StopPauseTest(t)
    BY <2>4 DEF StopPauseTest
  <2>5. CASE StopPauseSet(t)
    BY <2>5 DEF StopPauseSet
  <2>6. CASE StopSet(t)
    BY <2>6 DEF StopSet
  <2>7. CASE StopReturn(t)
    BY <2>7 DEF StopReturn
  <2> QED BY <1>13, <2>1, <2>2, <2>3, <2>4, <2>5, <2>6, <2>7 DEF PauseOrStop
<1>14. CASE CreateAndUseClone
  BY <1>14 DEF CreateAndUseClone
<1>15. CASE SignalInit
  BY <1>15 DEF SignalInit
<1>16. CASE ThreadLoop
  BY <1>16 DEF ThreadLoop
<1>17. CASE MainLoop
  BY <1>17 DEF MainLoop
<1>18. CASE CheckInactive
  BY <1>18 DEF CheckInactive
<1>19. CASE CheckSteps
  BY <1>19 DEF CheckSteps
<1>20. CASE CheckTime
  BY <1>20 DEF CheckTime
<1>21. CASE EmitComplete
  BY <1>21 DEF EmitComplete
<1>22. CASE ThreadExit
  BY <1>22 DEF ThreadExit
<1>23. CASE RunReturn
  BY <1>23 DEF RunReturn
<1>24. CASE UNCHANGED vars
  BY <1>24 DEF vars
<1> QED
  BY <1>1, <1>2, <1>3, <1>4, <1>5, <1>6, <1>7, <1>8, <1>9, <1>10, <1>11,
     <1>12, <1>13, <1>14, <1>15, <1>16, <1>17, <1>18, <1>19, <1>20, <1>21,
     <1>22, <1>23, <1>24 DEF Next, OwnerCall, OwnerStep, WorkerStep

(* A step leaves what is known of the input: one step per call that can    *)
(* change the input, the state or what a call is about to do.              *)
LEMMA InputStep ==
  ASSUME Usage, RangesOK, OwnerSafe, WorkerSafe, InputSafe, [Next]_vars
  PROVE  InputSafe'
<1>0. repeat' = repeat
  BY DEF Next, OwnerCall, OwnerStep, WorkerStep, vars
<1> USE <1>0, ThreadConstants
<1> USE DEF Usage, RangesOK, OwnerSafe, WorkerSafe, InputSafe,
            Thread, OwnerPoint, WorkerPoint, SharedPoint, Transition, At, Go,
            ReadyAgain, search, calls, Back, SetState, Live, Life!Accept,
            Life!PlannerState, Life!Dead
<1>1. CASE StartThread
  BY <1>1 DEF StartThread
<1>2. CASE ResetPlanner
  BY <1>2 DEF ResetPlanner
<1>3. CASE StartPlanner
  BY <1>3 DEF StartPlanner
<1>4. CASE ChangeInput
  BY <1>4 DEF ChangeInput
<1>5. CASE OwnerPause
  BY <1>5 DEF OwnerPause
<1>6. CASE OwnerStop
  BY <1>6 DEF OwnerStop
<1>7. CASE Delete
  BY <1>7 DEF Delete
<1>8. CASE StartThreadReturn
  BY <1>8 DEF StartThreadReturn
<1>9. CASE ResetClear
  BY <1>9 DEF ResetClear
<1>10. CASE ResetSet
  BY <1>10 DEF ResetSet
<1>11. CASE StartSet
  BY <1>11 DEF StartSet
<1>12. CASE InvalidateTest \/ InvalidateSet
  BY <1>12 DEF InvalidateTest, InvalidateSet
<1>13. ASSUME NEW t \in Thread, PauseOrStop(t)
      PROVE  InputSafe'
  <2>1. CASE PauseTest(t)
    BY <2>1 DEF PauseTest
  <2>2. CASE PauseSet(t)
    BY <2>2 DEF PauseSet
  <2>3. CASE StopTest(t)
    BY <2>3 DEF StopTest
  <2>4. CASE StopPauseTest(t)
    BY <2>4 DEF StopPauseTest
  <2>5. CASE StopPauseSet(t)
    BY <2>5 DEF StopPauseSet
  <2>6. CASE StopSet(t)
    BY <2>6 DEF StopSet
  <2>7. CASE StopReturn(t)
    BY <2>7 DEF StopReturn
  <2> QED BY <1>13, <2>1, <2>2, <2>3, <2>4, <2>5, <2>6, <2>7 DEF PauseOrStop
<1>14. CASE CreateAndUseClone
  BY <1>14 DEF CreateAndUseClone
<1>15. CASE SignalInit
  BY <1>15 DEF SignalInit
<1>16. CASE ThreadLoop
  BY <1>16 DEF ThreadLoop
<1>17. CASE MainLoop
  BY <1>17 DEF MainLoop
<1>18. CASE CheckInactive
  BY <1>18 DEF CheckInactive
<1>19. CASE CheckSteps
  BY <1>19 DEF CheckSteps
<1>20. CASE CheckTime
  BY <1>20 DEF CheckTime
<1>21. CASE EmitComplete
  BY <1>21 DEF EmitComplete
<1>22. CASE ThreadExit
  BY <1>22 DEF ThreadExit
<1>23. CASE RunReturn
  BY <1>23 DEF RunReturn
<1>24. CASE UNCHANGED vars
  BY <1>24 DEF vars
<1> QED
  BY <1>1, <1>2, <1>3, <1>4, <1>5, <1>6, <1>7, <1>8, <1>9, <1>10, <1>11,
     <1>12, <1>13, <1>14, <1>15, <1>16, <1>17, <1>18, <1>19, <1>20, <1>21,
     <1>22, <1>23, <1>24 DEF Next, OwnerCall, OwnerStep, WorkerStep

(* Every step is one of the life cycle, or leaves the state alone.         *)
LEMMA LifeStep ==
  ASSUME Usage, RangesOK, OwnerSafe, WorkerSafe, InputSafe, [Next]_vars
  PROVE  [Life!Next]_state
<1> USE ThreadConstants
<1> USE DEF Usage, RangesOK, OwnerSafe, WorkerSafe, InputSafe, Thread,
            OwnerPoint, WorkerPoint, SharedPoint, Transition, At, Go,
            ReadyAgain, search, calls, Back,
            SetState, Live, Life!Accept, Life!PlannerState, Life!Dead,
            Life!Next, Life!StartThread, Life!ThreadUp, Life!Reset,
            Life!Start, Life!Pause, Life!Invalidate, Life!Stop, Life!Exit
<1>1. CASE StartThread
  BY <1>1 DEF StartThread
<1>2. CASE ResetPlanner
  BY <1>2 DEF ResetPlanner
<1>3. CASE StartPlanner
  BY <1>3 DEF StartPlanner
<1>4. CASE ChangeInput
  BY <1>4 DEF ChangeInput
<1>5. CASE OwnerPause
  BY <1>5 DEF OwnerPause
<1>6. CASE OwnerStop
  BY <1>6 DEF OwnerStop
<1>7. CASE Delete
  BY <1>7 DEF Delete
<1>8. CASE StartThreadReturn
  BY <1>8 DEF StartThreadReturn
<1>9. CASE ResetClear
  BY <1>9 DEF ResetClear
<1>10. CASE ResetSet
  BY <1>10 DEF ResetSet
<1>11. CASE StartSet
  BY <1>11 DEF StartSet
<1>12. CASE InvalidateTest \/ InvalidateSet
  BY <1>12 DEF InvalidateTest, InvalidateSet
<1>13. ASSUME NEW t \in Thread, PauseOrStop(t)
      PROVE  [Life!Next]_state
  <2>1. CASE PauseTest(t)
    BY <2>1 DEF PauseTest
  <2>2. CASE PauseSet(t)
    BY <2>2 DEF PauseSet
  <2>3. CASE StopTest(t)
    BY <2>3 DEF StopTest
  <2>4. CASE StopPauseTest(t)
    BY <2>4 DEF StopPauseTest
  <2>5. CASE StopPauseSet(t)
    BY <2>5 DEF StopPauseSet
  <2>6. CASE StopSet(t)
    BY <2>6 DEF StopSet
  <2>7. CASE StopReturn(t)
    BY <2>7 DEF StopReturn
  <2> QED BY <1>13, <2>1, <2>2, <2>3, <2>4, <2>5, <2>6, <2>7 DEF PauseOrStop
<1>14. CASE CreateAndUseClone
  BY <1>14 DEF CreateAndUseClone
<1>15. CASE SignalInit
  BY <1>15 DEF SignalInit
<1>16. CASE ThreadLoop
  BY <1>16 DEF ThreadLoop
<1>17. CASE MainLoop
  BY <1>17 DEF MainLoop
<1>18. CASE CheckInactive
  BY <1>18 DEF CheckInactive
<1>19. CASE CheckSteps
  BY <1>19 DEF CheckSteps
<1>20. CASE CheckTime
  BY <1>20 DEF CheckTime
<1>21. CASE EmitComplete
  BY <1>21 DEF EmitComplete
<1>22. CASE ThreadExit
  BY <1>22 DEF ThreadExit
<1>23. CASE RunReturn
  BY <1>23 DEF RunReturn
<1>24. CASE UNCHANGED vars
  BY <1>24 DEF vars
<1> QED
  BY <1>1, <1>2, <1>3, <1>4, <1>5, <1>6, <1>7, <1>8, <1>9, <1>10, <1>11,
     <1>12, <1>13, <1>14, <1>15, <1>16, <1>17, <1>18, <1>19, <1>20, <1>21,
     <1>22, <1>23, <1>24 DEF Next, OwnerCall, OwnerStep, WorkerStep

(* Of the steps, only the worker entering or leaving mainLoop() and a      *)
(* reset touch the list or the searches it is compared with.               *)
LEMMA SearchStep == RangesOK /\ SearchSafe /\ [Next]_vars => SearchSafe'
<1> SUFFICES ASSUME RangesOK, SearchSafe, [Next]_vars PROVE SearchSafe'
  OBVIOUS
<1>1. CASE ResetClear
  BY <1>1 DEF ResetClear, RangesOK, SearchSafe, OneStaleSearch, Thread,
     Transition, At, Go
<1>2. CASE ThreadLoop
  BY <1>2 DEF ThreadLoop, RangesOK, SearchSafe, OneStaleSearch, Thread, At, Go
<1>3. CASE MainLoop
  BY <1>3 DEF MainLoop, RangesOK, SearchSafe, OneStaleSearch, Thread,
     Transition, At, Go, calls
<1> DEFINE Elsewhere == /\ UNCHANGED <<epoch, begun, best>>
                        /\ pc'["worker"] = "main" => pc["worker"] = "main"
<1>4. CASE Elsewhere
  BY <1>4 DEF SearchSafe, OneStaleSearch
<1> USE DEF RangesOK, Thread, Transition, At, Go, Back, search
<1>5. CASE OwnerCall \/ UNCHANGED vars
  BY <1>4, <1>5 DEF OwnerCall, StartThread, ResetPlanner, StartPlanner,
     ChangeInput, OwnerPause, OwnerStop, Delete, vars
<1>6. CASE StartThreadReturn \/ ResetSet \/ StartSet \/ InvalidateTest
             \/ InvalidateSet
  BY <1>4, <1>6 DEF StartThreadReturn, ResetSet, StartSet, InvalidateTest,
     InvalidateSet
<1>7. ASSUME NEW t \in Thread, PauseOrStop(t) PROVE Elsewhere
  BY <1>7 DEF PauseOrStop, PauseTest, PauseSet, StopTest, StopPauseTest,
     StopPauseSet, StopSet, StopReturn
<1>8. CASE CreateAndUseClone \/ SignalInit \/ CheckInactive \/ CheckSteps
             \/ CheckTime
  BY <1>4, <1>8 DEF CreateAndUseClone, SignalInit, CheckInactive, CheckSteps,
     CheckTime
<1>9. CASE EmitComplete \/ ThreadExit \/ RunReturn
  BY <1>4, <1>9 DEF EmitComplete, ThreadExit, RunReturn
<1> QED
  BY <1>1, <1>2, <1>3, <1>4, <1>5, <1>6, <1>7, <1>8, <1>9
  DEF Next, OwnerStep, WorkerStep

-----------------------------------------------------------------------------
(* The inductive invariant holds of a planner that is used as Usage says.  *)
THEOREM Invariant == ASSUME Usage PROVE Spec => []IInv
<1>1. Init => RangesOK /\ ResetLeft /\ OwnerSafe /\ WorkerSafe /\ InputSafe
  BY RangesInit, SafeInit
<1>2. RangesOK /\ ResetLeft /\ OwnerSafe /\ WorkerSafe /\ InputSafe
        /\ [Next]_vars
      => RangesOK' /\ ResetLeft' /\ OwnerSafe' /\ WorkerSafe' /\ InputSafe'
  BY RangesStep, SafeStep, InputStep
<1> QED
  BY <1>1, <1>2, TypeCorrect, PTL DEF Spec, IInv

(* When stopPlanner() has returned to the owner the worker has left        *)
(* threadLoop() for good.                                                  *)
THEOREM StopIsFinal == ASSUME Usage PROVE Spec => []StopMeansExited
<1>1. IInv => StopMeansExited
  BY DEF IInv, OwnerSafe, WorkerSafe, StopMeansExited
<1> QED
  BY <1>1, Invariant, PTL

(* A planner runs on input prepared since it changed, but for the one late *)
(* call of a planner that pauses itself.                                   *)
THEOREM AlwaysRunsPrepared == ASSUME Usage PROVE Spec => []RunsOnPreparedInput
<1>1. IInv => RunsOnPreparedInput
  BY DEF IInv, InputSafe, RunsOnPreparedInput, TypeOK, RangesOK
<1> QED
  BY <1>1, Invariant, PTL

(* Whatever falls between the two threads, at most one search of before    *)
(* the last reset has a solution in the list, however the planner is used. *)
THEOREM AlwaysOneStaleSearch == Spec => []OneStaleSearch
<1>1. Init => SearchSafe
  BY DEF Init, Thread, SearchSafe, OneStaleSearch
<1>2. SearchSafe => OneStaleSearch
  BY DEF SearchSafe
<1> QED
  BY <1>1, <1>2, SearchStep, TypeCorrect, PTL DEF Spec, TypeOK

(* Every interleaving of the two threads follows the planner's life cycle. *)
THEOREM ImplementsLifeCycle == ASSUME Usage PROVE Spec => LifeCycleSafety
<1>1. Init => Life!Init
  BY DEF Init, Life!Init
<1>2. IInv /\ [Next]_vars => [Life!Next]_state
  BY LifeStep DEF IInv, TypeOK
<1> QED
  BY <1>1, <1>2, Invariant, PTL DEF Spec, LifeCycleSafety
=============================================================================

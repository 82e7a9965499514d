---------------------------- MODULE OnLinePlanner ----------------------------
(***************************************************************************)
(* OnLinePlanner and GraspTester: the planner searches in the main thread, *)
(* from the idle sensor, and hands promising grasps to a tester in a       *)
(* thread of its own, which closes the hand on them and hands the good     *)
(* ones back.  A grasp is a pointer that changes hands:                    *)
(*                                                                         *)
(*   candidates -> queue -> testing -> solutions -> best                   *)
(*                                                                         *)
(* candidates and best belong to the planner, testing to the tester, queue *)
(* and solutions (mCandidateList and mSolutionList of GraspTester) are     *)
(* shared under mListMutex, so each access to them is one step.  The life  *)
(* cycle of the tester as a thread is the subject of EGPlannerThread.      *)
(***************************************************************************)
EXTENDS Subsequences, SequencesExt

CONSTANTS
  CandidateBuffer,   (* CANDIDATE_BUFFER_SIZE                              *)
  SolutionBuffer,    (* SOLUTION_BUFFER_SIZE                               *)
  MaxCandidates,     (* mMaxCandidates                                     *)
  MaxGrasps,         (* bound: grasps the search comes up with             *)
  MaxResets          (* bound: calls of resetPlanner()                     *)

ASSUME PipelineConstants ==
  /\ CandidateBuffer \in Nat \ {0} /\ SolutionBuffer \in Nat \ {0}
  /\ MaxCandidates \in Nat
  /\ MaxGrasps \in Nat /\ MaxResets \in Nat

VARIABLES
  main,        (* where the main thread is in a call of the planner        *)
  worker,      (* where the tester's thread is in its loop                 *)
  search,      (* mState of the OnLinePlanner                              *)
  tester,      (* mState of the GraspTester                                *)
  candidates,  (* OnLinePlanner::mCandidateList                            *)
  queue,       (* GraspTester::mCandidateList                              *)
  testing,     (* the grasp mainLoop() of the tester holds, as a set       *)
  solutions,   (* GraspTester::mSolutionList                               *)
  best,        (* mBestList of the OnLinePlanner                           *)
  born,        (* the search each grasp comes from, in order of creation   *)
  epoch        (* resets that went through                                 *)

vars == <<main, worker, search, tester, candidates, queue, testing, solutions,
          best, born, epoch>>

lists == <<candidates, queue, testing, solutions, best, born, epoch>>

Init ==
  /\ main = "idle" /\ worker = "loop"
  /\ search = "INIT" /\ tester = "INIT"
  /\ candidates = <<>> /\ queue = <<>> /\ testing = {}
  /\ solutions = <<>> /\ best = <<>>
  /\ born = <<>> /\ epoch = 0

-----------------------------------------------------------------------------
(* The main thread: the idle sensor calls mainLoop() while the planner is  *)
(* RUNNING; the user's calls come from the same thread, between two calls  *)
(* of the sensor.                                                          *)

Idle == main = "idle" /\ search # "DONE"
Call(to) == main = "idle" /\ main' = to

(* Both lists of the planner are cut to their size from the back.          *)
Shortened(list, size) == IF Len(list) > size THEN SubSeq(list, 1, size) ELSE list

(* graspLoop(): annealing proposes a grasp.  addToListOfUniqueSolutions()  *)
(* may take near and worse ones out of the list and may turn the new one   *)
(* down; the rest is sorted by energy and the worst is deleted when the    *)
(* list is full.  SolutionLists has the rule; here any outcome of it will  *)
(* do.                                                                     *)
GraspLoop ==
  /\ main = "idle" /\ search = "RUNNING" /\ Len(born) < MaxGrasps
  /\ born' = Append(born, epoch)
  /\ \/ UNCHANGED candidates
     \/ \E far \in SUBSET DOMAIN candidates :
          LET kept == Subsequence(candidates, far)
          IN  \E i \in 1..Len(kept) + 1 :
                candidates' = Shortened(InsertAt(kept, i, Len(born) + 1),
                                    CandidateBuffer)
  /\ UNCHANGED <<main, worker, search, tester, queue, testing, solutions, best,
                 epoch>>

(* The management part of mainLoop(), every 0.2 seconds.                   *)
Manage ==
  /\ search = "RUNNING"
  /\ Call("posting")
  /\ UNCHANGED <<worker, search, tester, lists>>

(* Mutant of Full: the buffer takes no notice of its limit.                *)
NeverFull == FALSE

(* postCandidate() refuses a grasp when the queue is longer than           *)
(* mMaxCandidates.                                                         *)
Full == Len(queue) > MaxCandidates

PostCandidate ==
  /\ main = "posting" /\ candidates # <<>> /\ ~Full
  /\ queue' = Append(queue, Head(candidates))
  /\ candidates' = Tail(candidates)
  /\ UNCHANGED <<main, worker, search, tester, testing, solutions, best, born,
                 epoch>>

PostingDone ==
  /\ main = "posting" /\ (candidates = <<>> \/ Full)
  /\ main' = "retrieving"
  /\ UNCHANGED <<worker, search, tester, lists>>

(* popSolution()                                                           *)
RetrieveSolution ==
  /\ main = "retrieving" /\ solutions # <<>>
  /\ best' = Append(best, Head(solutions))
  /\ solutions' = Tail(solutions)
  /\ UNCHANGED <<main, worker, search, tester, candidates, queue, testing,
                 born, epoch>>

(* updateSolutionList() sorts the solutions by their distance from the     *)
(* hand, which moves, and deletes the farthest.                            *)
UpdateSolutionList ==
  /\ main = "retrieving" /\ solutions = <<>>
  /\ \E sorted \in Rearrangements(best) : best' = Shortened(sorted, SolutionBuffer)
  /\ main' = "idle"
  /\ UNCHANGED <<worker, search, tester, candidates, queue, testing, solutions,
                 born, epoch>>

-----------------------------------------------------------------------------
(* The user's calls.                                                       *)

(* Mutant of StartPlanner: the tester is not started.                      *)
StartPlannerAlone ==
  /\ Idle
  /\ search' = IF search = "READY" THEN "RUNNING" ELSE search
  /\ UNCHANGED <<main, worker, tester, lists>>

StartPlanner ==
  /\ Idle
  /\ search' = IF search = "READY" THEN "RUNNING" ELSE search
  /\ tester' = IF tester = "READY" THEN "RUNNING" ELSE tester
  /\ UNCHANGED <<main, worker, lists>>

(* pausePlanner() pauses the tester, sleeps for a second, and pauses the   *)
(* search.  A test may take longer.                                        *)
PausePlanner ==
  /\ Idle /\ Call("sleeping")
  /\ tester' = IF tester = "RUNNING" THEN "READY" ELSE tester
  /\ UNCHANGED <<worker, search, lists>>

PauseSearch ==
  /\ main = "sleeping" /\ main' = "idle"
  /\ search' = IF search = "RUNNING" THEN "READY" ELSE search
  /\ UNCHANGED <<worker, tester, lists>>

(* setModelState() ends in invalidateReset().                              *)
SetModelState ==
  /\ Idle
  /\ search' = IF search = "READY" THEN "INIT" ELSE search
  /\ UNCHANGED <<main, worker, tester, lists>>

(* GraspTester::resetPlanner() goes first, and is refused while the tester *)
(* runs.  It makes the tester READY before it clears its buffers.          *)
ResetPlanner ==
  /\ Idle /\ epoch < MaxResets
  /\ tester \notin {"RUNNING", "DONE", "EXITED"}
  /\ Call("clearing")
  /\ tester' = "READY"
  /\ UNCHANGED <<worker, search, lists>>

(* Mutant of ClearBuffers: only the queue is cleared.                      *)
ClearQueue ==
  /\ main = "clearing" /\ main' = "resetting"
  /\ queue' = <<>>
  /\ UNCHANGED <<worker, search, tester, candidates, testing, solutions, best,
                 born, epoch>>

(* clearBuffers() deletes what is in the shared lists.                     *)
ClearBuffers ==
  /\ main = "clearing" /\ main' = "resetting"
  /\ queue' = <<>> /\ solutions' = <<>>
  /\ UNCHANGED <<worker, search, tester, candidates, testing, best, born, epoch>>

(* The rest of OnLinePlanner::resetPlanner(): its own lists, and READY.    *)
(* EGPlanner::resetPlanner() would refuse a RUNNING search, but then the   *)
(* tester runs as well.                                                    *)
ResetSearch ==
  /\ main = "resetting" /\ main' = "idle"
  /\ candidates' = <<>>
  /\ IF search \in {"RUNNING", "DONE"}
     THEN UNCHANGED <<search, best, epoch>>
     ELSE search' = "READY" /\ best' = <<>> /\ epoch' = epoch + 1
  /\ UNCHANGED <<worker, tester, queue, testing, solutions, born>>

(* ~OnLinePlanner(): stopPlanner() and wait() for the tester ...           *)
DeleteStop ==
  /\ Idle /\ Call("waiting")
  /\ tester' = "DONE" /\ search' = "DONE"
  /\ UNCHANGED <<worker, lists>>

(* ... then ~GraspTester() clears the buffers and ~EGPlanner() mBestList.  *)
DeleteJoined ==
  /\ main = "waiting" /\ worker = "ended" /\ main' = "deleted"
  /\ queue' = <<>> /\ solutions' = <<>> /\ best' = <<>>
  /\ UNCHANGED <<worker, search, tester, candidates, testing, born,
                 epoch>>

-----------------------------------------------------------------------------
(* The tester's thread.                                                    *)

(* threadLoop() reads the state and calls mainLoop() when it is RUNNING.   *)
TesterLoop ==
  /\ worker = "loop" /\ tester = "RUNNING"
  /\ worker' = "pop"
  /\ UNCHANGED <<main, search, tester, lists>>

(* Mutant of TesterExit: a planner that is DONE keeps its thread.          *)
TesterExitLate ==
  /\ worker = "loop" /\ tester = "EXITED"
  /\ worker' = "ended"
  /\ UNCHANGED <<main, search, tester, lists>>

TesterExit ==
  /\ worker = "loop" /\ tester = "DONE"
  /\ worker' = "ended" /\ tester' = "EXITED"
  /\ UNCHANGED <<main, search, lists>>

(* Mutant of PopCandidate: the newest candidate is taken.                  *)
PopNewest ==
  /\ worker = "pop"
  /\ IF queue = <<>>
     THEN worker' = "loop" /\ UNCHANGED <<queue, testing>>
     ELSE /\ worker' = "test"
          /\ testing' = {queue[Len(queue)]}
          /\ queue' = SubSeq(queue, 1, Len(queue) - 1)
  /\ UNCHANGED <<main, search, tester, candidates, solutions, best, born, epoch>>

PopCandidate ==
  /\ worker = "pop"
  /\ IF queue = <<>>
     THEN worker' = "loop" /\ UNCHANGED <<queue, testing>>
     ELSE /\ worker' = "test"
          /\ testing' = {Head(queue)}
          /\ queue' = Tail(queue)
  /\ UNCHANGED <<main, search, tester, candidates, solutions, best, born, epoch>>

(* Mutant of TestGrasp: a grasp that fails is put back for another test.   *)
TestGraspAgain ==
  /\ worker = "test" /\ worker' = "loop"
  /\ testing' = {}
  /\ \E g \in testing :
       \/ solutions' = Append(solutions, g) /\ UNCHANGED queue
       \/ queue' = <<g>> \o queue /\ UNCHANGED solutions
  /\ UNCHANGED <<main, search, tester, candidates, best, born, epoch>>

(* testGrasp(): the grasp is legal and good and is posted, or is deleted.  *)
TestGrasp ==
  /\ worker = "test" /\ worker' = "loop"
  /\ testing' = {}
  /\ \E g \in testing : solutions' \in {solutions, Append(solutions, g)}
  /\ UNCHANGED <<main, search, tester, candidates, queue, best, born,
                 epoch>>

-----------------------------------------------------------------------------

User == StartPlanner \/ PausePlanner \/ SetModelState \/ ResetPlanner \/ DeleteStop

(* What follows by itself: the sensor's calls and the rest of every call.  *)
MainStep ==
  \/ Manage \/ PostCandidate \/ PostingDone \/ RetrieveSolution
  \/ UpdateSolutionList \/ PauseSearch \/ ClearBuffers \/ ResetSearch
  \/ DeleteJoined

Tester == TesterLoop \/ TesterExit \/ PopCandidate \/ TestGrasp

Next == User \/ GraspLoop \/ MainStep \/ Tester

(* The sensor is scheduled again after each call, and the operating system *)
(* schedules the tester's thread.                                          *)
Spec == Init /\ [][Next]_vars /\ WF_vars(MainStep) /\ WF_vars(Tester)
-----------------------------------------------------------------------------

State == {"INIT", "READY", "RUNNING", "DONE", "EXITED"}

(* The variables keep to their ranges; no list of the planner outgrows its *)
(* buffer between two calls, the queue takes one more than its limit.      *)
TypeOK ==
  /\ main \in {"idle", "posting", "retrieving", "sleeping", "clearing",
               "resetting", "waiting", "deleted"}
  /\ worker \in {"loop", "pop", "test", "ended"}
  /\ search \in State /\ tester \in State
  /\ Len(born) <= MaxGrasps /\ epoch \in 0..MaxResets
  /\ Len(candidates) <= CandidateBuffer
  /\ Len(queue) <= MaxCandidates + 1
  /\ main = "idle" => Len(best) <= SolutionBuffer
  /\ Cardinality(testing) = (IF worker = "test" THEN 1 ELSE 0)

Places == <<ToSet(candidates), ToSet(queue), testing, ToSet(solutions),
            ToSet(best)>>

(* The two threads keep the promise of GraspFlow: whoever deletes a grasp  *)
(* or changes its hand is the only one to hold it, and grasps are tested,  *)
(* and come back, in the order they were posted.                           *)
Flow == INSTANCE GraspFlow WITH
  made <- Len(born),
  open <- ToSet(candidates),
  pipe <- solutions \o SetToSeq(testing) \o queue,
  kept <- ToSet(best)
ImplementsFlow == Flow!Spec

Stale == {g \in UNION {Places[i] : i \in DOMAIN Places} : born[g] < epoch}

(* A reset does not reach the grasp that is being tested; but nothing else *)
(* of an earlier search is left.                                           *)
OneStaleAtMost == main = "idle" => Cardinality(Stale) <= 1

(* The search never runs without its tester, unless it is being paused.    *)
SearchHasTester ==
  search = "RUNNING" => tester = "RUNNING" \/ main = "sleeping"

(* A grasp in the tester's queue is taken out of it, unless the tester is  *)
(* paused or stopped.                                                      *)
QueueMoves ==
  \A g \in 1..MaxGrasps : g \in ToSet(queue) ~>
    (g \notin ToSet(queue) \/ tester # "RUNNING")

(* delete returns: the tester's thread ends whatever it is doing.          *)
DeleteReturns == main = "waiting" ~> main = "deleted"
=============================================================================

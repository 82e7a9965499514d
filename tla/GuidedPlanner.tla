---------------------------- MODULE GuidedPlanner ----------------------------
(***************************************************************************)
(* GuidedPlanner: the planner anneals in the main thread, from the idle    *)
(* sensor, queues promising states as seeds, and fires off children, each  *)
(* a SimAnnPlanner in a thread of its own, to search around them.  What a  *)
(* child found is collected when the child has stopped.                    *)
(*                                                                         *)
(* pausePlanner() and stopPlanner() stop the children one by one and emit  *)
(* complete() in the middle.  A signal is a direct call of its slots: the  *)
(* main thread goes on when they are through (signal = "none" again).      *)
(* Slots are modelled by the module that uses the planner.                 *)
(***************************************************************************)
EXTENDS SolutionLists

CONSTANTS
  Solution,         (* the states the search can reach                     *)
  ChildSolution,    (* the states the children come up with                *)
  None,             (* a child without a solution                          *)
  MaxChildren,      (* mMaxChildren                                        *)
  ChildSeedSize,    (* mChildSeedSize                                      *)
  MinChildEnergy,   (* mMinChildEnergy                                     *)
  MaxJumps          (* bound: good states the search comes upon            *)

ASSUME GuidedConstants ==
  /\ MaxChildren \in Nat \ {0} /\ ChildSeedSize \in Nat \ {0}
  /\ MaxJumps \in Nat
  /\ ChildSolution \subseteq Solution /\ None \notin Solution
  /\ \A s \in Solution : Energy(s) \in Int /\ Near(s, s)
  /\ \A s, t \in Solution : Near(s, t) <=> Near(t, s)

VARIABLES
  state,      (* mState                                                    *)
  main,       (* where the main thread is in a call of the planner         *)
  call,       (* the call it is in: pause or stop                          *)
  limit,      (* that call was made by checkTerminationConditions()        *)
  signal,     (* the signal whose slots are being called                   *)
  repeat,     (* mRepeat                                                   *)
  timed,      (* mMaxTime # -1                                             *)
  seeds,      (* mChildSeeds                                               *)
  avoid,      (* mAvoidList                                                *)
  children,   (* mChildPlanners: seed, best solution and phase of each     *)
  best,       (* mBestList: pre-grasps and final grasps                    *)
  sent,       (* the seeds handed to children since the last reset         *)
  found,      (* everything that was put in mBestList since the last reset *)
  jumps       (* good states the search came upon                          *)

calling == <<main, call, limit, signal>>
lists   == <<seeds, avoid, children, best, sent, found>>
guided  == <<state, main, call, limit, signal, repeat, timed, seeds, avoid,
             children, best, sent, found, jumps>>

GuidedInit ==
  /\ state = "INIT" /\ main = "idle" /\ call = "none" /\ limit = FALSE
  /\ signal = "none"
  /\ seeds = <<>> /\ avoid = {} /\ children = <<>> /\ best = <<>>
  /\ sent = <<>> /\ found = <<>> /\ jumps = 0

At(p) == main = p /\ signal = "none"
Idle  == At("idle")

-----------------------------------------------------------------------------
(* Children.                                                               *)

Pair(s) == <<[kind |-> "pre-grasp", of |-> s], [kind |-> "final", of |-> s]>>

Stopped(list) == Subsequence(list, {i \in DOMAIN list : list[i].phase # "running"})
Running(list) == Subsequence(list, {i \in DOMAIN list : list[i].phase = "running"})
Results(list) ==
  LET with == Subsequence(list, {i \in DOMAIN list : list[i].best # None})
  IN  [i \in DOMAIN with |-> with[i].best]

(* The pre-grasps and final grasps of a list of solutions.                 *)
Pairs(results) == [i \in 1..2 * Len(results) |->
                     Pair(results[(i + 1) \div 2])[IF i % 2 = 1 THEN 1 ELSE 2]]

Child(seed) == [seed |-> seed, best |-> None, phase |-> "running"]

(* Mutant of Fired: children are fired while the planner is paused.        *)
FiredAlways ==
  LET free == MaxChildren - Len(Running(children))
  IN  IF free < Len(seeds) THEN free ELSE Len(seeds)

(* How many children checkChildren() fires: none while the planner is not  *)
(* RUNNING, else as many as there is room and seeds for.                   *)
Fired ==
  IF state # "RUNNING" THEN 0
  ELSE LET free == MaxChildren - Len(Running(children))
       IN  IF free < Len(seeds) THEN free ELSE Len(seeds)

(* Mutant of CheckChildren: the seeds are not avoided.                     *)
CheckChildrenForget ==
  LET results == Results(Stopped(children))
      used    == SubSeq(seeds, 1, Fired)
  IN  /\ best'  = best \o Pairs(results)
      /\ found' = found \o Pairs(results)
      /\ avoid' = avoid \cup InList(results)
      /\ children' = Running(children) \o [i \in DOMAIN used |-> Child(used[i])]
      /\ sent'  = sent \o used
      /\ seeds' = SubSeq(seeds, Fired + 1, Len(seeds))

(* checkChildren(): stopChild() and delete for every child that is not     *)
(* active, then startChild() for seeds from the front of the queue.        *)
CheckChildren ==
  LET results == Results(Stopped(children))
      used    == SubSeq(seeds, 1, Fired)
  IN  /\ best'  = best \o Pairs(results)
      /\ found' = found \o Pairs(results)
      /\ avoid' = avoid \cup InList(results) \cup InList(used)
      /\ children' = Running(children) \o [i \in DOMAIN used |-> Child(used[i])]
      /\ sent'  = sent \o used
      /\ seeds' = SubSeq(seeds, Fired + 1, Len(seeds))

(* The threads of the children: a better solution ...                      *)
ChildJump ==
  \E i \in DOMAIN children, s \in ChildSolution :
    /\ children[i].phase = "running"
    /\ children[i].best \in {None} \cup {t \in Solution : Energy(s) < Energy(t)}
    /\ children' = [children EXCEPT ![i].best = s]
    /\ UNCHANGED <<state, calling, repeat, timed, seeds, avoid, best, sent,
                   found, jumps>>

(* ... or mMaxChildSteps, at which the child pauses itself.                *)
ChildComplete ==
  \E i \in DOMAIN children :
    /\ children[i].phase = "running"
    /\ children' = [children EXCEPT ![i].phase = "paused"]
    /\ UNCHANGED <<state, calling, repeat, timed, seeds, avoid, best, sent,
                   found, jumps>>

-----------------------------------------------------------------------------
(* The search, from the idle sensor.                                       *)

(* analyzeState() keeps the search away from mAvoidList.                   *)
Legal(s) == \A t \in avoid : ~Near(t, s)

(* mainLoop(): a state that is good enough is queued.                      *)
Jump ==
  /\ Idle /\ state = "RUNNING" /\ jumps < MaxJumps
  /\ \E s \in Solution :
       /\ Legal(s)
       /\ seeds' \in Offers(seeds, s, ChildSeedSize, MinChildEnergy)
  /\ jumps' = jumps + 1
  /\ UNCHANGED <<state, calling, repeat, timed, avoid, children, best, sent,
                 found>>

(* Every 100 steps it emits update() ...                                   *)
Update ==
  /\ Idle /\ state = "RUNNING"
  /\ signal' = "update" /\ main' = "check"
  /\ UNCHANGED <<state, call, limit, repeat, timed, lists, jumps>>

(* ... and looks after the children.                                       *)
UpdateChildren ==
  /\ At("check") /\ main' = "idle"
  /\ CheckChildren
  /\ UNCHANGED <<state, call, limit, signal, repeat, timed, jumps>>

(* checkTerminationConditions() at mMaxSteps: start again ...              *)
StepsRepeat ==
  /\ Idle /\ state = "RUNNING" /\ repeat
  /\ signal' = "update"
  /\ UNCHANGED <<state, main, call, limit, repeat, timed, lists, jumps>>

(* ... or pause; and stop at mMaxTime.                                     *)
Terminate ==
  /\ Idle /\ state = "RUNNING" /\ limit' = TRUE
  /\ \/ ~repeat /\ call' = "pause" /\ main' = "pause"
     \/ timed /\ call' = "stop" /\ main' = "stopChildren"
  /\ UNCHANGED <<state, signal, repeat, timed, lists, jumps>>

-----------------------------------------------------------------------------
(* startPlanner(), resetPlanner(), pausePlanner() and stopPlanner().       *)

StartPlanner ==
  /\ Idle /\ state = "READY" /\ state' = "RUNNING"
  /\ UNCHANGED <<calling, repeat, timed, lists, jumps>>

(* resetPlanner() clears mAvoidList and mBestList and leaves mChildSeeds   *)
(* as it is.  EGPlanner::resetPlanner() emits update(), of an empty list.  *)
ResetPlanner ==
  /\ Idle /\ state \in {"INIT", "READY"} /\ state' = "READY"
  /\ avoid' = {} /\ best' = <<>> /\ found' = <<>> /\ sent' = <<>>
  /\ UNCHANGED <<calling, repeat, timed, seeds, children, jumps>>

(* The user pauses the planner.                                            *)
UserPause ==
  /\ Idle /\ state = "RUNNING"
  /\ call' = "pause" /\ limit' = FALSE /\ main' = "pause"
  /\ UNCHANGED <<state, signal, repeat, timed, lists, jumps>>

(* Mutant of StopChild: only a child that is active is stopped.            *)
StopChildActive ==
  /\ main \in {"stopChildren", "pauseChildren"} /\ signal = "none"
  /\ \E i \in DOMAIN children :
       /\ children[i].phase = "running"
       /\ \A j \in 1..i - 1 : children[j].phase = "exited"
       /\ children' = [children EXCEPT ![i].phase = "exited"]
  /\ UNCHANGED <<state, calling, repeat, timed, seeds, avoid, best, sent,
                 found, jumps>>

(* stopPlanner() of the next child, which waits for its thread to exit.    *)
StopChild ==
  /\ main \in {"stopChildren", "pauseChildren"} /\ signal = "none"
  /\ \E i \in DOMAIN children :
       /\ children[i].phase # "exited"
       /\ \A j \in 1..i - 1 : children[j].phase = "exited"
       /\ children' = [children EXCEPT ![i].phase = "exited"]
  /\ UNCHANGED <<state, calling, repeat, timed, seeds, avoid, best, sent,
                 found, jumps>>

AllExited == \A i \in DOMAIN children : children[i].phase = "exited"

(* stopPlanner() checks the children while it is still RUNNING, and may    *)
(* fire new ones; EGPlanner::stopPlanner() then calls pausePlanner().      *)
StopPlanner ==
  /\ At("stopChildren") /\ AllExited /\ main' = "pause"
  /\ CheckChildren
  /\ UNCHANGED <<state, call, limit, signal, repeat, timed, jumps>>

(* EGPlanner::pausePlanner(): READY, and complete(), before the children   *)
(* are stopped.                                                            *)
PausePlanner ==
  /\ At("pause") /\ main' = "pauseChildren"
  /\ state' = "READY" /\ signal' = "complete"
  /\ UNCHANGED <<call, limit, repeat, timed, lists, jumps>>

(* Then pausePlanner() takes in the children; stopPlanner() ends in DONE   *)
(* and checkTerminationConditions() in complete().                         *)
PauseChildren ==
  /\ At("pauseChildren") /\ AllExited /\ main' = "idle"
  /\ CheckChildren
  /\ state' = IF call = "stop" THEN "DONE" ELSE state
  /\ signal' = IF limit THEN "complete" ELSE "none"
  /\ call' = "none" /\ limit' = FALSE
  /\ UNCHANGED <<repeat, timed, jumps>>

(* ~GuidedPlanner() frees its lists; it stops neither itself nor its       *)
(* children.                                                               *)
Delete ==
  /\ Idle /\ main' = "deleted"
  /\ seeds' = <<>> /\ avoid' = {} /\ best' = <<>> /\ found' = <<>>
  /\ UNCHANGED <<state, call, limit, signal, repeat, timed, children, sent,
                 jumps>>

Search == Jump \/ Update \/ StepsRepeat \/ Terminate

(* What follows by itself in a call.                                       *)
CallStep ==
  UpdateChildren \/ StopChild \/ StopPlanner \/ PausePlanner \/ PauseChildren

ChildStep == ChildJump \/ ChildComplete
=============================================================================

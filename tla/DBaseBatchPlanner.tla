-------------------------- MODULE DBaseBatchPlanner --------------------------
(***************************************************************************)
(* The users of a GuidedPlanner: a dialog, in which someone starts, pauses *)
(* and resets the planner, or DBaseBatchPlanner, which lets it run until   *)
(* its time is up and writes every solution to a file.                     *)
(***************************************************************************)
EXTENDS GuidedPlanner

VARIABLES
  batch,     (* DBaseBatchPlanner uses the planner                         *)
  file,      (* mResultFile; misused: closed twice or used after it        *)
  written,   (* the solutions in the file                                  *)
  lost       (* history variable: the solutions that were cleared from     *)
             (* mBestList when there was no file to write them to          *)

output == <<batch, file, written, lost>>
vars   == <<guided, output>>

(* startPlanner() of the batch sets mRepeat and mMaxTime.                  *)
Init ==
  /\ GuidedInit
  /\ batch \in BOOLEAN /\ repeat = batch /\ timed = batch
  /\ file = "open" /\ written = <<>> /\ lost = <<>>

(* The dialog only displays what the planner has found.                    *)
DialogSlot ==
  /\ signal # "none" /\ ~batch
  /\ signal' = "none"
  /\ UNCHANGED <<state, main, call, limit, repeat, timed, lists, jumps>>
  /\ UNCHANGED output

(* Mutant of PlannerUpdate: the solutions stay in mBestList.               *)
PlannerUpdateKeep ==
  /\ written' = IF file = "open" THEN written \o best ELSE written
  /\ best' = best /\ lost' = lost

(* plannerUpdate(): the solutions are written and cleared.  What it writes *)
(* to a file that is closed is lost.                                       *)
PlannerUpdate ==
  /\ written' = IF file = "open" THEN written \o best ELSE written
  /\ lost'    = IF file = "open" THEN lost ELSE lost \o best
  /\ best' = <<>>

UpdateSlot ==
  /\ signal = "update" /\ batch
  /\ signal' = "none"
  /\ PlannerUpdate
  /\ UNCHANGED <<state, main, call, limit, repeat, timed, seeds, avoid,
                 children, sent, found, jumps, batch, file>>

(* plannerComplete(): the remaining solutions are written and the file is  *)
(* closed.  The planner is READY or DONE here.  It is called twice: by     *)
(* pausePlanner() before the last children are collected, and when         *)
(* stopPlanner() has returned.                                             *)
CompleteSlot ==
  /\ signal = "complete" /\ batch
  /\ signal' = "none"
  /\ PlannerUpdate
  /\ file' = IF file = "open" THEN "closed" ELSE "misused"
  /\ UNCHANGED <<state, main, call, limit, repeat, timed, seeds, avoid,
                 children, sent, found, jumps, batch>>

(* Three seconds later the timer deletes the planner.                      *)
Exit ==
  /\ batch /\ file # "open"
  /\ Delete
  /\ UNCHANGED output

Slot == DialogSlot \/ UpdateSlot \/ CompleteSlot

(* The batch resets and starts the planner once; the dialog offers neither *)
(* a reset nor a start of a planner that is RUNNING.                       *)
User ==
  /\ \/ ResetPlanner /\ (batch => state = "INIT")
     \/ StartPlanner
     \/ UserPause /\ ~batch
     \/ Delete /\ ~batch
  /\ UNCHANGED output

MainStep == Slot \/ (CallStep /\ UNCHANGED output)

Next ==
  \/ User \/ MainStep \/ Exit
  \/ (Search \/ ChildStep) /\ UNCHANGED output

Spec == Init /\ [][Next]_vars /\ WF_vars(MainStep)
-----------------------------------------------------------------------------

Phase == {"running", "paused", "exited"}

(* The planner never has more children than it may; the rest keeps to its  *)
(* range.                                                                  *)
TypeOK ==
  /\ state \in {"INIT", "READY", "RUNNING", "DONE"}
  /\ main \in {"idle", "check", "stopChildren", "pause", "pauseChildren",
               "deleted"}
  /\ call \in {"none", "pause", "stop"} /\ limit \in BOOLEAN
  /\ signal \in {"none", "update", "complete"}
  /\ file \in {"open", "closed", "misused"}
  /\ seeds \in Seq(Solution) /\ Len(seeds) <= ChildSeedSize
  /\ avoid \subseteq Solution
  /\ children \in Seq([seed : Solution, best : Solution \cup {None}, phase : Phase])
  /\ Len(children) <= MaxChildren

(* A planner that was paused or stopped has left no child behind, although *)
(* stopPlanner() may fire new ones on the way; and it never has too many.  *)
NoOrphans ==
  /\ TypeOK
  /\ Idle /\ state # "RUNNING" => children = <<>>

(* "No point in exploring them anymore since a child planner is exploring  *)
(* each of them": no two children since the last reset get seeds near each *)
(* other, whether queued together or found later.                          *)
ChildrenDiffer ==
  \A i, j \in DOMAIN sent : i # j => ~Near(sent[i], sent[j])

(* "The best list of this planner will contain the pre-grasp followed by   *)
(* the final grasp", and the search stays away from each pre-grasp.        *)
SolutionsAvoided ==
  \A i \in DOMAIN best :
    /\ best[i].of \in avoid
    /\ best[i].kind = (IF i % 2 = 1 THEN "pre-grasp" ELSE "final")
    /\ i % 2 = 0 => best[i].of = best[i - 1].of

(* Every solution the children handed over is, once and in its order, in   *)
(* the file, lost, or in mBestList (and what is there is avoided).  Lost   *)
(* are only solutions of children that stopPlanner() had still to collect  *)
(* when complete() was first emitted, at which the batch closes its file:  *)
(* a pair for each of the mMaxChildren there can be, and none before the   *)
(* second complete(), which writes to the closed file and closes it again. *)
ResultsKept ==
  /\ SolutionsAvoided
  /\ main # "deleted" => found = written \o (lost \o best)
  /\ lost # <<>> => file = "misused"
  /\ Len(lost) <= 2 * MaxChildren

(* pausePlanner() and stopPlanner() return, whatever the children do.      *)
CallReturns == main # "idle" ~> main \in {"idle", "deleted"}
=============================================================================

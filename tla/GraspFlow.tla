------------------------------ MODULE GraspFlow ------------------------------
(***************************************************************************)
(* What OnLinePlanner and its GraspTester promise of the grasps they hand  *)
(* to each other: a grasp is found once and is then in one place until it  *)
(* is deleted; those handed over are tested and come back in the order in  *)
(* which they were handed over, and none comes back that was deleted.      *)
(***************************************************************************)
EXTENDS Subsequences

CONSTANT MaxGrasps   (* bound: grasps the search comes up with             *)

VARIABLES
  made,    (* grasps found so far, which are 1..made                       *)
  open,    (* those the planner holds and has not handed over              *)
  pipe,    (* those handed over and not collected, the oldest first        *)
  kept     (* those collected                                              *)

Init == made = 0 /\ open = {} /\ pipe = <<>> /\ kept = {}

(* A new grasp may be turned down, or take the place of others.            *)
Find ==
  /\ made < MaxGrasps /\ made' = made + 1
  /\ open' \in SUBSET (open \cup {made'})
  /\ UNCHANGED <<pipe, kept>>

HandOver ==
  /\ \E g \in open : open' = open \ {g} /\ pipe' = Append(pipe, g)
  /\ UNCHANGED <<made, kept>>

Collect ==
  /\ pipe # <<>>
  /\ kept' = kept \cup {Head(pipe)} /\ pipe' = Tail(pipe)
  /\ UNCHANGED <<made, open>>

(* A grasp fails its test, a list is full, or lists are cleared.           *)
Lose ==
  /\ open' \in SUBSET open /\ kept' \in SUBSET kept
  /\ \E left \in SUBSET DOMAIN pipe : pipe' = Subsequence(pipe, left)
  /\ UNCHANGED made

Next == Find \/ HandOver \/ Collect \/ Lose

Spec == Init /\ [][Next]_<<made, open, pipe, kept>>
=============================================================================

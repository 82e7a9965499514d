---------------------------- MODULE SolutionLists ----------------------------
(***************************************************************************)
(* The lists in which the planners keep what they have found: mBestList of *)
(* SimAnnPlanner, mChildSeeds of GuidedPlanner and mCandidateList of       *)
(* OnLinePlanner.  They are all kept the same way: a new state goes        *)
(* through addToListOfUniqueSolutions(), the list is sorted by energy and  *)
(* cut to its size.                                                        *)
(***************************************************************************)
EXTENDS Subsequences

CONSTANTS
  Energy(_),      (* GraspPlanningState::getEnergy(); lower is better      *)
  Near(_, _)      (* is stateDistance() below the distance of the list?    *)

InList(list) == {list[i] : i \in DOMAIN list}

(* The states of the list that stop the scan: near to s and no worse.      *)
Blocker(list, s) ==
  {i \in DOMAIN list : Near(s, list[i]) /\ Energy(s) >= Energy(list[i])}

ScanEnd(list, s) ==
  IF Blocker(list, s) = {} THEN Len(list) + 1
  ELSE CHOOSE i \in Blocker(list, s) : \A j \in Blocker(list, s) : i <= j

IsAdded(list, s) == Blocker(list, s) = {}

(* Mutant of AddUnique: only states with the energy of s are taken out.    *)
AddUniqueEqual(list, s) ==
  LET before == SubSeq(list, 1, ScanEnd(list, s) - 1)
      after  == SubSeq(list, ScanEnd(list, s), Len(list))
      stay   == {i \in DOMAIN before :
                   ~(Near(s, before[i]) /\ Energy(s) = Energy(before[i]))}
  IN  Subsequence(before, stay) \o after
        \o (IF IsAdded(list, s) THEN <<s>> ELSE <<>>)

(* addToListOfUniqueSolutions(): states near s that the scan meets are     *)
(* worse than s and taken out, up to the first that is not; s goes to the  *)
(* back when there is none.                                                *)
AddUnique(list, s) ==
  LET before == SubSeq(list, 1, ScanEnd(list, s) - 1)
      after  == SubSeq(list, ScanEnd(list, s), Len(list))
      stay   == {i \in DOMAIN before : ~Near(s, before[i])}
  IN  Subsequence(before, stay) \o after
        \o (IF IsAdded(list, s) THEN <<s>> ELSE <<>>)

InOrder(list) ==
  \A i, j \in DOMAIN list : i < j => Energy(list[i]) <= Energy(list[j])

(* list::sort(compareStates).  compareStates() holds of equal energies, so *)
(* equal states may end up in any order.                                   *)
Sortings(list) == {sorted \in Rearrangements(list) : InOrder(sorted)}

(* Mutant of CutTo: the front is thrown away.                              *)
CutToBack(list, n) ==
  IF Len(list) > n THEN SubSeq(list, Len(list) - n + 1, Len(list)) ELSE list

(* Mutant of CutTo: the list is not cut.                                   *)
CutNone(list, n) == list

CutTo(list, n) == IF Len(list) > n THEN SubSeq(list, 1, n) ELSE list

(* What a list of at most n states may be after s was offered to it: below *)
(* the ceiling while there is room, better than the last state otherwise.  *)
Offers(list, s, n, ceiling) ==
  LET worst == IF Len(list) < n THEN ceiling ELSE Energy(list[Len(list)])
  IN  IF Energy(s) < worst /\ IsAdded(list, s)
      THEN {CutTo(sorted, n) : sorted \in Sortings(AddUnique(list, s))}
      ELSE IF Energy(s) < worst THEN {AddUnique(list, s)} ELSE {list}
=============================================================================

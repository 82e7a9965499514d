----------------------------- MODULE LoopPlanner -----------------------------
(***************************************************************************)
(* SimAnnPlanner and LoopPlanner: simulated annealing offers every state   *)
(* it jumps to to mBestList; at mMaxSteps a LoopPlanner puts what it found *)
(* in mAvoidList, from which its energy calculator keeps the search away,  *)
(* and anneals again.  mAvoidList is what the users of a LoopPlanner see   *)
(* (getGrasp, getListSize).                                                *)
(***************************************************************************)
EXTENDS SolutionLists

CONSTANTS
  Solution,         (* the states the search can reach                     *)
  Avoided(_, _),    (* is the distance of two states below mThreshold?     *)
  BestListSize,     (* BEST_LIST_SIZE                                      *)
  Ceiling,          (* the energy of 1.0e5 no solution has                 *)
  SaveThreshold,    (* mSaveThreshold                                      *)
  MaxGiven          (* bound: states the user adds to mAvoidList           *)

ASSUME LoopConstants ==
  /\ BestListSize \in Nat \ {0} /\ MaxGiven \in Nat /\ Ceiling \in Int
  /\ \A s \in Solution : Energy(s) \in Int /\ Near(s, s) /\ Avoided(s, s)
  /\ \A s, t \in Solution : Near(s, t) <=> Near(t, s)
  /\ \A s, t \in Solution : Avoided(s, t) <=> Avoided(t, s)
  /\ \A s, t \in Solution : Avoided(s, t) => Near(s, t)

VARIABLES
  best,      (* mBestList                                                  *)
  avoid,     (* mAvoidList; its order only numbers the solutions           *)
  given,     (* those of mAvoidList that addToAvoidList() put there        *)
  lowest     (* the least energy the current loop has jumped to            *)

loopVars == <<best, avoid, given, lowest>>

LoopInit ==
  best = <<>> /\ avoid = {} /\ given = {} /\ lowest = Ceiling

(* Mutant of Legal: the energy calculator has lost its avoid list.         *)
LegalEverywhere(s) == TRUE

(* analyzeState() calls a state near one of mAvoidList illegal.            *)
Legal(s) == \A t \in avoid : ~Avoided(t, s)

(* mainLoop(): SimAnn::iterate() may fail, keep the current state or jump  *)
(* to any legal one; only a jump reaches the list.                         *)
Jump ==
  \E s \in Solution :
    /\ Legal(s)
    /\ best' \in Offers(best, s, BestListSize, Ceiling)
    /\ lowest' = IF Energy(s) < lowest THEN Energy(s) ELSE lowest
    /\ UNCHANGED <<avoid, given>>

(* resetParameters() at mMaxSteps.                                         *)
LoopUpdate ==
  /\ avoid' = avoid \cup {s \in InList(best) : Energy(s) <= SaveThreshold}
  /\ best' = <<>> /\ lowest' = Ceiling
  /\ UNCHANGED given

(* addToAvoidList(): GraspPlanningTask hands over the grasps it knows      *)
(* before it starts the planner.                                           *)
AddToAvoidList ==
  /\ best = <<>> /\ Cardinality(given) < MaxGiven
  /\ \E s \in Solution :
       given' = given \cup {s} /\ avoid' = avoid \cup {s}
  /\ UNCHANGED <<best, lowest>>

(* resetPlanner() of the user: clearSolutions() empties both lists.        *)
ClearSolutions ==
  /\ best' = <<>> /\ avoid' = {} /\ given' = {} /\ lowest' = Ceiling

LoopNext == Jump \/ LoopUpdate \/ AddToAvoidList \/ ClearSolutions

LoopSpec == LoopInit /\ [][LoopNext]_loopVars
-----------------------------------------------------------------------------

(* Both lists hold states of the search, the first at most BestListSize.   *)
LoopTypeOK ==
  /\ best \in Seq(Solution) /\ Len(best) <= BestListSize
  /\ avoid \subseteq Solution /\ given \subseteq avoid
  /\ lowest \in Int

(* "This method does not gurantee unique states": for a distance that is   *)
(* symmetric it does.                                                      *)
Unique ==
  \A i, j \in DOMAIN best : i # j => ~Near(best[i], best[j])

(* The best state the loop has met is never lost to a near one, to the     *)
(* sort or to the cut.                                                     *)
BestIsKept ==
  lowest < Ceiling => Len(best) > 0 /\ Energy(best[1]) = lowest

(* No solution of any loop since the last reset is as near to another, or  *)
(* to a state it was given, as the avoid list forbids.                     *)
LoopsDiffer ==
  /\ \A s \in InList(best), t \in avoid : ~Avoided(t, s)
  /\ \A s, t \in (avoid \ given) \cup InList(best) : s # t => ~Avoided(s, t)

(* What a LoopPlanner hands out is worth saving.                           *)
SavedAreGood == \A s \in avoid \ given : Energy(s) <= SaveThreshold

(* What mAvoidList is for, as the input of the search and as its outcome.  *)
AvoidListServes == LoopsDiffer /\ SavedAreGood
=============================================================================

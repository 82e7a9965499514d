----------------------------- MODULE MCHandMotion -----------------------------
(* A hand with two fingers: a spread DOF turns both, a DOF with breakaway  *)
(* closes the first and a compliant one the second.                        *)
EXTENDS HandMotion, TLC

CONSTANTS spread, finger, thumb, s1, f1, f2, s2, t1, Far

MCDrives == (spread :> {s1, s2}) @@ (finger :> {f1, f2}) @@ (thumb :> {t1})
MCKind == (spread :> "RIGID") @@ (finger :> "BREAKAWAY") @@ (thumb :> "COMPLIANT")
MCUpto == (s1 :> {s1}) @@ (f1 :> {s1, f1}) @@ (f2 :> {s1, f1, f2}) @@ (s2 :> {s2}) @@ (t1 :> {s2, t1})
MCReach(p, l) ==
  CASE l \in {s1, s2} -> p[l]
    [] l = f1 -> p[s1] + p[f1]
    [] l = f2 -> p[s1] + p[f1] + p[f2]
    [] l = t1 -> p[s2] + p[t1]
MCVelocity == (spread :> 0) @@ (finger :> 1) @@ (thumb :> 1)

(* Obstacles in front of the first finger's links and of the thumb, and    *)
(* behind the finger tip and the thumb, so that they are stopped when they *)
(* open.                                                                   *)
MCPlace(f, g, t, b, c) ==
  [front |-> [l \in Joint |-> CASE l = f1 -> f [] l = f2 -> g [] l = t1 -> t [] OTHER -> Far],
   behind |-> [l \in Joint |-> CASE l = t1 -> b [] l = f2 -> c [] OTHER -> -1]]
MCPlaces == {MCPlace(Far, Far, Far, -1, -1), MCPlace(3, 5, 2, -1, -1),
             MCPlace(3, Far, Far, 0, 0)}
MCTrans == 0..2

(* It is a hand of those that the theorems speak of.                       *)
ASSUME HandOfTheorems == FailsafeIsFar /\ OneJointEach /\ NothingBeyond /\ OneInAChain
=============================================================================

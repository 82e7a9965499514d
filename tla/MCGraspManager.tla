--------------------------- MODULE MCGraspManager ----------------------------
(* A quality is a number; 1 is good, 2 a volume above 1.0.  One type of    *)
(* wrench space, which measures and projections share: the counts of two   *)
(* types have nothing to do with each other.                               *)
EXTENDS GraspManager

CONSTANT L1

MCGWSType == {L1}
MCGood == {1}
MCHigh == {2}
=============================================================================

------------------------- MODULE MCDBaseBatchPlanner -------------------------
(* Solutions on a line: a position and an energy.  Children come up with   *)
(* two of them: near to, or the same as, a seed or far from it.            *)
EXTENDS DBaseBatchPlanner

CONSTANTS Positions, Energies

MCSolution == [at : 0..Positions - 1, energy : 0..Energies - 1]
MCChildSolution == [at : {0, 2}, energy : {0}]
MCEnergy(s) == s.energy
MCNear(s, t) == (IF s.at > t.at THEN s.at - t.at ELSE t.at - s.at) <= 1
=============================================================================

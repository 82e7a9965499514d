---------------------------- MODULE MCLoopPlanner ----------------------------
(* Solutions on a line: a position and an energy.                          *)
EXTENDS LoopPlanner

CONSTANTS Positions, Energies

MCSolution == [at : 0..Positions - 1, energy : 0..Energies - 1]
MCEnergy(s) == s.energy
Apart(s, t) == IF s.at > t.at THEN s.at - t.at ELSE t.at - s.at
MCNear(s, t) == Apart(s, t) <= 1
MCAvoided(s, t) == Apart(s, t) = 0
=============================================================================

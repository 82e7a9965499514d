---------------------------- MODULE MCListPlanner ----------------------------
(* Grasps are numbers: 0 is illegal, the energies of the others are chosen *)
(* so that two types of energy rank them differently and one is too high.  *)
EXTENDS ListPlanner

CONSTANTS NumGrasps, compliant, dynamic

MCGrasp == 0..NumGrasps - 1
MCEnergyType == {compliant, dynamic}
MCIsLegal(g) == g # 0
MCEnergy(t, g) == IF t = compliant THEN g ELSE NumGrasps - g
=============================================================================

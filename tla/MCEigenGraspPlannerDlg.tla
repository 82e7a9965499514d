------------------------ MODULE MCEigenGraspPlannerDlg ------------------------
EXTENDS EigenGraspPlannerDlg

MCKind == {"Sim. Ann.", "Loop"}
MCRepeats(k) == k = "Loop"
MCEnergyBox == {"Hand Contacts", "Contacts AND Quality"}
MCSpace == {"Complete", "Axis-angle", "Approach"}
MCNumVars(s) ==
  CASE s = "Complete" -> 7 [] s = "Axis-angle" -> 6 [] OTHER -> 3
=============================================================================

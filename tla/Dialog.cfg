SPECIFICATION Spec

CONSTANTS
  None = None
  Kind <- MCKind
  Repeats <- MCRepeats
  EnergyBox <- MCEnergyBox
  Space <- MCSpace
  NumVars <- MCNumVars
  FirstKind = "Sim. Ann."
  FirstEnergy = "Contacts AND Quality"
  FirstSpace = "Axis-angle"
  FirstStep = 2
  StepsEdit = {1, 4, 5}

INVARIANTS
  ButtonsMatch
  RunsAsShown

CHECK_DEADLOCK FALSE

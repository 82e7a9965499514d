SPECIFICATION Spec

CONSTANTS
  Positions = 5
  Energies = 2
  None = None
  Solution <- MCSolution
  ChildSolution <- MCChildSolution
  Energy <- MCEnergy
  Near <- MCNear
  MaxChildren = 2
  ChildSeedSize = 2
  MinChildEnergy = 2
  MaxJumps = 3

INVARIANTS
  NoOrphans
  ChildrenDiffer
  

PROPERTIES
  CallReturns

CHECK_DEADLOCK FALSE

SPECIFICATION LoopSpec

CONSTANTS
  Positions = 7
  Energies = 3
  Solution <- MCSolution
  Energy <- MCEnergy
  Near <- MCNear
  Avoided <- MCAvoided
  BestListSize = 3
  Ceiling = 2
  SaveThreshold = 0
  MaxGiven = 1

INVARIANTS
  LoopTypeOK
  Unique
  BestIsKept
  AvoidListServes

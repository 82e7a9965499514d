SPECIFICATION Spec

CONSTANTS
  compliant = compliant
  dynamic = dynamic
  NumGrasps = 4
  Grasp <- MCGrasp
  EnergyType <- MCEnergyType
  Compliant = compliant
  IsLegal <- MCIsLegal
  Energy <- MCEnergy
  Ceiling = 3
  BestListSize = 2
  MaxInput = 3

INVARIANTS
  SensorMatches
  ResultsMatch

PROPERTIES
  LifeCycle
  TestEnds

CHECK_DEADLOCK FALSE

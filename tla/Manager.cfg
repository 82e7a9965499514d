SPECIFICATION Spec

CHECK_DEADLOCK FALSE

CONSTANTS
  L1 = L1
  GWSType <- MCGWSType
  Good <- MCGood
  High <- MCHigh
  MaxGrasps = 2
  MaxList = 2
  MaxMeasures = 1
  MaxViews = 1

INVARIANTS
  NothingDangles

PROPERTIES
  AfterTest
  TestEnds

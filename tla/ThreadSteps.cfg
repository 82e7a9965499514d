SPECIFICATION Spec

CONSTANTS
  MaxSteps = 2
  TimeLimit = FALSE
  Joins = TRUE
  ThreadStarts = 1
  Resets = 3
  StepCap = 3

INVARIANTS
  TypeOK
  StopMeansExited
  RunsOnPreparedInput
  OneStaleSearch

PROPERTIES
  LifeCycle
  StopReturns
  LimitStops

CHECK_DEADLOCK FALSE

SPECIFICATION Spec

CONSTANTS
  MaxSteps = 2
  TimeLimit = TRUE
  Joins = TRUE
  ThreadStarts = 1
  Resets = 1
  StepCap = 3

PROPERTIES
  DoneStopsThread

CHECK_DEADLOCK FALSE

SPECIFICATION Spec

CONSTANTS
  MaxSteps = 2
  TimeLimit = FALSE
  Joins = FALSE
  ThreadStarts = 1
  Resets = 1
  StepCap = 3

INVARIANTS
  NoUseAfterDelete

CHECK_DEADLOCK FALSE

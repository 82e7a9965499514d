SPECIFICATION Spec

CONSTANTS
  CandidateBuffer = 2
  SolutionBuffer = 1
  MaxCandidates = 1
  MaxGrasps = 5
  MaxResets = 2

INVARIANTS
  TypeOK
  OneStaleAtMost
  SearchHasTester

PROPERTIES
  ImplementsFlow
  QueueMoves
  DeleteReturns

CHECK_DEADLOCK FALSE

SPECIFICATION HandSpec

CONSTANTS
  spread = spread
  finger = finger
  thumb = thumb
  s1 = s1
  f1 = f1
  f2 = f2
  s2 = s2
  t1 = t1
  Far = 99
  None = None
  Joint = {s1, f1, f2, s2, t1}
  Dof = {spread, finger, thumb}
  Drives <- MCDrives
  Kind <- MCKind
  Upto <- MCUpto
  Reach <- MCReach
  Velocity <- MCVelocity
  MaxVal = 3
  Steps = {2}
  ONE_STEP = 100
  Threshold = 3
  Places <- MCPlaces
  Trans <- MCTrans
  Approach = {2}
  ApproachStep = 1
  MaxIter = 20

INVARIANTS
  HandConsistent

PROPERTIES
  StaysFree
  RestoreRestores
  Exhausted

SPECIFICATION SpecKept

CONSTANTS
  o1 = o1
  o2 = o2
  w1 = w1
  w2 = w2
  h1 = h1
  h2 = h2
  l1 = l1
  l2 = l2
  None = None
  Body = {o1, o2, w1, w2, l1, l2}
  Hand = {h1, h2}
  Links <- MCLinks
  Base <- MCBase
  Chains <- MCChains
  Object = {o1, o2}
  Obstacle = {w1, w2}
  Copies = {1, 2}
  MaxBodies = 3
  Selectable = {h1, h2}
  MaxFound = 1
  MaxContacts = 4
  MaxToggles = 1

SYMMETRY MCSymmetry

INVARIANTS
  NoDangling

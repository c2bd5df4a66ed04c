CONSTANTS
  p1 = p1
  p2 = p2
  d1 = d1
  d2 = d2
  Projects = {p1, p2}
  Dirs = {d1, d2}
  Homes <- MCHomes
  Jobs = {j1, j2}
  Reqs = {r1, r2}
  MaxStarted = 3
  None = None
SPECIFICATION Spec
INVARIANTS OneChangePerDirectory NoSharedDirectory
PROPERTY UsesTheMutex
SYMMETRY Symmetric
CHECK_DEADLOCK FALSE

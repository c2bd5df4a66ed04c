CONSTANTS
  Reqs = {r1, r2}
  Keys = {k1, k2}
  Prints = {f1, f2}
  Bodies = {b1, b2}
  None = None
  MaxRows = 1
  MaxPending = 1
SPECIFICATION Spec
SYMMETRY Symmetric
INVARIANTS OneHandler OwedIsKept
PROPERTIES AtMostOnce ReplaysAreTrue

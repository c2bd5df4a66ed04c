CONSTANTS
  Procs = {p1, p2, p3}
  Keys = {k1, k2}
  Locks = {l1, l2, l3}
  NoKey = NoKey
  NoOne = NoOne
  NoLock = NoLock
SPECIFICATION FairSpec
INVARIANTS MutualExclusion CountsAreExact
PROPERTIES AcquireReturns ImplementsMutex

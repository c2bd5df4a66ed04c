CONSTANTS
  p1 = p1
  p2 = p2
  d1 = d1
  d2 = d2
  Names = {p1, p2}
  Dirs = {d1, d2}
  Root = {d1, d2}
  Homes <- MCHomes
  Labels <- MCLabels
  Known = {p1}
  Reqs = {r1, r2}
  Adopter = Adopter
  Tools = {ansible}
  Unknown = Unknown
  Keep = Keep
  None = None
  MaxFaults = 1
  MaxBoots = 1
  MaxReqs = 2
  MaxEvents = 3
SPECIFICATION Spec
INVARIANTS OwnedFilesAreKept OwnersAreRecorded SentinelIsNeverStored SavedIsNewest
SYMMETRY Symmetric
CHECK_DEADLOCK FALSE

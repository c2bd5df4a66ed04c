CONSTANTS
  Jobs = {j1, j2}
  Cancels = {c1}
  NoJob = NoJob
  NoActor = NoActor
  Retained = 1
  MaxFaults = 2
SPECIFICATION FairSpec
PROPERTIES CancelIsFinal
CHECK_DEADLOCK FALSE

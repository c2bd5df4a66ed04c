CONSTANTS
  Jobs = {j1, j2}
  Cancels = {c1}
  NoJob = NoJob
  NoActor = NoActor
  Retained = 1
  MaxFaults = 2
SPECIFICATION FairSpec
INVARIANTS RecordsConverge NoZombieRows
PROPERTIES OutcomeIsFinal ControllerLearnsEnd
CHECK_DEADLOCK FALSE

CONSTANTS
  Services = {s1, s2}
  s1 = s1
  s2 = s2
  Cases <- MCCases
  Faults = {}
  MaxFaults = 1
  Second = 2
  HalfWord = 1024
  MaxBudget = 120
  MinHealth = 6
  Reserve = 30
  MinRollback = 60
SPECIFICATION Spec
INVARIANT FailureIsRolledBack
CHECK_DEADLOCK FALSE

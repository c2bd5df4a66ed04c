CONSTANTS
  Services = {s1, s2}
  s1 = s1
  s2 = s2
  Cases <- MCCases
  Faults = {"snapshot", "write", "revert", "load", "deploy"}
  MaxFaults = 1
  Second = 2
  HalfWord = 1024
  MaxBudget = 120
  MinHealth = 6
  Reserve = 30
  MinRollback = 60
SPECIFICATION Spec
INVARIANTS CompletedIsVerified DiskMatchesContainers RollbackScopeIsKept RollbackHealthyIsTrue BudgetsFit
PROPERTY UpdateEnds
CHECK_DEADLOCK FALSE

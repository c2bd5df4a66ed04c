SPECIFICATION Spec
CONSTANTS
  feeder = feeder
  r1 = r1
  none = none
  None = none
  Listers = {feeder, r1}
  Feed = feeder
  Lists <- MCLists
  Entries <- MCEntries
  AgentIDs = {"a"}
  controlPathName = "proxy"
  Services = {"web", "db"}
  Pinned = {"db"}
  Budgets <- MCBudgets
  MaxContent = 1
INVARIANTS NewestListDecides ForcedRecheckIsKept StatusIsOnItsWay ProvenanceIsTrue
PROPERTIES DecisionsAreFounded ControllerIsTold
CHECK_DEADLOCK FALSE

CONSTANTS
  Services = {s1, s2}
  N = 3
  Plans <- MCPlans
  MaxReverts = 2
  MaxHands = 1
SPECIFICATION Spec
INVARIANTS FailedWriteLeavesNothing RevertTellsTruth UndisturbedRevertWorks
PROPERTY RevertsSpareHandEdits
SYMMETRY Symmetric
CHECK_DEADLOCK FALSE

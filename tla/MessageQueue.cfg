SPECIFICATION Spec
CONSTANTS
  MaxN = 3
  MaxRuns = 2
  ForkMayFail = TRUE
INVARIANTS
  OneNumber
  PrintsInOrder
  ParentCounts
PROPERTIES
  ParentEnds
CHECK_DEADLOCK FALSE

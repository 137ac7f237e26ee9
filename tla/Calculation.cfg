SPECIFICATION Spec
CONSTANTS
  MaxCpus = 4
  MaxThreads = 3
  Steps = 1
  SizeLine = 64
  Addresses <- Places
  Garbage <- FreshOrUsed
  Faults <- Everything
INVARIANTS
  TableAsDocumented
  BlocksFit
  SumIsWhole
  FreedIsUnused
PROPERTIES
  Terminates
CHECK_DEADLOCK FALSE

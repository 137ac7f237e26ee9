SPECIFICATION Spec
CONSTANTS
  r1 = r1
  r2 = r2
  w1 = w1
  w2 = w2
  NoReader = NoReader
  Reader <- TwoReaders
  Writer <- TwoWriters
  Blocks <- LongAndShort
  Capacity = 2
  Attempts = 2
  Mortal <- OnlyFirst
  Faults <- AllFaults
INVARIANTS
  BothMeansWhole
  NameMeansListening
PROPERTIES
  ImplementsPipeTransfer
  OpenedEnds
CHECK_DEADLOCK FALSE

SPECIFICATION FairSpec
CONSTANTS
  num_children = 3
  SizeBuffer <- Powers
  Length = 5
  PipeSize = 2
  Block = 2
  Byte <- MCByte
  Mortal <- AllButFirst
INVARIANTS
  OutputIsPrefix
  CleanRun
PROPERTIES
  ImplementsByteQueues
  ParentEnds
CHECK_DEADLOCK FALSE

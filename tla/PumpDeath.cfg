SPECIFICATION Spec
CONSTANTS
  num_children = 2
  SizeBuffer <- Powers
  Length = 2
  PipeSize = 1
  Block = 1
  Byte <- MCByte
  Mortal <- Everybody
INVARIANTS
  DeathIsNoticed
CHECK_DEADLOCK FALSE

SPECIFICATION FairSpec
CONSTANTS
  r1 = r1
  r2 = r2
  r3 = r3
  w1 = w1
  w2 = w2
  None = None
  Readers <- ThreeReaders
  Writers <- TwoWriters
  NumFull <- TwoAndNone
  Mortal <- Everybody
INVARIANTS
  BufferExclusion
  AliveCountsPair
  SemaphoresRecover
  SuccessMeansPrinted
PROPERTIES
  SessionEnds
  ImplementsFileTransfer
  EveryoneServed
CHECK_DEADLOCK FALSE

SPECIFICATION FairSpec
CONSTANTS
  File <- ThreeBytes
  BITS = 8
  Mortal <- Everybody
  Faults <- AllFaults
  MaxStops = 2
INVARIANTS
  AllSentIsPrinted
PROPERTIES
  NothingCoalesces
  ImplementsBitChannel
  BothEnd
  FileArrives
CHECK_DEADLOCK FALSE

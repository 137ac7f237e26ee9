SPECIFICATION Spec
CONSTANTS
  File <- ThreeBytes
  BITS = 8
  Mortal <- Everybody
  Faults <- AllFaults
  MaxStops = 1
INVARIANTS
  SuccessMeansPrinted
CHECK_DEADLOCK FALSE

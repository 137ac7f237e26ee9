SPECIFICATION FairSpec
CONSTANTS
  File <- ThreeBytes
  BITS = 8
  Mortal <- Nobody
  Faults <- Nobody
  MaxStops = 1
PROPERTIES
  StopsAreIgnored
CHECK_DEADLOCK FALSE

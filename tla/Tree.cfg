SPECIFICATION FairSpec
CONSTANTS
  Keys <- FourKeys
  DefaultCapacity = 2
  DefaultIncrease = 2
  Increases <- OneIncrease
  MaxCapacity = 4
INVARIANTS
  FreeListSound
  LinksSound
  WalkIsSorted
PROPERTIES
  CallsReturn
  ImplementsIntSet
  OnlyDuplicatesAreLost

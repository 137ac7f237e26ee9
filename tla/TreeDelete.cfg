SPECIFICATION Spec
CONSTANTS
  Keys <- FourKeys
  DefaultCapacity = 2
  DefaultIncrease = 2
  Increases <- SomeIncreases
  MaxCapacity = 4
PROPERTIES
  DeleteFindsKey

SPECIFICATION Spec
CONSTANTS
  w1 = w1
  w2 = w2
  stdin = stdin
  Worker <- TwoWorkers
  Descriptor0 = stdin
  NumPC = 2
  NumThread <- Both
  Mortal <- Everybody
  LinkMayFail <- TwoWorkers
INVARIANTS
  SharesTile
  MisreadIsEmpty
  SumIsWhole
PROPERTIES
  ManagerEnds
  GreetedEnds
CHECK_DEADLOCK FALSE

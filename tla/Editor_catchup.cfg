CONSTANTS
  o1 = o1
  o2 = o2
  Openers = {o1}
  MaxPages = 1
  MaxTexts = 3
  MaxModels = 1
SPECIFICATION FairSpec
PROPERTY CatchesUp
CHECK_DEADLOCK FALSE

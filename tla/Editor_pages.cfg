CONSTANTS
  o1 = o1
  o2 = o2
  Openers = {o1, o2}
  MaxPages = 2
  MaxTexts = 3
  MaxModels = 2
SPECIFICATION FairSpec
INVARIANTS
  SavedIsStored
  TabShowsModel
PROPERTIES
  FlushedFirst
  EditsSettle
CHECK_DEADLOCK FALSE

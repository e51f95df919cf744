CONSTANTS
  Homes = {A, B}
  NoEnv = NoEnv
  Tabs = {t1, t2}
  MaxEdits = 1
SPECIFICATION NotebookSpec
CHECK_DEADLOCK FALSE
INVARIANT EditsReachTheVolume

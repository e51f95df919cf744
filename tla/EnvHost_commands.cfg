CONSTANTS
  c1 = c1
  c2 = c2
  A = A
  B = B
  Envs = {A, B}
  Cmds = {c1, c2}
  Calls = {"start", "stop", "open", "exit"}
  WithModules = {A}
  Observed = {B}
  None = None
  Homes = {A, B}
  NoEnv = NoEnv
  t1 = t1
  t2 = t2
  Tabs = {t1, t2}
  MaxEdits = 1
  MaxSidecars = 2
  MaxQuits = 1
SPECIFICATION DesktopSpec
INVARIANTS
  TrackedOnce
  OneEnvironmentUp
  SyncGoesHome
  ReleasedIsSynced
PROPERTIES
  ActivatesLive
  NothingEscapes
  ImplementsHostCalls
SYMMETRY DesktopSymmetry

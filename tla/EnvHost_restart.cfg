CONSTANTS
  c1 = c1
  c2 = c2
  A = A
  B = B
  Envs = {A, B}
  Cmds = {c1}
  Calls = {"start"}
  WithModules = {A}
  Observed = {B}
  None = None
  MaxSidecars = 2
  MaxQuits = 0
SPECIFICATION Spec
PROPERTIES
  StartLeavesItRunning

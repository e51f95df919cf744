CONSTANTS
  c1 = c1
  c2 = c2
  A = A
  B = B
  C = C
  None = None
  Envs = {A, B, C}
  Cmds = {c1, c2}
SPECIFICATION Spec
SYMMETRY GateSymmetry
INVARIANT OneOperation

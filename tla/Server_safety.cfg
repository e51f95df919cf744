CONSTANTS
  r1 = r1
  r2 = r2
  a = a
  None = None
  Rpcs = {r1, r2}
  Owners = {a}
  Handshakers = {a}
  Served = {"plan", "execute", "prepare", "execute_prepared", "close"}
  TTL = 1
  MaxSessions = 2
  MaxHandles = 1
  MaxRuns = 3
  Capacity = 2
  MaxLimit = 5
  MaxBatches = 6
SPECIFICATION ServerSpec
SYMMETRY RequestSymmetry
INVARIANTS
  ExecutedWherePlanned
  YoungStatementsStay
  RunsAreTraced
  InOrder
  EndIsWhole
  HeldBack
  GateBeforeData
PROPERTIES
  OnlyIdleSessionsLeave
  NoneFoundAfterRemoval

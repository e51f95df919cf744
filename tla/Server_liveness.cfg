CONSTANTS
  r1 = r1
  r2 = r2
  a = a
  None = None
  Rpcs = {r1}
  Owners = {a}
  Handshakers = {a}
  Served = {"plan", "execute", "prepare", "describe", "execute_prepared", "update_prepared", "close", "update", "ingest", "delta"}
  TTL = 1
  MaxSessions = 1
  MaxHandles = 1
  MaxRuns = 2
  Capacity = 2
  MaxLimit = 5
  MaxBatches = 6
SPECIFICATION FairServerSpec
PROPERTIES
  UnusedIsReleased
  QueryEnds

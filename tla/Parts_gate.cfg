CONSTANTS
  c1 = c1
  c2 = c2
  A = A
  B = B
  C = C
  None = None
  Envs = {A, B, C}
  Cmds = {c1, c2}
  g1 = g1
  g2 = g2
  g3 = g3
  Groups = {g1, g2, g3}
  r1 = r1
  r2 = r2
  u1 = u1
  u2 = u2
  Requests = {r1, r2}
  Uids = {u1, u2}
  k1 = k1
  Tokens = {k1}
  Shared = Shared
  Nobody = Nobody
  q1 = q1
  q2 = q2
  Queries = {q1, q2}
  Nothing = Nothing
  MaxUpdates = 1
  Ingests = {r1, r2}
  Shadow = TRUE
  MaxEntries = 3
  MaxChanges = 2
  Uploads = {u1, u2}
  MaxChunks = 2
  MaxKeys = 2
  MaxRuns = 3
  MaxReceived = 1
  MaxFlushes = 1
  Callers = {c1, c2}
  TreePaths <- SomePaths
  MaxStatements = 2
  Slugs <- SomeSlugs
  ModuleSets = {{}, {g1}}
  MaxEnvs = 4
  MaxFrames = 5
  Profiles = {A, B}
  Capabilities = {g1}
  NoProfile = NoProfile
  MaxToggles = 2
  Places = {A, B}
  Documents = {q1, q2}
  Notebooks = {q2}
  Nowhere = Nowhere
  MaxMounts = 2
SPECIFICATION PartsSpec
CHECK_DEADLOCK FALSE
INVARIANTS
  PartsTypeOK
  ShellAgrees
  AnswerIsAncestry
  RunsAsItself
  FreshWhenAlone
  AnswersAreTrue
  WritesAreGoverned
  ScriptsAreWhole
  WalksAreWhole
  UploadsAreKept
  ListingsAreTrue
  KeyIsKept
  ResultsAreOfRuns
  RegistryIsKept
  BridgeIsWhole
  FormsAreTrue
  TabsAreKept
PROPERTIES
  OnlyEmptyDirectoriesGo

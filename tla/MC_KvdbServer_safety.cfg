CONSTANTS
  c1 = c1
  c2 = c2
  p1 = p1
  r1 = r1
  a = a
  b = b
  pall = pall
  nil = nil
  NoValue = nil
  Clients <- MCClients
  PersistKeys <- MCPersistKeys
  VolatileKeys <- MCVolatileKeys
  RoKeys <- MCRoKeys
  Vals <- MCVals
  Patterns <- MCPatterns
  MatchSet <- MCMatchSet
  Source <- MCSource
  Ops <- MCOpsNoReload
  Backend = "unqlite"
  VolatileEnabled = TRUE
  SockBuf = 1
  SendTimeout = TRUE
  MonitorOpenMayFail = FALSE
  WaitTimeout = TRUE
  SetpropClients <- MCSetpropNone
  MaxRequests = 4
  MaxCrashes = 1
SPECIFICATION Spec
INVARIANT CommitArmedWhileDirty
INVARIANT MonitorSeesAllChanges
PROPERTY PersistSurvivesRestart
PROPERTY StoreRefinement
SYMMETRY MCSymmetry
CHECK_DEADLOCK FALSE

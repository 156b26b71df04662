CONSTANTS
  c1 = c1
  c2 = c2
  p1 = p1
  r1 = r1
  a = a
  b = b
  pall = pall
  nil = nil
  NoValue = nil
  Clients <- MCClients
  PersistKeys <- MCPersistKeys
  VolatileKeys <- MCVolatileKeys
  RoKeys <- MCRoKeys
  Vals <- MCValsOne
  Patterns <- MCPatterns
  MatchSet <- MCMatchSet
  Source <- MCSource
  Ops <- MCOpsAll
  Backend = "unqlite"
  VolatileEnabled = TRUE
  SockBuf = 1
  SendTimeout = TRUE
  MonitorOpenMayFail = TRUE
  WaitTimeout = TRUE
  SetpropClients <- MCSetpropOne
  MaxRequests = 3
  MaxCrashes = 1
SPECIFICATION FairSpec
PROPERTY RequestsAnswered
PROPERTY DirtyEventuallyCommitted
CHECK_DEADLOCK FALSE

CONSTANTS
  c1 = c1
  c2 = c2
  p1 = p1
  r1 = r1
  a = a
  b = b
  nil = nil
  NoValue = nil
  Procs <- MCProcs
  PersistKeys <- MCPersistKeys
  VolatileKeys <- MCNoVolatileKeys
  RoKeys <- MCNoRoKeys
  Vals <- MCVals
  Backend = "unqlite"
  VolatileEnabled = TRUE
  InitEnv <- MCEnvEmptyPersist
  MaxCalls = 5
  MaxReboots = 1
INIT Init
NEXT Next
INVARIANT NoClientFault
\* Processes stop calling once MaxCalls calls are made.
CHECK_DEADLOCK FALSE

CONSTANTS
  c1 = c1
  q = q
  p1 = p1
  r1 = r1
  a = a
  b = b
  nil = nil
  NoValue = nil
  Procs <- MCProcs
  PersistKeys <- MCPersistKeys
  VolatileKeys <- MCVolatileKeys
  RoKeys <- MCNoRoKeys
  Vals <- MCVals
  Backend = "nvs"
  VolatileEnabled = TRUE
  InitEnv <- MCEnvC1
  MaxCalls = 5
  MaxReboots = 1
  Qemu = q
  HostFrames <- MCHostFrames
  MaxTries = 5
  BuffSize <- MCBuffSize
  TempInit <- MCTempInit
  PipeErrors = TRUE
INIT BootInit
NEXT BootNext
INVARIANT QemuTypeOK DirectReadsLastWrite QemuSetsHostPairs
PROPERTY DirectRefinement DirectListIsExact
\* Processes stop calling once MaxCalls calls are made, and the boot tool
\* stops at its exit.
CHECK_DEADLOCK FALSE

CONSTANTS
  t1 = t1
  t2 = t2
  ta = ta
  tb = tb
  prog = prog
  m = m
  nil = nil
  NoValue = nil
  ProgName = prog
  Threads <- MCThreads
  Tags <- MCTags
  Texts = {m}
  Prios <- MCPrios
  MinPrios <- MCMinPrios
  InitMin <- MCInitMin
  InitTag <- MCInitTag
  MaxCalls = 3
INIT Init
NEXT Next
INVARIANT NoStaleTag
\* The process ends at abort() and threads stop calling at MaxCalls.
CHECK_DEADLOCK FALSE

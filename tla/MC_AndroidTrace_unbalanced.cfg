CONSTANTS
  t1 = t1
  t2 = t2
  n1 = n1
  n2 = n2
  Threads <- MCThreads
  Categories <- MCCategories
  SectionTags <- MCSectionTags
  Names <- MCNames
  Cookies <- MCCookies
  CmdArgs <- MCCmdArgs
  MaxDepth = 2
  MaxNotes = 3
SPECIFICATION Spec
INVARIANT TraceMatchesCode
\* Threads stop at MaxNotes notes.
CHECK_DEADLOCK FALSE

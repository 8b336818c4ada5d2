CONSTANTS
  Procs = {p, q}
  MaxCalls = 4
  MaxCrashes = 1
  MaxFailures = 1
  NoProc = NoProc
  Sessions = {s1, s2}
  Prompts = {p1, p2}
  MaxQuestions = 2
  MaxCancels = 1
  MayDelete = TRUE
  MayFail = TRUE
  None = None
SPECIFICATION ServicesSpec
INVARIANTS DiskKept SessionsApart
PROPERTIES NeverOverwritten CallsReturn EveryPromptEnds
CHECK_DEADLOCK FALSE

CONSTANTS
  a = a
  b = b
  c = c
  d = d
  Tasks = {a, b, c, d}
  Parents <- SkewParents
  ReviewInterval = 0
  MaxFailuresBeforeReview = 0
  BaseVersion = 3
  MaxRuns = 2
  MaxToolCalls = 0
SPECIFICATION FairSpec
INVARIANTS ExecutedOnce NoOrphan TerminalAtReturn
PROPERTIES DagSpec FailureStopsBatches
CHECK_DEADLOCK FALSE

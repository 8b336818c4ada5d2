CONSTANTS
  a = a
  b = b
  c = c
  d = d
  Tasks = {a, b, c}
  Parents <- JoinParents
  ReviewInterval = 1
  MaxFailuresBeforeReview = 0
  BaseVersion = 3
  MaxRuns = 2
  MaxToolCalls = 1
SPECIFICATION FairSpec
INVARIANTS ParentsDone DurableAtReturn
PROPERTIES AllCallsReturn CheckpointsImmutable
CHECK_DEADLOCK FALSE

CONSTANTS
  a = a
  b = b
  c = c
  d = d
  Tasks = {a, b, c}
  Parents <- JoinParents
  ReviewInterval = 0
  MaxFailuresBeforeReview = 0
  BaseVersion = 3
  MaxRuns = 1
  MaxToolCalls = 0
SPECIFICATION Spec
INVARIANTS HasFailedOfBatch
CHECK_DEADLOCK FALSE

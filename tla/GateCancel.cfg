CONSTANTS
  Workers = {u, v}
  Callers = {k}
  MaxCalls = 1
  MaxBatches = 1
  MayCancel = TRUE
  NoWorker = NoWorker
SPECIFICATION FairSpec
PROPERTY AllEndCancelled
CHECK_DEADLOCK FALSE

CONSTANTS
  Workers = {u, v}
  Callers = {k, l}
  MaxCalls = 2
  MaxBatches = 2
  MayCancel = TRUE
  NoWorker = NoWorker
  DreamLoops = {a}
  CheckInterval = 1
  Cooldown = 3
  IdleThreshold = 2
  MaxTime = 8
  MaxLoopRuns = 2
SPECIFICATION AgentRunsSpec
INVARIANTS PauseAccount AtMostOneAhead OneAnswerPerQuestion
PROPERTIES EveryBatchEnds DreamsContained
CHECK_DEADLOCK FALSE

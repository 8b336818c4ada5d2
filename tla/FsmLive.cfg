CONSTANTS
  PlanIds = {p}
  TaskIds = {a}
  Unknown = Unknown
  NoPlan = NoPlan
  ForceMode = "auto"
  MaxCycles = 6
  MaxAttempts = 0
  Unlisted = {"plan_rollback"}
  MayCancel = TRUE
  MayDrift = FALSE
  MaxCalls = 2
  MaxRuns = 2
SPECIFICATION FairSpec
INVARIANT PlanStateAgrees
PROPERTY RunReturns
CHECK_DEADLOCK FALSE

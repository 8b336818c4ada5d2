CONSTANTS
  PlanIds = {p}
  TaskIds = {a}
  Unknown = Unknown
  NoPlan = NoPlan
  ForceMode = "auto"
  MaxCycles = 5
  MaxAttempts = 0
  Unlisted = {}
  MayCancel = FALSE
  MayDrift = FALSE
  MaxCalls = 2
  MaxRuns = 2
SPECIFICATION Spec
PROPERTY IntentConsults
CHECK_DEADLOCK FALSE

CONSTANTS
  PlanIds = {p, q}
  TaskIds = {a, b}
  Unknown = Unknown
  NoPlan = NoPlan
  ForceMode = "auto"
  MaxCycles = 8
  MaxAttempts = 1
  Unlisted = {"ask_human", "confirm_plan"}
  MayCancel = TRUE
  MayDrift = TRUE
  MaxCalls = 3
  MaxRuns = 1
SPECIFICATION Spec
INVARIANT RunsWhatWasShown
PROPERTY ApprovedBeforeDoing
SYMMETRY Symmetry
CHECK_DEADLOCK FALSE

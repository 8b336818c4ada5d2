CONSTANTS
  t = t
  u = u
  Turns <- MCTurns
  Main = main
  Workers = {v, w}
  Budgets <- MCBudgets
  None = None
SPECIFICATION FairSpec
INVARIANTS EachQuestionOnce
PROPERTIES ArchiveKept EveryTurnEnds
CHECK_DEADLOCK FALSE

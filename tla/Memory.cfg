CONSTANTS
  Loops = {x, y}
  n1 = n1
  n2 = n2
  a = a
  aa = aa
  b = b
  lines = lines
  empty = empty
  meta = meta
  Names = {n1, n2}
  SectionOf <- MCSectionOf
  Values = {a, b, aa, lines, empty, meta}
  Empty = empty
  Told = {a, lines}
  None = None
  Alike <- MCAlike
  Reload <- MCReload
  Batches <- MCBatches
  Insights <- MCInsights
  MaxCalls = 3
  MaxScores = 1
  MaxDay = 1
  MaxFailures = 1
  MaxRestarts = 1
SPECIFICATION Spec
INVARIANTS MemoryKept AgentsWord
PROPERTY ChangesOrdered
SYMMETRY Symmetry
CHECK_DEADLOCK FALSE

SPECIFICATION Spec
CONSTANTS
  Depth = 2
  Length = 4
  Steps = 5
  Interval = 2
  Keep = 1
  Async = FALSE
  Resumable = FALSE
  Budget = 0
  TokensPerStep = 1
  TokenCounts = {1}
  InitFromRun = FALSE
  MaxInterruptions = 2
INVARIANTS
  LegReadsInOrder
PROPERTIES
  Persists

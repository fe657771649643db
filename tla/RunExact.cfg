SPECIFICATION Spec
CONSTANTS
  Depth = 0
  Length = 40
  Steps = 6
  Interval = 2
  Keep = 2
  Async = TRUE
  Resumable = TRUE
  Budget = 10
  TokensPerStep = 2
  TokenCounts = {1, 2}
  InitFromRun = TRUE
  MaxInterruptions = 3
INVARIANTS
  ExactReplay
  PersistedAgrees
  BoundedLoss
  ScheduleInStep
  NoOverwrite
PROPERTIES
  Completes

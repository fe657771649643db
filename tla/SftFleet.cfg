SPECIFICATION Spec
CONSTANTS
  N = 3
  Steps = 3
  Interval = 2
  MaxShard = 4
  MaxFailures = 1
INVARIANTS
  NobodyStranded
  StopsWithTheDriest
  ArtefactKept
PROPERTIES
  Finishes
CHECK_DEADLOCK FALSE

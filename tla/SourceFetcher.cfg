SPECIFICATION Spec
CONSTANTS
  Name = "web"
  Shard = 3
  MaxDocs = 2
  Allowance = 3
  RowBuffer = 2
  Asks = 4
  MaxFaults = 4
INVARIANTS
  RowsBeforeError
  NothingSkipped
PROPERTIES
  MergeSpec
  GetReturns
CHECK_DEADLOCK FALSE

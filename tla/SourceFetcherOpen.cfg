SPECIFICATION Spec
CONSTANTS
  Name = "web"
  Shard = 3
  MaxDocs = 2
  Allowance = 6
  RowBuffer = 2
  Asks = 4
  MaxFaults = 3
PROPERTY
  OnlyAllowanceRaises
CHECK_DEADLOCK FALSE

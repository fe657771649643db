SPECIFICATION Spec
CONSTANTS
  Capacity = 4
  RowsPerBatch = 2
  BufferRows = 2
  MaxRender = 4
  Limited = TRUE
  MaxRecords = 5
  MaxSize = 5
INVARIANTS
  EveryRecordOnce
  NeighboursOverfill
  StopsOnlyWhenDry
PROPERTIES
  CallsReturn
CHECK_DEADLOCK FALSE

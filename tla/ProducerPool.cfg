SPECIFICATION Spec
CONSTANTS
  Workers = {w1, w2}
  Nobody = Nobody
  Capacity = 4
  Room = 1
  Asks = 5
  MaxKills = 2
INVARIANTS
  SlotsAccounted
  ReportComesLast
PROPERTIES
  MergeSpec
  NextReturns
CHECK_DEADLOCK FALSE

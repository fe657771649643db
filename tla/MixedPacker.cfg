SPECIFICATION Spec
CONSTANTS
  Text = {"web"}
  Vision = "vision"
  Capacity = 6
  Slack = 1
  MaxImages = 2
  RowSizes = {2, 3, 6}
  MaxRows = 4
INVARIANTS
  EveryRowKept
  ExamplesFit
  PaddedForCause
  OvertakenByOne
PROPERTY
  ExampleEnds
CHECK_DEADLOCK FALSE

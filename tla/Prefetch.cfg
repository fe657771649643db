SPECIFICATION PrefetchSpec
CONSTANTS
  Depth = 3
  Length = 9
PROPERTY
  StreamSpec
CHECK_DEADLOCK FALSE

SPECIFICATION Spec
CONSTANTS
  N = 2
  Steps = 7
  Interval = 2
  Keep = 3
  Lengths = {5, 7}
  MaxDeaths = 2
INVARIANTS
  CommonStepKept
  FleetLossBounded
  EndsTogether
PROPERTY
  LegEnds
CHECK_DEADLOCK FALSE

SPECIFICATION Spec
CONSTANTS
  N = 2
  Records = 4
  Shuffles <- MCShuffles
  Attempts = 2
  MaxFaults = 1
  Size <- MCSize
  Required = 3
  TokenizeBatch = 2
  Reservations <- MCReservations
  Validation = FALSE
INVARIANT
  HostsDisjoint
CHECK_DEADLOCK FALSE

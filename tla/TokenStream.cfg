SPECIFICATION Spec
CONSTANTS
  N = 2
  Records = 4
  Shuffles <- MCShuffles
  Attempts = 2
  MaxFaults = 3
  Size <- MCSize
  Required = 3
  TokenizeBatch = 2
  Reservations <- MCReservations
  Validation = FALSE
INVARIANTS
  EpochDisjoint
  WindowsInOrder
  SelectedOnce
  TailLoss
  BudgetPerIncident
PROPERTIES
  Finishes
CHECK_DEADLOCK FALSE

SPECIFICATION Spec
CONSTANTS
  c1 = c1
  c2 = c2
  Caller = {c1}
  HasPolicy = TRUE
  Budget = {1}
  MaxBlocks = 1
  MaxReads = 1
  Baud <- Bauds
  MaxLength = 1
INVARIANTS
  SuccessMeansReleased
CHECK_DEADLOCK FALSE

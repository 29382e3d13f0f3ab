SPECIFICATION FairSpec
CONSTANTS
  c1 = c1
  c2 = c2
  Caller = {c1}
  HasPolicy = TRUE
  Budget <- Budgets
  MaxBlocks = 2
  MaxReads = 1
  Baud <- Bauds
  MaxLength = 150
INVARIANTS
  TypeOK
  ReturnedMeansReleased
  SettledBeforeRelease
  BudgetCoversWire
PROPERTIES
  CancelOnlyExpired
  OutputBeforeTeardown
  EndsReleased
CHECK_DEADLOCK FALSE

\* Two workers with queries up to one byte beyond the limit, any byte of which
\* may be a semicolon, and workers that die.
CONSTANTS
  w1 = w1
  w2 = w2
  Workers <- TwoWorkers
  MaxQueries = 2
  MaxTotal = 2
  Lengths <- BeyondLimit
  Limit = 2
  MaxRows = 1
  WorkersMayDie = TRUE
SPECIFICATION FairSpec
CHECK_DEADLOCK FALSE
INVARIANTS
  TypeOK
  InStep
PROPERTIES
  ImplementsService
  QueryReturns

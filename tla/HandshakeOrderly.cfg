\* Connections opened one at a time, closed and opened again.
SPECIFICATION FairSpec
CONSTANTS
  Clients = {"c1", "c2"}
  Name <- Own
  MaxStarts = 2
  Mortal = {}
  MaxFiles = 6
  ForkMayFail = FALSE
  Orderly = TRUE
INVARIANTS MasterStaysUp
PROPERTIES OpenReturns
CHECK_DEADLOCK FALSE

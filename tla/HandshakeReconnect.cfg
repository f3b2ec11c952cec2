\* One client that closes and connects again while its worker lingers.
SPECIFICATION Spec
CONSTANTS
  Clients = {"c1"}
  Name <- Own
  MaxStarts = 2
  Mortal = {}
  MaxFiles = 9
  ForkMayFail = FALSE
  Orderly = FALSE
INVARIANTS MasterStaysUp
CHECK_DEADLOCK FALSE

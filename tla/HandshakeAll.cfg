\* Three clients, two of them under one name; deaths; nobody waits for anybody.
SPECIFICATION Spec
CONSTANTS
  Clients = {"c1", "c2", "c3"}
  Name <- TwoNames
  MaxStarts = 1
  Mortal = {"c1", "master"}
  MaxFiles = 5
  ForkMayFail = TRUE
  Orderly = FALSE
INVARIANTS TypeOK Paired
CHECK_DEADLOCK FALSE

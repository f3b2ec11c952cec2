\* A command typed while a get is outstanding.
CONSTANTS
  Commands <- LoginGetEcho
  MaxRequests = 3
  MinThreads = 4
  MaxThreads = 4
  ThreadCreateMayFail = FALSE
SPECIFICATION Spec
CHECK_DEADLOCK FALSE
INVARIANTS
  OwnAnswer

\* A login and then overlapping gets only.
CONSTANTS
  Commands <- LoginAndGet
  MaxRequests = 4
  MinThreads = 5
  MaxThreads = 5
  ThreadCreateMayFail = FALSE
SPECIFICATION FairSpec
CHECK_DEADLOCK FALSE
INVARIANTS
  ListenersTakeWholeFrames
PROPERTIES
  GetReturns

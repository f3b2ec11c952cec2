\* One command at a time: no get.  The array of threads grows once and then
\* the worker refuses.
CONSTANTS
  Commands <- SyncCommands
  MaxRequests = 4
  MinThreads = 2
  MaxThreads = 4
  ThreadCreateMayFail = TRUE
SPECIFICATION FairSpec
CHECK_DEADLOCK FALSE
INVARIANTS
  SessionAgrees
  OwnAnswer
  ExitAfterReplies
  FramesWhole
PROPERTIES
  CommandReturns
  WorkerFollows

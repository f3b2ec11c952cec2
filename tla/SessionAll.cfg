\* Every command, gets outstanding while other commands run.
CONSTANTS
  Commands <- AllCommands
  MaxRequests = 3
  MinThreads = 2
  MaxThreads = 4
  ThreadCreateMayFail = TRUE
SPECIFICATION Spec
CHECK_DEADLOCK FALSE
INVARIANTS
  TypeOK
  SlotInArray
  FramesWholeUnlessRefused

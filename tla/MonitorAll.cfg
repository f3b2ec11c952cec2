\* The master and a responder post; server and monitor are started again.
CONSTANTS
  master = master
  responder = responder
  Threads <- TwoThreads
  Process <- Owner
  Id <- Ids
  Statuses <- OkAndDown
  MaxPosts = 2
  MaxStarts = 2
SPECIFICATION FairSpec
CHECK_DEADLOCK FALSE
INVARIANTS
  TypeOK
  SlotWhole
  CopyWhole
PROPERTIES
  PostReturns
  CatchesUp

\* Two threads, a queue of two, four messages, a restarted server.
CONSTANTS
  Threads = {t1, t2}
  MAX_MSG = 2
  MaxMessages = 4
  MaxStarts = 2
SPECIFICATION FairSpec
CHECK_DEADLOCK FALSE
INVARIANTS
  TypeOK
  OnePlace
  LogInOrder
PROPERTIES
  SendReturns
  Logged

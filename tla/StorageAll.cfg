\* Two workers, an administrator whose home is a prefix of the other user's.
CONSTANTS
  w1 = w1
  w2 = w2
  Workers <- TwoWorkers
  Names <- TwoNames
  Root = "root"
  Extends <- Prefixes
  Aliases = {"a"}
  Passwords = {"p", "q"}
  MaxUsers = 3
  MaxFiles = 3
  MaxFaults = 2
SPECIFICATION Spec
SYMMETRY WorkerSymmetry
CHECK_DEADLOCK FALSE
INVARIANTS
  TypeOK
  FilesHaveRows
  RowsHaveFiles
  AckedStored
  OwnFirst
  LoginReaches

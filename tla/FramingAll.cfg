\* Two messages over a pipe of three bytes, with texts, replies and files of every kind.
CONSTANTS
  Texts <- SomeTexts
  Replies <- SomeReplies
  Files <- SomeFiles
  Leftovers <- SomeLeftovers
  Marks <- TwoMarks
  PipeCapacity = 3
  BufferLength = 14
  BoundaryLength = 5
  MaxMessages = 2
SPECIFICATION FairSpec
CHECK_DEADLOCK FALSE
INVARIANTS
  TypeOK
  InStep
  InBuffer
PROPERTIES
  Delivered
  ImplementsChannel

SPECIFICATION FairSpec
CONSTANTS
  BatchSize = 2
  Concurrency = 2
  FlushDelay = 1
  MaxMessages = 9
INVARIANTS
  BoundedBuffers
  NoLostWakeups
  HandledInOrder
  CloseDrains
PROPERTIES
  AcceptedIsHandled
  CloseResolves
CHECK_DEADLOCK FALSE

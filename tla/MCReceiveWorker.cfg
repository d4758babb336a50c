CONSTANTS
  WorkerBuffer = 2
  MaxMessages = 6

SPECIFICATION FairSpec

INVARIANTS
  TypeOK
  QueueBounded
  NothingLost
  InOrderOnce
  StopsAtTerminate
  TerminateQueued

PROPERTIES
  GivesUpWithCause
  DroppedTaskEnds
  ImplementsOrderedDelivery

CHECK_DEADLOCK FALSE

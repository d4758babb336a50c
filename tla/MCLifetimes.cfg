CONSTANTS
  n1 = n1
  n2 = n2
  timer = timer
  registered = registered
  publisher = publisher
  Nodes = {n1, n2}
  Entities = {timer, registered, publisher}
  Choice <- MCChoice
  NodeOf <- MCNodeOf
SPECIFICATION FairSpec
CHECK_DEADLOCK FALSE
INVARIANTS
  TypeOK
  FinalizedInOrder
  TimerDanglesWithCause
PROPERTIES
  EverythingFinalized

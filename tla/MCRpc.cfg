CONSTANTS
  server1 = server1
  server2 = server2
  Servers = {server1, server2}
  MaxRequests = 2
  Depth = 1
  RequestDepth = 1
  WorkerBuffer = 0
  MultiThread = TRUE
  MayCancel = TRUE
  Garbled = {1, 2}
  Unsteady = {server1}

SPECIFICATION RpcSpec

INVARIANTS
  RpcTypeOK
  PendingsExact
  AnswersOwed

PROPERTIES
  BreaksWithCause
  CallReturns

CHECK_DEADLOCK FALSE

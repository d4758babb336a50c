CONSTANTS
  server1 = server1
  server2 = server2
  Servers = {server1}
  MaxRequests = 3
  Depth = 2
  WorkerBuffer = 0
  MultiThread = TRUE
  MayCancel = FALSE
  Garbled = {}

SPECIFICATION FairSpec

INVARIANT KeyIsFound

CHECK_DEADLOCK FALSE

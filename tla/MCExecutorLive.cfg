CONSTANTS
  s1 = s1  t1 = t1  c1 = c1  v1 = v1
  Subscriptions = {s1}
  Timers = {}
  Clients = {}
  Services = {v1}
  Spurious = {s1}
  NodeBuffer = 1
  WorkerBuffer = 0
  Depth = 1
  MaxArrivals = 1

SPECIFICATION FairSpec

PROPERTIES
  DropReturns
  ShutdownEndsExecutor
  MessagesTaken

CHECK_DEADLOCK FALSE

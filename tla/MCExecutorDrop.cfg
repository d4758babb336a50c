CONSTANTS
  s1 = s1  t1 = t1  c1 = c1  v1 = v1
  Subscriptions = {s1}
  Timers = {}
  Clients = {}
  Services = {}
  Spurious = {}
  NodeBuffer = 1
  WorkerBuffer = 0
  Depth = 1
  MaxArrivals = 1

SPECIFICATION FairSpec

INVARIANT DropAfterWaitSucceeds

CHECK_DEADLOCK FALSE

CONSTANTS
  s1 = s1  t1 = t1  c1 = c1  v1 = v1
  Subscriptions = {}
  Timers = {}
  Clients = {c1}
  Services = {}
  Spurious = {c1}
  NodeBuffer = 1
  WorkerBuffer = 0
  Depth = 1
  MaxArrivals = 1

SPECIFICATION FairSpec

INVARIANT SpuriousClientIgnored

CHECK_DEADLOCK FALSE

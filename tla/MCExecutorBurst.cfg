CONSTANTS
  s1 = s1  t1 = t1  c1 = c1  v1 = v1
  Subscriptions = {s1}
  Timers = {t1}
  Clients = {c1}
  Services = {}
  Spurious = {}
  NodeBuffer = 1
  WorkerBuffer = 0
  Depth = 1
  MaxArrivals = 1

SPECIFICATION FairSpec

INVARIANT RegistrationSucceeds

CHECK_DEADLOCK FALSE

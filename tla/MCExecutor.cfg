CONSTANTS
  s1 = s1  t1 = t1  c1 = c1  v1 = v1
  Subscriptions = {}
  Timers = {t1}
  Clients = {c1}
  Services = {}
  Spurious = {c1}
  NodeBuffer = 1
  WorkerBuffer = 0
  Depth = 1
  MaxArrivals = 2

SPECIFICATION FairSpec

INVARIANTS
  TypeOK
  RegisteredOnce
  LiveEntityKeepsSender
  DroppedNodeIsQuiet

PROPERTIES
  FailsWithCause
  PanicsWithCause

CHECK_DEADLOCK FALSE

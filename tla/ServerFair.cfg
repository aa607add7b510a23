SPECIFICATION FairSpec
CONSTANTS
  Gauges = {alloc}
  Counters = {pollCount}
  Requests = {r1, r2}
  Restore = TRUE
  Periodic = TRUE
  Faults <- SlowClients
  MaxBoots = 1
PROPERTIES
  SignalEndsTheServer
  PromisedUpdatesReachTheFile

SPECIFICATION HungSpec
CONSTANTS
  Gauges = {alloc}
  Counters = {pollCount}
  Batches <- Pairs
  Requests = {r1, r2}
  MaxAttempts = 2
  Faults <- Timers
PROPERTIES
  SignalEndsTheServer

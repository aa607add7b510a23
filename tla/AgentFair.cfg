\* Every goroutine runs on and no timer expires: the shutdown that is meant.
SPECIFICATION FairSpec
CONSTANTS
  Collectors = {runtime, system}
  Workers = {w1, w2}
  Cap = 1
  MaxBatches = 2
  Timers <- NoTimers
PROPERTIES
  ShutdownTerminates
  BatchesReachWorkers

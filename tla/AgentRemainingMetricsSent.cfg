\* No timer expires: what the README says of the batches left at shutdown.
SPECIFICATION Spec
CONSTANTS
  Collectors = {runtime, system}
  Workers = {w1, w2}
  Cap = 1
  MaxBatches = 2
  Timers <- NoTimers
INVARIANTS
  RemainingMetricsSent

\* No timer expires: what the README says of how the agent ends.
SPECIFICATION Spec
CONSTANTS
  Collectors = {runtime, system}
  Workers = {w1, w2}
  Cap = 1
  MaxBatches = 2
  Timers <- NoTimers
INVARIANTS
  EndsNormally

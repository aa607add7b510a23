\* Every timer may expire at any moment, and the server may never answer: of
\* the goroutines only those of the shutdown are sure to run on.
SPECIFICATION HungSpec
CONSTANTS
  Collectors = {runtime, system}
  Workers = {w1, w2}
  Cap = 1
  MaxBatches = 3
  Timers <- AllTimers
INVARIANTS
  TypeOK
  FlowInv
  TransferredBeforeStop
  PanicsHaveACause
  OvertakenAtMostByOthers
  GracefulExit
PROPERTIES
  FlowSpec
  ShutdownTerminates

SPECIFICATION FairSpec
CONSTANTS
  Gauges = {alloc}
  Counters = {pollCount}
  Batches <- Pairs
  Requests = {r1, r2}
  MaxAttempts = 2
  Faults <- AllFaults
INVARIANTS
  TypeOK
  BatchIsAtomic
  RepeatedOnlyAfterALostAnswer
  BatchAnswersTellTheTruth
  OnlyErrorsAreSwallowed
  DeadlockNeedsOpposedOrders
  PagesShowTheCountersOfAGauge
PROPERTIES
  TableIsAtomic
  HandlersRunOut
  UpdatesAreAnswered
  SignalEndsTheServer

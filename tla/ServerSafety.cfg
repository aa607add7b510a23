SPECIFICATION Spec
CONSTANTS
  Gauges = {alloc}
  Counters = {pollCount}
  Requests = {r1, r2}
  Restore = TRUE
  Periodic = TRUE
  Faults <- AllFaults
  MaxBoots = 2
SYMMETRY RequestSymmetry
INVARIANTS
  TypeOK
  NothingPromisedIsLost
  BatchesSavedWhole
  PagesShowTheCountersOfAGauge
  AnswersAreFresh
PROPERTIES
  SavesNeverGoBack
  StoreIsAtomic

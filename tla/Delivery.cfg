\* The values of the code; the calling goroutine and its timers go on.
SPECIFICATION FairSpec
CONSTANTS
  MaxAttempts = 4
  Delays <- DefaultDelays
  AttemptTimeout = 10
  Deadline = 30
INVARIANTS
  TypeOK
  RepeatedOnlyIfRewound
  SuccessMeansApplied
  NoAttemptAfterTheDeadline
PROPERTIES
  RetriesRunOut
  CallReturns

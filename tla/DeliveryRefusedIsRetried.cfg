SPECIFICATION Spec
CONSTANTS
  MaxAttempts = 4
  Delays <- DefaultDelays
  AttemptTimeout = 10
  Deadline = 30
INVARIANTS
  RefusedConnectionIsRetried

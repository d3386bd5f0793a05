CONSTANTS
  Callers = {c1, c2, c3, c4}
  MaxConcurrent = 2
  FailureThreshold = 2
  SuccessThreshold = 3
  HalfOpenMaxRequests = 2
  ResetTimeout = 2
SPECIFICATION FairSpec
INVARIANTS TypeOK SlotsHeld
PROPERTIES ImplementsBreaker CallsReturn RecoveryCloses

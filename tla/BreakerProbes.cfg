\* The thresholds of parsersConfig.yml for hh.ru, and as many callers as it takes.
CONSTANTS
  Callers = {c1, c2, c3}
  FailureThreshold = 5
  SuccessThreshold = 3
  HalfOpenMaxRequests = 2
  ResetTimeout = 2
  UintModulus = 4
SPECIFICATION HSpec
INVARIANT ProbesWithinMax

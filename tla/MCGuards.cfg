\* The breaker's default thresholds 5, 3, 2 of NewCircutBreaker, and four callers so
\* that late results of an older state can meet all the probes of an episode.
\* Burst is 3: a token in the limiter's channel, one in the goroutine's hand and a
\* tick in the ticker's channel.
CONSTANTS
  Callers = {c1, c2, c3, c4}
  FailureThreshold = 5
  SuccessThreshold = 3
  HalfOpenMaxRequests = 2
  ResetTimeout = 2
  UintModulus = 4
  Items = {i1, i2, i3}
  Producers = {p1, p2}
  Capacity = 2
  NoItem = NoItem
  Waiters = {w1, w2}
  Rate = 2
  Burst = 3
SPECIFICATION MCSpec
INVARIANTS FailureCount ProbesAccounted NoLockout StatsBalance AcceptedOnce BucketHolds OneLateToken
PROPERTIES OpenHolds RecoveryCloses ImplementsQueuePromise WaitReturns

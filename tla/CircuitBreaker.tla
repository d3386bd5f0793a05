--------------------------- MODULE CircuitBreaker ---------------------------
(***************************************************************************)
(* The circuit breaker of internal/circuitbreaker.  One breaker is shared  *)
(* by a set of goroutines; Execute takes the mutex twice, once to decide   *)
(* whether the call may go on and once to record how it ended, and runs    *)
(* the protected operation between the two without the mutex.  Results     *)
(* therefore arrive in any order and may belong to an earlier state.       *)
(***************************************************************************)
EXTENDS Naturals, FiniteSets

CONSTANTS
  Callers,              \* goroutines that call Execute
  FailureThreshold,     \* consecutive failures that open the breaker
  SuccessThreshold,     \* successes that close a half-open breaker
  HalfOpenMaxRequests,  \* limit that halfOpenAttempts is compared with
  ResetTimeout,         \* cool-down of an open breaker, in clock ticks
  UintModulus           \* 2^w for the uint statistics counters

\* NewCircutBreaker replaces every zero parameter by a positive default.
ASSUME BreakerAssumption ==
  /\ IsFiniteSet(Callers)
  /\ FailureThreshold \in Nat \ {0}
  /\ SuccessThreshold \in Nat \ {0}
  /\ HalfOpenMaxRequests \in Nat \ {0}
  /\ ResetTimeout \in Nat \ {0}
  /\ UintModulus \in Nat \ {0}

VARIABLES
  state,             \* cb.state
  failures,          \* cb.failures
  successes,         \* cb.successes
  sinceFailure,      \* time.Since(cb.lastFailureTime), saturated at ResetTimeout
  halfOpenAttempts,  \* cb.halfOpenAttempts
  totalRequests, totalSuccesses, totalFailures,  \* cb's statistics
  executing          \* callers between the two critical sections, in fn()

control == <<state, failures, successes, sinceFailure, halfOpenAttempts>>
stats == <<totalRequests, totalSuccesses, totalFailures>>
vars == <<control, stats, executing>>

States == {"Closed", "Open", "HalfOpen"}

TypeOK ==
  /\ state \in States
  /\ failures \in 0..FailureThreshold
  /\ successes \in 0..(SuccessThreshold - 1)
  /\ sinceFailure \in 0..ResetTimeout
  /\ halfOpenAttempts \in 0..HalfOpenMaxRequests
  /\ totalRequests \in 0..(UintModulus - 1)
  /\ totalSuccesses \in 0..(UintModulus - 1)
  /\ totalFailures \in 0..(UintModulus - 1)
  /\ executing \in SUBSET Callers

\* lastFailureTime starts as the zero time, longer ago than any timeout.
Init ==
  /\ state = "Closed"
  /\ failures = 0
  /\ successes = 0
  /\ sinceFailure = ResetTimeout
  /\ halfOpenAttempts = 0
  /\ totalRequests = 0
  /\ totalSuccesses = 0
  /\ totalFailures = 0
  /\ executing = {}

Increment(counter) == (counter + 1) % UintModulus
-----------------------------------------------------------------------------
(* Execute, first critical section. *)

CooledDown == sinceFailure >= ResetTimeout

\* As if the limit were inclusive.
ProbeRoomInclusive == halfOpenAttempts <= HalfOpenMaxRequests

ProbeRoom == halfOpenAttempts < HalfOpenMaxRequests

\* The call returns ErrCircuitOpen or ErrTooManyRequests; nothing changes.
Refused ==
  \/ state = "Open" /\ ~CooledDown
  \/ state = "HalfOpen" /\ ~ProbeRoom

PassClosed ==
  /\ state = "Closed"
  /\ UNCHANGED control

\* As if the call that makes the breaker half-open counted as an attempt.
StartProbingCounted ==
  /\ state = "Open"
  /\ CooledDown
  /\ state' = "HalfOpen"
  /\ halfOpenAttempts' = 1
  /\ successes' = 0
  /\ UNCHANGED <<failures, sinceFailure>>

\* The first call after the cool-down goes through without being counted.
StartProbing ==
  /\ state = "Open"
  /\ CooledDown
  /\ state' = "HalfOpen"
  /\ halfOpenAttempts' = 0
  /\ successes' = 0
  /\ UNCHANGED <<failures, sinceFailure>>

PassProbe ==
  /\ state = "HalfOpen"
  /\ ProbeRoom
  /\ halfOpenAttempts' = halfOpenAttempts + 1
  /\ UNCHANGED <<state, failures, successes, sinceFailure>>

Admit(c) ==
  /\ c \notin executing
  /\ PassClosed \/ StartProbing \/ PassProbe
  /\ totalRequests' = Increment(totalRequests)
  /\ executing' = executing \cup {c}
  /\ UNCHANGED <<totalSuccesses, totalFailures>>
-----------------------------------------------------------------------------
(* Execute, second critical section. *)

CountFailure ==
  /\ state = "Closed"
  /\ failures' = failures + 1
  /\ IF failures + 1 >= FailureThreshold
       THEN state' = "Open" /\ sinceFailure' = 0
       ELSE UNCHANGED <<state, sinceFailure>>
  /\ UNCHANGED <<successes, halfOpenAttempts>>

\* As if lastFailureTime were stamped only when a closed breaker opens.
ReopenUnstamped ==
  /\ state = "HalfOpen"
  /\ state' = "Open"
  /\ halfOpenAttempts' = 0
  /\ UNCHANGED <<failures, successes, sinceFailure>>

Reopen ==
  /\ state = "HalfOpen"
  /\ state' = "Open"
  /\ sinceFailure' = 0
  /\ halfOpenAttempts' = 0
  /\ UNCHANGED <<failures, successes>>

\* A result that arrives while the breaker is open changes no control state.
IgnoreWhileOpen ==
  /\ state = "Open"
  /\ UNCHANGED control

onFailure == CountFailure \/ Reopen \/ IgnoreWhileOpen

ForgiveFailures ==
  /\ state = "Closed"
  /\ failures' = 0
  /\ UNCHANGED <<state, successes, sinceFailure, halfOpenAttempts>>

\* As if closing left the old failure count in place.
CountSuccessKeepFailures ==
  /\ state = "HalfOpen"
  /\ IF successes + 1 >= SuccessThreshold
       THEN /\ state' = "Closed"
            /\ successes' = 0
            /\ halfOpenAttempts' = 0
       ELSE /\ successes' = successes + 1
            /\ UNCHANGED <<state, halfOpenAttempts>>
  /\ UNCHANGED <<failures, sinceFailure>>

CountSuccess ==
  /\ state = "HalfOpen"
  /\ IF successes + 1 >= SuccessThreshold
       THEN /\ state' = "Closed"
            /\ failures' = 0
            /\ successes' = 0
            /\ halfOpenAttempts' = 0
       ELSE /\ successes' = successes + 1
            /\ UNCHANGED <<state, failures, halfOpenAttempts>>
  /\ UNCHANGED sinceFailure

onSuccess == ForgiveFailures \/ CountSuccess \/ IgnoreWhileOpen

Fail(c) ==
  /\ c \in executing
  /\ executing' = executing \ {c}
  /\ totalFailures' = Increment(totalFailures)
  /\ onFailure
  /\ UNCHANGED <<totalRequests, totalSuccesses>>

\* As if only a success that a half-open breaker counts were recorded.
SucceedUnrecorded(c) ==
  /\ c \in executing
  /\ executing' = executing \ {c}
  /\ totalSuccesses' = IF state = "Open" THEN totalSuccesses ELSE Increment(totalSuccesses)
  /\ onSuccess
  /\ UNCHANGED <<totalRequests, totalFailures>>

Succeed(c) ==
  /\ c \in executing
  /\ executing' = executing \ {c}
  /\ totalSuccesses' = Increment(totalSuccesses)
  /\ onSuccess
  /\ UNCHANGED <<totalRequests, totalFailures>>

Return(c) == Succeed(c) \/ Fail(c)

\* Time passes; beyond ResetTimeout every age is alike.
Tick ==
  /\ sinceFailure' = IF CooledDown THEN sinceFailure ELSE sinceFailure + 1
  /\ UNCHANGED <<state, failures, successes, halfOpenAttempts, stats, executing>>

Next ==
  \/ \E c \in Callers : Admit(c) \/ Return(c)
  \/ Tick

Spec == Init /\ [][Next]_vars

\* Time passes, and every protected operation ends: the HTTP client and the
\* semaphore wait have timeouts and the rate limiter's ticker keeps going.
Fairness ==
  /\ WF_vars(Tick)
  /\ \A c \in Callers : WF_vars(Return(c))
-----------------------------------------------------------------------------
(* A closed breaker is always below its failure threshold and one that is  *)
(* open or half-open has reached it: no interleaving of late results lets  *)
(* the breaker count past the threshold without opening, or close again    *)
(* with failures left over.                                                *)
FailureCount ==
  IF state = "Closed" THEN failures < FailureThreshold
                      ELSE failures = FailureThreshold

(* Every probe a half-open breaker let through has either succeeded or is  *)
(* still running, whichever results of older calls came in between.        *)
ProbesAccounted ==
  state = "HalfOpen" =>
    successes + Cardinality(executing) >= halfOpenAttempts + 1

(* With thresholds the probes can reach, a half-open breaker that is       *)
(* waiting for nothing lets the next call through: it can never refuse     *)
(* every later call with ErrTooManyRequests.  The default thresholds, 3    *)
(* and 2, satisfy the condition with nothing to spare.                     *)
NoLockout ==
  /\ SuccessThreshold <= HalfOpenMaxRequests + 1
  /\ state = "HalfOpen"
  /\ executing = {}
  => ~Refused

(* GetStats adds up: the calls let through are those that succeeded, those *)
(* that failed and those still running, in uint arithmetic.                *)
StatsBalance ==
  totalRequests =
    (totalSuccesses + totalFailures + Cardinality(executing)) % UintModulus

(* Callers keep trying: a call that could be let through is, in the end.   *)
Demand == WF_vars(\E c \in Callers : Admit(c))

(* If callers keep trying and from some moment on the source answers every *)
(* call, the breaker closes and stays closed.                              *)
RecoveryCloses ==
  Demand /\ <>[][~\E c \in Callers : Fail(c)]_vars => <>[](state = "Closed")

(* The inductive invariant of the proofs. *)
IInv ==
  /\ TypeOK
  /\ FailureCount
  /\ ProbesAccounted
=============================================================================

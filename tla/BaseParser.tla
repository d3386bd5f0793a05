----------------------------- MODULE BaseParser ------------------------------
(***************************************************************************)
(* base_parser.go: the calls of one source.  SearchVacancies and           *)
(* SearchVacancyDetailes run the same body inside the Execute of the       *)
(* source's circuit breaker: a slot of the semaphore, for which they wait  *)
(* two seconds, a token of the rate limiter, for which they wait as long   *)
(* as it takes and with the slot held, the HTTP request and the reading of *)
(* its response.  The slot is given back before the breaker learns how the *)
(* call ended.                                                             *)
(***************************************************************************)
EXTENDS Naturals, FiniteSets

CONSTANTS
  Callers,        \* goroutines that search or fetch details
  MaxConcurrent,  \* slots of the semaphore
  FailureThreshold, SuccessThreshold, HalfOpenMaxRequests, ResetTimeout

ASSUME ParserAssumption ==
  /\ IsFiniteSet(Callers)
  /\ MaxConcurrent \in Nat \ {0}
  /\ FailureThreshold \in Nat \ {0}
  /\ SuccessThreshold \in Nat \ {0}
  /\ HalfOpenMaxRequests \in Nat \ {0}
  /\ ResetTimeout \in Nat \ {0}

VARIABLES
  at,         \* where each caller is
  semaphore,  \* slots taken
  token,      \* tokens in the rate limiter's channel
  state, failures, successes, sinceFailure, halfOpenAttempts  \* the breaker

control == <<state, failures, successes, sinceFailure, halfOpenAttempts>>
vars == <<at, semaphore, token, control>>

\* The calls the breaker let through; its statistics are left out.
Calls == {c \in Callers : at[c] # "idle"}

Breaker == INSTANCE CircuitBreaker
  WITH executing <- Calls, UintModulus <- 1,
       totalRequests <- 0, totalSuccesses <- 0, totalFailures <- 0

WithSlot == {"limit", "request", "reading"}
Holders == {c \in Callers : at[c] \in WithSlot}

TypeOK ==
  /\ at \in [Callers -> {"idle", "acquire", "succeeded", "failed"} \cup WithSlot]
  /\ semaphore \in 0 .. MaxConcurrent
  /\ token \in 0 .. 1
  /\ Breaker!TypeOK

Init ==
  /\ at = [c \in Callers |-> "idle"]
  /\ semaphore = 0
  /\ token = 0
  /\ Breaker!Init
-----------------------------------------------------------------------------
Go(c, from, to) == at[c] = from /\ at' = [at EXCEPT ![c] = to]

\* A call the breaker refuses returns an error and changes nothing.
Call(c) ==
  /\ Go(c, "idle", "acquire")
  /\ Breaker!Admit(c)
  /\ UNCHANGED <<semaphore, token>>

\* As if the semaphore had a slot more than connections.
SlotFreeInclusive == semaphore <= MaxConcurrent

SlotFree == semaphore < MaxConcurrent

\* acquireSemaphore: three cases of a select.
AcquireSlot(c) ==
  /\ SlotFree
  /\ Go(c, "acquire", "limit")
  /\ semaphore' = semaphore + 1
  /\ UNCHANGED <<token, control>>

\* As if the release had been deferred before the slot was acquired.
ContextDoneReleasing(c) ==
  /\ Go(c, "acquire", "failed")
  /\ semaphore' = IF semaphore > 0 THEN semaphore - 1 ELSE 0
  /\ UNCHANGED <<token, control>>

\* The caller's context may be done at any time.
ContextDone(c) ==
  /\ Go(c, "acquire", "failed")
  /\ UNCHANGED <<semaphore, token, control>>

\* As if a busy semaphore were no result of the call.
SlotTimeoutUncounted(c) ==
  /\ ~SlotFree
  /\ Go(c, "acquire", "idle")
  /\ UNCHANGED <<semaphore, token, control>>

\* As if the select had no case for the timer.
SlotTimeoutNever(c) == FALSE /\ c \in Callers /\ UNCHANGED vars

\* A slot that is given back goes to who waits for it, so the timer fires
\* with all of them taken.
SlotTimeout(c) ==
  /\ ~SlotFree
  /\ Go(c, "acquire", "failed")
  /\ UNCHANGED <<semaphore, token, control>>

\* The limiter is never stopped: Wait returns with a token or not at all.
Wait(c) ==
  /\ Go(c, "limit", "request")
  /\ token = 1
  /\ token' = 0
  /\ UNCHANGED <<semaphore, control>>

Refill ==
  /\ token = 0
  /\ token' = 1
  /\ UNCHANGED <<at, semaphore, control>>

releaseSemaphore ==
  /\ semaphore' = semaphore - 1
  /\ UNCHANGED <<token, control>>

\* As if the slot were released only after a response.
NoResponseKeepSlot(c) ==
  /\ Go(c, "request", "failed")
  /\ UNCHANGED <<semaphore, token, control>>

\* The connection failed, the client's timeout or the context's deadline came.
NoResponse(c) ==
  /\ Go(c, "request", "failed")
  /\ releaseSemaphore

Respond(c) ==
  /\ Go(c, "request", "reading")
  /\ UNCHANGED <<semaphore, token, control>>

\* Its status, its body or what should be converted is not as expected.
BadResponse(c) ==
  /\ Go(c, "reading", "failed")
  /\ releaseSemaphore

Convert(c) ==
  /\ Go(c, "reading", "succeeded")
  /\ releaseSemaphore

\* Execute's second critical section.
Succeed(c) ==
  /\ Go(c, "succeeded", "idle")
  /\ Breaker!Succeed(c)
  /\ UNCHANGED <<semaphore, token>>

Fail(c) ==
  /\ Go(c, "failed", "idle")
  /\ Breaker!Fail(c)
  /\ UNCHANGED <<semaphore, token>>

Tick == UNCHANGED <<at, semaphore, token>> /\ Breaker!Tick
-----------------------------------------------------------------------------
Acquire(c) == AcquireSlot(c) \/ ContextDone(c) \/ SlotTimeout(c)
Request(c) == NoResponse(c) \/ Respond(c) \/ BadResponse(c) \/ Convert(c)
Settle(c) == Succeed(c) \/ Fail(c)
Search(c) == Call(c) \/ Acquire(c) \/ Wait(c) \/ Request(c) \/ Settle(c)

Next == (\E c \in Callers : Search(c)) \/ Refill \/ Tick

Spec == Init /\ [][Next]_vars

\* Timers, the limiter's ticker and the clock go on, a request ends by the
\* client's timeout at the latest.  Waiters of a channel are served in turn.
FairSpec ==
  /\ Spec
  /\ WF_vars(Refill) /\ WF_vars(Tick)
  /\ \A c \in Callers :
       /\ WF_vars(AcquireSlot(c) \/ SlotTimeout(c))
       /\ SF_vars(Wait(c))
       /\ WF_vars(Request(c))
       /\ WF_vars(Settle(c))
-----------------------------------------------------------------------------
(* A slot is taken for each call that is past acquireSemaphore and for no  *)
(* other, whichever way calls before it failed: never more requests are at *)
(* the source than MaxConcurrent and no slot is lost.                      *)
SlotsHeld == semaphore = Cardinality(Holders)

(* Whatever happens to a call, it is to the breaker one call that it let   *)
(* through and that came back with one result.                             *)
ImplementsBreaker == Breaker!Spec

(* Every call returns, though slots and tokens be scarce and the source    *)
(* never answer.                                                           *)
CallsReturn == \A c \in Callers : at[c] # "idle" ~> at[c] = "idle"

(* The source answers every request, a call fails to get a slot only when  *)
(* its timer fires with all of them taken, and there are not more calls    *)
(* than slots.                                                             *)
Smooth ==
  /\ Cardinality(Calls) <= MaxConcurrent
  /\ \A c \in Callers :
       /\ ~NoResponse(c) /\ ~BadResponse(c)
       /\ ContextDone(c) => SlotTimeout(c)

(* If all is smooth from some moment on and callers keep trying, the       *)
(* breaker closes for good, whatever slots and probes the bad times left.  *)
RecoveryCloses ==
  WF_vars(\E c \in Callers : Call(c)) /\ <>[][Smooth]_vars => <>[](state = "Closed")
=============================================================================

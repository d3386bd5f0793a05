------------------------------ MODULE MCGuards -------------------------------
(***************************************************************************)
(* What stands between a request and its source: the bounded queue, the    *)
(* circuit breaker and the rate limiter.  They share no state, so each     *)
(* behaviour is one of the three, chosen in the initial state, while the   *)
(* other two stay as they were made.                                       *)
(***************************************************************************)
EXTENDS BreakerHistory, Sequences

CONSTANTS
  Items, Producers, Capacity, NoItem,  \* of the queue
  Waiters, Rate, Burst                 \* of the limiter

VARIABLES
  items, closed, queueClosed, sending, clearing, fate, sendPanicked,
  phase, tickerC, run, limiter, stopped, cancelled, chanClosed, stop, at, panicked,
  credit, late, sincePass,
  subject  \* whose behaviour this is

qvars == <<items, closed, queueClosed, sending, clearing, fate, sendPanicked>>
lvars == <<phase, tickerC, run, limiter, stopped, cancelled, chanClosed, stop, at,
           panicked, credit, late, sincePass>>
guards == <<hvars, qvars, lvars, subject>>

Queue ==
  INSTANCE FIFOQueue
    WITH chanClosed <- queueClosed, panicked <- sendPanicked

Limiter == INSTANCE RateLimiter WITH Callers <- Waiters

ASSUME Queue!QueueAssumption
ASSUME Limiter!RateAssumption

MCInit ==
  /\ HInit
  /\ Queue!Init
  /\ Limiter!Init
  /\ subject \in {"breaker", "queue", "limiter"}

Breaker ==
  /\ subject = "breaker"
  /\ HNext
  /\ UNCHANGED <<qvars, lvars, subject>>

QueueNext ==
  /\ subject = "queue"
  /\ Queue!Next
  /\ UNCHANGED <<hvars, lvars, subject>>

LimiterNext ==
  /\ subject = "limiter"
  /\ Limiter!Next
  /\ UNCHANGED <<hvars, qvars, subject>>

MCNext == Breaker \/ QueueNext \/ LimiterNext

\* Time passes and the limiter's goroutines run as long as the process does.
\* Waiters of a channel are served in the order they came, so none is passed
\* over for ever: strong fairness.
Alive == subject = "limiter" /\ ~panicked

LimiterFairness ==
  /\ WF_lvars(Alive /\ Limiter!Clock)
  /\ WF_lvars(Alive /\ Limiter!RunStep)
  /\ WF_lvars(Alive /\ (Limiter!StopCancel \/ Limiter!StopClose))
  /\ \A c \in Waiters :
       SF_lvars(Alive /\ (Limiter!WaitPass(c) \/ Limiter!WaitError(c)))

\* Fairness is the breaker's, and asks nothing of one that was never called.
MCSpec == MCInit /\ [][MCNext]_guards /\ Fairness /\ LimiterFairness

AcceptedOnce == Queue!AcceptedOnce
ImplementsQueuePromise == Queue!ImplementsQueuePromise
BucketHolds == Limiter!BucketHolds
OneLateToken == Limiter!OneLateToken
WaitReturns == Limiter!WaitReturns
=============================================================================

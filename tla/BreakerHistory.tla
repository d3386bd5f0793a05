--------------------------- MODULE BreakerHistory ---------------------------
(***************************************************************************)
(* CircuitBreaker with two history variables, which the code does not      *)
(* have, for the promises that speak of the past: how many calls the       *)
(* current half-open episode let through, and how long the breaker has     *)
(* been open.                                                              *)
(***************************************************************************)
EXTENDS CircuitBreaker

VARIABLES
  probes,   \* calls let through since the breaker became half-open
  openAge   \* ticks since the breaker opened, saturated at ResetTimeout

hvars == <<vars, probes, openAge>>

HInit ==
  /\ Init
  /\ probes = 0
  /\ openAge = 0

Older(age, limit) == IF age < limit THEN age + 1 ELSE age

HCall ==
  /\ \E c \in Callers : Admit(c) \/ Return(c)
  /\ probes' = IF state' # "HalfOpen" THEN 0
               ELSE IF executing \subseteq executing' THEN probes + 1
               ELSE probes
  /\ openAge' = IF state' # state THEN 0 ELSE openAge

HTick ==
  /\ Tick
  /\ openAge' = IF state = "Open" THEN Older(openAge, ResetTimeout) ELSE 0
  /\ UNCHANGED probes

HNext == HCall \/ HTick

HSpec == HInit /\ [][HNext]_hvars

HFairSpec == HSpec /\ Fairness
-----------------------------------------------------------------------------
(* An open breaker lets no call through, whatever late results arrive,     *)
(* until the full cool-down has passed since it opened, and the way out of *)
(* the open state is half-open.                                            *)
OpenHolds ==
  [][state = "Open" /\ state' # "Open" =>
       openAge >= ResetTimeout /\ state' = "HalfOpen"]_hvars

(* What the comment on halfOpenMaxRequests says, "Макс запросов в          *)
(* Half-Open состоянии", and the configuration, "максимальное кол-во       *)
(* запросов в Half-Open состоянии": a half-open episode lets through no    *)
(* more calls than that.                                                   *)
ProbesWithinMax == probes <= HalfOpenMaxRequests

(* What the code keeps instead: the call that starts the episode goes      *)
(* through without being counted, and there is never a second such call.   *)
ProbesBound == probes <= HalfOpenMaxRequests + 1
=============================================================================

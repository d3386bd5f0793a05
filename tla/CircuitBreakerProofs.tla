------------------------ MODULE CircuitBreakerProofs ------------------------
(***************************************************************************)
(* Theorems about CircuitBreaker, and about its past by way of             *)
(* BreakerHistory, for every set of callers and every choice of            *)
(* thresholds, timeout and counter width.                                  *)
(***************************************************************************)
EXTENDS BreakerHistory, FiniteSetTheorems, TLAPS

(* The statistics counters stay within their width. *)
LEMMA IncrementType ==
  ASSUME NEW n \in Nat
  PROVE  Increment(n) \in 0..(UintModulus - 1)
BY BreakerAssumption DEF Increment

(* A new breaker satisfies the invariant. *)
LEMMA InitIInv == Init => IInv
BY BreakerAssumption DEF Init, IInv, TypeOK, States, FailureCount, ProbesAccounted

(* How the number of running calls changes when one enters or leaves fn(). *)
LEMMA ExecutingCount ==
  ASSUME executing \in SUBSET Callers, NEW c \in Callers
  PROVE  /\ Cardinality(executing) \in Nat
         /\ c \notin executing =>
              Cardinality(executing \cup {c}) = Cardinality(executing) + 1
         /\ c \in executing =>
              Cardinality(executing \ {c}) = Cardinality(executing) - 1
<1>1. IsFiniteSet(executing)
  BY BreakerAssumption, FS_Subset
<1>2. QED
  BY <1>1, FS_CardinalityType, FS_AddElement, FS_RemoveElement

(* Execute's first critical section preserves the invariant. *)
LEMMA AdmitIInv ==
  ASSUME IInv, NEW c \in Callers, Admit(c)
  PROVE  IInv'
<1> USE BreakerAssumption DEF IInv, TypeOK, States, FailureCount, ProbesAccounted
<1>1. /\ executing' \in SUBSET Callers
      /\ Cardinality(executing) \in Nat
      /\ Cardinality(executing') = Cardinality(executing) + 1
  BY ExecutingCount DEF Admit
<1>2. stats' \in (0..(UintModulus - 1)) \X (0..(UintModulus - 1)) \X (0..(UintModulus - 1))
  BY IncrementType DEF Admit, stats
<1>3. CASE PassClosed
  BY <1>1, <1>2, <1>3 DEF PassClosed, control, stats
<1>4. CASE StartProbing
  BY <1>1, <1>2, <1>4 DEF StartProbing, stats
<1>5. CASE PassProbe
  BY <1>1, <1>2, <1>5 DEF PassProbe, ProbeRoom, stats
<1>6. QED
  BY <1>3, <1>4, <1>5 DEF Admit

(* Its second one does, whatever state the result finds. *)
LEMMA ReturnIInv ==
  ASSUME IInv, NEW c \in Callers, Return(c)
  PROVE  IInv'
<1> USE BreakerAssumption DEF IInv, TypeOK, States, FailureCount, ProbesAccounted
<1>1. /\ executing' \in SUBSET Callers
      /\ Cardinality(executing) \in Nat
      /\ Cardinality(executing') = Cardinality(executing) - 1
  BY ExecutingCount DEF Return, Succeed, Fail
<1>2. stats' \in (0..(UintModulus - 1)) \X (0..(UintModulus - 1)) \X (0..(UintModulus - 1))
  BY IncrementType DEF Return, Succeed, Fail, stats
<1>3. CASE CountFailure
  BY <1>1, <1>2, <1>3 DEF CountFailure, stats
<1>4. CASE Reopen
  BY <1>1, <1>2, <1>4 DEF Reopen, stats
<1>5. CASE IgnoreWhileOpen
  BY <1>1, <1>2, <1>5 DEF IgnoreWhileOpen, control, stats
<1>6. CASE ForgiveFailures
  BY <1>1, <1>2, <1>6 DEF ForgiveFailures, stats
<1>7. CASE CountSuccess
  BY <1>1, <1>2, <1>7 DEF CountSuccess, stats
<1>8. QED
  BY <1>3, <1>4, <1>5, <1>6, <1>7 DEF Return, Succeed, Fail, onSuccess, onFailure

(* So does the passing of time. *)
LEMMA TickIInv == IInv /\ Tick => IInv'
BY BreakerAssumption
   DEF IInv, TypeOK, FailureCount, ProbesAccounted, Tick, CooledDown, stats

(* IInv is inductive: it holds in every reachable state. *)
THEOREM Inductive == Spec => []IInv
<1>1. IInv /\ [Next]_vars => IInv'
  <2> SUFFICES ASSUME IInv, [Next]_vars PROVE IInv'
    OBVIOUS
  <2>1. CASE UNCHANGED vars
    BY <2>1 DEF vars, control, stats, IInv, TypeOK, FailureCount, ProbesAccounted
  <2>2. QED
    BY <2>1, AdmitIInv, ReturnIInv, TickIInv DEF Next
<1>2. QED
  BY InitIInv, <1>1, PTL DEF Spec

(* Every variable of the breaker keeps to its range: the halfOpenAttempts  *)
(* and failure counters never pass their limits.                           *)
THEOREM TypeCorrect == Spec => []TypeOK
<1>1. IInv => TypeOK
  BY DEF IInv
<1>2. QED
  BY Inductive, <1>1, PTL

(* A closed breaker is below its failure threshold, any other is at it. *)
THEOREM FailureCountHolds == Spec => []FailureCount
<1>1. IInv => FailureCount
  BY DEF IInv
<1>2. QED
  BY Inductive, <1>1, PTL

(* A half-open breaker with nothing running never refuses a call, provided *)
(* the success threshold is within reach of the probes.                    *)
THEOREM NoLockoutHolds == Spec => []NoLockout
<1>1. IInv => NoLockout
  <2> SUFFICES ASSUME IInv,
                      SuccessThreshold <= HalfOpenMaxRequests + 1,
                      state = "HalfOpen",
                      executing = {}
               PROVE  ~Refused
    BY DEF NoLockout
  <2>1. Cardinality(executing) = 0
    BY FS_EmptySet
  <2>2. halfOpenAttempts + 1 <= successes
    BY <2>1 DEF IInv, TypeOK, ProbesAccounted
  <2>3. halfOpenAttempts < HalfOpenMaxRequests
    BY <2>2, BreakerAssumption DEF IInv, TypeOK
  <2>4. QED
    BY <2>3 DEF Refused, ProbeRoom
<1>2. QED
  BY Inductive, <1>1, PTL
(* Every probe let through has succeeded or is still running.              *)
THEOREM ProbesAccountedHolds == Spec => []ProbesAccounted
<1>1. IInv => ProbesAccounted
  BY DEF IInv
<1>2. QED
  BY Inductive, <1>1, PTL

(* A half-open breaker that has spent its probes and waits for none.       *)
Locked == state = "HalfOpen" /\ executing = {} /\ ~ProbeRoom

(* Half-open has no timeout: a breaker that is configured beyond           *)
(* NoLockout's condition and gets there refuses every call for ever,       *)
(* however well the source does meanwhile.  (With 4 successes and 2        *)
(* attempts, three successful probes are enough.)                          *)
THEOREM LockoutIsForever == Spec => [](Locked => []Locked)
<1>1. ASSUME Locked, [Next]_vars
      PROVE  Locked'
  <2>1. CASE Tick \/ UNCHANGED vars
    BY <1>1, <2>1 DEF Locked, Tick, ProbeRoom, vars, control
  <2>2. ASSUME NEW c \in Callers, Admit(c)
        PROVE  FALSE
    BY <1>1, <2>2 DEF Locked, Admit, PassClosed, StartProbing, PassProbe
  <2>3. ASSUME NEW c \in Callers, Return(c)
        PROVE  FALSE
    BY <1>1, <2>3 DEF Locked, Return, Succeed, Fail
  <2>4. QED
    BY <1>1, <2>1, <2>2, <2>3 DEF Next
<1>2. QED
  BY <1>1, PTL DEF Spec
-----------------------------------------------------------------------------
(* The statistics. *)

(* The remainder is determined by the quotient's equation.                 *)
LEMMA Remainder ==
  ASSUME NEW M \in Nat \ {0}, NEW a \in Nat, NEW q \in Nat, NEW r \in 0..(M - 1), a = M * q + r
  PROVE  a % M = r
OBVIOUS

(* A sum may be reduced before the second term is added.                   *)
LEMMA ReduceSum ==
  ASSUME NEW M \in Nat \ {0}, NEW x \in Nat, NEW y \in Nat
  PROVE  ((x % M) + y) % M = (x + y) % M
<1> DEFINE q == x \div M
           r == x % M
           p == (r + y) \div M
           t == (r + y) % M
<1>1. x = M * q + r /\ q \in Nat /\ r \in 0..(M - 1)
  OBVIOUS
<1> HIDE DEF q, r
<1>2. r + y = M * p + t /\ p \in Nat /\ t \in 0..(M - 1)
  BY <1>1
<1> HIDE DEF p, t
<1>3. x + y = M * (q + p) + t
  BY <1>1, <1>2
<1>4. (x + y) % M = t
  <2>1. x + y \in Nat /\ q + p \in Nat
    BY <1>1, <1>2
  <2>2. QED
    BY <1>2, <1>3, <2>1, Remainder
<1>5. QED
  BY <1>4 DEF r, t

(* A call that moves from the running ones to a counter leaves the sum.    *)
LEMMA MoveOne ==
  ASSUME NEW a \in Nat, NEW b \in Nat, NEW n \in Nat \ {0}
  PROVE  (Increment(a) + (b + (n - 1))) % UintModulus = (a + b + n) % UintModulus
<1> DEFINE x == a + 1
           y == b + (n - 1)
<1>1. x \in Nat /\ y \in Nat /\ x + y = a + b + n
  OBVIOUS
<1> HIDE DEF x, y
<1>2. ((x % UintModulus) + y) % UintModulus = (x + y) % UintModulus
  BY <1>1, ReduceSum, BreakerAssumption
<1>3. QED
  BY <1>1, <1>2 DEF x, y, Increment

(* A call that leaves is one running call less.                            *)
LEMMA LeavingCount ==
  ASSUME executing \in SUBSET Callers, NEW c \in Callers,
         c \in executing, executing' = executing \ {c}
  PROVE  /\ Cardinality(executing)' = Cardinality(executing) - 1
         /\ Cardinality(executing) \in Nat \ {0}
         /\ Cardinality(executing)' \in Nat
<1>1. Cardinality(executing') = Cardinality(executing) - 1 /\ Cardinality(executing) \in Nat
  BY ExecutingCount
<1>2. Cardinality(executing') \in Nat
  BY FS_Subset, FS_CardinalityType, BreakerAssumption
<1>3. QED
  BY <1>1, <1>2

(* GetStats adds up in every state, also after the counters wrapped.       *)
THEOREM StatsBalanceHolds == Spec => []StatsBalance
<1> DEFINE n == Cardinality(executing)
<1>1. Init => StatsBalance
  <2> SUFFICES ASSUME Init PROVE StatsBalance
    OBVIOUS
  <2>1. n = 0
    BY FS_EmptySet DEF Init
  <2>2. 0 % UintModulus = 0
    BY BreakerAssumption
  <2>3. QED
    BY <2>1, <2>2 DEF Init, StatsBalance
<1>2. IInv /\ StatsBalance /\ [Next]_vars => StatsBalance'
  <2> SUFFICES ASSUME IInv, StatsBalance, [Next]_vars PROVE StatsBalance'
    OBVIOUS
  <2>1. /\ UintModulus \in Nat \ {0}
        /\ totalRequests \in Nat /\ totalSuccesses \in Nat /\ totalFailures \in Nat
        /\ executing \in SUBSET Callers
    BY BreakerAssumption DEF IInv, TypeOK
  <2>2. n \in Nat
    BY <2>1, FS_Subset, FS_CardinalityType, BreakerAssumption
  <2>3. ASSUME NEW c \in Callers, Admit(c) PROVE StatsBalance'
    <3>1. n' = n + 1
      BY <2>1, <2>3, ExecutingCount DEF Admit
    <3>2. totalRequests' = (totalSuccesses + totalFailures + n + 1) % UintModulus
      BY <2>1, <2>2, <2>3, ReduceSum DEF Admit, Increment, StatsBalance
    <3>3. QED
      BY <2>1, <2>2, <2>3, <3>1, <3>2 DEF Admit, StatsBalance
  <2>4. ASSUME NEW c \in Callers, Succeed(c) PROVE StatsBalance'
    <3>1. n' = n - 1 /\ n \in Nat \ {0} /\ n' \in Nat
      BY <2>1, <2>4, LeavingCount DEF Succeed
    <3>2. /\ totalSuccesses' = Increment(totalSuccesses) /\ totalSuccesses' \in Nat
          /\ totalFailures' = totalFailures /\ totalRequests' = totalRequests
      BY <2>1, <2>4, IncrementType, BreakerAssumption DEF Succeed
    <3>3. (Increment(totalSuccesses) + (totalFailures + (n - 1))) % UintModulus = (totalSuccesses + totalFailures + n) % UintModulus
      <4>1. totalSuccesses \in Nat /\ totalFailures \in Nat /\ n \in Nat \ {0}
        BY <2>1, <3>1
      <4> HIDE DEF n
      <4>2. QED
        BY <4>1, MoveOne
    <3>4. /\ totalSuccesses' + totalFailures' + n' = totalSuccesses' + (totalFailures + (n - 1))
          /\ totalSuccesses + totalFailures + n = totalSuccesses + totalFailures + n
      BY <2>1, <3>1, <3>2
    <3>5. totalRequests = (totalSuccesses + totalFailures + n) % UintModulus
      BY DEF StatsBalance
    <3>6. totalRequests' = (totalSuccesses' + totalFailures' + n') % UintModulus
      BY <3>2, <3>3, <3>4, <3>5
    <3>7. QED
      BY <3>6 DEF StatsBalance
  <2>5. ASSUME NEW c \in Callers, Fail(c) PROVE StatsBalance'
    <3>1. n' = n - 1 /\ n \in Nat \ {0} /\ n' \in Nat
      BY <2>1, <2>5, LeavingCount DEF Fail
    <3>2. /\ totalFailures' = Increment(totalFailures) /\ totalFailures' \in Nat
          /\ totalSuccesses' = totalSuccesses /\ totalRequests' = totalRequests
      BY <2>1, <2>5, IncrementType, BreakerAssumption DEF Fail
    <3>3. (Increment(totalFailures) + (totalSuccesses + (n - 1))) % UintModulus = (totalFailures + totalSuccesses + n) % UintModulus
      <4>1. totalFailures \in Nat /\ totalSuccesses \in Nat /\ n \in Nat \ {0}
        BY <2>1, <3>1
      <4> HIDE DEF n
      <4>2. QED
        BY <4>1, MoveOne
    <3>4. /\ totalSuccesses' + totalFailures' + n' = totalFailures' + (totalSuccesses + (n - 1))
          /\ totalSuccesses + totalFailures + n = totalFailures + totalSuccesses + n
      BY <2>1, <3>1, <3>2
    <3>5. totalRequests = (totalSuccesses + totalFailures + n) % UintModulus
      BY DEF StatsBalance
    <3>6. totalRequests' = (totalSuccesses' + totalFailures' + n') % UintModulus
      BY <3>2, <3>3, <3>4, <3>5
    <3>7. QED
      BY <3>6 DEF StatsBalance
  <2>6. CASE Tick \/ UNCHANGED vars
    BY <2>6 DEF Tick, stats, vars, StatsBalance
  <2>7. QED
    BY <2>3, <2>4, <2>5, <2>6 DEF Next, Return
<1>3. QED
  BY <1>1, <1>2, Inductive, PTL DEF Spec
-----------------------------------------------------------------------------
(* The past. *)

(* The history variables change nothing: what holds of the breaker holds   *)
(* of the breaker with its history.                                        *)
LEMMA HistoryIsBreaker == HSpec => Spec
<1>1. HInit => Init
  BY DEF HInit
<1>2. [HNext]_hvars => [Next]_vars
  BY DEF HNext, HCall, HTick, hvars, Next
<1>3. QED
  BY <1>1, <1>2, PTL DEF HSpec, Spec

(* The breaker has been open for as long as ago its last counted failure   *)
(* was, since the failure that opened it is the last one counted.          *)
OpenSinceFailure ==
  /\ openAge \in Nat
  /\ state = "Open" => openAge >= sinceFailure

(* Every call of an episode but the one that began it was counted.         *)
ProbesCounted ==
  /\ probes \in Nat
  /\ state = "HalfOpen" => probes <= halfOpenAttempts + 1
  /\ state # "HalfOpen" => probes = 0

HistoryInv == OpenSinceFailure /\ ProbesCounted

(* A new breaker has no past. *)
LEMMA InitHistoryInv == HInit => HistoryInv
BY BreakerAssumption DEF HInit, Init, HistoryInv, OpenSinceFailure, ProbesCounted

(* Letting a call through preserves what is known of the past. *)
LEMMA AdmitHistoryInv ==
  ASSUME TypeOK, HistoryInv, HCall, NEW c \in Callers, Admit(c)
  PROVE  HistoryInv'
<1> USE BreakerAssumption
        DEF TypeOK, States, HistoryInv, OpenSinceFailure, ProbesCounted, HCall, control
<1>1. executing \subseteq executing'
  BY DEF Admit
<1>2. CASE PassClosed
  BY <1>1, <1>2 DEF PassClosed
<1>3. CASE StartProbing
  BY <1>1, <1>3 DEF StartProbing
<1>4. CASE PassProbe
  BY <1>1, <1>4 DEF PassProbe
<1>5. QED
  BY <1>2, <1>3, <1>4 DEF Admit

(* So does the return of a call, however late. *)
LEMMA ReturnHistoryInv ==
  ASSUME TypeOK, HistoryInv, HCall, NEW c \in Callers, Return(c)
  PROVE  HistoryInv'
<1> USE BreakerAssumption
        DEF TypeOK, States, HistoryInv, OpenSinceFailure, ProbesCounted, HCall, control
<1>1. ~(executing \subseteq executing')
  BY DEF Return, Succeed, Fail
<1>2. CASE CountFailure
  BY <1>1, <1>2 DEF CountFailure
<1>3. CASE Reopen
  BY <1>1, <1>3 DEF Reopen
<1>4. CASE IgnoreWhileOpen
  BY <1>1, <1>4 DEF IgnoreWhileOpen
<1>5. CASE ForgiveFailures
  BY <1>1, <1>5 DEF ForgiveFailures
<1>6. CASE CountSuccess
  BY <1>1, <1>6 DEF CountSuccess
<1>7. QED
  BY <1>2, <1>3, <1>4, <1>5, <1>6 DEF Return, Succeed, Fail, onSuccess, onFailure

(* Both invariants hold in every reachable state. *)
LEMMA HistoryInductive == HSpec => [](IInv /\ HistoryInv)
<1>1. IInv /\ HistoryInv /\ [HNext]_hvars => HistoryInv'
  <2> SUFFICES ASSUME TypeOK, HistoryInv, [HNext]_hvars PROVE HistoryInv'
    BY DEF IInv
  <2>1. CASE HCall
    BY <2>1, AdmitHistoryInv, ReturnHistoryInv DEF HCall
  <2>2. CASE HTick
    BY <2>2, BreakerAssumption
       DEF HTick, Tick, CooledDown, Older, TypeOK, HistoryInv, OpenSinceFailure,
           ProbesCounted
  <2>3. CASE UNCHANGED hvars
    BY <2>3 DEF hvars, vars, control, HistoryInv, OpenSinceFailure, ProbesCounted
  <2>4. QED
    BY <2>1, <2>2, <2>3 DEF HNext
<1>2. QED
  BY <1>1, InitHistoryInv, HistoryIsBreaker, Inductive, PTL DEF HSpec

(* A half-open episode lets through at most one call more than its limit.  *)
THEOREM ProbesBoundHolds == HSpec => []ProbesBound
<1>1. IInv /\ HistoryInv => ProbesBound
  BY BreakerAssumption DEF IInv, TypeOK, HistoryInv, ProbesCounted, ProbesBound
<1>2. QED
  BY <1>1, HistoryInductive, PTL

(* An open breaker stays open for the whole cool-down, whatever results of *)
(* older calls arrive, and then becomes half-open, never closed.           *)
THEOREM OpenServesCoolDown == HSpec => OpenHolds
<1>1. IInv /\ HistoryInv /\ [HNext]_hvars =>
        (state = "Open" /\ state' # "Open" =>
           openAge >= ResetTimeout /\ state' = "HalfOpen")
  <2> SUFFICES ASSUME IInv, HistoryInv, [HNext]_hvars,
                      state = "Open", state' # "Open"
               PROVE  openAge >= ResetTimeout /\ state' = "HalfOpen"
    OBVIOUS
  <2>1. StartProbing
    BY DEF HNext, HCall, HTick, Tick, Admit, PassClosed, PassProbe, Return, Succeed,
           Fail, onSuccess, onFailure, CountFailure, Reopen, IgnoreWhileOpen,
           ForgiveFailures, CountSuccess, control, hvars, vars
  <2>2. QED
    BY <2>1, BreakerAssumption
       DEF StartProbing, CooledDown, IInv, TypeOK, HistoryInv, OpenSinceFailure
<1>2. QED
  BY <1>1, HistoryInductive, PTL DEF HSpec, OpenHolds
=============================================================================

-------------------------- MODULE BaseParserProofs ---------------------------
(***************************************************************************)
(* Theorems about BaseParser for every finite set of callers, any number   *)
(* of slots and any thresholds: the semaphore counts its holders, the      *)
(* calls are a circuit breaker's, and a source that answers does not trip  *)
(* it.                                                                     *)
(***************************************************************************)
EXTENDS BaseParser, FiniteSetTheorems, TLAPS

Places == {"idle", "acquire", "succeeded", "failed"} \cup WithSlot

IInv ==
  /\ at \in [Callers -> Places]
  /\ token \in 0 .. 1
  /\ SlotsHeld
  /\ Cardinality(Holders) <= MaxConcurrent

(* The holders of slots are finitely many, one more or one fewer when one  *)
(* call comes or goes.                                                     *)
LEMMA HoldersCount ==
  /\ Cardinality(Holders) \in Nat
  /\ \A c \in Callers :
         /\ c \notin Holders => Cardinality(Holders \cup {c}) = Cardinality(Holders) + 1
         /\ c \in Holders => Cardinality(Holders \ {c}) = Cardinality(Holders) - 1
<1>1. IsFiniteSet(Holders)
  BY ParserAssumption, FS_Subset DEF Holders
<1>2. QED
  BY <1>1, FS_CardinalityType, FS_AddElement, FS_RemoveElement

(* No call, no slot taken.                                                 *)
LEMMA InitIInv == Init => IInv
<1> SUFFICES ASSUME Init PROVE IInv
  OBVIOUS
<1>1. Holders = {}
  BY DEF Init, Holders, WithSlot
<1>2. Cardinality(Holders) = 0
  BY <1>1, FS_EmptySet
<1>3. QED
  BY <1>2, ParserAssumption DEF Init, IInv, SlotsHeld, Places

(* A step of one call from a place without a slot to one with it, or back, *)
(* or between places alike, changes the holders by that call or not.       *)
LEMMA GoHolders ==
  ASSUME IInv, NEW c \in Callers, NEW from \in Places, NEW to \in Places, Go(c, from, to)
  PROVE  /\ at' \in [Callers -> Places]
         /\ from \notin WithSlot /\ to \in WithSlot =>
              c \notin Holders /\ Holders' = Holders \cup {c}
         /\ from \in WithSlot /\ to \notin WithSlot =>
              c \in Holders /\ Holders' = Holders \ {c}
         /\ (from \in WithSlot <=> to \in WithSlot) => Holders' = Holders
<1>1. at[c] = from /\ at' = [at EXCEPT ![c] = to] /\ at \in [Callers -> Places]
  BY DEF Go, IInv
<1>2. QED
  BY <1>1 DEF Holders

(* Every step of a call keeps the count.                                   *)
LEMMA SearchIInv == ASSUME IInv, NEW c \in Callers, Search(c) PROVE IInv'
<1> USE ParserAssumption
<1>1. CASE AcquireSlot(c)
  <2>1. /\ at' \in [Callers -> Places]
        /\ c \notin Holders /\ Holders' = Holders \cup {c}
    BY <1>1, GoHolders DEF AcquireSlot, Places, WithSlot
  <2>2. Cardinality(Holders') = Cardinality(Holders) + 1 /\ Cardinality(Holders) \in Nat
    BY <2>1, HoldersCount
  <2>3. QED
    BY <1>1, <2>1, <2>2 DEF AcquireSlot, SlotFree, IInv, SlotsHeld
<1>2. CASE NoResponse(c) \/ BadResponse(c) \/ Convert(c)
  <2>1. /\ at' \in [Callers -> Places]
        /\ c \in Holders /\ Holders' = Holders \ {c}
    <3>1. CASE NoResponse(c)
      BY <3>1, GoHolders DEF NoResponse, Places, WithSlot
    <3>2. CASE BadResponse(c)
      BY <3>2, GoHolders DEF BadResponse, Places, WithSlot
    <3>3. CASE Convert(c)
      BY <3>3, GoHolders DEF Convert, Places, WithSlot
    <3>4. QED
      BY <1>2, <3>1, <3>2, <3>3
  <2>2. Cardinality(Holders') = Cardinality(Holders) - 1 /\ Cardinality(Holders) \in Nat
    BY <2>1, HoldersCount
  <2>3. semaphore' = semaphore - 1 /\ token' = token
    BY <1>2 DEF NoResponse, BadResponse, Convert, releaseSemaphore
  <2>4. QED
    BY <2>1, <2>2, <2>3 DEF IInv, SlotsHeld
<1>3. ASSUME at' \in [Callers -> Places], Holders' = Holders,
             semaphore' = semaphore, token' \in 0 .. 1
      PROVE  IInv'
  BY <1>3 DEF IInv, SlotsHeld
<1>4. CASE Call(c)
  BY <1>4, <1>3, GoHolders DEF Call, Places, WithSlot, IInv
<1>5. CASE ContextDone(c)
  BY <1>5, <1>3, GoHolders DEF ContextDone, Places, WithSlot, IInv
<1>6. CASE SlotTimeout(c)
  BY <1>6, <1>3, GoHolders DEF SlotTimeout, Places, WithSlot, IInv
<1>7. CASE Wait(c)
  BY <1>7, <1>3, GoHolders DEF Wait, Places, WithSlot, IInv
<1>8. CASE Respond(c)
  BY <1>8, <1>3, GoHolders DEF Respond, Places, WithSlot, IInv
<1>9. CASE Succeed(c)
  BY <1>9, <1>3, GoHolders DEF Succeed, Places, WithSlot, IInv
<1>10. CASE Fail(c)
  BY <1>10, <1>3, GoHolders DEF Fail, Places, WithSlot, IInv
<1>11. QED
  BY <1>1, <1>2, <1>4, <1>5, <1>6, <1>7, <1>8, <1>9, <1>10
     DEF Search, Acquire, Request, Settle

(* The invariant is inductive.                                             *)
THEOREM Inductive == Spec => []IInv
<1>1. IInv /\ [Next]_vars => IInv'
  <2> SUFFICES ASSUME IInv, [Next]_vars PROVE IInv'
    OBVIOUS
  <2>1. CASE Refill \/ Tick \/ UNCHANGED vars
    BY <2>1 DEF Refill, Tick, vars, IInv, SlotsHeld, Holders
  <2>2. QED
    BY <2>1, SearchIInv DEF Next
<1>2. QED
  BY <1>1, InitIInv, PTL DEF Spec

(* No slot is lost and none is taken twice.                                *)
THEOREM SlotsHeldHolds == Spec => []SlotsHeld
<1>1. IInv => SlotsHeld
  BY DEF IInv
<1>2. QED
  BY <1>1, Inductive, PTL
-----------------------------------------------------------------------------
(* The calls as a circuit breaker sees them. *)

(* A call that goes on without coming or leaving leaves the calls as they  *)
(* were.                                                                   *)
LEMMA GoCalls ==
  ASSUME IInv, NEW c \in Callers, NEW from, NEW to,
         from # "idle", to # "idle", Go(c, from, to)
  PROVE  Calls' = Calls
BY DEF Go, IInv, Calls

(* Between Call and Settle the breaker sees nothing.                       *)
LEMMA BodyStutters ==
  ASSUME IInv, NEW c \in Callers, Acquire(c) \/ Wait(c) \/ Request(c)
  PROVE  UNCHANGED <<Calls, control>>
<1>1. CASE Acquire(c)
  BY <1>1, GoCalls DEF Acquire, AcquireSlot, ContextDone, SlotTimeout
<1>2. CASE Wait(c)
  BY <1>2, GoCalls DEF Wait
<1>3. CASE Request(c)
  BY <1>3, GoCalls
     DEF Request, NoResponse, Respond, BadResponse, Convert, releaseSemaphore
<1>4. QED
  BY <1>1, <1>2, <1>3

(* Every step is a step of the breaker or leaves it alone.                 *)
LEMMA StepSimulates == IInv /\ [Next]_vars => [Breaker!Next]_(Breaker!vars)
<1> SUFFICES ASSUME IInv, [Next]_vars PROVE [Breaker!Next]_(Breaker!vars)
  OBVIOUS
<1>1. ASSUME UNCHANGED <<Calls, control>> PROVE UNCHANGED Breaker!vars
  BY <1>1 DEF control, Breaker!vars, Breaker!control, Breaker!stats
<1>2. ASSUME NEW c \in Callers, Call(c) \/ Settle(c) PROVE Breaker!Next
  BY <1>2 DEF Call, Settle, Succeed, Fail, Breaker!Next, Breaker!Return
<1>3. ASSUME NEW c \in Callers, Acquire(c) \/ Wait(c) \/ Request(c)
      PROVE  UNCHANGED Breaker!vars
  BY <1>3, <1>1, BodyStutters
<1>4. CASE Tick
  BY <1>4 DEF Tick, Breaker!Next
<1>5. CASE Refill \/ UNCHANGED vars
  BY <1>5, <1>1 DEF Refill, vars, Calls
<1>6. QED
  BY <1>2, <1>3, <1>4, <1>5 DEF Next, Search

(* The calls of a source are calls of its circuit breaker.                 *)
THEOREM BreakerImplemented == Spec => ImplementsBreaker
<1>1. Init => Breaker!Init
  BY DEF Init
<1>2. QED
  BY <1>1, StepSimulates, Inductive, PTL DEF Spec, ImplementsBreaker, Breaker!Spec

BreakerFacts == INSTANCE CircuitBreakerProofs
  WITH executing <- Calls, UintModulus <- 1,
       totalRequests <- 0, totalSuccesses <- 0, totalFailures <- 0,
       probes <- 0, openAge <- 0

(* Both names of the breaker speak of the same one. *)
LEMMA SameBreaker == Breaker!Spec => BreakerFacts!Spec
<1>1. Breaker!Init => BreakerFacts!Init
  BY DEF Breaker!Init, BreakerFacts!Init
<1>2. Breaker!vars = BreakerFacts!vars
  BY DEF Breaker!vars, Breaker!control, Breaker!stats,
         BreakerFacts!vars, BreakerFacts!control, BreakerFacts!stats
<1>3. Breaker!Next => BreakerFacts!Next
  BY DEF Breaker!Next, Breaker!Admit, Breaker!PassClosed, Breaker!StartProbing,
         Breaker!PassProbe, Breaker!CooledDown, Breaker!ProbeRoom, Breaker!Increment,
         Breaker!Return, Breaker!Succeed, Breaker!Fail, Breaker!onSuccess,
         Breaker!onFailure, Breaker!CountFailure, Breaker!Reopen,
         Breaker!IgnoreWhileOpen, Breaker!ForgiveFailures, Breaker!CountSuccess,
         Breaker!Tick, Breaker!control, Breaker!stats,
         BreakerFacts!Next, BreakerFacts!Admit, BreakerFacts!PassClosed,
         BreakerFacts!StartProbing, BreakerFacts!PassProbe, BreakerFacts!CooledDown,
         BreakerFacts!ProbeRoom, BreakerFacts!Increment, BreakerFacts!Return,
         BreakerFacts!Succeed, BreakerFacts!Fail, BreakerFacts!onSuccess,
         BreakerFacts!onFailure, BreakerFacts!CountFailure, BreakerFacts!Reopen,
         BreakerFacts!IgnoreWhileOpen, BreakerFacts!ForgiveFailures,
         BreakerFacts!CountSuccess, BreakerFacts!Tick, BreakerFacts!control,
         BreakerFacts!stats
<1>4. [Breaker!Next]_(Breaker!vars) => [BreakerFacts!Next]_(BreakerFacts!vars)
  BY <1>2, <1>3 DEF Breaker!vars, Breaker!control, Breaker!stats,
                    BreakerFacts!vars, BreakerFacts!control, BreakerFacts!stats
<1>5. QED
  BY <1>1, <1>4, PTL DEF Breaker!Spec, BreakerFacts!Spec

(* The calls of a source satisfy what is assumed of a breaker.             *)
LEMMA FiniteCallers == BreakerFacts!IsFiniteSet(Callers)
BY ParserAssumption DEF BreakerFacts!IsFiniteSet, IsFiniteSet

(* Every variable keeps to its range, those of the breaker because the     *)
(* calls are a breaker's.                                                  *)
THEOREM TypeCorrect == Spec => []TypeOK
<1>1. BreakerFacts!Spec => []BreakerFacts!TypeOK
  BY BreakerFacts!TypeCorrect, FiniteCallers, ParserAssumption
<1>2. BreakerFacts!TypeOK => Breaker!TypeOK
  BY DEF BreakerFacts!TypeOK, BreakerFacts!States, Breaker!TypeOK, Breaker!States
<1>3. IInv /\ Breaker!TypeOK => TypeOK
  <2>1. IInv => semaphore \in 0 .. MaxConcurrent
    BY ParserAssumption, HoldersCount DEF IInv, SlotsHeld
  <2>2. QED
    BY <2>1 DEF IInv, TypeOK, Places
<1>4. QED
  BY <1>1, <1>2, <1>3, Inductive, BreakerImplemented, SameBreaker, PTL DEF ImplementsBreaker

(* A source's half-open breaker with no call under way lets the next one   *)
(* through, if its thresholds can be reached, as those configured can.     *)
THEOREM NeverLocked == Spec => []Breaker!NoLockout
<1>1. BreakerFacts!Spec => []BreakerFacts!NoLockout
  BY BreakerFacts!NoLockoutHolds, FiniteCallers, ParserAssumption
<1>2. BreakerFacts!NoLockout => Breaker!NoLockout
  BY DEF BreakerFacts!NoLockout, BreakerFacts!Refused, BreakerFacts!CooledDown,
         BreakerFacts!ProbeRoom, Breaker!NoLockout, Breaker!Refused,
         Breaker!CooledDown, Breaker!ProbeRoom
<1>3. QED
  BY <1>1, <1>2, BreakerImplemented, SameBreaker, PTL DEF ImplementsBreaker

(* The calls that are at the source: sent and not read to the end.         *)
AtSource == {c \in Callers : at[c] \in {"request", "reading"}}

(* However its calls end, a source is never asked more than MaxConcurrent  *)
(* things at once.                                                         *)
THEOREM RequestsBounded == Spec => [](Cardinality(AtSource) <= MaxConcurrent)
<1>1. IInv => Cardinality(AtSource) <= MaxConcurrent
  <2> SUFFICES ASSUME IInv PROVE Cardinality(AtSource) <= MaxConcurrent
    OBVIOUS
  <2>1. AtSource \subseteq Holders /\ IsFiniteSet(Holders)
    BY ParserAssumption, FS_Subset DEF AtSource, Holders, WithSlot
  <2>2. /\ Cardinality(AtSource) <= Cardinality(Holders)
        /\ Cardinality(AtSource) \in Nat /\ Cardinality(Holders) \in Nat
    BY <2>1, FS_Subset, FS_CardinalityType
  <2>3. Cardinality(Holders) <= MaxConcurrent
    BY DEF IInv, SlotsHeld
  <2>4. QED
    BY <2>2, <2>3, ParserAssumption
<1>2. QED
  BY <1>1, Inductive, PTL
-----------------------------------------------------------------------------
(* Smooth operation. *)

(* Nothing has failed yet.                                                 *)
Unhurt ==
  /\ state = "Closed" /\ failures = 0
  /\ \A c \in Callers : at[c] # "failed"

(* A call that waits for a slot is one call more than there are holders.   *)
LEMMA WaiterExtra ==
  ASSUME NEW c \in Callers, at[c] = "acquire"
  PROVE  Cardinality(Holders) + 1 <= Cardinality(Calls) /\ Cardinality(Calls) \in Nat
<1>1. IsFiniteSet(Calls)
  BY ParserAssumption, FS_Subset DEF Calls
<1>2. c \notin Holders /\ Holders \cup {c} \subseteq Calls
  BY DEF Holders, Calls, WithSlot
<1>3. Cardinality(Holders \cup {c}) <= Cardinality(Calls) /\ Cardinality(Calls) \in Nat
  BY <1>1, <1>2, FS_Subset, FS_CardinalityType
<1>4. QED
  BY <1>2, <1>3, HoldersCount

(* A smooth step hurts nothing: no call can fail to get a slot.            *)
LEMMA SmoothStep == IInv /\ Unhurt /\ [Next]_vars /\ [Smooth]_vars => Unhurt'
<1> SUFFICES ASSUME IInv, Unhurt, [Next]_vars, [Smooth]_vars PROVE Unhurt'
  OBVIOUS
<1> USE DEF Unhurt
<1>1. CASE UNCHANGED vars
  BY <1>1 DEF vars, control
<1>2. CASE Refill
  BY <1>2 DEF Refill, control
<1>3. CASE Tick
  BY <1>3 DEF Tick, Breaker!Tick
<1>4. ASSUME Smooth, NEW c \in Callers, Search(c) PROVE Unhurt'
  <2>1. (ContextDone(c) => SlotTimeout(c)) /\ ~NoResponse(c) /\ ~BadResponse(c)
    BY <1>4 DEF Smooth
  <2>2. ~SlotTimeout(c)
    <3> SUFFICES ASSUME SlotTimeout(c) PROVE FALSE
      OBVIOUS
    <3>1. at[c] = "acquire" /\ ~(semaphore < MaxConcurrent)
      BY DEF SlotTimeout, Go, SlotFree
    <3>2. Cardinality(Calls) <= MaxConcurrent
      BY <1>4 DEF Smooth
    <3>3. QED
      BY <3>1, <3>2, WaiterExtra, HoldersCount, ParserAssumption DEF IInv, SlotsHeld
  <2>3. ~Fail(c)
    BY DEF Fail, Go
  <2>4. CASE Call(c)
    BY <2>4 DEF Call, Go, IInv, Breaker!Admit, Breaker!PassClosed, Breaker!StartProbing,
                Breaker!PassProbe, Breaker!control
  <2>5. CASE AcquireSlot(c) \/ Wait(c) \/ Respond(c) \/ Convert(c)
    BY <2>5 DEF AcquireSlot, Wait, Respond, Convert, releaseSemaphore, control, Go, IInv
  <2>6. CASE Succeed(c)
    BY <2>6 DEF Succeed, Go, IInv, Breaker!Succeed, Breaker!onSuccess,
                Breaker!ForgiveFailures, Breaker!CountSuccess, Breaker!IgnoreWhileOpen
  <2>7. QED
    BY <1>4, <2>1, <2>2, <2>3, <2>4, <2>5, <2>6 DEF Search, Acquire, Request, Settle
<1>5. QED
  BY <1>1, <1>2, <1>3, <1>4 DEF Next, vars

(* As long as the source answers, no caller gives up and there are not     *)
(* more calls than slots, the breaker never opens: no timer fires, though  *)
(* calls wait for the rate limiter with their slots held.                  *)
THEOREM SmoothStaysClosed == Spec /\ [][Smooth]_vars => [](state = "Closed")
<1>1. Init => Unhurt
  BY DEF Init, Unhurt, Breaker!Init
<1>2. Unhurt => state = "Closed"
  BY DEF Unhurt
<1>3. QED
  BY <1>1, <1>2, SmoothStep, Inductive, PTL DEF Spec
=============================================================================

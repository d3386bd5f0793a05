------------------------- MODULE RateLimiterProofs --------------------------
(***************************************************************************)
(* Theorems about RateLimiter for every set of callers and every interval. *)
(***************************************************************************)
EXTENDS RateLimiter, TLAPS

InHand == IF run \in {"check", "send"} THEN 1 ELSE 0

(* Every token that is on its way to a caller, in the ticker's channel, in *)
(* the goroutine's hand or in the token channel, is a tick that no call    *)
(* has been charged for yet.                                               *)
TokensBacked == tickerC + InHand + limiter <= credit

(* Until the channel is closed no call is late; from then on the one token *)
(* that may be left in it is either there or has been passed.              *)
LastToken ==
  /\ ~chanClosed => late = 0
  /\ chanClosed => late + limiter <= 1

(* The variables of a new limiter are in their ranges. *)
LEMMA InitTypeOK ==
  ASSUME RateAssumption, Init
  PROVE  TypeOK
<1>1. /\ phase \in 0..(Rate - 1) /\ sincePass \in 0..Rate
      /\ credit \in Int /\ credit <= Burst
  BY DEF Init, RateAssumption
<1>2. /\ stopped \in BOOLEAN /\ cancelled \in BOOLEAN /\ chanClosed \in BOOLEAN
      /\ panicked \in BOOLEAN
  BY DEF Init
<1>3. at \in [Callers -> {"idle", "select"}]
  BY DEF Init
<1>4. QED
  BY <1>1, <1>2, <1>3 DEF Init, TypeOK

(* No step of the ticker, the goroutine, a Wait or Stop leaves them. *)
LEMMA NextTypeOK ==
  ASSUME RateAssumption, TypeOK, [Next]_vars
  PROVE  TypeOK'
<1> USE DEF RateAssumption, TypeOK
<1>1. CASE Clock
  BY <1>1 DEF Clock, stopVars
<1>2. CASE RunTick
  BY <1>2 DEF RunTick, stopVars, history
<1>3. CASE RunCheck
  BY <1>3 DEF RunCheck, stopVars, history
<1>4. CASE RunSend
  BY <1>4 DEF RunSend, TokenRoom, stopVars, history
<1>5. CASE RunDone \/ RunFull
  BY <1>5 DEF RunDone, RunFull, stopVars, history
<1>6. CASE RunPanic
  BY <1>6 DEF RunPanic, limiterVars, stopVars, history
<1>7. ASSUME NEW c \in Callers, WaitCheck(c) \/ WaitError(c)
      PROVE  TypeOK'
  BY <1>7 DEF WaitCheck, WaitError, limiterVars, stopVars, history
<1>8. ASSUME NEW c \in Callers, WaitPass(c)
      PROVE  TypeOK'
  BY <1>8 DEF WaitPass, stopVars
<1>9. CASE StopFlag \/ StopCancel \/ StopClose
  BY <1>9 DEF StopFlag, StopCancel, StopClose, limiterVars, history
<1>10. CASE UNCHANGED vars
  BY <1>10 DEF vars, limiterVars, stopVars, history
<1>11. QED
  BY <1>1, <1>2, <1>3, <1>4, <1>5, <1>6, <1>7, <1>8, <1>9, <1>10
     DEF Next, RunStep

(* Every variable of the limiter keeps to its range: neither the ticker's  *)
(* channel nor the token channel ever holds two tokens.                    *)
THEOREM TypeCorrect ==
  ASSUME RateAssumption
  PROVE  Spec => []TypeOK
<1>1. Init => TypeOK
  BY InitTypeOK
<1>2. TypeOK /\ [Next]_vars => TypeOK'
  BY NextTypeOK
<1>3. QED
  BY <1>1, <1>2, PTL DEF Spec

(* No step makes a token that no tick pays for. *)
LEMMA NextTokensBacked ==
  ASSUME RateAssumption, Burst >= 3, TypeOK, TokensBacked, [Next]_vars
  PROVE  TokensBacked'
<1> USE DEF RateAssumption, TypeOK, TokensBacked, InHand
<1>1. CASE Clock
  BY <1>1 DEF Clock
<1>2. CASE RunTick
  BY <1>2 DEF RunTick, history
<1>3. CASE RunCheck
  BY <1>3 DEF RunCheck, history
<1>4. CASE RunSend
  BY <1>4 DEF RunSend, TokenRoom, history
<1>5. CASE RunDone \/ RunFull
  BY <1>5 DEF RunDone, RunFull, history
<1>6. ASSUME NEW c \in Callers, WaitPass(c)
      PROVE  TokensBacked'
  BY <1>6 DEF WaitPass
<1>7. CASE UNCHANGED <<limiterVars, history>>
  BY <1>7 DEF limiterVars, history
<1>8. QED
  BY <1>1, <1>2, <1>3, <1>4, <1>5, <1>6, <1>7
     DEF Next, RunStep, RunPanic, WaitCheck, WaitError, StopFlag, StopCancel,
         StopClose, vars

(* The limiter is a token bucket: over any stretch of time the calls that  *)
(* pass are at most three more than the ticks, whatever the interval, the  *)
(* number of callers, the delays of the goroutine and the moment of Stop.  *)
THEOREM BucketHoldsForThree ==
  ASSUME RateAssumption, Burst >= 3
  PROVE  Spec => []BucketHolds
<1>1. Init => TokensBacked
  BY DEF RateAssumption, Init, TokensBacked, InHand
<1>2. TypeOK /\ TokensBacked /\ [Next]_vars => TokensBacked'
  BY NextTokensBacked
<1>3. TypeOK /\ TokensBacked => BucketHolds
  BY DEF TypeOK, TokensBacked, InHand, BucketHolds
<1>4. QED
  BY <1>1, <1>2, <1>3, TypeCorrect, PTL DEF Spec

(* After Stop has closed the token channel at most one more call passes,   *)
(* however many callers had looked at rl.stopped before.                   *)
THEOREM OneLateTokenHolds ==
  ASSUME RateAssumption
  PROVE  Spec => []OneLateToken
<1>1. Init => LastToken
  BY DEF Init, LastToken
<1>2. TypeOK /\ LastToken /\ [Next]_vars => LastToken'
  <2> SUFFICES ASSUME TypeOK, LastToken, [Next]_vars PROVE LastToken'
    OBVIOUS
  <2> USE DEF TypeOK, LastToken
  <2>1. CASE Clock
    BY <2>1 DEF Clock, stopVars
  <2>2. CASE RunSend
    BY <2>2 DEF RunSend, stopVars, history
  <2>3. ASSUME NEW c \in Callers, WaitPass(c)
        PROVE  LastToken'
    BY <2>3 DEF WaitPass, stopVars
  <2>4. CASE StopClose
    BY <2>4 DEF StopClose, limiterVars, history
  <2>5. CASE UNCHANGED <<limiter, chanClosed, history>>
    BY <2>5 DEF history
  <2>6. QED
    BY <2>1, <2>2, <2>3, <2>4, <2>5
       DEF Next, RunStep, RunTick, RunCheck, RunDone, RunFull, RunPanic,
           WaitCheck, WaitError, StopFlag, StopCancel, vars, limiterVars, stopVars
<1>3. TypeOK /\ LastToken => OneLateToken
  BY DEF TypeOK, LastToken, OneLateToken
<1>4. QED
  BY <1>1, <1>2, <1>3, TypeCorrect, PTL DEF Spec
-----------------------------------------------------------------------------
(* A limiter that nobody stops. *)

Unstopped ==
  /\ ~stopped /\ ~cancelled /\ ~chanClosed /\ ~panicked
  /\ stop = "none" /\ run # "gone"

(* One token, put in by the goroutine when there is none and taken by the  *)
(* call it lets through: all that BaseParser keeps of the limiter.         *)
Refill == limiter = 0 /\ limiter' = 1 /\ UNCHANGED at

Enter(c) ==
  /\ at[c] = "idle"
  /\ at' = [at EXCEPT ![c] = "select"]
  /\ UNCHANGED limiter

Pass(c) ==
  /\ at[c] = "select"
  /\ at' = [at EXCEPT ![c] = "idle"]
  /\ limiter = 1
  /\ limiter' = 0

TokenStep == Refill \/ \E c \in Callers : Enter(c) \/ Pass(c)

LEMMA UnstoppedStep ==
  ASSUME TypeOK, Unstopped, [Next]_vars, [~StopFlag]_vars
  PROVE  Unstopped' /\ [TokenStep]_<<limiter, at>>
<1> USE DEF TypeOK, Unstopped
<1>1. CASE Clock \/ RunTick \/ RunCheck \/ RunFull \/ UNCHANGED vars
  BY <1>1 DEF Clock, RunTick, RunCheck, RunFull, limiterVars, stopVars, history, vars
<1>2. CASE RunSend
  BY <1>2 DEF RunSend, TokenRoom, TokenStep, Refill, stopVars, history
<1>3. ASSUME NEW c \in Callers, WaitCheck(c)
      PROVE  Unstopped' /\ TokenStep
  BY <1>3 DEF WaitCheck, TokenStep, Enter, limiterVars, stopVars, history
<1>4. ASSUME NEW c \in Callers, WaitPass(c)
      PROVE  Unstopped' /\ TokenStep
  <2>1. Pass(c)
    BY <1>4 DEF WaitPass, Pass
  <2>2. UNCHANGED <<run, stopVars, panicked>>
    BY <1>4 DEF WaitPass
  <2>3. QED
    BY <2>1, <2>2 DEF TokenStep, stopVars
<1>5. ASSUME NEW c \in Callers PROVE ~WaitError(c)
  BY DEF WaitError
<1>6. ~RunDone /\ ~RunPanic /\ ~StopCancel /\ ~StopClose
  BY DEF RunDone, RunPanic, StopCancel, StopClose
<1>7. ~StopFlag
  BY DEF StopFlag, vars, stopVars
<1>8. QED
  BY <1>1, <1>2, <1>3, <1>4, <1>5, <1>6, <1>7 DEF Next, RunStep

(* The program never stops a limiter.  Then it never panics, its goroutine *)
(* never ends, a Wait returns with a token or not at all, and to its       *)
(* callers it is a single token that is refilled now and then, which is    *)
(* how BaseParser models it.                                               *)
THEOREM UnstoppedIsToken ==
  ASSUME RateAssumption
  PROVE  Spec /\ [][~StopFlag]_vars => []Unstopped /\ [][TokenStep]_<<limiter, at>>
<1>1. Init => Unstopped
  BY DEF Init, Unstopped
<1>2. TypeOK /\ Unstopped /\ [Next]_vars /\ [~StopFlag]_vars =>
        Unstopped' /\ [TokenStep]_<<limiter, at>>
  BY UnstoppedStep
<1>3. QED
  BY <1>1, <1>2, TypeCorrect, PTL DEF Spec
=============================================================================

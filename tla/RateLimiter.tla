---------------------------- MODULE RateLimiter -----------------------------
(***************************************************************************)
(* ChannelRateLimiter: a goroutine moves the ticks of a time.Ticker into a *)
(* channel that holds one token, Wait takes a token, Stop ends both.  The  *)
(* ticker's own channel also holds one tick, and the goroutine may be late,*)
(* so a token can be in three places at once.                              *)
(***************************************************************************)
EXTENDS Integers

CONSTANTS
  Callers,   \* goroutines that call Wait
  Rate,      \* the interval, in clock ticks
  Burst      \* history: how many calls the ticks may be overdrawn by

\* What is known of the constants.
RateAssumption ==
  /\ Rate \in Nat \ {0}
  /\ Burst \in Nat

VARIABLES
  phase,       \* clock ticks until the ticker fires again
  tickerC,     \* ticks in the ticker's channel
  run,         \* where the limiter's goroutine is
  limiter,     \* tokens in rl.limiter
  stopped,     \* rl.stopped
  cancelled,   \* rl.ctx is done
  chanClosed,  \* rl.limiter is closed
  stop,        \* where the call of Stop is; it holds rl.mu until it returns
  at,          \* where each caller is
  panicked,    \* a send on the closed channel ended the process
  credit,      \* history: ticks less passes, never more than Burst
  late,        \* history: calls that passed since the channel was closed, up to 2
  sincePass    \* history: clock ticks since a call passed, saturated at Rate

limiterVars == <<tickerC, run, limiter>>
stopVars == <<stopped, cancelled, chanClosed, stop>>
history == <<credit, late, sincePass>>
vars == <<phase, limiterVars, stopVars, at, panicked, history>>

TypeOK ==
  /\ phase \in 0..(Rate - 1)
  /\ tickerC \in 0..1
  /\ run \in {"wait", "check", "send", "gone"}
  /\ limiter \in 0..1
  /\ stopped \in BOOLEAN /\ cancelled \in BOOLEAN /\ chanClosed \in BOOLEAN
  /\ stop \in {"none", "flagged", "cancelled", "returned"}
  /\ at \in [Callers -> {"idle", "select"}]
  /\ panicked \in BOOLEAN
  /\ credit \in Int /\ credit <= Burst
  /\ late \in 0..2
  /\ sincePass \in 0..Rate

Init ==
  /\ phase = Rate - 1
  /\ tickerC = 0
  /\ run = "wait"
  /\ limiter = 0
  /\ stopped = FALSE
  /\ cancelled = FALSE
  /\ chanClosed = FALSE
  /\ stop = "none"
  /\ at = [c \in Callers |-> "idle"]
  /\ panicked = FALSE
  /\ credit = Burst
  /\ late = 0
  /\ sincePass = Rate
-----------------------------------------------------------------------------
\* time.Ticker: a tick that finds its channel full is dropped.
Clock ==
  /\ IF phase = 0
       THEN /\ phase' = Rate - 1
            /\ tickerC' = 1
            /\ credit' = IF credit < Burst THEN credit + 1 ELSE credit
       ELSE /\ phase' = phase - 1
            /\ UNCHANGED <<tickerC, credit>>
  /\ sincePass' = IF sincePass < Rate THEN sincePass + 1 ELSE sincePass
  /\ UNCHANGED <<run, limiter, stopVars, at, panicked, late>>

RunTick ==
  /\ run = "wait"
  /\ tickerC = 1
  /\ tickerC' = 0
  /\ run' = "check"
  /\ UNCHANGED <<phase, limiter, stopVars, at, panicked, history>>

Locked == stop \in {"flagged", "cancelled"}

RunCheck ==
  /\ run = "check"
  /\ ~Locked
  /\ run' = IF stopped THEN "gone" ELSE "send"
  /\ UNCHANGED <<phase, tickerC, limiter, stopVars, at, panicked, history>>

\* As if the token channel held two tokens.
TokenRoomTwo == limiter <= 1

TokenRoom == limiter < 1

RunSend ==
  /\ run = "send"
  /\ ~chanClosed
  /\ TokenRoom
  /\ limiter' = limiter + 1
  /\ run' = "wait"
  /\ UNCHANGED <<phase, tickerC, stopVars, at, panicked, history>>

RunDone ==
  /\ run = "send"
  /\ cancelled
  /\ run' = "gone"
  /\ UNCHANGED <<phase, tickerC, limiter, stopVars, at, panicked, history>>

\* As if the goroutine returned when it finds the token channel full.
RunFullReturn ==
  /\ run = "send"
  /\ ~chanClosed /\ ~TokenRoom /\ ~cancelled
  /\ run' = "gone"
  /\ UNCHANGED <<phase, tickerC, limiter, stopVars, at, panicked, history>>

\* The default branch: neither the send nor ctx.Done is ready.
RunFull ==
  /\ run = "send"
  /\ ~chanClosed /\ ~TokenRoom /\ ~cancelled
  /\ run' = "wait"
  /\ UNCHANGED <<phase, tickerC, limiter, stopVars, at, panicked, history>>

\* The select picks among the ready cases at random, and a send on a closed
\* channel is ready: it panics.
RunPanic ==
  /\ run = "send"
  /\ chanClosed
  /\ panicked' = TRUE
  /\ UNCHANGED <<phase, limiterVars, stopVars, at, history>>
-----------------------------------------------------------------------------
\* A Wait that finds rl.stopped set returns an error at once.
WaitCheck(c) ==
  /\ at[c] = "idle"
  /\ ~Locked
  /\ ~stopped
  /\ at' = [at EXCEPT ![c] = "select"]
  /\ UNCHANGED <<phase, limiterVars, stopVars, panicked, history>>

\* As if Wait did not look whether the token came from a closed channel.
WaitPassUnchecked(c) ==
  /\ at[c] = "select"
  /\ limiter > 0 \/ chanClosed
  /\ limiter' = IF limiter > 0 THEN limiter - 1 ELSE 0
  /\ at' = [at EXCEPT ![c] = "idle"]
  /\ credit' = credit - 1
  /\ late' = IF chanClosed /\ late < 2 THEN late + 1 ELSE late
  /\ sincePass' = 0
  /\ UNCHANGED <<phase, tickerC, run, stopVars, panicked>>

\* A closed channel still hands out the token in its buffer.
WaitPass(c) ==
  /\ at[c] = "select"
  /\ limiter > 0
  /\ limiter' = limiter - 1
  /\ at' = [at EXCEPT ![c] = "idle"]
  /\ credit' = credit - 1
  /\ late' = IF chanClosed /\ late < 2 THEN late + 1 ELSE late
  /\ sincePass' = 0
  /\ UNCHANGED <<phase, tickerC, run, stopVars, panicked>>

WaitError(c) ==
  /\ at[c] = "select"
  /\ cancelled \/ (chanClosed /\ limiter = 0)
  /\ at' = [at EXCEPT ![c] = "idle"]
  /\ UNCHANGED <<phase, limiterVars, stopVars, panicked, history>>
-----------------------------------------------------------------------------
\* Stop; a second call finds rl.stopped set and does nothing.
StopFlag ==
  /\ stop = "none"
  /\ stop' = "flagged"
  /\ stopped' = TRUE
  /\ UNCHANGED <<phase, limiterVars, cancelled, chanClosed, at, panicked, history>>

StopCancel ==
  /\ stop = "flagged"
  /\ stop' = "cancelled"
  /\ cancelled' = TRUE
  /\ UNCHANGED <<phase, limiterVars, stopped, chanClosed, at, panicked, history>>

StopClose ==
  /\ stop = "cancelled"
  /\ stop' = "returned"
  /\ chanClosed' = TRUE
  /\ UNCHANGED <<phase, limiterVars, stopped, cancelled, at, panicked, history>>

RunStep == RunTick \/ RunCheck \/ RunSend \/ RunDone \/ RunFull \/ RunPanic

Next ==
  \/ /\ ~panicked
     /\ \/ Clock
        \/ RunStep
        \/ \E c \in Callers : WaitCheck(c) \/ WaitPass(c) \/ WaitError(c)
        \/ StopFlag \/ StopCancel \/ StopClose
  \/ panicked /\ UNCHANGED vars

Spec == Init /\ [][Next]_vars
-----------------------------------------------------------------------------
(* What the comment on NewChannelRateLimiter and the configuration say,    *)
(* "с указанием интервала между запросами" and "интервал между запросами = *)
(* 2с": between two calls that pass there is at least the interval.        *)
IntervalKept == [][\A c \in Callers : WaitPass(c) => sincePass = Rate]_vars

(* What holds instead of the interval: over any stretch of time no more    *)
(* calls pass than the ticker fired, plus the tokens that a late goroutine *)
(* can leave in the three places.  The limiter is a token bucket of that   *)
(* depth, and calls may pass at once until it is empty.                    *)
BucketHolds == credit >= 0

(* Once Stop has closed the channel, at most one more call passes.         *)
OneLateToken == late <= 1

(* Every Wait returns: with a token while the limiter runs, with an error  *)
(* when it is stopped meanwhile.                                           *)
WaitReturns == \A c \in Callers : at[c] = "select" ~> at[c] = "idle" \/ panicked
=============================================================================

----------------------------- MODULE WorkerPool -----------------------------
(***************************************************************************)
(* The load control of ParsersManager: the console's menu loop puts one    *)
(* job at a time on a bounded queue and waits for its answer, a pool of    *)
(* workers polls the queue, a semaphore limits how many of them carry out  *)
(* a job, and BaseJob.Complete sends the outcome on the job's own channel, *)
(* whose buffer holds one message.  Every wait of the console ends after a *)
(* timeout.  What a job does (caches, breakers, sources) is abstracted to  *)
(* its outcome.                                                            *)
(***************************************************************************)
EXTENDS Naturals, Sequences, FiniteSets

CONSTANTS
  Jobs,           \* the requests the user makes, each a job of its own
  UnknownSource,  \* requests for the details of a vacancy of no known source
  Workers,        \* pm.workers goroutines
  SemaphoreSize,  \* capacity of pm.semaphore
  QueueSize,      \* capacity of pm.jobSearchQueue
  NoJob           \* what an idle worker works on

\* NewPMLoad: ceil(0.7 * workers) slots, and three places in the queue for each.
ASSUME PoolAssumption ==
  /\ UnknownSource \subseteq Jobs
  /\ NoJob \notin Jobs
  /\ IsFiniteSet(Workers)
  /\ SemaphoreSize \in Nat \ {0}
  /\ QueueSize \in Nat \ {0}

VARIABLES
  console,      \* where the menu loop is, and how the process ended
  status,       \* what the console knows of each request
  queue,        \* pm.jobSearchQueue
  resultChan,   \* the one-message buffer of each job's ResultChan
  slots,        \* len(pm.semaphore)
  deferred,     \* workers with a pending "defer <-pm.semaphore"
  at,           \* where each worker is
  job,          \* the job each worker has
  answer,       \* the outcome each worker is about to send
  stopWorkers,  \* pm.stopWorkers is closed
  done          \* Shutdown's done is closed

consoleVars == <<console, status>>
workerVars == <<at, job, answer, slots, deferred>>
shutdownVars == <<stopWorkers, done>>
vars == <<consoleVars, queue, resultChan, workerVars, shutdownVars>>

Outcomes == {"ok", "err"}
Ended == {"exited", "timedOut", "crashed"}

TypeOK ==
  /\ console \in {"menu", "enqueue", "wait", "stopping"} \cup Ended
  /\ status \in [Jobs -> {"new", "pending", "refused", "abandoned"} \cup Outcomes]
  /\ queue \in Seq(Jobs) /\ Len(queue) <= QueueSize
  /\ resultChan \in [Jobs -> {"empty"} \cup Outcomes]
  /\ slots \in 0..SemaphoreSize
  /\ deferred \in SUBSET Workers
  /\ at \in [Workers -> {"select", "dequeue", "slot", "run", "send", "resend",
                         "return", "gone"}]
  /\ job \in [Workers -> Jobs \cup {NoJob}]
  /\ answer \in [Workers -> Outcomes]
  /\ stopWorkers \in BOOLEAN
  /\ done \in BOOLEAN

Init ==
  /\ console = "menu"
  /\ status = [j \in Jobs |-> "new"]
  /\ queue = <<>>
  /\ resultChan = [j \in Jobs |-> "empty"]
  /\ slots = 0
  /\ deferred = {}
  /\ at = [w \in Workers |-> "select"]
  /\ job = [w \in Workers |-> NoJob]
  /\ answer = [w \in Workers |-> "err"]
  /\ stopWorkers = FALSE
  /\ done = FALSE
-----------------------------------------------------------------------------
(* The console: App.Run, and the methods of ParsersManager it calls. *)

\* Menu items 1 and 3 make a job with a result channel of its own.
Request(j) ==
  /\ console = "menu"
  /\ status[j] = "new"
  /\ console' = "enqueue"
  /\ status' = [status EXCEPT ![j] = "pending"]
  /\ UNCHANGED <<queue, resultChan, workerVars, shutdownVars>>

\* As if the queue had one place more than the channel's capacity.
HasRoomInclusive == Len(queue) <= QueueSize

HasRoom == Len(queue) < QueueSize

\* tryEnqueueJob tries every 50 ms; an attempt on a full queue changes nothing.
Enqueue(j) ==
  /\ console = "enqueue"
  /\ status[j] = "pending"
  /\ HasRoom
  /\ queue' = Append(queue, j)
  /\ console' = "wait"
  /\ UNCHANGED <<status, resultChan, workerVars, shutdownVars>>

\* An attempt fails and five seconds have passed since the first.
EnqueueTimeout(j) ==
  /\ console = "enqueue"
  /\ status[j] = "pending"
  /\ ~HasRoom
  /\ console' = "menu"
  /\ status' = [status EXCEPT ![j] = "refused"]
  /\ UNCHANGED <<queue, resultChan, workerVars, shutdownVars>>

Receive(j) ==
  /\ console = "wait"
  /\ status[j] = "pending"
  /\ resultChan[j] # "empty"
  /\ console' = "menu"
  /\ status' = [status EXCEPT ![j] = resultChan[j]]
  /\ resultChan' = [resultChan EXCEPT ![j] = "empty"]
  /\ UNCHANGED <<queue, workerVars, shutdownVars>>

\* Thirty seconds have passed; the answer may be in the channel by now.
ResultTimeout(j) ==
  /\ console = "wait"
  /\ status[j] = "pending"
  /\ console' = "menu"
  /\ status' = [status EXCEPT ![j] = "abandoned"]
  /\ UNCHANGED <<queue, resultChan, workerVars, shutdownVars>>

\* The input ends: Run returns without a shutdown.
EndOfInput ==
  /\ console = "menu"
  /\ console' = "exited"
  /\ UNCHANGED <<status, queue, resultChan, workerVars, shutdownVars>>

\* Menu item 4 calls Shutdown.
Shutdown ==
  /\ console = "menu"
  /\ console' = "stopping"
  /\ stopWorkers' = TRUE
  /\ UNCHANGED <<status, queue, resultChan, workerVars, done>>

\* Shutdown's goroutine: wg.Wait, stop the status manager, close(done).
AwaitWorkers ==
  /\ stopWorkers
  /\ ~done
  /\ \A w \in Workers : at[w] = "gone"
  /\ done' = TRUE
  /\ UNCHANGED <<consoleVars, queue, resultChan, workerVars, stopWorkers>>

ShutdownDone ==
  /\ console = "stopping"
  /\ done
  /\ console' = "exited"
  /\ UNCHANGED <<status, queue, resultChan, workerVars, shutdownVars>>

\* Ten seconds have passed.
ShutdownTimeout ==
  /\ console = "stopping"
  /\ console' = "timedOut"
  /\ UNCHANGED <<status, queue, resultChan, workerVars, shutdownVars>>
-----------------------------------------------------------------------------
(* A worker: searchWorker, proccessSearchJob, proccessDetailsJob, Complete. *)

Go(w, place) == at' = [at EXCEPT ![w] = place]

ObserveStop(w) ==
  /\ at[w] = "select"
  /\ stopWorkers
  /\ Go(w, "gone")
  /\ UNCHANGED <<job, answer, slots, deferred>>
  /\ UNCHANGED <<consoleVars, queue, resultChan, shutdownVars>>

\* The default branch: the stop may come between it and the Dequeue it calls.
Poll(w) ==
  /\ at[w] = "select"
  /\ ~stopWorkers
  /\ Go(w, "dequeue")
  /\ UNCHANGED <<job, answer, slots, deferred>>
  /\ UNCHANGED <<consoleVars, queue, resultChan, shutdownVars>>

\* As if Dequeue left the job it returns in the queue.
DequeuePeek(w) ==
  /\ at[w] = "dequeue"
  /\ queue # <<>>
  /\ job' = [job EXCEPT ![w] = Head(queue)]
  /\ Go(w, "slot")
  /\ UNCHANGED <<queue, answer, slots, deferred>>
  /\ UNCHANGED <<consoleVars, resultChan, shutdownVars>>

Dequeue(w) ==
  /\ at[w] = "dequeue"
  /\ queue # <<>>
  /\ job' = [job EXCEPT ![w] = Head(queue)]
  /\ queue' = Tail(queue)
  /\ Go(w, "slot")
  /\ UNCHANGED <<answer, slots, deferred>>
  /\ UNCHANGED <<consoleVars, resultChan, shutdownVars>>

DequeueNothing(w) ==
  /\ at[w] = "dequeue"
  /\ queue = <<>>
  /\ Go(w, "select")
  /\ UNCHANGED <<job, answer, slots, deferred>>
  /\ UNCHANGED <<consoleVars, queue, resultChan, shutdownVars>>

AcquireSlot(w) ==
  /\ at[w] = "slot"
  /\ slots < SemaphoreSize
  /\ slots' = slots + 1
  /\ deferred' = deferred \cup {w}
  /\ Go(w, "run")
  /\ UNCHANGED <<job, answer>>
  /\ UNCHANGED <<consoleVars, queue, resultChan, shutdownVars>>

\* As if a job that gets no slot were dropped without an answer.
SlotTimeoutSilent(w) ==
  /\ at[w] = "slot"
  /\ slots = SemaphoreSize
  /\ Go(w, "return")
  /\ UNCHANGED <<job, answer, slots, deferred>>
  /\ UNCHANGED <<consoleVars, queue, resultChan, shutdownVars>>

\* No slot became free in semaSlotGetTimeout.  The select takes a free slot at
\* once, so the timer only wins while there is none.
SlotTimeout(w) ==
  /\ at[w] = "slot"
  /\ slots = SemaphoreSize
  /\ answer' = [answer EXCEPT ![w] = "err"]
  /\ Go(w, "send")
  /\ UNCHANGED <<job, slots, deferred>>
  /\ UNCHANGED <<consoleVars, queue, resultChan, shutdownVars>>

\* The job runs under the global breaker.  The one outcome other than a panic
\* for an unknown source is the breaker's refusal.
Perform(w) ==
  /\ at[w] = "run"
  /\ \E result \in Outcomes :
       /\ job[w] \in UnknownSource => result = "err"
       /\ answer' = [answer EXCEPT ![w] = result]
  /\ Go(w, "send")
  /\ UNCHANGED <<job, slots, deferred>>
  /\ UNCHANGED <<consoleVars, queue, resultChan, shutdownVars>>

\* No parser has the source's name: the method call on the nil Parser panics,
\* nothing recovers, and the process ends.
Panic(w) ==
  /\ at[w] = "run"
  /\ job[w] \in UnknownSource
  /\ console' = "crashed"
  /\ UNCHANGED <<status, queue, resultChan, workerVars, shutdownVars>>

\* As if Complete sent an empty error result whenever there is no error.
SendInverted(w) ==
  /\ at[w] = "send"
  /\ resultChan[job[w]] = "empty"
  /\ resultChan' = [resultChan EXCEPT
                      ![job[w]] = IF answer[w] = "ok" THEN "err" ELSE "ok"]
  /\ Go(w, IF answer[w] = "ok" THEN "resend" ELSE "return")
  /\ UNCHANGED <<job, answer, slots, deferred>>
  /\ UNCHANGED <<consoleVars, queue, shutdownVars>>

\* Complete: after the result of a success there is no return.  The job's
\* sync.Once never refuses, for a job is with one worker (HeldOnce).
Send(w) ==
  /\ at[w] = "send"
  /\ resultChan[job[w]] = "empty"
  /\ resultChan' = [resultChan EXCEPT ![job[w]] = answer[w]]
  /\ Go(w, IF answer[w] = "ok" THEN "resend" ELSE "return")
  /\ UNCHANGED <<job, answer, slots, deferred>>
  /\ UNCHANGED <<consoleVars, queue, shutdownVars>>

\* As if the send were repeated for as long as the buffer has room.
ResendForever(w) ==
  /\ at[w] = "resend"
  /\ resultChan[job[w]] = "empty"
  /\ resultChan' = [resultChan EXCEPT ![job[w]] = answer[w]]
  /\ UNCHANGED workerVars
  /\ UNCHANGED <<consoleVars, queue, shutdownVars>>

\* The second message says Success: false, but waitJobResult looks at Error
\* and Data only, and those are the same.
Resend(w) ==
  /\ at[w] = "resend"
  /\ resultChan[job[w]] = "empty"
  /\ resultChan' = [resultChan EXCEPT ![job[w]] = answer[w]]
  /\ Go(w, "return")
  /\ UNCHANGED <<job, answer, slots, deferred>>
  /\ UNCHANGED <<consoleVars, queue, shutdownVars>>

\* As if the slot were released on every path, also on that without one.
ReturnAlwaysRelease(w) ==
  /\ at[w] = "return"
  /\ slots' = IF slots > 0 THEN slots - 1 ELSE slots
  /\ deferred' = deferred \ {w}
  /\ job' = [job EXCEPT ![w] = NoJob]
  /\ Go(w, "select")
  /\ UNCHANGED <<consoleVars, queue, resultChan, answer, shutdownVars>>

\* The handler returns; the deferred function, if any, gives the slot back.
Return(w) ==
  /\ at[w] = "return"
  /\ slots' = IF w \in deferred THEN slots - 1 ELSE slots
  /\ deferred' = deferred \ {w}
  /\ job' = [job EXCEPT ![w] = NoJob]
  /\ Go(w, "select")
  /\ UNCHANGED <<consoleVars, queue, resultChan, answer, shutdownVars>>
-----------------------------------------------------------------------------
Console ==
  \/ \E j \in Jobs : \/ Request(j)
                     \/ Enqueue(j)
                     \/ EnqueueTimeout(j)
                     \/ Receive(j)
                     \/ ResultTimeout(j)
  \/ EndOfInput
  \/ Shutdown
  \/ ShutdownDone
  \/ ShutdownTimeout

Worker(w) ==
  \/ ObserveStop(w)
  \/ Poll(w)
  \/ Dequeue(w)
  \/ DequeueNothing(w)
  \/ AcquireSlot(w)
  \/ SlotTimeout(w)
  \/ Perform(w)
  \/ Panic(w)
  \/ Send(w)
  \/ Resend(w)
  \/ Return(w)

\* When main returns or a goroutine panics, every other goroutine is gone.
Running == console \notin Ended

Terminated == ~Running /\ UNCHANGED vars

Next ==
  \/ Running /\ (Console \/ AwaitWorkers \/ \E w \in Workers : Worker(w))
  \/ Terminated

Spec == Init /\ [][Next]_vars

\* The scheduler runs every goroutine, and a job's execution ends: the sources'
\* clients have timeouts.  Nothing is assumed of the console's own timeouts.
FairSpec ==
  /\ Spec
  /\ \A w \in Workers : WF_vars(Running /\ Worker(w))
  /\ \A j \in Jobs : WF_vars(Enqueue(j)) /\ WF_vars(Receive(j))
  /\ WF_vars(Running /\ AwaitWorkers)
  /\ WF_vars(ShutdownDone)

\* The console's timers fire as well.
TimedSpec ==
  /\ FairSpec
  /\ \A j \in Jobs : WF_vars(EnqueueTimeout(j)) /\ WF_vars(ResultTimeout(j))
  /\ WF_vars(ShutdownTimeout)
-----------------------------------------------------------------------------
Busy(w) == at[w] \in {"slot", "run", "send", "resend", "return"}
Queued(j) == \E i \in 1..Len(queue) : queue[i] = j
Holder(w, j) == Busy(w) /\ job[w] = j

(* A job is never in two hands: not twice in the queue, not in the queue   *)
(* and with a worker, not with two workers, also when the console has      *)
(* given up on it.  sync.Once in Complete is therefore never needed.       *)
HeldOnce ==
  /\ \A i, k \in 1..Len(queue) : queue[i] = queue[k] => i = k
  /\ \A w \in Workers, j \in Jobs : Holder(w, j) => ~Queued(j)
  /\ \A v, w \in Workers, j \in Jobs : Holder(v, j) /\ Holder(w, j) => v = w

(* While the console waits, its job is in the queue, or with a worker that *)
(* has yet to answer, or answered: no refusal of a slot, no stop and no    *)
(* emptied buffer leaves it waiting for a job that nobody has.             *)
NoLostJob ==
  console = "wait" =>
    \E j \in Jobs :
      /\ status[j] = "pending"
      /\ \/ Queued(j)
         \/ \E w \in Workers : Holder(w, j) /\ at[w] \in {"slot", "run", "send"}
         \/ resultChan[j] # "empty"

(* The slots taken are those of the workers that will give one back, and   *)
(* there are no more of these than the semaphore has room for, whichever   *)
(* of the slot and its timeout each worker got.                            *)
SlotAccounting ==
  /\ slots = Cardinality(deferred)
  /\ slots <= SemaphoreSize
  /\ \A w \in deferred : at[w] \in {"run", "send", "resend", "return"}
  /\ \A w \in Workers : at[w] \in {"run", "resend"} => w \in deferred

(* The only worker that can be stuck in Complete for ever, its buffer full *)
(* and nobody to empty it, is one whose job the console has given up on.   *)
StuckOnlyIfAbandoned ==
  \A w \in Workers :
    at[w] \in {"send", "resend"} /\ resultChan[job[w]] # "empty" =>
      status[job[w]] \in {"pending", "abandoned"}

\* The outcome of a request, wherever it has got to.
Outcome(j) ==
  IF status[j] \in Outcomes THEN status[j]
  ELSE IF resultChan[j] # "empty" THEN resultChan[j]
  ELSE IF \E w \in Workers : Holder(w, j) /\ at[w] = "send"
         THEN LET w == CHOOSE w \in Workers : Holder(w, j) /\ at[w] = "send"
              IN answer[w]
  ELSE "none"

Promise ==
  INSTANCE JobService
    WITH told <- status, outcome <- [j \in Jobs |-> Outcome(j)]

(* Queue, workers, slots and channels implement JobService: a request is   *)
(* settled at most once and never after it was refused, and the console is *)
(* told the outcome of the request it made.                                *)
ImplementsPromise == Promise!Spec

\* A request of which there is no trace beyond the console.
Untouched(j) ==
  /\ ~Queued(j)
  /\ \A w \in Workers : ~Holder(w, j)
  /\ resultChan[j] = "empty"

\* What became of a request as far as the queue is concerned.
Fate(j) ==
  IF Queued(j) THEN "queued"
  ELSE IF status[j] = "refused" THEN "refused"
  ELSE IF status[j] \in {"new", "pending"} /\ Untouched(j) THEN "new"
  ELSE "taken"

Queue ==
  INSTANCE QueuePromise
    WITH Items <- Jobs, Capacity <- QueueSize, content <- queue,
         fate <- [j \in Jobs |-> Fate(j)], phase <- "open"

(* The console and the workers use the queue as the queue promises to be   *)
(* used, and one step for each of its operations loses nothing: requests   *)
(* leave the queue in the order made, each to one worker, and one is       *)
(* refused only when the queue is full and before it was in it.  In which  *)
(* order they are carried out is another matter: a worker that waits for a *)
(* slot can be overtaken by one that took a later request.                 *)
ImplementsQueue == Queue!Spec

Patient ==
  /\ console # "timedOut"
  /\ \A j \in Jobs : status[j] # "abandoned"

(* A console that never gives up on an answer or on the workers' end gets  *)
(* back to its menu from every request, and out of every shutdown, without *)
(* the help of any of its timeouts.                                        *)
PatientConsoleServed ==
  []Patient =>
    (console \in {"enqueue", "wait", "stopping"}
       ~> console \in {"menu", "exited", "crashed"})

(* As long as the console never gives up on an answer, a worker that takes *)
(* a slot gives it back, although Complete sends a success twice.          *)
PatientSlotsReturn ==
  []Patient => \A w \in Workers : w \in deferred ~> w \notin deferred \/ ~Running

(* What the comment on the deferred function says, "Освобождаем слот": a   *)
(* slot that was taken is released, unless the process ends first.         *)
SlotsReturn == \A w \in Workers : w \in deferred ~> w \notin deferred \/ ~Running
=============================================================================

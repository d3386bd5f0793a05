-------------------------- MODULE WorkerPoolProofs --------------------------
(***************************************************************************)
(* Theorems about WorkerPool for every set of jobs and workers and every   *)
(* size of the queue and the semaphore, and the proof that it implements   *)
(* JobService.                                                             *)
(***************************************************************************)
EXTENDS WorkerPool, FiniteSetTheorems, SequenceTheorems, TLAPS

Early(w) == at[w] \in {"slot", "run", "send"}

(* The console makes one request at a time, and only while it says so.     *)
OneRequest ==
  /\ \A j, k \in Jobs : status[j] = "pending" /\ status[k] = "pending" => j = k
  /\ console \in {"enqueue", "wait"} => \E j \in Jobs : status[j] = "pending"
  /\ (\E j \in Jobs : status[j] = "pending") =>
       console \in {"enqueue", "wait", "crashed"}

(* Where a request can be, given what the console knows of it.             *)
Placed(j) ==
  /\ status[j] \in {"new", "refused"} => Untouched(j)
  /\ status[j] = "pending" /\ console = "enqueue" => Untouched(j)
  /\ status[j] = "pending" /\ console = "wait" =>
       \/ Queued(j)
       \/ \E w \in Workers : Holder(w, j) /\ Early(w)
       \/ resultChan[j] # "empty"
  /\ Queued(j) => status[j] \in {"pending", "abandoned"} /\ resultChan[j] = "empty"

(* What has come of the request in a worker's hands: nothing before the    *)
(* first send; afterwards the result is in the buffer, or was received.    *)
InHands(w) ==
  /\ Busy(w) => job[w] \in Jobs
  /\ Early(w) => /\ status[job[w]] \in {"pending", "abandoned"}
                 /\ resultChan[job[w]] = "empty"
  /\ at[w] = "resend" =>
       \/ status[job[w]] \in {"pending", "abandoned"} /\ resultChan[job[w]] # "empty"
       \/ status[job[w]] \in Outcomes /\ resultChan[job[w]] = "empty"

(* A worker without a slot can only be about to report that it has none.   *)
NoSlotNoResult ==
  \A w \in Workers : at[w] = "send" /\ w \notin deferred => answer[w] = "err"

SlotInv == SlotAccounting /\ NoSlotNoResult

JobInv ==
  /\ HeldOnce
  /\ OneRequest
  /\ \A j \in Jobs : Placed(j)
  /\ \A w \in Workers : InHands(w)

IInv == TypeOK /\ SlotInv /\ JobInv
-----------------------------------------------------------------------------
(* Types. *)

(* The variables of a new pool are in their ranges. *)
LEMMA InitTypeOK == Init => TypeOK
<1> SUFFICES ASSUME Init PROVE TypeOK
  OBVIOUS
<1>1. /\ status \in [Jobs -> {"new", "pending", "refused", "abandoned"} \cup Outcomes]
      /\ resultChan \in [Jobs -> {"empty"} \cup Outcomes]
  BY DEF Init
<1>2. /\ at \in [Workers -> {"select", "dequeue", "slot", "run", "send", "resend",
                            "return", "gone"}]
      /\ job \in [Workers -> Jobs \cup {NoJob}]
      /\ answer \in [Workers -> Outcomes]
  BY DEF Init, Outcomes
<1>3. queue \in Seq(Jobs) /\ Len(queue) <= QueueSize
  BY PoolAssumption, EmptySeq DEF Init
<1>4. slots \in 0..SemaphoreSize
  BY PoolAssumption DEF Init
<1>5. console = "menu" /\ deferred = {} /\ stopWorkers = FALSE /\ done = FALSE
  BY DEF Init
<1>6. QED
  BY <1>1, <1>2, <1>3, <1>4, <1>5 DEF TypeOK

(* What Enqueue does to the queue: the job joins it, at the end. *)
LEMMA EnqueueQueue ==
  ASSUME TypeOK, NEW j \in Jobs, Enqueue(j)
  PROVE  /\ queue' \in Seq(Jobs) /\ Len(queue') <= QueueSize
         /\ \A k \in Jobs : Queued(k)' <=> Queued(k) \/ k = j
         /\ /\ \A i, k \in 1..Len(queue) : queue[i] = queue[k] => i = k
            /\ ~Queued(j)
            => \A i, k \in 1..Len(queue') : queue'[i] = queue'[k] => i = k
<1> USE DEF TypeOK, Enqueue, HasRoom, Queued
<1>1. /\ queue' \in Seq(Jobs) /\ Len(queue') = Len(queue) + 1 /\ Len(queue) \in Nat
      /\ \A i \in 1..Len(queue) : queue'[i] = queue[i]
      /\ queue'[Len(queue) + 1] = j
  BY AppendProperties, LenProperties
<1>2. QED
  BY <1>1, PoolAssumption

(* What Dequeue does: the worker gets a queued job, which leaves the queue. *)
LEMMA DequeueQueue ==
  ASSUME TypeOK, NEW w \in Workers, Dequeue(w)
  PROVE  /\ queue' \in Seq(Jobs) /\ Len(queue') <= QueueSize
         /\ \E j \in Jobs :
              /\ job'[w] = j
              /\ Queued(j)
              /\ \A k \in Jobs : Queued(k)' => Queued(k)
              /\ \A k \in Jobs : Queued(k) => Queued(k)' \/ k = j
              /\ (\A i, k \in 1..Len(queue) : queue[i] = queue[k] => i = k) =>
                   /\ ~Queued(j)'
                   /\ \A i, k \in 1..Len(queue') : queue'[i] = queue'[k] => i = k
<1> USE DEF TypeOK, Dequeue, Queued
<1>1. PICK j \in Jobs : j = Head(queue)
  BY HeadTailProperties
<1>2. /\ queue[1] = j
      /\ queue' \in Seq(Jobs)
      /\ Len(queue') = Len(queue) - 1 /\ Len(queue) \in Nat \ {0}
      /\ \A i \in 1..Len(queue') : queue'[i] = queue[i + 1]
  BY <1>1, HeadTailProperties, LenProperties, EmptySeq
<1>3. job'[w] = j /\ Queued(j) /\ \A k \in Jobs : Queued(k)' => Queued(k)
  BY <1>1, <1>2
<1>4. ASSUME NEW k \in Jobs, Queued(k), k # j
      PROVE  Queued(k)'
  <2>1. PICK i \in 1..Len(queue) : queue[i] = k
    BY <1>4
  <2>2. i - 1 \in 1..Len(queue') /\ queue'[i - 1] = queue[i]
    BY <2>1, <1>2, <1>4
  <2>3. QED
    BY <2>1, <2>2
<1>5. ASSUME \A i, k \in 1..Len(queue) : queue[i] = queue[k] => i = k
      PROVE  /\ ~Queued(j)'
             /\ \A i, k \in 1..Len(queue') : queue'[i] = queue'[k] => i = k
  <2>1. ASSUME NEW i \in 1..Len(queue')
        PROVE  queue'[i] # j
    <3>1. i + 1 \in 1..Len(queue) /\ 1 \in 1..Len(queue) /\ i + 1 # 1
      BY <1>2
    <3>2. queue[i + 1] # queue[1]
      BY <3>1, <1>5
    <3>3. QED
      BY <3>2, <1>2
  <2>2. ASSUME NEW i \in 1..Len(queue'), NEW k \in 1..Len(queue'),
               queue'[i] = queue'[k]
        PROVE  i = k
    BY <1>2, <1>5, <2>2
  <2>3. QED
    BY <2>1, <2>2
<1>6. Len(queue') <= QueueSize
  BY <1>2, PoolAssumption
<1>7. \A k \in Jobs : Queued(k) => Queued(k)' \/ k = j
  BY <1>4
<1> HIDE DEF TypeOK, Dequeue, Queued
<1>8. QED
  BY <1>2, <1>3, <1>5, <1>6, <1>7

(* No step of the console or of Shutdown leaves the ranges. *)
LEMMA ConsoleTypeOK ==
  ASSUME TypeOK, Console \/ AwaitWorkers
  PROVE  TypeOK'
<1> USE DEF TypeOK, Outcomes, Ended, consoleVars, workerVars, shutdownVars
<1>1. ASSUME NEW j \in Jobs, Request(j) \/ EnqueueTimeout(j) \/ ResultTimeout(j)
      PROVE  TypeOK'
  BY <1>1 DEF Request, EnqueueTimeout, ResultTimeout
<1>2. ASSUME NEW j \in Jobs, Enqueue(j)
      PROVE  TypeOK'
  <2>1. queue' \in Seq(Jobs) /\ Len(queue') <= QueueSize
    BY <1>2, EnqueueQueue
  <2>2. QED
    BY <1>2, <2>1 DEF Enqueue
<1>3. ASSUME NEW j \in Jobs, Receive(j)
      PROVE  TypeOK'
  BY <1>3 DEF Receive
<1>4. CASE EndOfInput \/ Shutdown \/ ShutdownDone \/ ShutdownTimeout \/ AwaitWorkers
  BY <1>4 DEF EndOfInput, Shutdown, ShutdownDone, ShutdownTimeout, AwaitWorkers
<1>5. QED
  BY <1>1, <1>2, <1>3, <1>4 DEF Console

(* How the number of taken slots changes when a worker takes or returns    *)
(* one.                                                                    *)
LEMMA DeferredCount ==
  ASSUME TypeOK, NEW w \in Workers
  PROVE  /\ Cardinality(deferred) \in Nat
         /\ w \notin deferred =>
              Cardinality(deferred \cup {w}) = Cardinality(deferred) + 1
         /\ w \in deferred =>
              Cardinality(deferred \ {w}) = Cardinality(deferred) - 1
<1>1. IsFiniteSet(deferred)
  BY PoolAssumption, FS_Subset DEF TypeOK
<1>2. QED
  BY <1>1, FS_CardinalityType, FS_AddElement, FS_RemoveElement

(* No step of a worker does; a Return needs a slot to give back. *)
LEMMA WorkerTypeOK ==
  ASSUME TypeOK, SlotInv, NEW w \in Workers, Worker(w)
  PROVE  TypeOK'
<1> USE DEF TypeOK, Outcomes, Ended, Go, consoleVars, workerVars, shutdownVars
<1>1. CASE ObserveStop(w) \/ Poll(w) \/ DequeueNothing(w)
  BY <1>1 DEF ObserveStop, Poll, DequeueNothing
<1>2. CASE Dequeue(w)
  <2>1. queue' \in Seq(Jobs) /\ Len(queue') <= QueueSize /\ job'[w] \in Jobs
    BY <1>2, DequeueQueue
  <2>2. job' \in [Workers -> Jobs \cup {NoJob}]
    BY <1>2, <2>1 DEF Dequeue
  <2>3. QED
    BY <1>2, <2>1, <2>2 DEF Dequeue
<1>3. CASE AcquireSlot(w)
  BY <1>3, PoolAssumption DEF AcquireSlot
<1>4. CASE SlotTimeout(w) \/ Perform(w) \/ Panic(w)
  BY <1>4 DEF SlotTimeout, Perform, Panic
<1>5. CASE Send(w) \/ Resend(w)
  BY <1>5 DEF Send, Resend
<1>6. CASE Return(w)
  <2>1. w \in deferred => slots - 1 \in Nat
    <3>1. Cardinality(deferred \ {w}) \in Nat
      BY PoolAssumption, FS_Subset, FS_CardinalityType
    <3>2. QED
      BY <3>1, DeferredCount DEF SlotInv, SlotAccounting
  <2>2. slots' \in 0..SemaphoreSize
    BY <1>6, <2>1, PoolAssumption DEF Return
  <2>3. QED
    BY <1>6, <2>2 DEF Return
<1>7. QED
  BY <1>1, <1>2, <1>3, <1>4, <1>5, <1>6 DEF Worker
-----------------------------------------------------------------------------
(* Slots. *)

(* At first no slot is taken. *)
LEMMA InitSlotInv == Init => SlotInv
BY PoolAssumption, FS_EmptySet
   DEF Init, SlotInv, SlotAccounting, NoSlotNoResult

(* Which workers hold a slot does not depend on the console.               *)
LEMMA ConsoleSlotInv ==
  ASSUME SlotInv, Console \/ AwaitWorkers \/ UNCHANGED vars
  PROVE  SlotInv'
<1>1. UNCHANGED <<at, answer, slots, deferred>>
  BY DEF Console, Request, Enqueue, EnqueueTimeout, Receive, ResultTimeout,
         EndOfInput, Shutdown, ShutdownDone, ShutdownTimeout, AwaitWorkers,
         vars, workerVars
<1>2. QED
  BY <1>1 DEF SlotInv, SlotAccounting, NoSlotNoResult

(* A worker takes one slot at most and gives back what it took. *)
LEMMA WorkerSlotInv ==
  ASSUME TypeOK, SlotInv, NEW w \in Workers, Worker(w)
  PROVE  SlotInv'
<1> USE DEF TypeOK, SlotInv, SlotAccounting, NoSlotNoResult, Outcomes, Go
<1>1. CASE ObserveStop(w) \/ Poll(w) \/ Dequeue(w) \/ DequeueNothing(w)
  BY <1>1 DEF ObserveStop, Poll, Dequeue, DequeueNothing
<1>2. CASE AcquireSlot(w)
  <2>1. w \notin deferred
    BY <1>2 DEF AcquireSlot
  <2>2. slots' = Cardinality(deferred') /\ slots' <= SemaphoreSize
    BY <1>2, <2>1, DeferredCount, PoolAssumption DEF AcquireSlot
  <2>3. QED
    BY <1>2, <2>2 DEF AcquireSlot
<1>3. CASE SlotTimeout(w)
  BY <1>3 DEF SlotTimeout
<1>4. CASE Perform(w)
  BY <1>4 DEF Perform
<1>5. CASE Panic(w)
  BY <1>5 DEF Panic, workerVars
<1>6. CASE Send(w) \/ Resend(w)
  BY <1>6 DEF Send, Resend
<1>7. CASE Return(w)
  <2>1. slots' = Cardinality(deferred') /\ slots' <= SemaphoreSize
    <3>1. CASE w \in deferred
      BY <1>7, <3>1, DeferredCount, PoolAssumption DEF Return
    <3>2. CASE w \notin deferred
      <4>1. deferred' = deferred
        BY <1>7, <3>2 DEF Return
      <4>2. QED
        BY <1>7, <3>2, <4>1 DEF Return
    <3>3. QED
      BY <3>1, <3>2
  <2>2. QED
    BY <1>7, <2>1 DEF Return
<1>8. QED
  BY <1>1, <1>2, <1>3, <1>4, <1>5, <1>6, <1>7 DEF Worker

(* Every step preserves types and slots. *)
LEMMA StepTypeSlot == TypeOK /\ SlotInv /\ [Next]_vars => TypeOK' /\ SlotInv'
<1> SUFFICES ASSUME TypeOK, SlotInv, [Next]_vars PROVE TypeOK' /\ SlotInv'
  OBVIOUS
<1>1. UNCHANGED vars => TypeOK'
  BY DEF TypeOK, vars, consoleVars, workerVars, shutdownVars
<1>2. QED
  BY <1>1, ConsoleTypeOK, WorkerTypeOK, ConsoleSlotInv, WorkerSlotInv
     DEF Next, Terminated

(* Types and slots are as they should be in every reachable state. *)
LEMMA TypeSlot == Spec => [](TypeOK /\ SlotInv)
BY InitTypeOK, InitSlotInv, StepTypeSlot, PTL DEF Spec

(* Every variable of the pool keeps to its range: the queue and the        *)
(* semaphore to their capacities, each result channel to one message.      *)
THEOREM TypeCorrect == Spec => []TypeOK
BY TypeSlot, PTL

(* The slots taken are exactly those of the workers that will return one.  *)
THEOREM SlotAccountingHolds == Spec => []SlotAccounting
<1>1. SlotInv => SlotAccounting
  BY DEF SlotInv
<1>2. QED
  BY <1>1, TypeSlot, PTL
-----------------------------------------------------------------------------
(* Jobs. *)

(* At first no request has left a trace. *)
LEMMA InitJobInv == Init => JobInv
BY DEF Init, JobInv, HeldOnce, OneRequest, Placed, InHands, Untouched, Queued,
       Holder, Busy, Early, Outcomes

(* The pool keeps what it holds; the console changes its mind about one    *)
(* request.                                                                *)
LEMMA RequestJobInv ==
  ASSUME TypeOK, JobInv, NEW j \in Jobs,
         Request(j) \/ EnqueueTimeout(j) \/ ResultTimeout(j)
  PROVE  JobInv'
<1> USE DEF Request, EnqueueTimeout, ResultTimeout, JobInv, workerVars
<1>1. HeldOnce'
  BY DEF HeldOnce, Queued, Holder, Busy
<1>2. OneRequest'
  BY DEF TypeOK, OneRequest
<1>3. ASSUME NEW k \in Jobs PROVE Placed(k)'
  BY DEF TypeOK, OneRequest, Placed, Untouched, Queued, Holder, Busy, Early
<1>4. ASSUME NEW w \in Workers PROVE InHands(w)'
  BY DEF TypeOK, InHands, Placed, Untouched, Holder, Busy, Early, Outcomes
<1>5. QED
  BY <1>1, <1>2, <1>3, <1>4

(* A job that joins the queue was nowhere before. *)
LEMMA EnqueueJobInv ==
  ASSUME TypeOK, JobInv, NEW j \in Jobs, Enqueue(j)
  PROVE  JobInv'
<1> USE DEF Enqueue, JobInv, workerVars
<1>1. Untouched(j)
  BY DEF Placed
<1>2. HeldOnce'
  BY <1>1, EnqueueQueue DEF HeldOnce, Untouched, Holder, Busy
<1>3. OneRequest'
  BY DEF TypeOK, OneRequest
<1>4. ASSUME NEW k \in Jobs PROVE Placed(k)'
  BY <1>1, EnqueueQueue DEF TypeOK, OneRequest, Placed, Untouched, Holder, Busy, Early
<1>5. ASSUME NEW w \in Workers PROVE InHands(w)'
  BY DEF InHands, Busy, Early
<1>6. QED
  BY <1>2, <1>3, <1>4, <1>5

(* The answer received is that of the pending request. *)
LEMMA ReceiveJobInv ==
  ASSUME TypeOK, JobInv, NEW j \in Jobs, Receive(j)
  PROVE  JobInv'
<1> USE DEF Receive, JobInv, workerVars
<1>1. HeldOnce'
  BY DEF HeldOnce, Queued, Holder, Busy
<1>2. OneRequest'
  BY DEF TypeOK, OneRequest, Outcomes
<1>3. ASSUME NEW k \in Jobs PROVE Placed(k)'
  BY DEF TypeOK, OneRequest, Placed, Untouched, Queued, Holder, Busy, Early, Outcomes
<1>4. ASSUME NEW w \in Workers PROVE InHands(w)'
  BY DEF TypeOK, InHands, Holder, Busy, Early, Outcomes
<1>5. QED
  BY <1>1, <1>2, <1>3, <1>4

(* The console leaves its menu, or the process ends: no request is pending *)
(* unless it ends in a panic.                                              *)
LEMMA EndJobInv ==
  ASSUME TypeOK, JobInv,
         EndOfInput \/ Shutdown \/ ShutdownDone \/ ShutdownTimeout \/ AwaitWorkers
  PROVE  JobInv'
<1>1. /\ UNCHANGED <<status, queue, resultChan, at, job>>
      /\ \/ UNCHANGED console
         \/ /\ console \in {"menu", "stopping"}
            /\ console' \in {"stopping", "exited", "timedOut"}
  BY DEF EndOfInput, Shutdown, ShutdownDone, ShutdownTimeout, AwaitWorkers,
         workerVars, consoleVars
<1>2. OneRequest' /\ HeldOnce'
  BY <1>1 DEF JobInv, OneRequest, HeldOnce, Queued, Holder, Busy
<1>3. ASSUME NEW k \in Jobs PROVE Placed(k)'
  BY <1>1 DEF JobInv, OneRequest, Placed, Untouched, Queued, Holder, Busy, Early
<1>4. ASSUME NEW w \in Workers PROVE InHands(w)'
  BY <1>1 DEF JobInv, InHands, Busy, Early
<1>5. QED
  BY <1>2, <1>3, <1>4 DEF JobInv

(* The worker moves on without its job changing hands.                     *)
LEMMA MoveJobInv ==
  ASSUME TypeOK, JobInv, NEW w \in Workers,
         \/ ObserveStop(w) \/ Poll(w) \/ DequeueNothing(w)
         \/ AcquireSlot(w) \/ SlotTimeout(w) \/ Perform(w)
  PROVE  JobInv'
<1>1. /\ UNCHANGED <<console, status, queue, resultChan, job>>
      /\ \A v \in Workers : v # w => at'[v] = at[v]
      /\ \/ ~Busy(w) /\ ~Busy(w)'
         \/ Early(w) /\ Early(w)'
      /\ at'[w] # "resend"
  BY DEF TypeOK, ObserveStop, Poll, DequeueNothing, AcquireSlot, SlotTimeout,
         Perform, Go, Busy, Early, consoleVars
<1>2. \A v \in Workers : (Busy(v)' <=> Busy(v)) /\ (Early(v)' <=> Early(v))
  BY <1>1 DEF Busy, Early
<1>3. \A v \in Workers : \A k : Holder(v, k)' <=> Holder(v, k)
  BY <1>1, <1>2 DEF Holder
<1>4. OneRequest' /\ HeldOnce'
  BY <1>1, <1>3 DEF JobInv, OneRequest, HeldOnce, Queued
<1>5. ASSUME NEW k \in Jobs PROVE Placed(k)'
  BY <1>1, <1>2, <1>3 DEF JobInv, Placed, Untouched, Queued
<1>6. ASSUME NEW v \in Workers PROVE InHands(v)'
  BY <1>1, <1>2 DEF JobInv, InHands
<1>7. QED
  BY <1>4, <1>5, <1>6 DEF JobInv

(* The job a worker gets leaves the queue and has no answer yet. *)
LEMMA DequeueJobInv ==
  ASSUME TypeOK, JobInv, NEW w \in Workers, Dequeue(w)
  PROVE  JobInv'
<1>1. /\ UNCHANGED <<console, status, resultChan>>
      /\ \A v \in Workers : v # w => at'[v] = at[v] /\ job'[v] = job[v]
      /\ at[w] = "dequeue" /\ at'[w] = "slot"
  BY DEF TypeOK, Dequeue, Go, consoleVars
<1>2. PICK j \in Jobs :
        /\ job'[w] = j /\ Queued(j) /\ ~Queued(j)'
        /\ \A k \in Jobs : Queued(k)' => Queued(k)
        /\ \A k \in Jobs : Queued(k) => Queued(k)' \/ k = j
        /\ \A i, k \in 1..Len(queue') : queue'[i] = queue'[k] => i = k
  BY DequeueQueue DEF JobInv, HeldOnce
<1>3. /\ Holder(w, j)' /\ Early(w)' /\ ~Busy(w)
      /\ \A k \in Jobs : Holder(w, k)' => k = j
      /\ \A v \in Workers, k \in Jobs : v # w => (Holder(v, k)' <=> Holder(v, k))
      /\ \A v \in Workers : v # w => (Early(v)' <=> Early(v))
  BY <1>1, <1>2 DEF Holder, Busy, Early
<1>4. HeldOnce'
  BY <1>2, <1>3 DEF JobInv, HeldOnce
<1>5. OneRequest'
  BY <1>1 DEF JobInv, OneRequest
<1>6. ASSUME NEW k \in Jobs PROVE Placed(k)'
  <2>1. status[j] \in {"pending", "abandoned"}
    BY <1>2 DEF JobInv, Placed
  <2>2. status[k] \in {"new", "refused"} => Untouched(k)'
    BY <1>1, <1>2, <1>3, <2>1 DEF JobInv, Placed, Untouched
  <2>3. status[k] = "pending" /\ console = "enqueue" => Untouched(k)'
    BY <1>1, <1>2, <1>3 DEF JobInv, Placed, Untouched
  <2>4. status[k] = "pending" /\ console = "wait" =>
          \/ Queued(k)'
          \/ \E v \in Workers : Holder(v, k)' /\ Early(v)'
          \/ resultChan[k] # "empty"
    BY <1>2, <1>3 DEF JobInv, Placed, Early, Holder, Busy
  <2>5. Queued(k)' => status[k] \in {"pending", "abandoned"} /\ resultChan[k] = "empty"
    BY <1>2 DEF JobInv, Placed
  <2>6. QED
    BY <1>1, <2>2, <2>3, <2>4, <2>5 DEF Placed
<1>7. ASSUME NEW v \in Workers PROVE InHands(v)'
  <2>1. CASE v = w
    BY <1>1, <1>2, <2>1 DEF JobInv, Placed, InHands, Busy, Early
  <2>2. CASE v # w
    BY <1>1, <2>2 DEF JobInv, InHands, Busy, Early
  <2>3. QED
    BY <2>1, <2>2
<1>8. QED
  BY <1>4, <1>5, <1>6, <1>7 DEF JobInv

(* No job is in two hands, so the sends of Complete reach an empty buffer  *)
(* or the buffer of a worker's own job.                                    *)
LEMMA CompleteJobInv ==
  ASSUME TypeOK, JobInv, NEW w \in Workers, Send(w) \/ Resend(w)
  PROVE  JobInv'
<1> DEFINE j == job[w]
<1>1. /\ UNCHANGED <<console, status, queue, job>>
      /\ \A v \in Workers : v # w => at'[v] = at[v]
      /\ \A k \in Jobs : k # j => resultChan'[k] = resultChan[k]
      /\ Busy(w) /\ Busy(w)' /\ ~Early(w)' /\ j \in Jobs
      /\ resultChan[j] = "empty" /\ resultChan'[j] \in Outcomes
      /\ at'[w] = "resend" => Early(w)
  BY DEF TypeOK, JobInv, InHands, Send, Resend, Go, Busy, Early, consoleVars, Outcomes
<1>2. /\ \A v \in Workers, k \in Jobs : Holder(v, k)' <=> Holder(v, k)
      /\ \A v \in Workers : v # w => (Early(v)' <=> Early(v)) /\ (Busy(v)' <=> Busy(v))
      /\ \A v \in Workers : v # w /\ Busy(v) => job[v] # j
  BY <1>1 DEF JobInv, HeldOnce, Holder, Busy, Early
<1>3. HeldOnce' /\ OneRequest'
  BY <1>1, <1>2 DEF JobInv, HeldOnce, OneRequest, Queued
<1>4. ASSUME NEW k \in Jobs PROVE Placed(k)'
  <2>1. CASE k = j
    <3>1. Holder(w, j) /\ ~Queued(j) /\ ~Untouched(j)
      BY <1>1 DEF JobInv, HeldOnce, Holder, Untouched
    <3>2. QED
      BY <1>1, <2>1, <3>1 DEF JobInv, Placed, Queued, Outcomes
  <2>2. CASE k # j
    <3>1. \A v \in Workers : Holder(v, k)' => v # w
      BY <1>1, <1>2, <2>2 DEF Holder
    <3>2. QED
      BY <1>1, <1>2, <2>2, <3>1 DEF JobInv, Placed, Untouched, Queued, Holder
  <2>3. QED
    BY <2>1, <2>2
<1>5. ASSUME NEW v \in Workers PROVE InHands(v)'
  <2>1. CASE v = w
    BY <1>1, <2>1 DEF JobInv, InHands, Outcomes
  <2>2. CASE v # w
    BY <1>1, <1>2, <2>2 DEF JobInv, InHands, Busy, Early
  <2>3. QED
    BY <2>1, <2>2
<1>6. QED
  BY <1>3, <1>4, <1>5 DEF JobInv

(* A worker only lets go of a job that is settled. *)
LEMMA ReturnJobInv ==
  ASSUME TypeOK, JobInv, NEW w \in Workers, Return(w)
  PROVE  JobInv'
<1>1. /\ UNCHANGED <<console, status, queue, resultChan>>
      /\ \A v \in Workers : v # w => at'[v] = at[v] /\ job'[v] = job[v]
      /\ at[w] = "return" /\ at'[w] = "select"
  BY DEF TypeOK, Return, Go, consoleVars
<1>2. /\ \A v \in Workers, k \in Jobs : Holder(v, k)' <=> Holder(v, k) /\ v # w
      /\ \A v \in Workers : Early(v)' <=> Early(v)
  BY <1>1 DEF Holder, Busy, Early
<1>3. HeldOnce' /\ OneRequest'
  BY <1>1, <1>2 DEF JobInv, HeldOnce, OneRequest, Queued
<1>4. ASSUME NEW k \in Jobs PROVE Placed(k)'
  BY <1>1, <1>2 DEF JobInv, Placed, Untouched, Queued, Early
<1>5. ASSUME NEW v \in Workers PROVE InHands(v)'
  BY <1>1 DEF JobInv, InHands, Busy, Early
<1>6. QED
  BY <1>3, <1>4, <1>5 DEF JobInv

(* A panic changes nothing but where the console is. *)
LEMMA PanicJobInv ==
  ASSUME TypeOK, JobInv, NEW w \in Workers, Panic(w)
  PROVE  JobInv'
<1>1. UNCHANGED <<status, queue, resultChan, at, job>> /\ console' = "crashed"
  BY DEF Panic, workerVars
<1>2. QED
  BY <1>1 DEF JobInv, HeldOnce, OneRequest, Placed, InHands, Untouched, Queued,
              Holder, Busy, Early

(* Every step preserves the jobs' invariant. *)
LEMMA StepJobInv == TypeOK /\ JobInv /\ [Next]_vars => JobInv'
<1> SUFFICES ASSUME TypeOK, JobInv, [Next]_vars PROVE JobInv'
  OBVIOUS
<1>1. UNCHANGED vars => JobInv'
  BY DEF vars, consoleVars, workerVars, JobInv, HeldOnce, OneRequest, Placed,
         InHands, Untouched, Queued, Holder, Busy, Early
<1>2. Console \/ AwaitWorkers => JobInv'
  BY RequestJobInv, EnqueueJobInv, ReceiveJobInv, EndJobInv DEF Console
<1>3. ASSUME NEW w \in Workers, Worker(w)
      PROVE  JobInv'
  BY <1>3, DequeueJobInv, MoveJobInv, CompleteJobInv, ReturnJobInv, PanicJobInv
     DEF Worker
<1>4. QED
  BY <1>1, <1>2, <1>3 DEF Next, Terminated

(* IInv is inductive: it holds in every reachable state.                   *)
THEOREM Inductive == Spec => []IInv
<1>1. Init => IInv
  BY InitTypeOK, InitSlotInv, InitJobInv DEF IInv
<1>2. IInv /\ [Next]_vars => IInv'
  BY StepTypeSlot, StepJobInv DEF IInv
<1>3. QED
  BY <1>1, <1>2, PTL DEF Spec

(* A job is never in two hands, so sync.Once in Complete never refuses.    *)
THEOREM HeldOnceHolds == Spec => []HeldOnce
<1>1. IInv => HeldOnce
  BY DEF IInv, JobInv
<1>2. QED
  BY <1>1, Inductive, PTL

(* While the console waits for an answer, somebody has its job or the      *)
(* answer is there.                                                        *)
THEOREM NoLostJobHolds == Spec => []NoLostJob
<1>1. IInv => NoLostJob
  BY DEF IInv, JobInv, OneRequest, Placed, Early, NoLostJob
<1>2. QED
  BY <1>1, Inductive, PTL

(* A worker stuck in Complete has a job that the console gave up on.       *)
THEOREM StuckOnlyIfAbandonedHolds == Spec => []StuckOnlyIfAbandoned
<1>1. IInv => StuckOnlyIfAbandoned
  BY DEF IInv, JobInv, InHands, Early, StuckOnlyIfAbandoned
<1>2. QED
  BY <1>1, Inductive, PTL
-----------------------------------------------------------------------------
(* The pool implements JobService. *)

Sending(w, j) == Holder(w, j) /\ at[w] = "send"

(* Where the outcome of a request is read.                                 *)
OutcomeRead ==
  \A j \in Jobs :
    /\ status[j] \in Outcomes => Outcome(j) = status[j]
    /\ status[j] \notin Outcomes =>
         /\ resultChan[j] # "empty" => Outcome(j) = resultChan[j]
         /\ resultChan[j] = "empty" =>
              /\ \A w \in Workers : Sending(w, j) => Outcome(j) = answer[w]
              /\ (\A w \in Workers : ~Sending(w, j)) => Outcome(j) = "none"

(* A job in one hand has one place to read its outcome from. *)
LEMMA OutcomeIsRead == HeldOnce => OutcomeRead
<1> SUFFICES ASSUME HeldOnce, NEW j \in Jobs,
                    status[j] \notin Outcomes, resultChan[j] = "empty",
                    NEW w \in Workers, Sending(w, j)
             PROVE  Outcome(j) = answer[w]
  BY DEF Outcome, OutcomeRead, Sending
<1>1. \A v \in Workers : Holder(v, j) /\ at[v] = "send" => v = w
  BY DEF HeldOnce, Sending
<1>2. (CHOOSE v \in Workers : Holder(v, j) /\ at[v] = "send") = w
  BY <1>1 DEF Sending
<1>3. QED
  BY <1>2 DEF Outcome, Sending

(* The same of the next state. *)
LEMMA OutcomeIsReadNext == (HeldOnce => OutcomeRead)'
BY OutcomeIsRead, PTL

(* Nothing that the outcome of k is read from has changed.                 *)
SameSources(k) ==
  /\ status'[k] = status[k] \/ (status'[k] \notin Outcomes /\ status[k] \notin Outcomes)
  /\ resultChan'[k] = resultChan[k]
  /\ \A w \in Workers : Sending(w, k)' <=> Sending(w, k)
  /\ \A w \in Workers : Sending(w, k) => answer'[w] = answer[w]

(* Then its outcome has not changed either. *)
LEMMA SameOutcome ==
  ASSUME HeldOnce, HeldOnce', NEW k \in Jobs, SameSources(k)
  PROVE  Outcome(k)' = Outcome(k)
BY OutcomeIsRead, OutcomeIsReadNext DEF OutcomeRead, SameSources

(* A step that leaves the outcomes and what the console knows alone is a   *)
(* stuttering step of JobService.                                          *)
LEMMA PoolStutter ==
  ASSUME HeldOnce, HeldOnce', UNCHANGED status,
         \A k \in Jobs : SameSources(k)
  PROVE  UNCHANGED Promise!vars
<1>1. \A k \in Jobs : Outcome(k)' = Outcome(k)
  BY SameOutcome
<1>2. [k \in Jobs |-> Outcome(k)]' = [k \in Jobs |-> Outcome(k)]
  BY <1>1
<1>3. QED
  BY <1>2 DEF Promise!vars

(* The console's steps: Request submits, EnqueueTimeout refuses, Receive   *)
(* answers, ResultTimeout abandons, and the others change nothing.         *)
LEMMA ConsoleRefines ==
  ASSUME IInv, IInv', Console \/ AwaitWorkers
  PROVE  [Promise!Next]_(Promise!vars)
<1> USE DEF IInv, JobInv
<1>1. \A k \in Jobs, w \in Workers : Sending(w, k)' <=> Sending(w, k)
  BY DEF Console, Request, Enqueue, EnqueueTimeout, Receive, ResultTimeout,
         EndOfInput, Shutdown, ShutdownDone, ShutdownTimeout, AwaitWorkers,
         workerVars, Sending, Holder, Busy
<1>2. UNCHANGED answer
  BY DEF Console, Request, Enqueue, EnqueueTimeout, Receive, ResultTimeout,
         EndOfInput, Shutdown, ShutdownDone, ShutdownTimeout, AwaitWorkers,
         workerVars
<1>3. ASSUME NEW j \in Jobs, Request(j)
      PROVE  Promise!Submit(j)
  <2>1. \A k \in Jobs : SameSources(k)
    BY <1>1, <1>2, <1>3 DEF Request, TypeOK, SameSources, Outcomes
  <2>2. \A k \in Jobs : Outcome(k)' = Outcome(k)
    BY <2>1, SameOutcome
  <2>3. \A k \in Jobs : status[k] # "pending"
    BY <1>3 DEF Request, OneRequest
  <2>4. QED
    BY <1>3, <2>2, <2>3 DEF Request, Promise!Submit
<1>4. ASSUME NEW j \in Jobs, EnqueueTimeout(j)
      PROVE  Promise!Refuse(j)
  <2>1. \A k \in Jobs : SameSources(k)
    BY <1>1, <1>2, <1>4 DEF EnqueueTimeout, TypeOK, SameSources, Outcomes
  <2>2. \A k \in Jobs : Outcome(k)' = Outcome(k)
    BY <2>1, SameOutcome
  <2>3. Untouched(j)
    BY <1>4 DEF EnqueueTimeout, Placed
  <2>4. Outcome(j) = "none"
    BY <1>4, <2>3, OutcomeIsRead
       DEF EnqueueTimeout, Untouched, OutcomeRead, Outcomes, Sending
  <2>5. QED
    BY <1>4, <2>2, <2>4 DEF EnqueueTimeout, Promise!Refuse
<1>5. ASSUME NEW j \in Jobs, ResultTimeout(j)
      PROVE  Promise!Abandon(j)
  <2>1. \A k \in Jobs : SameSources(k)
    BY <1>1, <1>2, <1>5 DEF ResultTimeout, TypeOK, SameSources, Outcomes
  <2>2. \A k \in Jobs : Outcome(k)' = Outcome(k)
    BY <2>1, SameOutcome
  <2>3. QED
    BY <1>5, <2>2 DEF ResultTimeout, Promise!Abandon
<1>6. ASSUME NEW j \in Jobs, Receive(j)
      PROVE  Promise!Answer(j)
  <2>1. \A k \in Jobs : k # j => SameSources(k)
    BY <1>1, <1>2, <1>6 DEF Receive, TypeOK, SameSources
  <2>2. \A k \in Jobs : k # j => Outcome(k)' = Outcome(k)
    BY <2>1, SameOutcome
  <2>3. Outcome(j) = resultChan[j] /\ resultChan[j] \in Outcomes
    BY <1>6, OutcomeIsRead DEF Receive, TypeOK, OutcomeRead, Outcomes
  <2>4. status'[j] = resultChan[j]
    BY <1>6 DEF Receive, TypeOK
  <2>5. Outcome(j)' = resultChan[j]
    BY <2>3, <2>4, OutcomeIsReadNext DEF OutcomeRead
  <2>6. \A k \in Jobs : Outcome(k)' = Outcome(k)
    BY <2>2, <2>3, <2>5
  <2>7. QED
    BY <1>6, <2>3, <2>6 DEF Receive, Promise!Answer, Outcomes
<1>7. CASE UNCHANGED <<status, resultChan>>
  BY <1>1, <1>2, <1>7, PoolStutter DEF SameSources
<1>8. QED
  BY <1>3, <1>4, <1>5, <1>6, <1>7
     DEF Console, Enqueue, EndOfInput, Shutdown, ShutdownDone, ShutdownTimeout,
         AwaitWorkers, consoleVars, Promise!Next

(* A refused slot and an execution settle the job; no other step of a      *)
(* worker changes an outcome, the second send of Complete included.        *)
LEMMA WorkerRefines ==
  ASSUME IInv, IInv', NEW w \in Workers, Worker(w)
  PROVE  [Promise!Next]_(Promise!vars)
<1> USE DEF IInv, JobInv
<1>1. CASE SlotTimeout(w) \/ Perform(w)
  <2>1. /\ UNCHANGED <<status, resultChan, job>>
        /\ \A v \in Workers : v # w => at'[v] = at[v] /\ answer'[v] = answer[v]
        /\ Early(w) /\ at[w] # "send" /\ at'[w] = "send"
        /\ answer'[w] \in Outcomes /\ job[w] \in Jobs
    BY <1>1 DEF SlotTimeout, Perform, TypeOK, Go, Early, consoleVars, Outcomes,
                InHands, Busy
  <2>2. /\ status[job[w]] \in {"pending", "abandoned"}
        /\ resultChan[job[w]] = "empty"
    BY <2>1 DEF InHands
  <2>3. \A v \in Workers : ~Sending(v, job[w])
    BY <2>1 DEF HeldOnce, Sending, Holder, Busy, Early
  <2>4. Outcome(job[w]) = "none"
    BY <2>1, <2>2, <2>3, OutcomeIsRead DEF OutcomeRead, Outcomes
  <2>5. ASSUME NEW j \in Jobs, j = job[w]
        PROVE  Outcome(j)' = answer'[w]
    <3>1. Sending(w, j)'
      BY <2>1, <2>5 DEF Sending, Holder, Busy
    <3>2. status'[j] \notin Outcomes /\ resultChan'[j] = "empty"
      BY <2>1, <2>2, <2>5 DEF Outcomes
    <3>3. QED
      BY <3>1, <3>2, OutcomeIsReadNext DEF OutcomeRead
  <2>6. \A k \in Jobs : k # job[w] => Outcome(k)' = Outcome(k)
    BY <2>1, SameOutcome DEF SameSources, Sending, Holder, Busy
  <2>7. Promise!Settle(job[w], answer'[w])
    BY <2>1, <2>2, <2>4, <2>5, <2>6 DEF Promise!Settle
  <2>8. QED
    BY <2>1, <2>7 DEF Promise!Next, Promise!Outcomes, Outcomes
<1>2. CASE \/ ObserveStop(w) \/ Poll(w) \/ Dequeue(w) \/ DequeueNothing(w)
           \/ AcquireSlot(w) \/ Panic(w) \/ Return(w)
  <2>1. /\ UNCHANGED <<status, resultChan, answer>>
        /\ \A v \in Workers :
             \/ at'[v] = at[v] /\ job'[v] = job[v]
             \/ at[v] # "send" /\ at'[v] # "send"
    BY <1>2 DEF ObserveStop, Poll, Dequeue, DequeueNothing, AcquireSlot, Panic,
                Return, TypeOK, Go, consoleVars, workerVars
  <2>2. \A k \in Jobs : SameSources(k)
    BY <2>1 DEF SameSources, Sending, Holder, Busy
  <2>3. QED
    BY <2>1, <2>2, PoolStutter
<1>3. CASE Send(w) \/ Resend(w)
  <2>1. /\ UNCHANGED <<status, job, answer>>
        /\ \A v \in Workers : v # w => at'[v] = at[v]
        /\ \A k \in Jobs : k # job[w] => resultChan'[k] = resultChan[k]
        /\ at'[w] # "send" /\ job[w] \in Jobs
        /\ resultChan[job[w]] = "empty" /\ resultChan'[job[w]] = answer[w]
    BY <1>3 DEF Send, Resend, TypeOK, Go, consoleVars, InHands, Busy
  <2>2. \A k \in Jobs : k # job[w] => Outcome(k)' = Outcome(k)
    BY <2>1, SameOutcome DEF SameSources, Sending, Holder, Busy
  <2>3. ASSUME NEW j \in Jobs, j = job[w]
        PROVE  Outcome(j)' = Outcome(j)
    <3>1. CASE Send(w)
      <4>1. Sending(w, j) /\ status[j] \notin Outcomes
        BY <2>3, <3>1 DEF Send, Sending, Holder, Busy, InHands, Early, Outcomes
      <4>2. Outcome(j) = answer[w]
        BY <2>1, <2>3, <4>1, OutcomeIsRead DEF OutcomeRead
      <4>3. answer[w] # "empty"
        BY DEF TypeOK, Outcomes
      <4>4. Outcome(j)' = answer[w]
        BY <2>1, <2>3, <4>1, <4>3, OutcomeIsReadNext DEF OutcomeRead
      <4>5. QED
        BY <4>2, <4>4
    <3>2. CASE Resend(w)
      <4>1. status[j] \in Outcomes
        BY <2>1, <2>3, <3>2 DEF Resend, InHands
      <4>2. QED
        BY <2>1, <4>1, OutcomeIsRead, OutcomeIsReadNext DEF OutcomeRead
    <3>3. QED
      BY <1>3, <3>1, <3>2
  <2>4. \A k \in Jobs : Outcome(k)' = Outcome(k)
    BY <2>2, <2>3
  <2>5. [k \in Jobs |-> Outcome(k)]' = [k \in Jobs |-> Outcome(k)]
    BY <2>4
  <2>6. QED
    BY <2>1, <2>5 DEF Promise!vars
<1>4. QED
  BY <1>1, <1>2, <1>3 DEF Worker

(* Queue, workers, slots and channels implement JobService: a request is   *)
(* settled at most once, never after its refusal, and the console is told  *)
(* the outcome of the request it made, although Complete sends twice and   *)
(* the console may stop waiting at any time.                               *)
THEOREM PoolImplementsPromise == Spec => ImplementsPromise
<1>1. Init => Promise!Init
  <2> SUFFICES ASSUME Init, NEW j \in Jobs PROVE Outcome(j) = "none"
    BY DEF Init, Promise!Init
  <2>1. QED
    BY DEF Init, Outcome, Outcomes, Holder, Busy
<1>2. IInv /\ IInv' /\ [Next]_vars => [Promise!Next]_(Promise!vars)
  <2> SUFFICES ASSUME IInv, IInv', [Next]_vars
               PROVE  [Promise!Next]_(Promise!vars)
    OBVIOUS
  <2>1. CASE UNCHANGED vars
    <3>1. \A k \in Jobs : SameSources(k)
      BY <2>1 DEF vars, consoleVars, workerVars, SameSources, Sending, Holder, Busy
    <3>2. QED
      BY <2>1, <3>1, PoolStutter DEF vars, consoleVars, IInv, JobInv
  <2>2. QED
    BY <2>1, ConsoleRefines, WorkerRefines DEF Next, Terminated
<1>3. QED
  BY <1>1, <1>2, Inductive, PTL DEF Spec, ImplementsPromise, Promise!Spec
-----------------------------------------------------------------------------
(* The pool uses its queue as QueuePromise says. *)

(* What a request's fate is, given where the console is. *)
FateRead ==
  \A j \in Jobs :
    /\ Queued(j) => Fate(j) = "queued"
    /\ status[j] = "refused" => Fate(j) = "refused"
    /\ status[j] = "new" => Fate(j) = "new"
    /\ status[j] = "pending" /\ console = "enqueue" => Fate(j) = "new"
    /\ /\ status[j] \notin {"new", "refused"}
       /\ status[j] = "pending" => console = "wait"
       /\ ~Queued(j)
       => Fate(j) = "taken"

(* A request the console waits for has left a trace. *)
LEMMA FateIsRead == IInv => FateRead
<1> SUFFICES ASSUME IInv, NEW j \in Jobs
             PROVE  /\ status[j] \in {"new", "refused"} => Untouched(j)
                    /\ status[j] = "pending" /\ console = "enqueue" => Untouched(j)
                    /\ status[j] = "pending" /\ console = "wait" => ~Untouched(j)
                    /\ Queued(j) => status[j] \in {"pending", "abandoned"}
  BY DEF FateRead, Fate, Untouched
<1>1. QED
  BY DEF IInv, JobInv, Placed, Untouched

(* The same of the next state. *)
LEMMA FateIsReadNext == (IInv => FateRead)'
BY FateIsRead, PTL

(* A step after which every request has the fate it had, on the same       *)
(* queue, is a stuttering step.                                            *)
LEMMA QueueStutter ==
  ASSUME UNCHANGED queue, \A j \in Jobs : Fate(j)' = Fate(j)
  PROVE  UNCHANGED Queue!vars
<1>1. [j \in Jobs |-> Fate(j)]' = [j \in Jobs |-> Fate(j)]
  OBVIOUS
<1>2. QED
  BY <1>1 DEF Queue!vars

(* Enqueue is accepted, its timeout refused; the console's other steps do  *)
(* not touch the queue.                                                    *)
LEMMA ConsoleUsesQueue ==
  ASSUME IInv, IInv', Console \/ AwaitWorkers, Running
  PROVE  [Queue!Next]_(Queue!vars)
<1>1. FateRead /\ FateRead'
  BY FateIsRead, FateIsReadNext
<1> USE DEF IInv, JobInv
<1>2. ASSUME NEW j \in Jobs, Enqueue(j)
      PROVE  Queue!Accept(j)
  <2>1. ~Queued(j) /\ Queued(j)'
    BY <1>2, EnqueueQueue DEF Enqueue, Placed, Untouched
  <2>2. Fate(j) = "new" /\ Fate(j)' = "queued"
    BY <1>1, <1>2, <2>1 DEF Enqueue, FateRead
  <2>3. ASSUME NEW k \in Jobs, k # j
        PROVE  Fate(k)' = Fate(k)
    <3>1. /\ Queued(k)' <=> Queued(k)
          /\ status'[k] = status[k] /\ status[k] # "pending"
      BY <1>2, <2>3, EnqueueQueue DEF Enqueue, OneRequest
    <3>2. QED
      BY <1>1, <3>1 DEF FateRead
  <2>4. [k \in Jobs |-> Fate(k)]' = [[k \in Jobs |-> Fate(k)] EXCEPT ![j] = "queued"]
    BY <2>2, <2>3
  <2>5. QED
    BY <1>2, <2>2, <2>4 DEF Enqueue, HasRoom, Queue!Accept
<1>3. ASSUME NEW j \in Jobs, EnqueueTimeout(j)
      PROVE  Queue!Refuse(j)
  <2>1. \A k \in Jobs : Queued(k)' <=> Queued(k)
    BY <1>3 DEF EnqueueTimeout, Queued
  <2>2. Fate(j) = "new" /\ Fate(j)' = "refused"
    BY <1>1, <1>3 DEF EnqueueTimeout, TypeOK, FateRead
  <2>3. ASSUME NEW k \in Jobs, k # j
        PROVE  Fate(k)' = Fate(k)
    <3>1. status'[k] = status[k] /\ status[k] # "pending"
      BY <1>3, <2>3 DEF EnqueueTimeout, OneRequest
    <3>2. QED
      BY <1>1, <2>1, <3>1 DEF FateRead
  <2>4. [k \in Jobs |-> Fate(k)]' = [[k \in Jobs |-> Fate(k)] EXCEPT ![j] = "refused"]
    BY <2>2, <2>3
  <2>5. Len(queue) = QueueSize
    BY <1>3, PoolAssumption, LenProperties DEF EnqueueTimeout, HasRoom, TypeOK
  <2>6. QED
    BY <1>3, <2>2, <2>4, <2>5 DEF EnqueueTimeout, Queue!Refuse
<1>4. ASSUME NEW j \in Jobs, Request(j) \/ Receive(j) \/ ResultTimeout(j)
      PROVE  UNCHANGED Queue!vars
  <2>1. UNCHANGED queue /\ \A k \in Jobs : Queued(k)' <=> Queued(k)
    BY <1>4 DEF Request, Receive, ResultTimeout, Queued
  <2>2. ASSUME NEW k \in Jobs
        PROVE  Fate(k)' = Fate(k)
    <3>1. CASE k # j
      <4>1. status'[k] = status[k] /\ status[k] # "pending"
        BY <1>4, <3>1 DEF TypeOK, Request, Receive, ResultTimeout, OneRequest
      <4>2. QED
        BY <1>1, <2>1, <4>1 DEF FateRead
    <3>2. CASE k = j /\ Request(j)
      BY <1>1, <2>1, <3>2 DEF Request, TypeOK, FateRead
    <3>3. CASE k = j /\ (Receive(j) \/ ResultTimeout(j))
      BY <1>1, <2>1, <3>3 DEF Receive, ResultTimeout, TypeOK, FateRead, Outcomes
    <3>4. QED
      BY <1>4, <3>1, <3>2, <3>3
  <2>3. QED
    BY <2>1, <2>2, QueueStutter
<1>5. CASE EndOfInput \/ Shutdown \/ ShutdownDone \/ ShutdownTimeout \/ AwaitWorkers
  <2>1. UNCHANGED <<status, queue, resultChan, at, job>>
    BY <1>5 DEF EndOfInput, Shutdown, ShutdownDone, ShutdownTimeout, AwaitWorkers,
                workerVars, consoleVars
  <2>2. QED
    BY <2>1, QueueStutter DEF Fate, Untouched, Queued, Holder, Busy
<1>6. QED
  BY <1>2, <1>3, <1>4, <1>5 DEF Console, Queue!Next

(* A worker's Dequeue is handed the oldest request; none of its other      *)
(* steps touches the queue, or takes away the last trace of a request.     *)
LEMMA WorkerUsesQueue ==
  ASSUME IInv, IInv', NEW w \in Workers, Worker(w), Running
  PROVE  [Queue!Next]_(Queue!vars)
<1>1. FateRead /\ FateRead'
  BY FateIsRead, FateIsReadNext
<1> USE DEF IInv, JobInv
<1>2. ASSUME NEW k \in Jobs, status[k] = "pending"
      PROVE  console \in {"enqueue", "wait"}
  BY <1>2 DEF OneRequest, Running, Ended
<1>3. CASE Dequeue(w)
  <2>1. PICK j \in Jobs :
          /\ job'[w] = j /\ Queued(j) /\ ~Queued(j)'
          /\ \A k \in Jobs : Queued(k)' => Queued(k)
          /\ \A k \in Jobs : Queued(k) => Queued(k)' \/ k = j
    BY <1>3, DequeueQueue DEF HeldOnce
  <2>2. UNCHANGED <<console, status>> /\ j = Head(queue)
    BY <1>3, <2>1 DEF Dequeue, TypeOK, consoleVars
  <2>3. \A k \in Jobs : k # j => (Queued(k)' <=> Queued(k))
    BY <2>1
  <2>4. /\ status[j] \in {"pending", "abandoned"}
        /\ status[j] = "pending" => console = "wait"
    BY <1>2, <2>1 DEF Placed, Untouched
  <2>5. Fate(j) = "queued" /\ Fate(j)' = "taken"
    BY <1>1, <2>1, <2>2, <2>4 DEF FateRead
  <2>6. ASSUME NEW k \in Jobs, k # j
        PROVE  Fate(k)' = Fate(k)
    BY <1>1, <1>2, <2>2, <2>3, <2>6 DEF FateRead, TypeOK
  <2>7. [k \in Jobs |-> Fate(k)]' = [[k \in Jobs |-> Fate(k)] EXCEPT ![j] = "taken"]
    BY <2>5, <2>6
  <2>8. Queue!HandOut("taken")
    BY <1>3, <2>2, <2>5, <2>7 DEF Dequeue, Queue!HandOut
  <2>9. QED
    BY <2>8 DEF Queue!Next
<1>4. CASE Panic(w)
  <2>1. UNCHANGED <<status, queue, resultChan, at, job>>
    BY <1>4 DEF Panic, workerVars
  <2>2. QED
    BY <2>1, QueueStutter DEF Fate, Untouched, Queued, Holder, Busy
<1>5. CASE ~Dequeue(w) /\ ~Panic(w)
  <2>1. UNCHANGED <<console, status, queue>>
    BY <1>5 DEF Worker, ObserveStop, Poll, DequeueNothing, AcquireSlot, SlotTimeout,
                Perform, Send, Resend, Return, consoleVars
  <2>2. \A k \in Jobs : Queued(k)' <=> Queued(k)
    BY <2>1 DEF Queued
  <2>3. \A k \in Jobs : Fate(k)' = Fate(k)
    BY <1>1, <1>2, <2>1, <2>2 DEF FateRead, TypeOK
  <2>4. QED
    BY <2>1, <2>3, QueueStutter
<1>6. QED
  BY <1>3, <1>4, <1>5

(* The pool's own queue keeps the promise that FIFOQueueProofs shows of    *)
(* internal/queue as long as nobody closes it: requests leave it in the    *)
(* order made, each to one worker, and one refused for lack of room never  *)
(* does.  (A worker that waits for a slot may still be overtaken.)         *)
THEOREM PoolUsesQueue == Spec => ImplementsQueue
<1>1. Init => Queue!Init
  BY DEF Init, Queue!Init, Fate, Untouched, Queued, Holder, Busy
<1>2. IInv /\ IInv' /\ [Next]_vars => [Queue!Next]_(Queue!vars)
  <2> SUFFICES ASSUME IInv, IInv', [Next]_vars
               PROVE  [Queue!Next]_(Queue!vars)
    OBVIOUS
  <2>1. CASE UNCHANGED vars
    <3>1. UNCHANGED <<status, queue, resultChan, at, job>>
      BY <2>1 DEF vars, consoleVars, workerVars
    <3>2. QED
      BY <3>1, QueueStutter DEF Fate, Untouched, Queued, Holder, Busy
  <2>2. QED
    BY <2>1, ConsoleUsesQueue, WorkerUsesQueue DEF Next, Terminated
<1>3. QED
  BY <1>1, <1>2, Inductive, PTL DEF Spec, ImplementsQueue, Queue!Spec
-----------------------------------------------------------------------------
(* What the second send of Complete costs. *)

Blocked(w) == at[w] \in {"send", "resend"} /\ resultChan[job[w]] # "empty"

(* The first send never waits, and the second one only for a console that  *)
(* is about to receive the first, or has given up.                         *)
Served ==
  \A w \in Workers :
    Running /\ Blocked(w) =>
      /\ at[w] = "resend"
      /\ \/ status[job[w]] = "abandoned"
         \/ status[job[w]] = "pending" /\ console = "wait"

(* The safety behind PatientSlotsReturn: as long as the console does not   *)
(* give up, whatever Complete waits for is a Receive that can be taken.    *)
THEOREM BlockedIsServed == Spec => []Served
<1>1. ASSUME IInv, Running, NEW w \in Workers, Blocked(w)
      PROVE  /\ at[w] = "resend"
             /\ \/ status[job[w]] = "abandoned"
                \/ status[job[w]] = "pending" /\ console = "wait"
  <2> USE DEF IInv, JobInv
  <2>1. /\ job[w] \in Jobs /\ at[w] = "resend"
        /\ status[job[w]] \in {"pending", "abandoned"}
    BY <1>1 DEF Blocked, InHands, Busy, Early
  <2>2. ASSUME status[job[w]] = "pending"
        PROVE  console = "wait"
    <3>1. console \in {"enqueue", "wait"}
      BY <1>1, <2>1, <2>2 DEF OneRequest, Running, Ended
    <3>2. ~Untouched(job[w])
      BY <1>1, <2>1 DEF Blocked, Untouched
    <3>3. Placed(job[w])
      BY <1>1, <2>1
    <3>4. QED
      BY <2>2, <3>1, <3>2, <3>3 DEF Placed
  <2>3. QED
    BY <2>1, <2>2
<1>2. IInv => Served
  BY <1>1 DEF Served
<1>3. QED
  BY <1>2, Inductive, PTL

(* A worker at the second send of a job that the console gave up on: its   *)
(* buffer is full and nobody will empty it.                                *)
Leaked(w) == at[w] = "resend" /\ status[job[w]] = "abandoned"

(* No step helps it: Receive is for pending requests.                      *)
LEMMA LeakedStep ==
  ASSUME IInv, NEW w \in Workers, Leaked(w), [Next]_vars
  PROVE  Leaked(w)'
<1> USE DEF Leaked
<1>1. job[w] \in Jobs /\ resultChan[job[w]] # "empty"
  BY DEF IInv, JobInv, InHands, Busy, Outcomes
<1>2. CASE UNCHANGED vars
  BY <1>2 DEF vars, consoleVars, workerVars
<1>3. CASE Console \/ AwaitWorkers
  BY <1>1, <1>3 DEF IInv, TypeOK, Console, Request, Enqueue, EnqueueTimeout, Receive,
     ResultTimeout, EndOfInput, Shutdown, ShutdownDone, ShutdownTimeout,
     AwaitWorkers, consoleVars, workerVars
<1>4. ASSUME NEW v \in Workers, Worker(v)
      PROVE  Leaked(w)'
  <2>1. CASE v = w
    BY <1>1, <1>4, <2>1 DEF Worker, ObserveStop, Poll, Dequeue, DequeueNothing,
       AcquireSlot, SlotTimeout, Perform, Panic, Send, Resend, Return, workerVars
  <2>2. CASE v # w
    BY <1>4, <2>2 DEF IInv, TypeOK, Worker, ObserveStop, Poll, Dequeue,
       DequeueNothing, AcquireSlot, SlotTimeout, Perform, Panic, Send, Resend,
       Return, Go, consoleVars, workerVars
  <2>3. QED
    BY <2>1, <2>2
<1>5. QED
  BY <1>2, <1>3, <1>4 DEF Next, Terminated

Gone == done => \A w \in Workers : at[w] = "gone"

(* The wait group is done only when every worker has returned. *)
LEMMA DoneMeansGone == Spec => []Gone
<1> USE DEF Gone
<1>1. Init => Gone
  BY DEF Init
<1>2. TypeOK /\ Gone /\ [Next]_vars => Gone'
  <2> SUFFICES ASSUME TypeOK, Gone, [Next]_vars PROVE Gone'
    OBVIOUS
  <2>1. CASE UNCHANGED vars
    BY <2>1 DEF vars, workerVars, shutdownVars
  <2>2. CASE Console \/ AwaitWorkers
    BY <2>2 DEF Console, Request, Enqueue, EnqueueTimeout, Receive, ResultTimeout,
       EndOfInput, Shutdown, ShutdownDone, ShutdownTimeout, AwaitWorkers,
       workerVars, shutdownVars
  <2>3. ASSUME NEW w \in Workers, Worker(w)
        PROVE  Gone'
    BY <2>3 DEF Worker, ObserveStop, Poll, Dequeue, DequeueNothing, AcquireSlot,
       SlotTimeout, Perform, Panic, Send, Resend, Return, workerVars, shutdownVars
  <2>4. QED
    BY <2>1, <2>2, <2>3 DEF Next, Terminated
<1>3. QED
  BY <1>1, <1>2, TypeCorrect, PTL DEF Spec

(* What the run pool_slot_leak finds, for every pool: a slot whose worker  *)
(* succeeds after the console gave up on its job is never released, and    *)
(* from then on a shutdown never sees all workers end.                     *)
THEOREM LeakIsForever ==
  ASSUME NEW w \in Workers
  PROVE  Spec => [](Leaked(w) => [](Leaked(w) /\ w \in deferred /\ ~done))
<1>1. IInv /\ Leaked(w) /\ [Next]_vars => Leaked(w)'
  BY LeakedStep
<1>2. IInv /\ Leaked(w) => w \in deferred
  BY DEF IInv, SlotInv, SlotAccounting, Leaked
<1>3. Gone /\ Leaked(w) => ~done
  BY DEF Gone, Leaked
<1>4. Spec => [](Leaked(w) => []Leaked(w))
  BY <1>1, Inductive, PTL DEF Spec
<1>5. QED
  BY <1>2, <1>3, <1>4, DoneMeansGone, Inductive, PTL

(* Every slot is with a leaked worker. *)
Exhausted == slots = SemaphoreSize /\ \A w \in deferred : Leaked(w)

(* Once every slot has leaked, no request is carried out any more: each is *)
(* answered with an error, or refused when the queue is full.              *)
THEOREM ExhaustedIsForever ==
  Spec => /\ [](Exhausted => []Exhausted)
          /\ [][Exhausted => \A w \in Workers : ~AcquireSlot(w) /\ ~Perform(w)]_vars
<1>1. ASSUME IInv, IInv', Exhausted, [Next]_vars
      PROVE  Exhausted' /\ \A w \in Workers : ~AcquireSlot(w) /\ ~Perform(w)
  <2>1. ASSUME NEW w \in Workers
        PROVE  ~AcquireSlot(w) /\ ~Perform(w)
    <3>1. ~AcquireSlot(w)
      BY <1>1, PoolAssumption DEF AcquireSlot, Exhausted
    <3>2. at[w] # "run"
      BY <1>1 DEF IInv, SlotInv, SlotAccounting, Exhausted, Leaked
    <3>3. QED
      BY <3>1, <3>2 DEF Perform
  <2>2. ASSUME NEW w \in Workers, Return(w)
        PROVE  w \notin deferred
    BY <1>1, <2>2 DEF Exhausted, Leaked, Return
  <2>3. UNCHANGED <<slots, deferred>>
    <3>1. CASE UNCHANGED vars
      BY <3>1 DEF vars, workerVars
    <3>2. CASE Console \/ AwaitWorkers
      BY <3>2 DEF Console, Request, Enqueue, EnqueueTimeout, Receive, ResultTimeout,
         EndOfInput, Shutdown, ShutdownDone, ShutdownTimeout, AwaitWorkers, workerVars
    <3>3. ASSUME NEW w \in Workers, Worker(w)
          PROVE  UNCHANGED <<slots, deferred>>
      BY <2>1, <2>2, <3>3 DEF Worker, ObserveStop, Poll, Dequeue, DequeueNothing,
         SlotTimeout, Panic, Send, Resend, Return, workerVars
    <3>4. QED
      BY <1>1, <3>1, <3>2, <3>3 DEF Next, Terminated
  <2>4. ASSUME NEW w \in deferred
        PROVE  Leaked(w)'
    BY <1>1, <2>4, LeakedStep DEF Exhausted, IInv, TypeOK
  <2>5. QED
    BY <1>1, <2>1, <2>3, <2>4 DEF Exhausted
<1>2. QED
  BY <1>1, Inductive, PTL DEF Spec
-----------------------------------------------------------------------------
(* A source that no parser has. *)

NeverFound ==
  /\ \A j \in UnknownSource : status[j] # "ok" /\ resultChan[j] # "ok"
  /\ \A w \in Workers : /\ at[w] = "send" /\ job[w] \in UnknownSource => answer[w] = "err"
                        /\ at[w] = "resend" => job[w] \notin UnknownSource
  /\ console = "crashed" => \E w \in Workers : at[w] = "run" /\ job[w] \in UnknownSource

(* A request for the details of a vacancy of an unknown source is never    *)
(* answered with a success, and only the execution of such a request can   *)
(* end the process in a panic.                                             *)
THEOREM UnknownSourceNeverFound ==
  Spec => []( /\ \A j \in UnknownSource : status[j] # "ok"
              /\ console = "crashed" =>
                   \E w \in Workers : at[w] = "run" /\ job[w] \in UnknownSource)
<1>1. Init => NeverFound
  BY PoolAssumption DEF Init, NeverFound
<1>2. IInv /\ NeverFound /\ [Next]_vars => NeverFound'
  <2> SUFFICES ASSUME IInv, NeverFound, [Next]_vars PROVE NeverFound'
    OBVIOUS
  <2> USE PoolAssumption DEF IInv, TypeOK, NeverFound, Go
  <2>1. CASE UNCHANGED vars
    BY <2>1 DEF vars, consoleVars, workerVars
  <2>2. ASSUME Running, Console \/ AwaitWorkers
        PROVE  NeverFound'
    <3>1. console' # "crashed" /\ UNCHANGED <<at, job, answer>>
      BY <2>2 DEF Console, Request, Enqueue, EnqueueTimeout, Receive, ResultTimeout,
         EndOfInput, Shutdown, ShutdownDone, ShutdownTimeout, AwaitWorkers,
         Running, Ended, consoleVars, workerVars
    <3>2. \A j \in UnknownSource : status'[j] # "ok" /\ resultChan'[j] # "ok"
      BY <2>2 DEF Console, Request, Enqueue, EnqueueTimeout, Receive, ResultTimeout,
         EndOfInput, Shutdown, ShutdownDone, ShutdownTimeout, AwaitWorkers,
         consoleVars, workerVars
    <3>3. QED
      BY <3>1, <3>2
  <2>3. ASSUME Running, NEW w \in Workers, Worker(w)
        PROVE  NeverFound'
    <3>1. console # "crashed"
      BY <2>3 DEF Running, Ended
    <3>2. CASE Panic(w)
      BY <3>2 DEF Panic, workerVars
    <3>3. CASE Send(w)
      BY <3>1, <3>3 DEF Send, consoleVars
    <3>4. CASE Resend(w)
      BY <3>1, <3>4 DEF Resend, consoleVars
    <3>5. CASE Perform(w) \/ SlotTimeout(w)
      BY <3>1, <3>5 DEF Perform, SlotTimeout, consoleVars
    <3>6. CASE \/ ObserveStop(w) \/ Poll(w) \/ Dequeue(w) \/ DequeueNothing(w)
               \/ AcquireSlot(w) \/ Return(w)
      BY <3>1, <3>6 DEF ObserveStop, Poll, Dequeue, DequeueNothing, AcquireSlot,
         Return, consoleVars
    <3>7. QED
      BY <2>3, <3>2, <3>3, <3>4, <3>5, <3>6 DEF Worker
  <2>4. QED
    BY <2>1, <2>2, <2>3 DEF Next, Terminated
<1>3. NeverFound => /\ \A j \in UnknownSource : status[j] # "ok"
                    /\ console = "crashed" =>
                         \E w \in Workers : at[w] = "run" /\ job[w] \in UnknownSource
  BY DEF NeverFound
<1>4. QED
  BY <1>1, <1>2, <1>3, Inductive, PTL DEF Spec
=============================================================================

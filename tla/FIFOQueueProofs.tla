-------------------------- MODULE FIFOQueueProofs ---------------------------
(***************************************************************************)
(* Theorems about FIFOQueue for every set of items and producers and every *)
(* capacity.                                                               *)
(***************************************************************************)
EXTENDS FIFOQueue, SequenceTheorems, TLAPS

InBuffer(i) == \E n \in 1..Len(items) : items[n] = i

Distinct == \A m, n \in 1..Len(items) : items[m] = items[n] => m = n

(* An item is with one producer, or in the buffer once, or neither, and    *)
(* its fate says which.                                                    *)
OnePlace ==
  /\ Distinct
  /\ \A i \in Items : fate[i] = "queued" <=> InBuffer(i)
  /\ \A p \in Producers : sending[p] # NoItem => fate[sending[p]] = "sending"
  /\ \A p, q \in Producers : sending[p] = sending[q] /\ sending[p] # NoItem => p = q

IInv == TypeOK /\ OnePlace

(* An empty queue satisfies the invariant. *)
LEMMA InitIInv ==
  ASSUME QueueAssumption, Init
  PROVE  IInv
<1>1. items \in Seq(Items) /\ Len(items) <= Capacity
  BY EmptySeq DEF Init, QueueAssumption
<1>2. /\ sending \in [Producers -> Items \cup {NoItem}]
      /\ fate \in [Items -> {"new", "sending", "queued", "refused", "taken", "cleared"}]
  BY DEF Init
<1>3. closed = FALSE /\ chanClosed = FALSE /\ clearing = FALSE /\ panicked = FALSE
  BY DEF Init
<1>4. OnePlace
  BY DEF Init, OnePlace, Distinct, InBuffer
<1>5. QED
  BY <1>1, <1>2, <1>3, <1>4 DEF IInv, TypeOK

(* The channel's buffer after a send.                                      *)
LEMMA AppendItem ==
  ASSUME QueueAssumption, TypeOK, NEW i \in Items, HasRoom, items' = Append(items, i)
  PROVE  /\ items' \in Seq(Items) /\ Len(items') <= Capacity
         /\ \A k \in Items : InBuffer(k)' <=> InBuffer(k) \/ k = i
         /\ Distinct /\ ~InBuffer(i) => Distinct'
<1> USE DEF QueueAssumption, TypeOK, HasRoom, InBuffer, Distinct
<1>1. /\ items' \in Seq(Items) /\ Len(items') = Len(items) + 1 /\ Len(items) \in Nat
      /\ \A n \in 1..Len(items) : items'[n] = items[n]
      /\ items'[Len(items) + 1] = i
  BY AppendProperties, LenProperties
<1>2. QED
  BY <1>1

(* The channel's buffer after a receive.                                   *)
LEMMA TakeItem ==
  ASSUME QueueAssumption, TypeOK, Distinct, items # <<>>, items' = Tail(items)
  PROVE  /\ items' \in Seq(Items) /\ Len(items') <= Capacity
         /\ Head(items) \in Items
         /\ InBuffer(Head(items))
         /\ \A k \in Items : InBuffer(k)' <=> InBuffer(k) /\ k # Head(items)
         /\ Distinct'
<1> USE DEF TypeOK, InBuffer, Distinct
<1>1. /\ Head(items) = items[1] /\ Head(items) \in Items
      /\ items' \in Seq(Items)
      /\ Len(items') = Len(items) - 1 /\ Len(items) \in Nat \ {0}
      /\ \A n \in 1..Len(items') : items'[n] = items[n + 1]
  BY HeadTailProperties, LenProperties, EmptySeq
<1>2. ASSUME NEW k \in Items, InBuffer(k), k # Head(items)
      PROVE  InBuffer(k)'
  <2>1. PICK n \in 1..Len(items) : items[n] = k
    BY <1>2
  <2>2. n - 1 \in 1..Len(items') /\ items'[n - 1] = items[n]
    BY <2>1, <1>1, <1>2
  <2>3. QED
    BY <2>1, <2>2
<1>3. ASSUME NEW n \in 1..Len(items')
      PROVE  items'[n] # Head(items)
  <2>1. n + 1 \in 1..Len(items) /\ 1 \in 1..Len(items) /\ n + 1 # 1
    BY <1>1
  <2>2. items[n + 1] # items[1]
    BY <2>1
  <2>3. QED
    BY <2>2, <1>1
<1>4. \A k \in Items : InBuffer(k)' => InBuffer(k) /\ k # Head(items)
  BY <1>1, <1>3
<1>5. Distinct'
  BY <1>1
<1>6. Len(items') <= Capacity
  BY <1>1 DEF QueueAssumption
<1>7. InBuffer(Head(items))
  BY <1>1
<1> HIDE DEF TypeOK, InBuffer, Distinct
<1>8. QED
  BY <1>1, <1>2, <1>4, <1>5, <1>6, <1>7
-----------------------------------------------------------------------------
(* A producer that passes the flag is alone with its item. *)
LEMMA EnqueueCheckIInv ==
  ASSUME QueueAssumption, IInv,
         NEW p \in Producers, NEW i \in Items, EnqueueCheck(p, i)
  PROVE  IInv'
<1>1. TypeOK'
  BY DEF EnqueueCheck, IInv, TypeOK
<1>2. OnePlace'
  BY DEF QueueAssumption, EnqueueCheck, IInv, TypeOK, OnePlace, Distinct, InBuffer
<1>3. QED
  BY <1>1, <1>2 DEF IInv

(* The item it sends was not in the buffer. *)
LEMMA EnqueueSendIInv ==
  ASSUME QueueAssumption, IInv, NEW p \in Producers, EnqueueSend(p)
  PROVE  IInv'
<1>1. PICK i \in Items : i = sending[p]
  BY DEF EnqueueSend, IInv, TypeOK
<1>2. /\ i # NoItem /\ fate[i] = "sending" /\ ~InBuffer(i)
      /\ sending' = [sending EXCEPT ![p] = NoItem]
      /\ UNCHANGED <<closed, chanClosed, clearing, panicked>>
  BY <1>1 DEF EnqueueSend, IInv, OnePlace
<1>3. CASE HasRoom
  <2>1. items' = Append(items, i) /\ fate' = [fate EXCEPT ![i] = "queued"]
    BY <1>1, <1>3 DEF EnqueueSend
  <2>2. TypeOK'
    BY <1>2, <1>3, <2>1, AppendItem DEF IInv, TypeOK
  <2>3. OnePlace'
    BY <1>1, <1>2, <1>3, <2>1, AppendItem DEF IInv, TypeOK, OnePlace
  <2>4. QED
    BY <2>2, <2>3 DEF IInv
<1>4. CASE ~HasRoom
  <2>1. items' = items /\ fate' = [fate EXCEPT ![i] = "refused"]
    BY <1>1, <1>4 DEF EnqueueSend
  <2>2. TypeOK'
    BY <1>2, <2>1 DEF IInv, TypeOK
  <2>3. OnePlace'
    BY <1>1, <1>2, <2>1 DEF IInv, TypeOK, OnePlace, Distinct, InBuffer
  <2>4. QED
    BY <2>2, <2>3 DEF IInv
<1>5. QED
  BY <1>3, <1>4

(* Dequeue and Clear take an item from the buffer for good. *)
LEMMA TakeIInv ==
  ASSUME QueueAssumption, IInv, Dequeue \/ ClearTake
  PROVE  IInv'
<1>1. /\ items # <<>> /\ items' = Tail(items)
      /\ UNCHANGED <<closed, chanClosed, sending, clearing, panicked>>
  BY DEF Dequeue, ClearTake
<1>2. PICK outcome \in {"taken", "cleared"} :
        fate' = [fate EXCEPT ![Head(items)] = outcome]
  BY DEF Dequeue, ClearTake
<1>3. TypeOK'
  BY <1>1, <1>2, TakeItem DEF IInv, OnePlace, TypeOK
<1>4. fate[Head(items)] = "queued"
  BY <1>1, TakeItem DEF IInv, OnePlace
<1>5. OnePlace'
  BY <1>1, <1>2, <1>4, TakeItem DEF IInv, TypeOK, OnePlace
<1>6. QED
  BY <1>3, <1>5 DEF IInv

(* The flags, the clearing and a panic touch no item. *)
LEMMA FlagsIInv ==
  ASSUME IInv,
         \/ \E p \in Producers : EnqueuePanic(p)
         \/ CloseFlag \/ CloseChannel \/ ClearCheck \/ ClearReturn \/ UNCHANGED vars
  PROVE  IInv'
<1>1. UNCHANGED <<items, sending, fate>>
  BY DEF EnqueuePanic, CloseFlag, CloseChannel, ClearCheck, ClearReturn, vars
<1>2. OnePlace'
  BY <1>1 DEF IInv, OnePlace, Distinct, InBuffer
<1>3. /\ closed' \in BOOLEAN /\ chanClosed' \in BOOLEAN
      /\ clearing' \in BOOLEAN /\ panicked' \in BOOLEAN
  BY DEF IInv, TypeOK, EnqueuePanic, CloseFlag, CloseChannel, ClearCheck,
         ClearReturn, vars
<1>4. TypeOK'
  BY <1>1, <1>3 DEF IInv, TypeOK
<1>5. QED
  BY <1>2, <1>4 DEF IInv

(* IInv is inductive: it holds in every reachable state.                   *)
THEOREM Inductive ==
  ASSUME QueueAssumption
  PROVE  Spec => []IInv
<1>1. IInv /\ [Next]_vars => IInv'
  BY EnqueueCheckIInv, EnqueueSendIInv, TakeIInv, FlagsIInv DEF Next
<1>2. QED
  <2>1. Init => IInv
    BY InitIInv
  <2>2. QED
    BY <1>1, <2>1, PTL DEF Spec

(* The channel never holds more than its capacity, and every variable      *)
(* keeps to its range.                                                     *)
THEOREM TypeCorrect ==
  ASSUME QueueAssumption
  PROVE  Spec => []TypeOK
<1>1. IInv => TypeOK
  BY DEF IInv
<1>2. QED
  BY <1>1, Inductive, PTL

(* An accepted item that was neither taken nor cleared is in the channel   *)
(* exactly once, whatever Close and Clear do beside the consumers.         *)
THEOREM AcceptedOnceHolds ==
  ASSUME QueueAssumption
  PROVE  Spec => []AcceptedOnce
<1>1. IInv => AcceptedOnce
  <2> SUFFICES ASSUME IInv, NEW i \in Items
               PROVE  InBuffer(i) <=> \E n \in 1..Len(items) :
                        /\ items[n] = i
                        /\ \A m \in 1..Len(items) : items[m] = i => m = n
    BY DEF IInv, OnePlace, AcceptedOnce
  <2>1. ASSUME NEW n \in 1..Len(items), items[n] = i
        PROVE  \A m \in 1..Len(items) : items[m] = i => m = n
    BY <2>1 DEF IInv, OnePlace, Distinct
  <2>2. QED
    BY <2>1, Zenon DEF InBuffer
<1>2. QED
  BY <1>1, Inductive, PTL
-----------------------------------------------------------------------------
(* The queue implements QueuePromise. *)

(* An empty queue is an empty promise of nothing. *)
LEMMA InitPromise == Init => Promise!Init
BY DEF Init, Promise!Init, Fate

(* How one item's fate shows outside. *)
LEMMA FateExcept ==
  ASSUME IInv, NEW i \in Items,
         NEW outcome \in {"sending", "queued", "refused", "taken", "cleared"},
         fate' = [fate EXCEPT ![i] = outcome]
  PROVE  [k \in Items |-> Fate(k)]' =
           [[k \in Items |-> Fate(k)] EXCEPT
              ![i] = IF outcome = "sending" THEN "new" ELSE outcome]
BY DEF IInv, TypeOK, Fate

(* A producer's steps: the flag or the default branch refuses its item,    *)
(* the send accepts it, and passing the flag shows nowhere.                *)
LEMMA EnqueueRefines ==
  ASSUME QueueAssumption, IInv, NEW p \in Producers,
         (\E i \in Items : EnqueueCheck(p, i)) \/ EnqueueSend(p)
  PROVE  [Promise!Next]_(Promise!vars)
<1>1. ASSUME NEW i \in Items, EnqueueCheck(p, i)
      PROVE  [Promise!Next]_(Promise!vars)
  <2>1. CASE closed
    <3>1. /\ fate' = [fate EXCEPT ![i] = "refused"] /\ fate[i] = "new"
          /\ UNCHANGED <<items, closed, chanClosed>>
      BY <1>1, <2>1 DEF EnqueueCheck
    <3>2. Promise!Refuse(i)
      BY <2>1, <3>1, FateExcept DEF Promise!Refuse, Fate
    <3>3. QED
      BY <3>2 DEF Promise!Next
  <2>2. CASE ~closed
    <3>1. /\ fate' = [fate EXCEPT ![i] = "sending"] /\ fate[i] = "new"
          /\ UNCHANGED <<items, closed, chanClosed>>
      BY <1>1, <2>2 DEF EnqueueCheck
    <3>2. [k \in Items |-> Fate(k)]' = [k \in Items |-> Fate(k)]
      BY <3>1 DEF IInv, TypeOK, Fate
    <3>3. QED
      BY <3>1, <3>2 DEF Promise!vars
  <2>3. QED
    BY <2>1, <2>2
<1>2. CASE EnqueueSend(p)
  <2>1. PICK i \in Items : i = sending[p]
    BY <1>2 DEF EnqueueSend, IInv, TypeOK
  <2>2. /\ fate[i] = "sending" /\ ~chanClosed
        /\ UNCHANGED <<closed, chanClosed>>
    BY <1>2, <2>1 DEF EnqueueSend, IInv, OnePlace
  <2>3. CASE HasRoom
    <3>1. items' = Append(items, i) /\ fate' = [fate EXCEPT ![i] = "queued"]
      BY <1>2, <2>1, <2>3 DEF EnqueueSend
    <3>2. Promise!Accept(i)
      BY <2>2, <2>3, <3>1, FateExcept DEF Promise!Accept, Fate, HasRoom
    <3>3. QED
      BY <3>2 DEF Promise!Next
  <2>4. CASE ~HasRoom
    <3>1. items' = items /\ fate' = [fate EXCEPT ![i] = "refused"]
      BY <1>2, <2>1, <2>4 DEF EnqueueSend
    <3>2. Len(items) = Capacity
      BY <2>4, LenProperties DEF QueueAssumption, HasRoom, IInv, TypeOK
    <3>3. Promise!Refuse(i)
      BY <2>2, <3>1, <3>2, FateExcept DEF Promise!Refuse, Fate
    <3>4. QED
      BY <3>3 DEF Promise!Next
  <2>5. QED
    BY <2>3, <2>4
<1>3. QED
  BY <1>1, <1>2

(* Dequeue and every turn of Clear hand out the oldest item. *)
LEMMA TakeRefines ==
  ASSUME QueueAssumption, IInv, Dequeue \/ ClearTake
  PROVE  Promise!Next
<1>1. /\ items # <<>> /\ items' = Tail(items)
      /\ UNCHANGED <<closed, chanClosed>>
  BY DEF Dequeue, ClearTake
<1>2. PICK outcome \in {"taken", "cleared"} :
        fate' = [fate EXCEPT ![Head(items)] = outcome]
  BY DEF Dequeue, ClearTake
<1>3. Head(items) \in Items /\ fate[Head(items)] = "queued"
  BY <1>1, TakeItem DEF IInv, OnePlace
<1>4. Promise!HandOut(outcome)
  BY <1>1, <1>2, <1>3, FateExcept DEF Promise!HandOut, Fate
<1>5. QED
  BY <1>4 DEF Promise!Next

(* The two steps of Close are the abstract ones; a panic, the start and    *)
(* the end of Clear show nowhere.                                          *)
LEMMA FlagsRefine ==
  ASSUME \/ \E p \in Producers : EnqueuePanic(p)
         \/ CloseFlag \/ CloseChannel \/ ClearCheck \/ ClearReturn \/ UNCHANGED vars
  PROVE  [Promise!Next]_(Promise!vars)
<1>1. UNCHANGED <<items, fate>> /\ [k \in Items |-> Fate(k)]' = [k \in Items |-> Fate(k)]
  BY DEF EnqueuePanic, CloseFlag, CloseChannel, ClearCheck, ClearReturn, vars, Fate
<1>2. CASE CloseFlag \/ CloseChannel
  BY <1>1, <1>2 DEF CloseFlag, CloseChannel, Promise!Close, Promise!Next, Promise!vars
<1>3. CASE UNCHANGED <<closed, chanClosed>>
  BY <1>1, <1>3 DEF Promise!vars
<1>4. QED
  BY <1>2, <1>3 DEF EnqueuePanic, ClearCheck, ClearReturn, vars

(* Whatever steps of producers, consumers, Close and Clear interleave, the *)
(* queue is one whose operations are atomic: first in, first out, nothing  *)
(* refused but when full or being closed, nothing taken in once closed.    *)
THEOREM QueueImplementsPromise ==
  ASSUME QueueAssumption
  PROVE  Spec => ImplementsQueuePromise
<1>1. IInv /\ [Next]_vars => [Promise!Next]_(Promise!vars)
  BY EnqueueRefines, TakeRefines, FlagsRefine DEF Next
<1>2. QED
  BY InitPromise, <1>1, Inductive, PTL DEF Spec, ImplementsQueuePromise, Promise!Spec
-----------------------------------------------------------------------------
(* A queue that nobody closes. *)

Open == ~closed /\ ~chanClosed /\ ~panicked

OpenQueue ==
  INSTANCE QueuePromise
    WITH content <- items, fate <- [i \in Items |-> Fate(i)], phase <- "open"

(* Only Close leads to a closed channel and only that to a panic. *)
LEMMA StaysOpen == Open /\ [Next]_vars /\ [~CloseFlag]_vars => Open'
<1> SUFFICES ASSUME Open, [Next]_vars, [~CloseFlag]_vars PROVE Open'
  OBVIOUS
<1> USE DEF Open
<1>1. UNCHANGED vars => Open'
  BY DEF vars
<1>2. ASSUME NEW p \in Producers,
             (\E i \in Items : EnqueueCheck(p, i)) \/ EnqueueSend(p) \/ EnqueuePanic(p)
      PROVE  Open'
  BY <1>2 DEF EnqueueCheck, EnqueueSend, EnqueuePanic
<1>3. Dequeue \/ CloseChannel \/ ClearCheck \/ ClearTake \/ ClearReturn => Open'
  BY DEF Dequeue, CloseChannel, ClearCheck, ClearTake, ClearReturn
<1>4. QED
  BY <1>1, <1>2, <1>3 DEF Next, vars, CloseFlag

(* The program never closes its queue.  Then no send panics, and to its    *)
(* callers the queue is the one that WorkerPool uses: always open, each    *)
(* call one step, nothing refused but for lack of room.                    *)
THEOREM UnclosedQueue ==
  ASSUME QueueAssumption
  PROVE  Spec /\ [][~CloseFlag]_vars => OpenQueue!Spec /\ []~panicked
<1>1. Init => Open /\ OpenQueue!Init
  BY DEF Init, Open, OpenQueue!Init, Fate
<1>2. IInv /\ Open /\ Open' /\ [Next]_vars => [OpenQueue!Next]_(OpenQueue!vars)
  <2> SUFFICES ASSUME IInv, Open, Open', [Next]_vars
               PROVE  [OpenQueue!Next]_(OpenQueue!vars)
    OBVIOUS
  <2>1. [Promise!Next]_(Promise!vars)
    BY EnqueueRefines, TakeRefines, FlagsRefine DEF Next
  <2>2. Promise!vars' = Promise!vars => OpenQueue!vars' = OpenQueue!vars
    BY DEF Promise!vars, OpenQueue!vars
  <2>3. ASSUME NEW i \in Items
        PROVE  /\ Promise!Accept(i) => OpenQueue!Accept(i)
               /\ Promise!Refuse(i) => OpenQueue!Refuse(i)
    BY DEF Open, Promise!Accept, Promise!Refuse, OpenQueue!Accept, OpenQueue!Refuse
  <2>4. ASSUME NEW outcome, Promise!HandOut(outcome)
        PROVE  OpenQueue!HandOut(outcome)
    BY <2>4 DEF Promise!HandOut, OpenQueue!HandOut
  <2>5. ~Promise!Close
    BY DEF Open, Promise!Close
  <2>6. QED
    BY <2>1, <2>2, <2>3, <2>4, <2>5 DEF Promise!Next, OpenQueue!Next
<1>3. Open => ~panicked
  BY DEF Open
<1>4. QED
  BY <1>1, <1>2, <1>3, StaysOpen, Inductive, PTL DEF Spec, OpenQueue!Spec
=============================================================================

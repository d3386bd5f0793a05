----------------------------- MODULE FIFOQueue ------------------------------
(***************************************************************************)
(* The bounded queue of internal/queue: a buffered channel and an atomic   *)
(* closed flag.  Enqueue reads the flag and then sends, Close sets it and  *)
(* then closes the channel, Clear reads it and then empties the channel    *)
(* element by element; goroutines interleave between these steps.          *)
(***************************************************************************)
EXTENDS Naturals, Sequences

CONSTANTS
  Items,      \* what is enqueued, each item once
  Producers,  \* goroutines that call Enqueue
  Capacity,   \* capacity of the channel
  NoItem      \* a producer that is not in Enqueue

\* What is known of the constants.
QueueAssumption ==
  /\ Capacity \in Nat \ {0}
  /\ NoItem \notin Items

VARIABLES
  items,       \* the channel's buffer
  closed,      \* q.closed
  chanClosed,  \* q.items is closed
  sending,     \* the item of each producer between the flag and the send
  clearing,    \* a goroutine is in the loop of Clear
  fate,        \* what became of each item
  panicked     \* a send on the closed channel ended the process

vars == <<items, closed, chanClosed, sending, clearing, fate, panicked>>

TypeOK ==
  /\ items \in Seq(Items) /\ Len(items) <= Capacity
  /\ closed \in BOOLEAN
  /\ chanClosed \in BOOLEAN
  /\ sending \in [Producers -> Items \cup {NoItem}]
  /\ clearing \in BOOLEAN
  /\ fate \in [Items -> {"new", "sending", "queued", "refused", "taken", "cleared"}]
  /\ panicked \in BOOLEAN

Init ==
  /\ items = <<>>
  /\ closed = FALSE
  /\ chanClosed = FALSE
  /\ sending = [p \in Producers |-> NoItem]
  /\ clearing = FALSE
  /\ fate = [i \in Items |-> "new"]
  /\ panicked = FALSE

\* Enqueue's atomic load of the flag.
EnqueueCheck(p, i) ==
  /\ sending[p] = NoItem
  /\ fate[i] = "new"
  /\ IF closed
       THEN /\ fate' = [fate EXCEPT ![i] = "refused"]
            /\ UNCHANGED sending
       ELSE /\ fate' = [fate EXCEPT ![i] = "sending"]
            /\ sending' = [sending EXCEPT ![p] = i]
  /\ UNCHANGED <<items, closed, chanClosed, clearing, panicked>>

HasRoom == Len(items) < Capacity

\* Enqueue's select with a default.
EnqueueSend(p) ==
  LET i == sending[p]
  IN /\ i # NoItem
     /\ ~chanClosed
     /\ sending' = [sending EXCEPT ![p] = NoItem]
     /\ IF HasRoom
          THEN /\ items' = Append(items, i)
               /\ fate' = [fate EXCEPT ![i] = "queued"]
          ELSE /\ fate' = [fate EXCEPT ![i] = "refused"]
               /\ UNCHANGED items
     /\ UNCHANGED <<closed, chanClosed, clearing, panicked>>

\* The channel was closed since the flag was read: the send panics.
EnqueuePanic(p) ==
  /\ sending[p] # NoItem
  /\ chanClosed
  /\ panicked' = TRUE
  /\ UNCHANGED <<items, closed, chanClosed, sending, clearing, fate>>

\* As if Dequeue handed out the item that came last.
DequeueNewest ==
  /\ items # <<>>
  /\ fate' = [fate EXCEPT ![items[Len(items)]] = "taken"]
  /\ items' = SubSeq(items, 1, Len(items) - 1)
  /\ UNCHANGED <<closed, chanClosed, sending, clearing, panicked>>

\* On an empty channel, closed or not, Dequeue returns false.
Dequeue ==
  /\ items # <<>>
  /\ fate' = [fate EXCEPT ![Head(items)] = "taken"]
  /\ items' = Tail(items)
  /\ UNCHANGED <<closed, chanClosed, sending, clearing, panicked>>

\* Close's compare-and-swap; only the one that wins closes the channel.
CloseFlag ==
  /\ ~closed
  /\ closed' = TRUE
  /\ UNCHANGED <<items, chanClosed, sending, clearing, fate, panicked>>

CloseChannel ==
  /\ closed
  /\ ~chanClosed
  /\ chanClosed' = TRUE
  /\ UNCHANGED <<items, closed, sending, clearing, fate, panicked>>

ClearCheck ==
  /\ ~clearing
  /\ ~closed
  /\ clearing' = TRUE
  /\ UNCHANGED <<items, closed, chanClosed, sending, fate, panicked>>

\* As if Clear threw away the item it looks at and kept its place.
ClearTakeTwice ==
  /\ clearing
  /\ items # <<>>
  /\ fate' = [fate EXCEPT ![Head(items)] = "cleared"]
  /\ UNCHANGED <<items, closed, chanClosed, sending, clearing, panicked>>

ClearTake ==
  /\ clearing
  /\ items # <<>>
  /\ fate' = [fate EXCEPT ![Head(items)] = "cleared"]
  /\ items' = Tail(items)
  /\ UNCHANGED <<closed, chanClosed, sending, clearing, panicked>>

\* The default branch.  It is never taken on a closed channel, where the
\* receive of a zero value is always ready and the loop goes round for ever.
ClearReturn ==
  /\ clearing
  /\ items = <<>>
  /\ ~chanClosed
  /\ clearing' = FALSE
  /\ UNCHANGED <<items, closed, chanClosed, sending, fate, panicked>>

Next ==
  \/ /\ ~panicked
     /\ \/ \E p \in Producers :
             (\E i \in Items : EnqueueCheck(p, i)) \/ EnqueueSend(p) \/ EnqueuePanic(p)
        \/ Dequeue
        \/ CloseFlag
        \/ CloseChannel
        \/ ClearCheck
        \/ ClearTake
        \/ ClearReturn
  \/ UNCHANGED vars   \* a Dequeue of nothing, a Close too many, Clear's idle loop

Spec == Init /\ [][Next]_vars
-----------------------------------------------------------------------------
(* Every item accepted and neither dequeued nor cleared is in the channel  *)
(* exactly once: racing consumers and a Clear never lose or share one.     *)
AcceptedOnce ==
  \A i \in Items :
    fate[i] = "queued" <=> \E n \in 1..Len(items) :
                             /\ items[n] = i
                             /\ \A m \in 1..Len(items) : items[m] = i => m = n

\* Until its send, an item is one that nobody has offered yet.
Fate(i) == IF fate[i] = "sending" THEN "new" ELSE fate[i]

Promise ==
  INSTANCE QueuePromise
    WITH content <- items,
         fate <- [i \in Items |-> Fate(i)],
         phase <- IF chanClosed THEN "closed" ELSE IF closed THEN "closing" ELSE "open"

(* The steps of Enqueue, Close and Clear interleave as they may: as long as *)
(* no send has panicked, the queue is to its callers a bounded FIFO queue  *)
(* whose operations are atomic, which refuses an item only while it is     *)
(* full or being closed.  (After a panic nothing more happens.)            *)
ImplementsQueuePromise == Promise!Spec

(* What the comment on Close says, "Close безопасно закрывает очередь", of *)
(* a queue that is "потокобезопасен": no call of Close ends the process,   *)
(* whatever producers do meanwhile.                                        *)
CloseIsSafe == ~panicked
=============================================================================

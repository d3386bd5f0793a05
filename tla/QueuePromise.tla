---------------------------- MODULE QueuePromise -----------------------------
(***************************************************************************)
(* What the queue of internal/queue promises whoever uses it: each call    *)
(* takes effect at one moment.  Items leave in the order they came in and  *)
(* each at most once; an item is refused only while the queue is full or   *)
(* being closed, and a refused item is never handed out; a closed queue    *)
(* takes nothing in but still hands out what it holds.                     *)
(***************************************************************************)
EXTENDS Naturals, Sequences

CONSTANTS
  Items,    \* what is enqueued, each item once
  Capacity

VARIABLES
  content,  \* the items held, oldest first
  fate,     \* what became of each item
  phase     \* "open", "closing" while Close runs, "closed" after it

vars == <<content, fate, phase>>

Init ==
  /\ content = <<>>
  /\ fate = [i \in Items |-> "new"]
  /\ phase = "open"

Accept(i) ==
  /\ fate[i] = "new"
  /\ phase # "closed"
  /\ Len(content) < Capacity
  /\ content' = Append(content, i)
  /\ fate' = [fate EXCEPT ![i] = "queued"]
  /\ UNCHANGED phase

Refuse(i) ==
  /\ fate[i] = "new"
  /\ Len(content) = Capacity \/ phase # "open"
  /\ fate' = [fate EXCEPT ![i] = "refused"]
  /\ UNCHANGED <<content, phase>>

\* Dequeue hands the oldest item out, Clear throws it away.
HandOut(outcome) ==
  /\ content # <<>>
  /\ fate[Head(content)] = "queued"
  /\ fate' = [fate EXCEPT ![Head(content)] = outcome]
  /\ content' = Tail(content)
  /\ UNCHANGED phase

Close ==
  /\ \/ phase = "open" /\ phase' = "closing"
     \/ phase = "closing" /\ phase' = "closed"
  /\ UNCHANGED <<content, fate>>

Next ==
  \/ \E i \in Items : Accept(i) \/ Refuse(i)
  \/ \E outcome \in {"taken", "cleared"} : HandOut(outcome)
  \/ Close

Spec == Init /\ [][Next]_vars
=============================================================================

----------------------------- MODULE JobService -----------------------------
(***************************************************************************)
(* What ParsersManager promises the console about the requests it makes    *)
(* through the job queue, with no queue, worker, slot or channel in it:    *)
(* one request at a time; a request is settled at most once; the console   *)
(* is told the outcome of the request it made; a request it was told was   *)
(* refused is never carried out, one it gave up on may still be.           *)
(***************************************************************************)
CONSTANT Jobs

VARIABLES
  told,     \* what the console knows of each request
  outcome   \* how the request was settled, "none" before it is

vars == <<told, outcome>>

Outcomes == {"ok", "err"}

Init ==
  /\ told = [j \in Jobs |-> "new"]
  /\ outcome = [j \in Jobs |-> "none"]

Submit(j) ==
  /\ \A k \in Jobs : told[k] # "pending"
  /\ told[j] = "new"
  /\ told' = [told EXCEPT ![j] = "pending"]
  /\ UNCHANGED outcome

Settle(j, result) ==
  /\ told[j] \in {"pending", "abandoned"}
  /\ outcome[j] = "none"
  /\ outcome' = [outcome EXCEPT ![j] = result]
  /\ UNCHANGED told

Answer(j) ==
  /\ told[j] = "pending"
  /\ outcome[j] # "none"
  /\ told' = [told EXCEPT ![j] = outcome[j]]
  /\ UNCHANGED outcome

Refuse(j) ==
  /\ told[j] = "pending"
  /\ outcome[j] = "none"
  /\ told' = [told EXCEPT ![j] = "refused"]
  /\ UNCHANGED outcome

Abandon(j) ==
  /\ told[j] = "pending"
  /\ told' = [told EXCEPT ![j] = "abandoned"]
  /\ UNCHANGED outcome

Next ==
  \E j \in Jobs :
    \/ Submit(j)
    \/ \E result \in Outcomes : Settle(j, result)
    \/ Answer(j)
    \/ Refuse(j)
    \/ Abandon(j)

Spec == Init /\ [][Next]_vars
=============================================================================

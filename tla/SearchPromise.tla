--------------------------- MODULE SearchPromise ----------------------------
(***************************************************************************)
(* What a concurrent search over the sources promises its caller: it asks  *)
(* some of the sources, at least one, and answers once, with exactly one   *)
(* result for each source it asked, in any order.                          *)
(***************************************************************************)
EXTENDS Naturals, FiniteSets

CONSTANTS
  Searches,  \* calls of executeSearch that go to the sources
  Sources    \* the registered parsers

VARIABLES
  asked,     \* the sources each search asks, {} before
  answered   \* the results each search returned, <<>> before

vars == <<asked, answered>>

\* What the source answered, vacancies or an error, or that it was too late.
Outcomes == {"answer", "timeout"}
Results == [source : Sources, outcome : Outcomes]

Init ==
  /\ asked = [k \in Searches |-> {}]
  /\ answered = [k \in Searches |-> <<>>]

Ask(k) ==
  /\ asked[k] = {}
  /\ \E chosen \in (SUBSET Sources) \ {{}} :
       asked' = [asked EXCEPT ![k] = chosen]
  /\ UNCHANGED answered

Answer(k) ==
  /\ asked[k] # {}
  /\ answered[k] = <<>>
  /\ \E q \in [1 .. Cardinality(asked[k]) -> Results] :
       /\ {q[i].source : i \in DOMAIN q} = asked[k]
       /\ answered' = [answered EXCEPT ![k] = q]
  /\ UNCHANGED asked

Next == \E k \in Searches : Ask(k) \/ Answer(k)

Spec == Init /\ [][Next]_vars
=============================================================================

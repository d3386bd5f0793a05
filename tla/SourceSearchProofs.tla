------------------------- MODULE SourceSearchProofs -------------------------
(***************************************************************************)
(* Theorems about SourceSearch for every finite set of sources and every   *)
(* set of searches: its types, and that it implements SearchPromise.       *)
(***************************************************************************)
EXTENDS SourceSearch, FiniteSetTheorems, SequenceTheorems, TLAPS

SearchType ==
  /\ phase \in [Searches -> {"new", "running", "done"}]
  /\ chosen \in [Searches -> SUBSET Sources]
  /\ expired \in [Searches -> BOOLEAN]
  /\ waiting \in [Searches -> SUBSET Sources]
  /\ results \in [Searches -> Seq(Promise!Results)]

PairType ==
  /\ asking \in [Searches -> [Sources -> {"none", "asking", "got", "told", "gone"}]]
  /\ reply \in [Searches -> [Sources -> {"none"} \cup Replies]]
  /\ resultChan \in [Searches -> [Sources -> {"empty", "answer"}]]
  /\ \A k \in Searches, s \in Sources :
       asking[k][s] = "got" => reply[k][s] \in Replies

StatusType ==
  /\ healthy \in [Sources -> BOOLEAN]
  /\ age \in [Sources -> 0 .. StaleAfter]

CheckType ==
  /\ checker \in {"checking", "waiting", "stopped"}
  /\ probe \in [Sources -> {"none", "asking"} \cup Replies]
  /\ stopping \in BOOLEAN
  /\ down \in SUBSET Failing

Reported(k) == {results[k][i].source : i \in 1 .. Len(results[k])}

(* The results of a search and the sources it still waits for are together *)
(* the sources it asked, and as many.                                      *)
Collected(k) ==
  /\ waiting[k] \subseteq chosen[k]
  /\ Reported(k) = chosen[k] \ waiting[k]
  /\ Len(results[k]) + Cardinality(waiting[k]) = Cardinality(chosen[k])

Staged(k) ==
  /\ phase[k] = "new" <=> chosen[k] = {}
  /\ phase[k] = "done" => waiting[k] = {}

SearchInv == \A k \in Searches : Collected(k) /\ Staged(k)

SInv == SearchType /\ SearchInv

IInv == SInv /\ PairType /\ StatusType /\ CheckType

(* Subsets of the sources are finite.                                      *)
LEMMA FiniteCount ==
  ASSUME NEW T \in SUBSET Sources
  PROVE  IsFiniteSet(T) /\ Cardinality(T) \in Nat
BY FS_Subset, FS_CardinalityType, SourceAssumption

(* No send on the channel of results blocks: it has room for one result of *)
(* each source asked.                                                      *)
LEMMA RoomForResults == IInv => TypeOK
<1> SUFFICES ASSUME IInv PROVE TypeOK
  OBVIOUS
<1>1. ASSUME NEW k \in Searches
      PROVE  Len(results[k]) <= Cardinality(chosen[k])
  <2>1. Cardinality(waiting[k]) \in Nat /\ Cardinality(chosen[k]) \in Nat
    BY FiniteCount DEF IInv, SInv, SearchType
  <2>2. Len(results[k]) \in Nat
    BY LenProperties DEF IInv, SInv, SearchType
  <2>3. Len(results[k]) + Cardinality(waiting[k]) = Cardinality(chosen[k])
    BY DEF IInv, SInv, SearchInv, Collected
  <2>4. QED
    BY <2>1, <2>2, <2>3
<1>2. QED
  BY <1>1 DEF IInv, SInv, SearchType, PairType, StatusType, CheckType, TypeOK

(* Before the first search nothing has been asked.                         *)
LEMMA InitIInv == Init => IInv
<1> SUFFICES ASSUME Init PROVE IInv
  OBVIOUS
<1>1. SearchType
  BY EmptySeq DEF Init, SearchType
<1>2. ASSUME NEW k \in Searches PROVE Collected(k) /\ Staged(k)
  <2>1. phase[k] = "new" /\ chosen[k] = {} /\ waiting[k] = {} /\ results[k] = <<>>
    BY <1>2 DEF Init
  <2>2. Len(results[k]) = 0 /\ Cardinality({}) = 0
    BY <2>1, EmptySeq, FS_EmptySet
  <2>3. Reported(k) = {}
    BY <2>2 DEF Reported
  <2>4. QED
    BY <2>1, <2>2, <2>3 DEF Collected, Staged
<1>3. PairType
  BY DEF Init, PairType
<1>4. healthy \in [Sources -> BOOLEAN]
  BY DEF Init
<1>5. age \in [Sources -> 0 .. StaleAfter]
  BY SourceAssumption DEF Init
<1>6. CheckType
  BY DEF Init, CheckType
<1>7. QED
  BY <1>1, <1>2, <1>3, <1>4, <1>5, <1>6 DEF IInv, SInv, SearchInv, StatusType

(* What a search that nothing happened to keeps.                           *)
LEMMA OtherSearch ==
  ASSUME NEW k \in Searches, Collected(k), Staged(k),
         phase'[k] = phase[k], chosen'[k] = chosen[k],
         waiting'[k] = waiting[k], results'[k] = results[k]
  PROVE  Collected(k)' /\ Staged(k)'
BY DEF Collected, Staged, Reported

LEMMA SearchFrame ==
  ASSUME SInv, UNCHANGED searchVars
  PROVE  SInv'
BY DEF SInv, SearchType, SearchInv, Collected, Staged, Reported, searchVars

(* At least one source is asked.                                           *)
LEMMA Selected == SelectParsers \in SUBSET Sources /\ SelectParsers # {}
BY SourceAssumption DEF SelectParsers, GetHealthyParsers

LEMMA SearchSInv ==
  ASSUME SInv, NEW k \in Searches, Search(k)
  PROVE  SInv'
<1>1. SearchType'
  BY Selected DEF SInv, SearchType, Search
<1>2. Collected(k)' /\ Staged(k)'
  <2>1. /\ phase'[k] = "running" /\ chosen'[k] = SelectParsers
        /\ waiting'[k] = SelectParsers /\ results'[k] = results[k]
    BY DEF SInv, SearchType, Search
  <2>2. chosen[k] = {} /\ waiting[k] = {}
    BY DEF SInv, SearchInv, Collected, Staged, Search
  <2>3. Len(results[k]) = 0
    <3>1. Len(results[k]) \in Nat
      BY LenProperties DEF SInv, SearchType
    <3>2. Len(results[k]) + Cardinality({}) = Cardinality({})
      BY <2>2 DEF SInv, SearchInv, Collected
    <3>3. QED
      BY <3>1, <3>2, FS_EmptySet
  <2>4. Len(results'[k]) = 0 /\ Reported(k)' = {}
    BY <2>1, <2>3 DEF Reported
  <2>5. Cardinality(SelectParsers) \in Nat
    BY FiniteCount, Selected
  <2>6. QED
    BY <2>1, <2>4, <2>5, Selected DEF Collected, Staged
<1>3. ASSUME NEW j \in Searches, j # k PROVE Collected(j)' /\ Staged(j)'
  BY <1>3, OtherSearch DEF SInv, SearchType, SearchInv, Search
<1>4. QED
  BY <1>1, <1>2, <1>3 DEF SInv, SearchInv

(* A result moves its source from those waited for to those reported.      *)
LEMMA ReportSInv ==
  ASSUME SInv, NEW k \in Searches, NEW s \in Sources, NEW outcome \in Promise!Outcomes,
         s \in waiting[k], Report(k, s, outcome), UNCHANGED <<phase, chosen, expired>>
  PROVE  SInv' /\ phase[k] # "done"
<1> DEFINE r == [source |-> s, outcome |-> outcome]
           q == results[k]
<1>1. r \in Promise!Results /\ q \in Seq(Promise!Results) /\ r.source = s
  BY DEF Promise!Results, SInv, SearchType
<1>2. results'[k] = Append(q, r) /\ waiting'[k] = waiting[k] \ {s}
  BY DEF Report, SInv, SearchType
<1>3. /\ Append(q, r) \in Seq(Promise!Results)
      /\ Len(Append(q, r)) = Len(q) + 1 /\ Len(q) \in Nat
      /\ \A i \in 1 .. Len(q) : Append(q, r)[i] = q[i]
      /\ Append(q, r)[Len(q) + 1] = r
  BY <1>1, AppendProperties, LenProperties
<1> HIDE DEF r, q
<1>4. SearchType'
  BY <1>1, <1>3 DEF SInv, SearchType, Report, r, q
<1>5. Reported(k)' = Reported(k) \cup {s}
  BY <1>1, <1>2, <1>3 DEF Reported, q
<1>6. /\ Cardinality(waiting[k]) \in Nat
      /\ Cardinality(waiting'[k]) = Cardinality(waiting[k]) - 1
  <2>1. waiting[k] \subseteq Sources
    BY DEF SInv, SearchType
  <2>2. IsFiniteSet(waiting[k]) /\ Cardinality(waiting[k]) \in Nat
    BY <2>1, FiniteCount
  <2>3. Cardinality(waiting[k] \ {s}) = Cardinality(waiting[k]) - 1
    BY <2>2, FS_RemoveElement
  <2>4. QED
    BY <1>2, <2>2, <2>3
<1>7. Collected(k)' /\ Staged(k)' /\ phase[k] # "done"
  <2>1. /\ waiting[k] \subseteq chosen[k] /\ Reported(k) = chosen[k] \ waiting[k]
        /\ Len(q) + Cardinality(waiting[k]) = Cardinality(chosen[k])
        /\ Staged(k)
    BY DEF SInv, SearchInv, Collected, q
  <2>2. chosen'[k] = chosen[k] /\ phase'[k] = phase[k]
    OBVIOUS
  <2>3. /\ waiting'[k] \subseteq chosen'[k]
        /\ Reported(k)' = chosen'[k] \ waiting'[k]
    BY <1>2, <1>5, <2>1, <2>2
  <2>4. Len(results'[k]) + Cardinality(waiting'[k]) = Cardinality(chosen'[k])
    BY <1>2, <1>3, <1>6, <2>1, <2>2
  <2>5. QED
    BY <1>2, <2>1, <2>2, <2>3, <2>4 DEF Collected, Staged
<1>8. ASSUME NEW j \in Searches, j # k PROVE Collected(j)' /\ Staged(j)'
  BY <1>8, OtherSearch DEF SInv, SearchType, SearchInv, Report
<1>9. QED
  BY <1>4, <1>7, <1>8 DEF SInv, SearchInv

(* The steps of a search leave its results and the sources asked in order. *)
LEMMA NextSInv ==
  ASSUME IInv, [Next]_vars
  PROVE  SInv'
<1> SInv
  BY DEF IInv
<1>1. ASSUME NEW k \in Searches, Search(k) PROVE SInv'
  BY <1>1, SearchSInv
<1>2. ASSUME NEW k \in Searches, Deadline(k) PROVE SInv'
  BY <1>2 DEF Deadline, SInv, SearchType, SearchInv, Collected, Staged, Reported
<1>3. ASSUME NEW k \in Searches, Return(k) PROVE SInv'
  BY <1>3 DEF Return, AllReported, SInv, SearchType, SearchInv, Collected, Staged, Reported
<1>4. ASSUME NEW k \in Searches, NEW s \in Sources, Forward(k, s) PROVE SInv'
  <2>1. resultChan[k][s] \in Promise!Outcomes
    BY <1>4 DEF Forward, IInv, PairType, Promise!Outcomes
  <2>2. QED
    BY <1>4, <2>1, ReportSInv DEF Forward
<1>5. ASSUME NEW k \in Searches, NEW s \in Sources, GiveUp(k, s) PROVE SInv'
  BY <1>5, ReportSInv DEF GiveUp, Promise!Outcomes
<1>6. CASE UNCHANGED searchVars
  BY <1>6, SearchFrame
<1>7. QED
  BY <1>1, <1>2, <1>3, <1>4, <1>5, <1>6
     DEF Next, vars, Checks, Asker, Waiter, StartRound, EndRound, CheckHealth, ApplyCheck,
         Stop, SeeStop, SearchVacancies, UpdateStatus, SendResult, Clock, GoDown

LEMMA NextPairType ==
  ASSUME IInv, [Next]_vars
  PROVE  PairType'
<1> PairType
  BY DEF IInv
<1>1. ASSUME NEW k \in Searches, Search(k) PROVE PairType'
  <2>1. UNCHANGED <<reply, resultChan>>
    BY <1>1 DEF Search
  <2>2. asking' \in [Searches -> [Sources -> {"none", "asking", "got", "told", "gone"}]]
    BY <1>1 DEF Search, PairType
  <2>3. \A j \in Searches, s \in Sources :
          asking'[j][s] \in {"asking", "none"} \/ asking'[j][s] = asking[j][s]
    BY <1>1 DEF Search, PairType
  <2>4. QED
    BY <2>1, <2>2, <2>3 DEF PairType
<1>2. ASSUME NEW k \in Searches, NEW s \in Sources, SearchVacancies(k, s) PROVE PairType'
  BY <1>2 DEF SearchVacancies, Learn, PairType, Replies
<1>3. ASSUME NEW k \in Searches, NEW s \in Sources, UpdateStatus(k, s) PROVE PairType'
  BY <1>3 DEF UpdateStatus, PairType
<1>4. ASSUME NEW k \in Searches, NEW s \in Sources, SendResult(k, s) PROVE PairType'
  BY <1>4 DEF SendResult, PairType
<1>5. ASSUME NEW k \in Searches, NEW s \in Sources, Forward(k, s) PROVE PairType'
  BY <1>5 DEF Forward, PairType
<1>6. CASE UNCHANGED pairVars
  BY <1>6 DEF PairType, pairVars
<1>7. QED
  BY <1>1, <1>2, <1>3, <1>4, <1>5, <1>6
     DEF Next, vars, Checks, Asker, Waiter, StartRound, EndRound, CheckHealth, ApplyCheck,
         Stop, SeeStop, GiveUp, Deadline, Return, Clock, GoDown

LEMMA NextStatusType ==
  ASSUME IInv, [Next]_vars
  PROVE  StatusType'
<1> StatusType
  BY DEF IInv
<1>1. ASSUME NEW s \in Sources, NEW news, SetStatus(s, news) PROVE StatusType'
  <2>1. 0 \in 0 .. StaleAfter
    BY SourceAssumption
  <2>2. (news = "ok") \in BOOLEAN
    OBVIOUS
  <2>3. healthy' \in [Sources -> BOOLEAN]
    BY <1>1, <2>2 DEF SetStatus, StatusType
  <2>4. age' \in [Sources -> 0 .. StaleAfter]
    BY <1>1, <2>1 DEF SetStatus, StatusType
  <2>5. QED
    BY <2>3, <2>4 DEF StatusType
<1>2. CASE Clock
  <2>1. age' \in [Sources -> 0 .. StaleAfter]
    BY <1>2, SourceAssumption DEF Clock, StatusType
  <2>2. QED
    BY <1>2, <2>1 DEF Clock, StatusType
<1>3. CASE UNCHANGED statusVars
  BY <1>3 DEF StatusType, statusVars
<1>4. QED
  BY <1>1, <1>2, <1>3
     DEF Next, vars, Checks, Asker, Waiter, StartRound, EndRound, CheckHealth, ApplyCheck,
         Stop, SeeStop, Search, SearchVacancies, UpdateStatus, SendResult, Forward,
         GiveUp, Deadline, Return, GoDown

LEMMA NextCheckType ==
  ASSUME IInv, [Next]_vars
  PROVE  CheckType'
<1> CheckType
  BY DEF IInv
<1>1. ASSUME NEW s \in Sources, CheckHealth(s) \/ ApplyCheck(s) PROVE CheckType'
  BY <1>1 DEF CheckHealth, ApplyCheck, Learn, CheckType, Replies
<1>2. CASE StartRound \/ EndRound \/ Stop \/ SeeStop \/ \E s \in Failing : GoDown(s)
  BY <1>2 DEF StartRound, EndRound, Stop, SeeStop, GoDown, CheckType, checkVars
<1>3. CASE UNCHANGED <<checkVars, stopping, down>>
  BY <1>3 DEF CheckType, checkVars
<1>4. QED
  BY <1>1, <1>2, <1>3
     DEF Next, vars, Checks, Asker, Waiter, Search, SearchVacancies, UpdateStatus,
         SendResult, Forward, GiveUp, Deadline, Return, Clock

THEOREM Invariance == Spec => []IInv
<1>1. IInv /\ [Next]_vars => IInv'
  BY NextSInv, NextPairType, NextStatusType, NextCheckType DEF IInv
<1>2. QED
  BY InitIInv, <1>1, PTL DEF Spec

(* Every variable keeps its type, and no send on the channel of results    *)
(* ever blocks.                                                            *)
THEOREM TypeCorrect == Spec => []TypeOK
BY Invariance, RoomForResults, PTL
-----------------------------------------------------------------------------
Answered == [k \in Searches |-> IF phase[k] = "done" THEN results[k] ELSE <<>>]

(* A step that neither starts a search nor ends one is invisible.          *)
LEMMA Invisible ==
  ASSUME SInv, UNCHANGED <<chosen, phase>>,
         \A k \in Searches : phase[k] = "done" => results'[k] = results[k]
  PROVE  UNCHANGED Promise!vars
<1>1. Answered' = Answered
  BY DEF Answered
<1>2. QED
  BY <1>1 DEF Promise!vars, Answered

(* The start of a search asks some sources, and answers nothing.           *)
LEMMA SearchAsks ==
  ASSUME SInv, NEW k \in Searches, Search(k)
  PROVE  Promise!Next
<1>1. chosen[k] = {} /\ phase[k] = "new" /\ chosen \in [Searches -> SUBSET Sources]
  BY DEF SInv, SearchType, SearchInv, Staged, Search
<1>2. /\ chosen' = [chosen EXCEPT ![k] = SelectParsers]
      /\ SelectParsers \in (SUBSET Sources) \ {{}}
  BY Selected DEF Search
<1>3. Answered' = Answered
  <2>1. results' = results /\ phase' = [phase EXCEPT ![k] = "running"]
    BY DEF Search
  <2>2. QED
    BY <1>1, <2>1 DEF SInv, SearchType, Answered
<1>4. Promise!Ask(k)
  BY <1>1, <1>2, <1>3 DEF Promise!Ask, Answered
<1>5. QED
  BY <1>4 DEF Promise!Next

(* Its return answers with one result for each source asked.               *)
LEMMA ReturnAnswers ==
  ASSUME SInv, NEW k \in Searches, Return(k)
  PROVE  Promise!Next
<1> DEFINE q == results[k]
<1>1. /\ waiting[k] = {} /\ phase[k] = "running" /\ chosen[k] # {}
      /\ phase' = [phase EXCEPT ![k] = "done"] /\ UNCHANGED <<chosen, results>>
  BY DEF Return, AllReported, SInv, SearchInv, Staged
<1>2. Len(q) = Cardinality(chosen[k])
  <2>1. Len(q) + Cardinality({}) = Cardinality(chosen[k])
    BY <1>1 DEF SInv, SearchInv, Collected
  <2>2. Len(q) \in Nat
    BY LenProperties DEF SInv, SearchType
  <2>3. QED
    BY <2>1, <2>2, FS_EmptySet
<1>3. q \in [1 .. Cardinality(chosen[k]) -> Promise!Results]
  BY <1>2, LenProperties DEF SInv, SearchType
<1>4. {q[i].source : i \in DOMAIN q} = chosen[k]
  BY <1>1, <1>2, <1>3 DEF SInv, SearchInv, Collected, Reported
<1>5. Answered[k] = <<>> /\ Answered' = [Answered EXCEPT ![k] = q]
  BY <1>1 DEF SInv, SearchType, Answered
<1> HIDE DEF q
<1>6. Promise!Cardinality(chosen[k]) = Cardinality(chosen[k])
  BY DEF Promise!Cardinality, Cardinality
<1>7. Promise!Answer(k)
  BY <1>1, <1>3, <1>4, <1>5, <1>6 DEF Promise!Answer, Answered
<1>8. QED
  BY <1>7 DEF Promise!Next

(* Goroutines, channels, deadlines and late answers implement the promise: *)
(* one result for each source asked, once, and nothing later changes it.   *)
THEOREM SearchImplementsPromise == Spec => ImplementsPromise
<1>1. Init => Promise!Init
  <2> SUFFICES ASSUME Init PROVE Promise!Init
    OBVIOUS
  <2>1. Answered = [k \in Searches |-> <<>>]
    BY DEF Init, Answered
  <2>2. QED
    BY <2>1 DEF Init, Promise!Init, Answered
<1>2. IInv /\ [Next]_vars => [Promise!Next]_(Promise!vars)
  <2> SUFFICES ASSUME IInv, [Next]_vars PROVE Promise!Next \/ UNCHANGED Promise!vars
    OBVIOUS
  <2> SInv
    BY DEF IInv
  <2>1. ASSUME NEW k \in Searches, Search(k) PROVE Promise!Next
    BY <2>1, SearchAsks
  <2>2. ASSUME NEW k \in Searches, Return(k) PROVE Promise!Next
    BY <2>2, ReturnAnswers
  <2>3. ASSUME NEW k \in Searches, NEW s \in Sources, NEW outcome \in Promise!Outcomes,
               s \in waiting[k], Report(k, s, outcome), UNCHANGED <<phase, chosen, expired>>
        PROVE  UNCHANGED Promise!vars
    <3>1. phase[k] # "done"
      BY <2>3, ReportSInv
    <3>2. \A j \in Searches : j # k => results'[j] = results[j]
      BY <2>3 DEF Report, SInv, SearchType
    <3>3. QED
      BY <2>3, <3>1, <3>2, Invisible
  <2>4. ASSUME NEW k \in Searches, NEW s \in Sources, Waiter(k, s)
        PROVE  UNCHANGED Promise!vars
    <3>1. CASE Forward(k, s)
      <4>1. resultChan[k][s] \in Promise!Outcomes
        BY <3>1 DEF Forward, IInv, PairType, Promise!Outcomes
      <4>2. QED
        BY <3>1, <4>1, <2>3 DEF Forward
    <3>2. CASE GiveUp(k, s)
      BY <3>2, <2>3 DEF GiveUp, Promise!Outcomes
    <3>3. QED
      BY <2>4, <3>1, <3>2 DEF Waiter
  <2>5. CASE UNCHANGED <<chosen, phase, results>>
    BY <2>5, Invisible
  <2>6. QED
    BY <2>1, <2>2, <2>4, <2>5
       DEF Next, vars, searchVars, Checks, Asker, StartRound, EndRound, CheckHealth,
           ApplyCheck, Stop, SeeStop, SearchVacancies, UpdateStatus, SendResult,
           Deadline, Clock, GoDown
<1>3. QED
  BY <1>1, <1>2, Invariance, PTL DEF Spec, ImplementsPromise, Promise!Spec
-----------------------------------------------------------------------------
(* Goroutines and their channels. *)

(* A channel holds nothing before its one send; a goroutine that waits has *)
(* another that asks; nobody asks for a search that has not begun.         *)
Paired ==
  \A k \in Searches, s \in Sources :
    /\ phase[k] = "new" => asking[k][s] = "none"
    /\ asking[k][s] # "gone" => resultChan[k][s] = "empty"
    /\ s \in waiting[k] => asking[k][s] # "none"

LEMMA NextPaired ==
  ASSUME IInv, Paired, [Next]_vars
  PROVE  Paired'
<1> SearchType /\ PairType
  BY DEF IInv, SInv
<1>1. ASSUME NEW k \in Searches, Search(k) PROVE Paired'
  <2>1. /\ UNCHANGED resultChan /\ phase[k] = "new"
        /\ \A j \in Searches : j # k => /\ asking'[j] = asking[j]
                                       /\ phase'[j] = phase[j] /\ waiting'[j] = waiting[j]
        /\ phase'[k] = "running" /\ waiting'[k] = SelectParsers
        /\ \A s \in Sources : asking'[k][s] = IF s \in SelectParsers THEN "asking" ELSE "none"
    BY <1>1 DEF Search, SearchType, PairType
  <2>2. \A s \in Sources : resultChan[k][s] = "empty"
    BY <2>1 DEF Paired
  <2>3. QED
    BY <2>1, <2>2 DEF Paired
<1>2. ASSUME NEW k \in Searches, NEW s \in Sources,
             SearchVacancies(k, s) \/ UpdateStatus(k, s) \/ SendResult(k, s)
      PROVE  Paired'
  <2>1. /\ UNCHANGED <<phase, waiting>>
        /\ asking[k][s] \in {"asking", "got", "told"} /\ asking'[k][s] # "none"
        /\ asking'[k][s] # "gone" => resultChan' = resultChan
        /\ \A j \in Searches, r \in Sources : j # k \/ r # s =>
              asking'[j][r] = asking[j][r] /\ resultChan'[j][r] = resultChan[j][r]
    BY <1>2 DEF SearchVacancies, UpdateStatus, SendResult, PairType, searchVars
  <2>2. QED
    BY <2>1 DEF Paired
<1>3. ASSUME NEW k \in Searches, NEW s \in Sources, Waiter(k, s)
      PROVE  Paired'
  <2>1. /\ UNCHANGED <<phase, asking>>
        /\ \A j \in Searches : waiting'[j] \subseteq waiting[j]
        /\ \A j \in Searches, r \in Sources :
              resultChan'[j][r] \in {"empty", resultChan[j][r]}
    <3>1. CASE Forward(k, s)
      BY <3>1 DEF Forward, Report, SearchType, PairType
    <3>2. CASE GiveUp(k, s)
      BY <3>2 DEF GiveUp, Report, SearchType, pairVars
    <3>3. QED
      BY <1>3, <3>1, <3>2 DEF Waiter
  <2>2. QED
    BY <2>1 DEF Paired
<1>4. ASSUME NEW k \in Searches, Return(k) PROVE Paired'
  BY <1>4 DEF Return, Paired, SearchType, pairVars
<1>5. CASE UNCHANGED <<phase, waiting, asking, resultChan>>
  BY <1>5 DEF Paired
<1>6. QED
  BY <1>1, <1>2, <1>3, <1>4, <1>5
     DEF Next, vars, searchVars, pairVars, Checks, Asker, StartRound, EndRound, CheckHealth,
         ApplyCheck, Stop, SeeStop, Deadline, Clock, GoDown

(* The safety behind NoGoroutineLeft: a goroutine that has its answer      *)
(* always finds room to send it, whether or not its search is over, for    *)
(* any number of searches.                                                 *)
THEOREM SendsNeverBlock ==
  Spec => [](\A k \in Searches, s \in Sources : asking[k][s] = "told" => ChanRoom(k, s))
<1>1. Init => Paired
  BY DEF Init, Paired
<1>2. IInv /\ Paired /\ [Next]_vars => Paired'
  BY NextPaired
<1>3. Paired =>
        \A k \in Searches, s \in Sources : asking[k][s] = "told" => ChanRoom(k, s)
  BY DEF Paired, ChanRoom
<1>4. QED
  BY <1>1, <1>2, <1>3, Invariance, PTL DEF Spec
-----------------------------------------------------------------------------
(* What a status may come to. *)

(* An answer of better times that is yet to be written to the status.      *)
GoodNews(s) ==
  \/ probe[s] = "ok"
  \/ \E k \in Searches : asking[k][s] = "got" /\ reply[k][s] = "ok"

Bygone(s) == s \in down /\ ~GoodNews(s)

(* No new good news of a source that is down, and without any its status   *)
(* does not improve.                                                       *)
LEMMA BygoneStep ==
  ASSUME IInv, NEW s \in Sources, Bygone(s), [Next]_vars
  PROVE  Bygone(s)' /\ (Usable(s)' => Usable(s))
<1> USE DEF Bygone, GoodNews, Usable
<1> PairType /\ StatusType /\ CheckType
  BY DEF IInv
<1>1. ASSUME NEW r \in Sources, CheckHealth(r) PROVE Bygone(s)' /\ (Usable(s)' => Usable(s))
  BY <1>1 DEF CheckHealth, Learn, CheckType, statusVars, searchVars, pairVars
<1>2. ASSUME NEW r \in Sources, ApplyCheck(r) PROVE Bygone(s)' /\ (Usable(s)' => Usable(s))
  <2>1. /\ UNCHANGED <<asking, reply, down>>
        /\ probe' = [probe EXCEPT ![r] = "none"] /\ SetStatus(r, probe[r])
    BY <1>2 DEF ApplyCheck, pairVars
  <2>2. CASE r = s
    <3>1. healthy'[s] = FALSE
      BY <2>1, <2>2 DEF SetStatus, StatusType
    <3>2. QED
      BY <2>1, <2>2, <3>1 DEF CheckType
  <2>3. CASE r # s
    BY <2>1, <2>3 DEF SetStatus, StatusType, CheckType
  <2>4. QED
    BY <2>2, <2>3
<1>3. ASSUME NEW k \in Searches, NEW r \in Sources, UpdateStatus(k, r)
      PROVE  Bygone(s)' /\ (Usable(s)' => Usable(s))
  <2>1. /\ UNCHANGED <<probe, down>> /\ asking[k][r] = "got"
        /\ reply' = [reply EXCEPT ![k][r] = "none"]
        /\ asking' = [asking EXCEPT ![k][r] = "told"] /\ SetStatus(r, reply[k][r])
    BY <1>3 DEF UpdateStatus, checkVars
  <2>2. Bygone(s)'
    BY <2>1 DEF PairType
  <2>3. CASE r = s
    <3>1. healthy'[s] = FALSE
      BY <2>1, <2>3 DEF SetStatus, StatusType
    <3>2. QED
      BY <2>2, <3>1
  <2>4. CASE r # s
    BY <2>1, <2>2, <2>4 DEF SetStatus, StatusType
  <2>5. QED
    BY <2>3, <2>4
<1>4. ASSUME NEW k \in Searches, NEW r \in Sources, SearchVacancies(k, r)
      PROVE  Bygone(s)' /\ (Usable(s)' => Usable(s))
  BY <1>4 DEF SearchVacancies, Learn, PairType, statusVars, checkVars
<1>5. ASSUME NEW k \in Searches, NEW r \in Sources, SendResult(k, r)
      PROVE  Bygone(s)' /\ (Usable(s)' => Usable(s))
  BY <1>5 DEF SendResult, PairType, statusVars, checkVars
<1>6. ASSUME NEW k \in Searches, Search(k) PROVE Bygone(s)' /\ (Usable(s)' => Usable(s))
  <2>1. /\ UNCHANGED <<reply, probe, down, healthy, age>>
        /\ \A j \in Searches, r \in Sources : asking'[j][r] = "got" => asking[j][r] = "got"
    BY <1>6 DEF Search, PairType, statusVars, checkVars
  <2>2. QED
    BY <2>1
<1>7. CASE Clock
  BY <1>7, SourceAssumption DEF Clock, StatusType, pairVars, checkVars
<1>8. CASE StartRound
  BY <1>8 DEF StartRound, pairVars, statusVars
<1>9. ASSUME NEW r \in Failing, GoDown(r) PROVE Bygone(s)' /\ (Usable(s)' => Usable(s))
  BY <1>9 DEF GoDown, pairVars, statusVars, checkVars
<1>10. CASE UNCHANGED <<asking, reply, probe, down, healthy, age>>
  BY <1>10
<1>11. QED
  BY <1>1, <1>2, <1>3, <1>4, <1>5, <1>6, <1>7, <1>8, <1>9, <1>10
     DEF Next, vars, pairVars, statusVars, checkVars, Checks, Asker, Waiter, EndRound, Stop,
         SeeStop, Forward, GiveUp, Deadline, Return

(* The safety behind DownIsMarked: once a source is down and the last good *)
(* answer from before is written, its status cannot become usable, and one *)
(* that is not usable stays so, whichever checks, searches and late        *)
(* goroutines write it.                                                    *)
THEOREM DownStaysMarked ==
  ASSUME NEW s \in Sources
  PROVE  Spec => [](Bygone(s) /\ ~Usable(s) => []~Usable(s))
<1>1. IInv /\ Bygone(s) /\ ~Usable(s) /\ [Next]_vars => Bygone(s)' /\ ~Usable(s)'
  BY BygoneStep
<1>2. QED
  BY <1>1, Invariance, PTL DEF Spec
-----------------------------------------------------------------------------
(* The end of the health checks. *)

Stopped == checker = "stopped"

(* A round is over when the checker waits, and it ends only when told to.  *)
RoundOver ==
  /\ checker # "checking" => AllChecked
  /\ Stopped => stopping

LEMMA NextRoundOver ==
  ASSUME IInv, RoundOver, [Next]_vars
  PROVE  /\ RoundOver'
         /\ Stopped => Stopped'
<1> CheckType
  BY DEF IInv
<1> USE DEF RoundOver, Stopped, AllChecked
<1>1. ASSUME NEW s \in Sources, CheckHealth(s) \/ ApplyCheck(s)
      PROVE  RoundOver' /\ UNCHANGED checker
  BY <1>1 DEF CheckHealth, ApplyCheck, CheckType, Replies
<1>2. CASE StartRound \/ EndRound \/ Stop \/ SeeStop
  BY <1>2 DEF StartRound, EndRound, Stop, SeeStop, checkVars
<1>3. CASE UNCHANGED <<checkVars, stopping>>
  BY <1>3 DEF checkVars
<1>4. QED
  BY <1>1, <1>2, <1>3
     DEF Next, vars, Checks, Asker, Waiter, Search, SearchVacancies, UpdateStatus,
         SendResult, Forward, GiveUp, Deadline, Return, Clock, GoDown

(* The safety behind StopEndsChecks: the checker ends between rounds, after *)
(* Stop, with no check of its own still running, and for good.             *)
THEOREM StopIsFinal ==
  Spec => [](Stopped => stopping /\ [](Stopped /\ AllChecked))
<1>1. Init => RoundOver
  BY DEF Init, Stopped, RoundOver
<1>2. IInv /\ RoundOver /\ [Next]_vars =>
        RoundOver' /\ (Stopped => Stopped')
  BY NextRoundOver
<1>3. RoundOver /\ Stopped => stopping /\ AllChecked
  BY DEF RoundOver, Stopped
<1>4. Spec => []RoundOver
  BY <1>1, <1>2, Invariance, PTL DEF Spec
<1>5. Spec => [](Stopped => []Stopped)
  BY <1>2, <1>4, Invariance, PTL DEF Spec
<1>6. QED
  BY <1>3, <1>4, <1>5, PTL
=============================================================================

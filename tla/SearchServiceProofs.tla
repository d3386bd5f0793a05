------------------------ MODULE SearchServiceProofs -------------------------
(***************************************************************************)
(* Theorems about SearchService for every set of queries, vacancies and    *)
(* workers and all TTLs: its types, by how much an index entry may outlive *)
(* the results it points to, and that these have its vacancy as long as no *)
(* job was given up and indexing was prompt.                               *)
(***************************************************************************)
EXTENDS SearchService, TLAPS

CacheType ==
  /\ searchCache \in [Queries -> [left : 0 .. SearchTTL, found : SUBSET Vacancies]]
  /\ vacancyIndex \in [Vacancies -> [left : 0 .. IndexTTL, query : Queries \cup {None}]]
  /\ vacancyDetails \in [Vacancies -> 0 .. IndexTTL]
  /\ strayDetails \in [Vacancies -> 0 .. IndexTTL]

WorkerType ==
  /\ at \in [Workers -> {"idle", "lookup", "ask", "store", "index", "answer",
                         "details", "askDetails", "keepDetails"}]
  /\ want \in [Workers -> Queries \cup Vacancies \cup {None}]
  /\ found \in [Workers -> SUBSET Vacancies]
  /\ todo \in [Workers -> SUBSET Vacancies]
  /\ failed \in [Workers -> BOOLEAN]

ConsoleType ==
  /\ tripped \in BOOLEAN
  /\ console \in {"menu", "wait", "open"}
  /\ mine \in Workers \cup {None}
  /\ opening \in [vacancy : Vacancies \cup {None}, query : Queries \cup {None}]
  /\ patient \in BOOLEAN

(* A search job is about a query and a details job about a vacancy; what   *)
(* is still to be indexed was found.                                       *)
JobMatches ==
  \A w \in Workers :
    /\ at[w] \in {"lookup", "ask", "store", "index"} => want[w] \in Queries
    /\ at[w] \in {"details", "askDetails", "keepDetails"} => want[w] \in Vacancies
    /\ at[w] = "index" => todo[w] \subseteq found[w]

(* An index entry in use names a query, also when item 2 has read it.      *)
EntryNamesQuery ==
  /\ \A v \in Vacancies : Live(v) => vacancyIndex[v].query \in Queries
  /\ console = "open" => opening.query \in Queries

TInv == CacheType /\ WorkerType /\ ConsoleType /\ JobMatches /\ EntryNamesQuery

(* Nothing is cached and nobody works.                                     *)
LEMMA InitTInv == Init => TInv
<1> SUFFICES ASSUME Init PROVE TInv
  OBVIOUS
<1>1. 0 \in 0 .. SearchTTL /\ 0 \in 0 .. IndexTTL
  BY ServiceAssumption
<1>2. CacheType
  BY <1>1 DEF Init, CacheType, NoResults, NoEntry
<1>3. WorkerType
  BY DEF Init, WorkerType
<1>4. ConsoleType
  BY DEF Init, ConsoleType, Menu
<1>5. JobMatches
  BY DEF Init, JobMatches
<1>6. EntryNamesQuery
  BY DEF Init, EntryNamesQuery, Live, NoEntry
<1>7. QED
  BY <1>2, <1>3, <1>4, <1>5, <1>6 DEF TInv

(* One more tick keeps what is left of a value in its range.               *)
LEMMA LessInRange ==
  ASSUME NEW T \in Nat, NEW n \in 0 .. T
  PROVE  Less(n) \in 0 .. T
BY DEF Less

(* The console's steps keep the types.                                     *)
LEMMA ConsoleTInv == TInv /\ Console => TInv'
<1> SUFFICES ASSUME TInv, Console PROVE TInv'
  OBVIOUS
<1> USE DEF TInv, CacheType, WorkerType, ConsoleType, JobMatches
<1>1. ASSUME NEW w \in Workers, NEW q \in Queries, MultiSearch(w, q) PROVE TInv'
  BY <1>1 DEF MultiSearch, Job, caches, EntryNamesQuery, Live
<1>2. ASSUME NEW w \in Workers, NEW v \in Vacancies, GetFullVacancyDetails(w, v) PROVE TInv'
  BY <1>2 DEF GetFullVacancyDetails, Job, caches, EntryNamesQuery, Live
<1>3. ASSUME NEW w \in Workers, Receive(w) PROVE TInv'
  BY <1>3 DEF Receive, Free, caches, EntryNamesQuery, Live
<1>4. CASE GiveUp
  BY <1>4 DEF GiveUp, workerVars, caches, EntryNamesQuery, Live
<1>5. ASSUME NEW v \in Vacancies, ReadIndex(v) PROVE TInv'
  BY <1>5 DEF ReadIndex, workerVars, caches, EntryNamesQuery, Live
<1>6. CASE ShowVacancy
  BY <1>6 DEF ShowVacancy, Menu, workerVars, caches, EntryNamesQuery, Live
<1>7. CASE DeleteStale
  <2>1. 0 \in 0 .. IndexTTL
    BY ServiceAssumption
  <2>2. QED
    BY <1>7, <2>1 DEF DeleteStale, Menu, NoEntry, workerVars, EntryNamesQuery, Live
<1>8. QED
  BY <1>1, <1>2, <1>3, <1>4, <1>5, <1>6, <1>7 DEF Console

(* So do a worker's.                                                       *)
LEMMA WorkerTInv == ASSUME TInv, NEW w \in Workers, Worker(w) PROVE TInv'
<1> USE DEF TInv, CacheType, WorkerType, ConsoleType, JobMatches, consoleVars
<1>1. CASE NoSlot(w) \/ Refuse(w) \/ Drop(w)
  <2>1. CASE NoSlot(w)
    BY <2>1 DEF NoSlot, Answer, caches, EntryNamesQuery, Live
  <2>2. CASE Refuse(w)
    <3>1. at[w] = "lookup" => searchCache[want[w]].found \in SUBSET Vacancies
      OBVIOUS
    <3>2. \E S \in SUBSET Vacancies : found' = [found EXCEPT ![w] = S]
      BY <2>2, <3>1 DEF Refuse
    <3>3. QED
      BY <2>2, <3>2 DEF Refuse, Answer, caches, EntryNamesQuery, Live
  <2>3. CASE Drop(w)
    BY <2>3 DEF Drop, Free, caches, EntryNamesQuery, Live
  <2>4. QED
    BY <1>1, <2>1, <2>2, <2>3
<1>2. CASE LookupHit(w) \/ LookupMiss(w) \/ AskSources(w)
  <2>1. CASE LookupHit(w)
    <3>1. searchCache[want[w]].found \in SUBSET Vacancies
      BY <2>1 DEF LookupHit
    <3>2. QED
      BY <2>1, <3>1 DEF LookupHit, Answer, caches, EntryNamesQuery, Live
  <2>2. CASE LookupMiss(w)
    BY <2>2 DEF LookupMiss, caches, EntryNamesQuery, Live
  <2>3. CASE AskSources(w)
    BY <2>3 DEF AskSources, caches, EntryNamesQuery, Live
  <2>4. QED
    BY <1>2, <2>1, <2>2, <2>3
<1>3. CASE CacheResults(w)
  <2>1. SearchTTL \in 0 .. SearchTTL
    BY ServiceAssumption
  <2>2. QED
    BY <1>3, <2>1 DEF CacheResults, EntryNamesQuery, Live
<1>4. ASSUME NEW v \in Vacancies, IndexVacancy(w, v) PROVE TInv'
  <2>1. IndexTTL \in 0 .. IndexTTL
    BY ServiceAssumption
  <2>2. EntryNamesQuery'
    BY <1>4 DEF IndexVacancy, EntryNamesQuery, Live
  <2>3. QED
    BY <1>4, <2>1, <2>2 DEF IndexVacancy
<1>5. CASE Indexed(w) \/ DetailsLookup(w) \/ AskDetails(w) \/ DetailsFail(w)
  <2>1. CASE Indexed(w)
    BY <2>1 DEF Indexed, Answer, caches, EntryNamesQuery, Live
  <2>2. CASE DetailsLookup(w)
    <3>1. UNCHANGED <<caches, want, found, todo, tripped, consoleVars>>
      BY <2>2 DEF DetailsLookup
    <3>2. CASE vacancyDetails[want[w]] > 0
      BY <2>2, <3>1, <3>2 DEF DetailsLookup, Answer, caches, EntryNamesQuery, Live
    <3>3. CASE ~(vacancyDetails[want[w]] > 0)
      BY <2>2, <3>1, <3>3 DEF DetailsLookup, caches, EntryNamesQuery, Live
    <3>4. QED
      BY <3>2, <3>3
  <2>3. CASE AskDetails(w)
    BY <2>3 DEF AskDetails, caches, EntryNamesQuery, Live
  <2>4. CASE DetailsFail(w)
    BY <2>4 DEF DetailsFail, Answer, caches, EntryNamesQuery, Live
  <2>5. QED
    BY <1>5, <2>1, <2>2, <2>3, <2>4
<1>6. CASE KeepDetails(w)
  <2>1. IndexTTL \in 0 .. IndexTTL
    BY ServiceAssumption
  <2>2. QED
    BY <1>6, <2>1 DEF KeepDetails, Answer, EntryNamesQuery, Live
<1>7. QED
  BY <1>1, <1>2, <1>3, <1>4, <1>5, <1>6 DEF Worker

(* And the clock's.                                                        *)
LEMMA ClockTInv == TInv /\ Clock => TInv'
<1> SUFFICES ASSUME TInv, Clock PROVE TInv'
  OBVIOUS
<1> USE DEF TInv, CacheType
<1>1. SearchTTL \in Nat /\ IndexTTL \in Nat /\ 0 \in 0 .. SearchTTL /\ 0 \in 0 .. IndexTTL
  BY ServiceAssumption
<1>2. ASSUME NEW q \in Queries
      PROVE  searchCache'[q] \in [left : 0 .. SearchTTL, found : SUBSET Vacancies]
  BY <1>1, LessInRange DEF Clock, NoResults
<1>3. ASSUME NEW v \in Vacancies
      PROVE  vacancyIndex'[v] \in [left : 0 .. IndexTTL, query : Queries \cup {None}]
  BY <1>1, LessInRange DEF Clock, NoEntry
<1>4. ASSUME NEW v \in Vacancies
      PROVE  Less(vacancyDetails[v]) \in 0 .. IndexTTL /\ Less(strayDetails[v]) \in 0 .. IndexTTL
  BY <1>1, LessInRange
<1>5. CacheType'
  BY <1>2, <1>3, <1>4 DEF Clock
<1>6. WorkerType' /\ ConsoleType' /\ JobMatches'
  BY DEF Clock, WorkerType, ConsoleType, JobMatches, workerVars, consoleVars
<1>7. EntryNamesQuery'
  BY DEF Clock, EntryNamesQuery, Live, NoEntry, consoleVars
<1>8. QED
  BY <1>5, <1>6, <1>7

(* Every step keeps the types.                                             *)
LEMMA NextTInv == TInv /\ [Next]_vars => TInv'
<1> SUFFICES ASSUME TInv, [Next]_vars PROVE TInv'
  OBVIOUS
<1>1. CASE Console
  BY <1>1, ConsoleTInv
<1>2. ASSUME NEW w \in Workers, Worker(w) PROVE TInv'
  BY <1>2, WorkerTInv
<1>3. CASE Recover
  BY <1>3 DEF Recover, caches, workerVars, consoleVars, TInv, CacheType, WorkerType,
              ConsoleType, JobMatches, EntryNamesQuery, Live
<1>4. CASE Clock
  BY <1>4, ClockTInv
<1>5. CASE UNCHANGED vars
  BY <1>5 DEF vars, caches, workerVars, consoleVars, TInv, CacheType, WorkerType,
              ConsoleType, JobMatches, EntryNamesQuery, Live
<1>6. QED
  BY <1>1, <1>2, <1>3, <1>4, <1>5 DEF Next

(* The two history variables: no worker has been indexing for longer than  *)
(* the longest delay.                                                      *)
HistoryType ==
  /\ held \in [Workers -> 0 .. SearchTTL]
  /\ delay \in 0 .. SearchTTL
  /\ \A w \in Workers : held[w] <= delay

LEMMA InitHistory == Init => HistoryType
BY ServiceAssumption DEF Init, HistoryType

(* They keep their types, and the longest delay never shrinks.             *)
LEMMA NextHistory == HistoryType /\ [Next]_vars => HistoryType' /\ delay' >= delay
<1> SUFFICES ASSUME HistoryType, [Next]_vars PROVE HistoryType' /\ delay' >= delay
  OBVIOUS
<1>1. SearchTTL \in Nat \ {0}
  BY ServiceAssumption
<1>2. CASE UNCHANGED indexing
  BY <1>1, <1>2 DEF indexing, HistoryType
<1>3. ASSUME NEW w \in Workers, Indexed(w) PROVE HistoryType' /\ delay' >= delay
  BY <1>1, <1>3 DEF Indexed, HistoryType
<1>4. CASE Clock
  <2>1. /\ held' = [w \in Workers |-> IF at[w] = "index" THEN More(held[w]) ELSE held[w]]
        /\ delay' = IF \E w \in Workers : held'[w] > delay THEN More(delay) ELSE delay
    BY <1>4 DEF Clock
  <2>2. ASSUME NEW w \in Workers
        PROVE  held'[w] \in 0 .. SearchTTL /\ held'[w] <= held[w] + 1
    BY <1>1, <2>1 DEF HistoryType, More
  <2>3. delay' \in 0 .. SearchTTL /\ delay' >= delay
    BY <1>1, <2>1 DEF HistoryType, More
  <2>4. CASE \E w \in Workers : held'[w] > delay
    <3>1. delay' = delay + 1
      BY <1>1, <2>1, <2>2, <2>4 DEF HistoryType, More
    <3>2. QED
      BY <1>1, <2>1, <2>2, <2>3, <3>1 DEF HistoryType
  <2>5. CASE ~\E w \in Workers : held'[w] > delay
    BY <1>1, <2>1, <2>2, <2>3, <2>5 DEF HistoryType
  <2>6. QED
    BY <2>4, <2>5
<1>5. QED
  BY <1>2, <1>3, <1>4
     DEF Next, vars, Console, MultiSearch, GetFullVacancyDetails, Job, Receive, GiveUp, ReadIndex,
         ShowVacancy, DeleteStale, Worker, NoSlot, Refuse, LookupHit, LookupMiss, AskSources,
         CacheResults, IndexVacancy, DetailsLookup, AskDetails, DetailsFail, KeepDetails, Drop,
         Recover

(* The caches, the workers and the console keep to their types: no value   *)
(* is kept longer than its TTL, for any queries, vacancies and workers.    *)
THEOREM TypeCorrect == Spec => []TypeOK
<1>1. TInv /\ HistoryType => TypeOK
  BY DEF TInv, CacheType, WorkerType, ConsoleType, HistoryType, TypeOK
<1>2. HistoryType /\ [Next]_vars => HistoryType'
  BY NextHistory
<1>3. QED
  BY <1>1, <1>2, InitTInv, InitHistory, NextTInv, PTL DEF Spec
-----------------------------------------------------------------------------
(* The results a worker is indexing were stored for SearchTTL when it      *)
(* began, or have been stored again since.                                 *)
ResultsHeld ==
  \A w \in Workers : at[w] = "index" => searchCache[want[w]].left + held[w] >= SearchTTL

OInv == TInv /\ HistoryType /\ ResultsHeld /\ SearchOutlivesIndex

(* What an index entry finds after a step that leaves both caches alone.   *)
LEMMA SameEntries ==
  ASSUME searchCache' = searchCache, vacancyIndex' = vacancyIndex, delay' = delay,
         SearchOutlivesIndex
  PROVE  SearchOutlivesIndex'
BY DEF SearchOutlivesIndex, Live

(* The query and the numbers behind an entry in use.                       *)
LEMMA EntryNumbers ==
  ASSUME OInv, NEW v \in Vacancies, Live(v)
  PROVE  /\ vacancyIndex[v].query \in Queries
         /\ vacancyIndex[v].left \in 1 .. IndexTTL
         /\ searchCache[vacancyIndex[v].query].left \in 0 .. SearchTTL
         /\ delay \in 0 .. SearchTTL
         /\ vacancyIndex[v].left + SearchTTL
              <= searchCache[vacancyIndex[v].query].left + IndexTTL + delay
<1>1. vacancyIndex[v].query \in Queries /\ vacancyIndex[v].left \in 0 .. IndexTTL
  BY DEF OInv, TInv, EntryNamesQuery, CacheType
<1>2. searchCache[vacancyIndex[v].query].left \in 0 .. SearchTTL
  BY <1>1 DEF OInv, TInv, CacheType
<1>3. QED
  BY <1>1, <1>2, ServiceAssumption DEF OInv, HistoryType, SearchOutlivesIndex, Live

(* Where indexing was prompt, an entry in use has results.                 *)
LEMMA EntryHasResults ==
  ASSUME OInv, Prompt, NEW v \in Vacancies, Live(v)
  PROVE  searchCache[vacancyIndex[v].query].left # 0
BY EntryNumbers, ServiceAssumption DEF Prompt

(* A step of a worker: an entry it writes is late by what it held.         *)
LEMMA WorkerOInv ==
  ASSUME OInv, NEW w \in Workers, Worker(w)
  PROVE  ResultsHeld' /\ SearchOutlivesIndex'
<1>1. CASE CacheResults(w)
  <2>1. want[w] \in Queries
    BY <1>1 DEF CacheResults, OInv, TInv, JobMatches
  <2>2. /\ searchCache' = [searchCache EXCEPT ![want[w]] = [left |-> SearchTTL, found |-> found[w]]]
        /\ at' = [at EXCEPT ![w] = "index"]
        /\ UNCHANGED <<want, vacancyIndex, held, delay>>
    BY <1>1 DEF CacheResults, indexing
  <2>3. searchCache'[want[w]].left = SearchTTL
    BY <2>1, <2>2 DEF OInv, TInv, CacheType
  <2>4. \A q \in Queries : q # want[w] => searchCache'[q] = searchCache[q]
    BY <2>2 DEF OInv, TInv, CacheType
  <2>5. ASSUME NEW u \in Workers, at'[u] = "index"
        PROVE  searchCache'[want'[u]].left + held'[u] >= SearchTTL
    <3>1. held[u] \in 0 .. SearchTTL /\ SearchTTL \in Nat
      BY ServiceAssumption DEF OInv, HistoryType
    <3>2. CASE want[u] = want[w]
      BY <2>2, <2>3, <3>1, <3>2
    <3>3. CASE want[u] # want[w]
      <4>1. at[u] = "index" /\ want[u] \in Queries
        BY <2>2, <2>5, <3>3 DEF OInv, TInv, WorkerType, JobMatches
      <4>2. QED
        BY <2>2, <2>4, <3>3, <4>1 DEF OInv, ResultsHeld
    <3>4. QED
      BY <3>2, <3>3
  <2>6. ASSUME NEW v \in Vacancies, Live(v)'
        PROVE  vacancyIndex'[v].left + SearchTTL
                 <= searchCache'[vacancyIndex'[v].query].left + IndexTTL + delay'
    <3>1. vacancyIndex'[v] = vacancyIndex[v] /\ Live(v)
      BY <2>2, <2>6 DEF Live
    <3>2. QED
      BY <2>2, <2>3, <2>4, <3>1, EntryNumbers, ServiceAssumption
  <2>7. QED
    BY <2>5, <2>6 DEF ResultsHeld, SearchOutlivesIndex
<1>2. ASSUME NEW u \in Vacancies, IndexVacancy(w, u)
      PROVE  ResultsHeld' /\ SearchOutlivesIndex'
  <2>1. /\ at[w] = "index"
        /\ vacancyIndex' = [vacancyIndex EXCEPT ![u] = [left |-> IndexTTL, query |-> want[w]]]
        /\ UNCHANGED <<searchCache, at, want, held, delay>>
    BY <1>2 DEF IndexVacancy, indexing
  <2>2. searchCache[want[w]].left + held[w] >= SearchTTL
    BY <2>1 DEF OInv, ResultsHeld
  <2>3. searchCache[want[w]].left \in Nat /\ held[w] \in Nat /\ delay \in Nat /\ held[w] <= delay
    <3>1. want[w] \in Queries
      BY <2>1 DEF OInv, TInv, JobMatches
    <3>2. QED
      BY <3>1, ServiceAssumption DEF OInv, TInv, CacheType, HistoryType
  <2>4. vacancyIndex'[u] = [left |-> IndexTTL, query |-> want[w]]
    BY <2>1 DEF OInv, TInv, CacheType
  <2>5. \A v \in Vacancies : v # u => vacancyIndex'[v] = vacancyIndex[v]
    BY <2>1 DEF OInv, TInv, CacheType
  <2>6. ResultsHeld'
    BY <2>1 DEF OInv, ResultsHeld
  <2>7. vacancyIndex'[u].left + SearchTTL
          <= searchCache'[vacancyIndex'[u].query].left + IndexTTL + delay'
    BY <2>1, <2>2, <2>3, <2>4, ServiceAssumption
  <2>8. QED
    BY <2>1, <2>5, <2>6, <2>7 DEF OInv, SearchOutlivesIndex, Live
<1>3. CASE NoSlot(w) \/ Refuse(w) \/ LookupHit(w) \/ LookupMiss(w) \/ AskSources(w) \/ Indexed(w)
           \/ DetailsLookup(w) \/ AskDetails(w) \/ DetailsFail(w) \/ KeepDetails(w) \/ Drop(w)
  <2>1. UNCHANGED <<searchCache, vacancyIndex, delay>>
    BY <1>3 DEF NoSlot, Refuse, LookupHit, LookupMiss, AskSources, Indexed, DetailsLookup,
                AskDetails, DetailsFail, KeepDetails, Drop, caches, indexing
  <2>2. \E s \in {"answer", "ask", "store", "askDetails", "keepDetails", "idle"} :
          at' = [at EXCEPT ![w] = s]
    BY <1>3 DEF NoSlot, Refuse, LookupHit, LookupMiss, AskSources, Indexed, DetailsLookup,
                AskDetails, DetailsFail, KeepDetails, Drop, Free, Answer
  <2>3. \A u \in Workers : u # w => want'[u] = want[u] /\ held'[u] = held[u]
    BY <1>3 DEF NoSlot, Refuse, LookupHit, LookupMiss, AskSources, Indexed, DetailsLookup,
                AskDetails, DetailsFail, KeepDetails, Drop, Free, indexing,
                OInv, TInv, WorkerType, HistoryType
  <2>4. ResultsHeld'
    BY <2>1, <2>2, <2>3 DEF ResultsHeld, OInv, TInv, WorkerType
  <2>5. QED
    BY <2>1, <2>4, SameEntries DEF OInv
<1>4. QED
  BY <1>1, <1>2, <1>3 DEF Worker

(* What a tick leaves of the results of a query.                           *)
LEMMA TickResults ==
  ASSUME TInv, Clock, NEW q \in Queries
  PROVE  /\ searchCache[q].left \in Nat
         /\ searchCache'[q].left =
              IF searchCache[q].left > 0 THEN searchCache[q].left - 1 ELSE 0
<1>1. searchCache[q] \in [left : 0 .. SearchTTL, found : SUBSET Vacancies]
  BY DEF TInv, CacheType
<1>2. searchCache[q].left \in Nat
  BY <1>1, ServiceAssumption
<1>3. searchCache'[q] = IF searchCache[q].left > 1
                          THEN [searchCache[q] EXCEPT !.left = Less(@)] ELSE NoResults
  BY DEF Clock
<1>4. QED
  BY <1>1, <1>2, <1>3 DEF Less, NoResults

(* A tick takes as much from the results as from the entries and adds as   *)
(* much to the time of a worker that is indexing.                          *)
LEMMA ClockOInv == OInv /\ HistoryType' /\ Clock => ResultsHeld' /\ SearchOutlivesIndex'
<1> SUFFICES ASSUME OInv, HistoryType', Clock PROVE ResultsHeld' /\ SearchOutlivesIndex'
  OBVIOUS
<1>1. SearchTTL \in Nat /\ IndexTTL \in Nat
  BY ServiceAssumption
<1>2. ASSUME NEW w \in Workers, at'[w] = "index"
      PROVE  searchCache'[want'[w]].left + held'[w] >= SearchTTL
  <2>1. at[w] = "index" /\ want'[w] = want[w]
    BY <1>2 DEF Clock, workerVars
  <2>2. want[w] \in Queries /\ searchCache[want[w]].left + held[w] >= SearchTTL
    BY <2>1 DEF OInv, TInv, JobMatches, ResultsHeld
  <2>3. held[w] \in 0 .. SearchTTL /\ held'[w] = More(held[w])
    BY <2>1 DEF Clock, OInv, HistoryType
  <2>4. QED
    BY <1>1, <2>1, <2>2, <2>3, TickResults DEF More, OInv
<1>3. ASSUME NEW v \in Vacancies, Live(v)'
      PROVE  vacancyIndex'[v].left + SearchTTL
               <= searchCache'[vacancyIndex'[v].query].left + IndexTTL + delay'
  <2>1. vacancyIndex[v].left \in Nat /\ vacancyIndex[v].left > 1
    BY <1>3, <1>1 DEF Clock, Live, NoEntry, OInv, TInv, CacheType
  <2>2. vacancyIndex'[v] = [vacancyIndex[v] EXCEPT !.left = vacancyIndex[v].left - 1]
    BY <2>1 DEF Clock, Less
  <2>3. /\ vacancyIndex'[v].left = vacancyIndex[v].left - 1
        /\ vacancyIndex'[v].query = vacancyIndex[v].query
    BY <2>2 DEF OInv, TInv, CacheType
  <2>4. Live(v) /\ vacancyIndex[v].query \in Queries
    BY <2>1 DEF OInv, TInv, EntryNamesQuery, Live
  <2>5. delay' >= delay /\ delay' \in Nat
    BY <1>1, NextHistory DEF Next, OInv, HistoryType
  <2> DEFINE q == vacancyIndex[v].query
  <2>6. searchCache'[q].left >= searchCache[q].left - 1 /\ searchCache'[q].left \in Nat
    BY <2>4, TickResults DEF OInv
  <2>7. QED
    BY <1>1, <2>1, <2>3, <2>4, <2>5, <2>6, EntryNumbers
<1>4. QED
  BY <1>2, <1>3 DEF ResultsHeld, SearchOutlivesIndex

(* The console only empties the index.                                     *)
LEMMA ConsoleOInv == OInv /\ Console => ResultsHeld' /\ SearchOutlivesIndex'
<1> SUFFICES ASSUME OInv, Console PROVE ResultsHeld' /\ SearchOutlivesIndex'
  OBVIOUS
<1>1. CASE DeleteStale
  <2>1. SearchOutlivesIndex'
    BY <1>1 DEF DeleteStale, SearchOutlivesIndex, Live, NoEntry
  <2>2. QED
    BY <1>1, <2>1 DEF DeleteStale, ResultsHeld, OInv, workerVars, indexing
<1>2. ASSUME NEW w \in Workers, NEW kind \in {"lookup", "details"}, NEW x, Job(w, kind, x)
      PROVE  ResultsHeld' /\ SearchOutlivesIndex'
  <2>1. SearchOutlivesIndex'
    BY <1>2, SameEntries DEF Job, caches, OInv, indexing
  <2>2. QED
    BY <1>2, <2>1 DEF Job, caches, ResultsHeld, OInv, TInv, WorkerType, indexing
<1>3. ASSUME NEW w \in Workers, Receive(w) PROVE ResultsHeld' /\ SearchOutlivesIndex'
  <2>1. SearchOutlivesIndex'
    BY <1>3, SameEntries DEF Receive, caches, OInv, indexing
  <2>2. QED
    BY <1>3, <2>1 DEF Receive, Free, caches, ResultsHeld, OInv, TInv, WorkerType, indexing
<1>4. ASSUME UNCHANGED caches, UNCHANGED workerVars, UNCHANGED indexing
      PROVE  ResultsHeld' /\ SearchOutlivesIndex'
  BY <1>4, SameEntries DEF caches, workerVars, indexing, ResultsHeld, OInv
<1>5. CASE GiveUp \/ ShowVacancy \/ \E v \in Vacancies : ReadIndex(v)
  BY <1>4, <1>5 DEF GiveUp, ShowVacancy, ReadIndex
<1>6. QED
  BY <1>1, <1>2, <1>3, <1>5 DEF Console, MultiSearch, GetFullVacancyDetails

LEMMA NextOInv == OInv /\ [Next]_vars => OInv'
<1> SUFFICES ASSUME OInv, [Next]_vars PROVE OInv'
  OBVIOUS
<1>1. TInv' /\ HistoryType'
  BY NextTInv, NextHistory DEF OInv
<1>2. CASE Recover \/ UNCHANGED vars
  <2>1. UNCHANGED <<caches, workerVars, indexing>>
    BY <1>2 DEF Recover, vars
  <2>2. QED
    BY <1>1, <2>1, SameEntries DEF caches, workerVars, indexing, ResultsHeld, OInv
<1>3. QED
  BY <1>1, <1>2, ConsoleOInv, WorkerOInv, ClockOInv DEF Next, OInv

LEMMA InitOInv == Init => OInv
<1> SUFFICES ASSUME Init PROVE OInv
  OBVIOUS
<1>1. ResultsHeld
  BY DEF Init, ResultsHeld
<1>2. SearchOutlivesIndex
  BY DEF Init, SearchOutlivesIndex, Live, NoEntry
<1>3. QED
  BY <1>1, <1>2, InitTInv, InitHistory DEF OInv

(* For all TTLs: an index entry outlives the results it points to by no    *)
(* more than its TTL exceeds theirs plus the longest time that indexing    *)
(* took, however the searches of abandoned jobs overlap.                   *)
THEOREM SearchOutlivesIndexHolds == Spec => []SearchOutlivesIndex
<1>1. OInv => SearchOutlivesIndex
  BY DEF OInv
<1>2. QED
  BY <1>1, NextOInv, InitOInv, PTL DEF Spec
-----------------------------------------------------------------------------
(* While the console is patient, only the job it waits for is at work, and *)
(* what that job replaces in the cache has expired; while indexing is      *)
(* prompt, no entry is left that points to it.                             *)
OneJob == \A w \in Workers : at[w] # "idle" => console = "wait" /\ mine = w

NewResults ==
  \A w \in Workers :
    /\ at[w] \in {"ask", "store"} => searchCache[want[w]].left = 0
    /\ at[w] = "index" => found[w] \subseteq searchCache[want[w]].found

OpenIsFresh ==
  console = "open" => \/ searchCache[opening.query].left = 0
                      \/ opening.vacancy \in searchCache[opening.query].found

EntriesFresh == \A v \in Vacancies : Live(v) => v \in searchCache[vacancyIndex[v].query].found

Fresh == OneJob /\ NewResults /\ OpenIsFresh /\ EntriesFresh

FInv == OInv /\ (patient /\ Prompt => Fresh)

LEMMA InitFInv == Init => FInv
<1> SUFFICES ASSUME Init PROVE FInv
  OBVIOUS
<1>1. OneJob /\ NewResults /\ OpenIsFresh
  BY DEF Init, OneJob, NewResults, OpenIsFresh
<1>2. EntriesFresh
  BY DEF Init, EntriesFresh, Live, NoEntry
<1>3. QED
  BY <1>1, <1>2, InitOInv DEF FInv, Fresh

(* A step that leaves the caches and what is open alone.                   *)
LEMMA SameFresh ==
  ASSUME searchCache' = searchCache, vacancyIndex' = vacancyIndex,
         console' # "open", EntriesFresh
  PROVE  OpenIsFresh' /\ EntriesFresh'
BY DEF OpenIsFresh, EntriesFresh, Live

(* The worker with the one job stores and indexes what it found.           *)
LEMMA WorkerFresh ==
  ASSUME OInv, Prompt, Fresh, NEW w \in Workers, Worker(w)
  PROVE  Fresh'
<1>1. at[w] # "idle"
  BY DEF Worker, NoSlot, Refuse, LookupHit, LookupMiss, AskSources, CacheResults, IndexVacancy,
         Indexed, DetailsLookup, AskDetails, DetailsFail, KeepDetails, Drop
<1>2. console = "wait" /\ mine = w /\ \A u \in Workers : u # w => at[u] = "idle"
  BY <1>1 DEF Fresh, OneJob
<1>3. console' = console /\ mine' = mine
  BY DEF Worker, NoSlot, Refuse, LookupHit, LookupMiss, AskSources, CacheResults, IndexVacancy,
         Indexed, DetailsLookup, AskDetails, DetailsFail, KeepDetails, Drop, consoleVars
<1>4. \A u \in Workers : u # w => at'[u] = at[u]
  BY DEF Worker, NoSlot, Refuse, LookupHit, LookupMiss, AskSources, CacheResults, IndexVacancy,
         Indexed, DetailsLookup, AskDetails, DetailsFail, KeepDetails, Drop, Free, Answer,
         OInv, TInv, WorkerType
<1>5. OneJob'
  BY <1>2, <1>3, <1>4 DEF OneJob
<1>6. CASE CacheResults(w)
  <2>1. at[w] = "store" /\ want[w] \in Queries
    BY <1>6 DEF CacheResults, OInv, TInv, JobMatches
  <2>2. /\ searchCache' = [searchCache EXCEPT ![want[w]] = [left |-> SearchTTL, found |-> found[w]]]
        /\ at' = [at EXCEPT ![w] = "index"]
        /\ UNCHANGED <<want, found, vacancyIndex>>
    BY <1>6 DEF CacheResults
  <2>3. searchCache'[want[w]] = [left |-> SearchTTL, found |-> found[w]]
    BY <2>1, <2>2 DEF OInv, TInv, CacheType
  <2>4. \A q \in Queries : q # want[w] => searchCache'[q] = searchCache[q]
    BY <2>2 DEF OInv, TInv, CacheType
  <2>5. NewResults'
    BY <1>2, <1>4, <2>2, <2>3 DEF NewResults, OInv, TInv, WorkerType
  <2>6. ASSUME NEW v \in Vacancies, Live(v)
        PROVE  vacancyIndex[v].query \in Queries /\ vacancyIndex[v].query # want[w]
    <3>1. searchCache[want[w]].left = 0
      BY <2>1 DEF Fresh, NewResults
    <3>2. QED
      BY <2>6, <3>1, EntryNumbers, EntryHasResults
  <2>7. EntriesFresh'
    BY <2>2, <2>4, <2>6 DEF Fresh, EntriesFresh, Live
  <2>8. OpenIsFresh'
    BY <1>2, <1>3 DEF OpenIsFresh
  <2>9. QED
    BY <1>5, <2>5, <2>7, <2>8 DEF Fresh
<1>7. ASSUME NEW u \in Vacancies, IndexVacancy(w, u) PROVE Fresh'
  <2>1. /\ at[w] = "index" /\ u \in todo[w]
        /\ vacancyIndex' = [vacancyIndex EXCEPT ![u] = [left |-> IndexTTL, query |-> want[w]]]
        /\ UNCHANGED <<searchCache, at, want, found>>
    BY <1>7 DEF IndexVacancy
  <2>2. u \in searchCache[want[w]].found
    BY <2>1 DEF OInv, TInv, JobMatches, Fresh, NewResults
  <2>3. vacancyIndex'[u] = [left |-> IndexTTL, query |-> want[w]]
    BY <2>1 DEF OInv, TInv, CacheType
  <2>4. \A v \in Vacancies : v # u => vacancyIndex'[v] = vacancyIndex[v]
    BY <2>1 DEF OInv, TInv, CacheType
  <2>5. EntriesFresh'
    BY <2>1, <2>2, <2>3, <2>4 DEF Fresh, EntriesFresh, Live
  <2>6. NewResults' /\ OpenIsFresh'
    BY <1>2, <1>3, <2>1 DEF Fresh, NewResults, OpenIsFresh
  <2>7. QED
    BY <1>5, <2>5, <2>6 DEF Fresh
<1>8. CASE NoSlot(w) \/ Refuse(w) \/ LookupHit(w) \/ LookupMiss(w) \/ AskSources(w) \/ Indexed(w)
           \/ DetailsLookup(w) \/ AskDetails(w) \/ DetailsFail(w) \/ KeepDetails(w) \/ Drop(w)
  <2>1. UNCHANGED <<searchCache, vacancyIndex>>
    BY <1>8 DEF NoSlot, Refuse, LookupHit, LookupMiss, AskSources, Indexed, DetailsLookup,
                AskDetails, DetailsFail, KeepDetails, Drop, caches
  <2>2. at'[w] \in {"ask", "store"} => want'[w] = want[w] /\ searchCache[want[w]].left = 0
    BY <1>8 DEF NoSlot, Refuse, LookupHit, LookupMiss, AskSources, Indexed, DetailsLookup,
                AskDetails, DetailsFail, KeepDetails, Drop, Free, Answer,
                OInv, TInv, WorkerType, Fresh, NewResults
  <2>3. at'[w] # "index"
    BY <1>8 DEF NoSlot, Refuse, LookupHit, LookupMiss, AskSources, Indexed, DetailsLookup,
                AskDetails, DetailsFail, KeepDetails, Drop, Free, Answer, OInv, TInv, WorkerType
  <2>4. NewResults'
    BY <1>2, <1>4, <2>1, <2>2, <2>3 DEF NewResults
  <2>5. OpenIsFresh' /\ EntriesFresh'
    BY <1>2, <1>3, <2>1, SameFresh DEF Fresh
  <2>6. QED
    BY <1>5, <2>4, <2>5 DEF Fresh
<1>9. QED
  BY <1>6, <1>7, <1>8 DEF Worker

(* Results that are not older than a prompt delay have not expired.        *)
LEMMA NotZero ==
  ASSUME NEW left \in Nat, NEW h \in Nat, NEW d \in Nat,
         h <= d, IndexTTL + d <= SearchTTL, left + h >= SearchTTL
  PROVE  left # 0
BY ServiceAssumption

(* Nor have those an entry in use points to.                               *)
LEMMA NotGone ==
  ASSUME NEW entry \in Nat, NEW left \in Nat, NEW d \in Nat,
         entry > 0, IndexTTL + d <= SearchTTL, entry + SearchTTL <= left + IndexTTL + d
  PROVE  left # 0
BY ServiceAssumption

(* While indexing is prompt, results expire no earlier than the entries    *)
(* that point to them, and not under the worker that indexes them.         *)
LEMMA ClockFresh == OInv /\ OInv' /\ Prompt' /\ Fresh /\ Clock => Fresh'
<1> SUFFICES ASSUME OInv, OInv', Prompt', Fresh, Clock PROVE Fresh'
  OBVIOUS
<1>1. UNCHANGED <<workerVars, consoleVars>> /\ IndexTTL + delay' <= SearchTTL
  BY DEF Clock, Prompt
<1>2. OneJob'
  BY <1>1 DEF Fresh, OneJob, workerVars, consoleVars
<1>3. ASSUME NEW q \in Queries
      PROVE  \/ searchCache'[q].left = 0
             \/ /\ searchCache[q].left # 0
                /\ searchCache'[q].found = searchCache[q].found
  BY ServiceAssumption DEF Clock, NoResults, OInv, TInv, CacheType
<1>4. ASSUME NEW w \in Workers, at[w] = "index"
      PROVE  found[w] \subseteq searchCache'[want[w]].found
  <2>1. want[w] \in Queries /\ found[w] \subseteq searchCache[want[w]].found
    BY <1>4 DEF OInv, TInv, JobMatches, Fresh, NewResults
  <2>2. searchCache'[want[w]].left + held'[w] >= SearchTTL
    BY <1>1, <1>4 DEF OInv, ResultsHeld, workerVars
  <2>3. PICK left \in Nat, h \in Nat, d \in Nat :
          left = searchCache'[want[w]].left /\ h = held'[w] /\ d = delay' /\ h <= d
    BY <2>1, ServiceAssumption DEF OInv, HistoryType, TInv, CacheType
  <2>4. IndexTTL + d <= SearchTTL /\ left + h >= SearchTTL
    BY <1>1, <2>2, <2>3
  <2>5. left # 0
    BY <2>3, <2>4, NotZero
  <2>6. QED
    BY <1>3, <2>1, <2>3, <2>5
<1>5. NewResults'
  BY <1>1, <1>3, <1>4 DEF Fresh, NewResults, workerVars, OInv, TInv, JobMatches
<1>6. OpenIsFresh'
  BY <1>1, <1>3 DEF Fresh, OpenIsFresh, consoleVars, OInv, TInv, EntryNamesQuery
<1>7. ASSUME NEW v \in Vacancies, Live(v)' PROVE v \in searchCache'[vacancyIndex'[v].query].found
  <2>1. Live(v) /\ vacancyIndex'[v].query = vacancyIndex[v].query
    BY <1>7, ServiceAssumption DEF Clock, Live, NoEntry, OInv, TInv, CacheType
  <2> DEFINE q == vacancyIndex[v].query
  <2>2. q \in Queries /\ v \in searchCache[q].found
    BY <2>1 DEF Fresh, EntriesFresh, OInv, TInv, EntryNamesQuery
  <2>3. /\ vacancyIndex'[v].left + SearchTTL <= searchCache'[q].left + IndexTTL + delay'
        /\ vacancyIndex'[v].left > 0
    BY <1>7, <2>1 DEF OInv, SearchOutlivesIndex, Live
  <2>4. vacancyIndex'[v].left \in Nat /\ searchCache'[q].left \in Nat /\ delay' \in Nat
    BY <2>2, ServiceAssumption DEF OInv, HistoryType, TInv, CacheType
  <2>5. searchCache'[q].left # 0
    <3>1. PICK entry \in Nat, left \in Nat, d \in Nat :
            entry = vacancyIndex'[v].left /\ left = searchCache'[q].left /\ d = delay'
      BY <2>4
    <3>2. entry > 0 /\ IndexTTL + d <= SearchTTL /\ entry + SearchTTL <= left + IndexTTL + d
      BY <1>1, <2>3, <3>1
    <3>3. left # 0
      BY <3>2, NotGone
    <3>4. QED
      BY <3>1, <3>3
  <2>6. QED
    BY <1>3, <2>1, <2>2, <2>5
<1>8. QED
  BY <1>2, <1>5, <1>6, <1>7 DEF Fresh, EntriesFresh

(* The console makes one request at a time and reads what an entry finds.  *)
LEMMA ConsoleFresh == OInv /\ Fresh /\ Console => (patient' => Fresh')
<1> SUFFICES ASSUME OInv, Fresh, Console, patient' PROVE Fresh'
  OBVIOUS
<1>1. CASE GiveUp
  BY <1>1 DEF GiveUp
<1>2. ASSUME NEW w \in Workers, NEW kind \in {"lookup", "details"}, NEW x, Job(w, kind, x)
      PROVE  Fresh'
  <2>1. OneJob' /\ NewResults'
    BY <1>2 DEF Job, caches, Fresh, OneJob, NewResults, OInv, TInv, WorkerType
  <2>2. OpenIsFresh' /\ EntriesFresh'
    BY <1>2, SameFresh DEF Job, caches, Fresh
  <2>3. QED
    BY <2>1, <2>2 DEF Fresh
<1>3. ASSUME NEW w \in Workers, Receive(w) PROVE Fresh'
  <2>1. OneJob' /\ NewResults'
    BY <1>3 DEF Receive, Free, caches, Fresh, OneJob, NewResults, OInv, TInv, WorkerType
  <2>2. OpenIsFresh' /\ EntriesFresh'
    BY <1>3, SameFresh DEF Receive, caches, Fresh
  <2>3. QED
    BY <2>1, <2>2 DEF Fresh
<1>4. ASSUME NEW v \in Vacancies, ReadIndex(v) PROVE Fresh'
  <2>1. OneJob' /\ NewResults' /\ EntriesFresh'
    BY <1>4 DEF ReadIndex, caches, workerVars, Fresh, OneJob, NewResults, EntriesFresh, Live
  <2>2. v \in searchCache[vacancyIndex[v].query].found
    BY <1>4 DEF ReadIndex, Fresh, EntriesFresh, Live
  <2>3. OpenIsFresh'
    BY <1>4, <2>2 DEF ReadIndex, caches, OpenIsFresh
  <2>4. QED
    BY <2>1, <2>3 DEF Fresh
<1>5. CASE ShowVacancy
  <2>1. OneJob' /\ NewResults'
    BY <1>5 DEF ShowVacancy, caches, workerVars, Fresh, OneJob, NewResults
  <2>2. OpenIsFresh' /\ EntriesFresh'
    BY <1>5, SameFresh DEF ShowVacancy, caches, Fresh
  <2>3. QED
    BY <2>1, <2>2 DEF Fresh
<1>6. CASE DeleteStale
  <2>1. OneJob' /\ NewResults' /\ OpenIsFresh'
    BY <1>6 DEF DeleteStale, workerVars, Fresh, OneJob, NewResults, OpenIsFresh
  <2>2. EntriesFresh'
    BY <1>6 DEF DeleteStale, EntriesFresh, Live, NoEntry
  <2>3. QED
    BY <2>1, <2>2 DEF Fresh
<1>7. QED
  BY <1>1, <1>2, <1>3, <1>4, <1>5, <1>6 DEF Console, MultiSearch, GetFullVacancyDetails

LEMMA NextFInv == FInv /\ [Next]_vars => FInv'
<1> SUFFICES ASSUME FInv, [Next]_vars PROVE FInv'
  OBVIOUS
<1>1. OInv /\ OInv'
  BY NextOInv DEF FInv
<1>2. ASSUME patient', ~Console PROVE patient
  BY <1>2 DEF Next, vars, Worker, NoSlot, Refuse, LookupHit, LookupMiss, AskSources, CacheResults,
              IndexVacancy, Indexed, DetailsLookup, AskDetails, DetailsFail, KeepDetails, Drop,
              Recover, Clock, consoleVars
<1>3. ASSUME patient', Console PROVE patient
  BY <1>3 DEF Console, MultiSearch, GetFullVacancyDetails, Job, Receive, GiveUp, ReadIndex,
              ShowVacancy, DeleteStale
<1>4. ASSUME Prompt' PROVE Prompt
  <2>1. delay' >= delay
    BY <1>1, NextHistory DEF OInv
  <2>2. PICK before \in Nat, after \in Nat : before = delay /\ after = delay'
    BY <1>1, ServiceAssumption DEF OInv, HistoryType
  <2>3. IndexTTL + delay' <= SearchTTL
    BY <1>4 DEF Prompt
  <2>4. before <= after /\ IndexTTL + after <= SearchTTL
    BY <2>1, <2>2, <2>3
  <2>5. IndexTTL + before <= SearchTTL
    BY <2>4, ServiceAssumption
  <2>6. QED
    BY <2>2, <2>5 DEF Prompt
<1>5. ASSUME patient', Prompt' PROVE Fresh'
  <2>1. Prompt /\ Fresh
    BY <1>2, <1>3, <1>4, <1>5 DEF FInv
  <2>2. CASE Recover \/ UNCHANGED vars
    <3>1. UNCHANGED <<caches, workerVars, consoleVars>>
      BY <2>2 DEF Recover, vars
    <3>2. QED
      BY <2>1, <3>1 DEF caches, workerVars, consoleVars, Fresh, OneJob, NewResults, OpenIsFresh,
                        EntriesFresh, Live
  <2>3. QED
    BY <1>1, <1>5, <2>1, <2>2, ConsoleFresh, WorkerFresh, ClockFresh DEF Next
<1>6. QED
  BY <1>1, <1>5 DEF FInv

(* For all TTLs: the results an index entry points to have its vacancy, as *)
(* long as the console never gave up on a job and every search indexed its *)
(* results soon enough for the TTLs.                                       *)
THEOREM IndexIsFreshHolds == Spec => []IndexIsFresh
<1>1. FInv => IndexIsFresh
  BY DEF FInv, Fresh, EntriesFresh, IndexIsFresh
<1>2. QED
  BY <1>1, NextFInv, InitFInv, PTL DEF Spec

(* Under the same condition a short description that is shown is that of   *)
(* the vacancy asked for, although it is found in two reads.               *)
THEOREM VacancyShown == Spec => ShowsTheVacancy
<1>1. FInv => (patient /\ Prompt /\ ShowVacancy =>
                 opening.vacancy \in searchCache[opening.query].found)
  BY DEF FInv, Fresh, OpenIsFresh, ShowVacancy
<1>2. QED
  BY <1>1, NextFInv, InitFInv, PTL DEF Spec, ShowsTheVacancy
-----------------------------------------------------------------------------
(* Item 2 is left without the results its entry points to.                 *)
Missed == console = "open" /\ searchCache[opening.query].left = 0

(* While indexing is prompt, only the clock takes results away from under  *)
(* an open lookup.                                                         *)
LEMMA MissNeedsClock ==
  OInv /\ [Next]_vars /\ Prompt /\ Missed' => Clock \/ Missed
<1> SUFFICES ASSUME OInv, [Next]_vars, Prompt, Missed', ~Clock PROVE Missed
  OBVIOUS
<1> USE DEF Missed
<1>1. CASE Console
  <2>1. PICK v \in Vacancies : ReadIndex(v)
    BY <1>1 DEF Console, MultiSearch, GetFullVacancyDetails, Job, Receive, GiveUp, ShowVacancy,
                DeleteStale
  <2>2. Live(v) /\ opening'.query = vacancyIndex[v].query /\ searchCache' = searchCache
    BY <2>1 DEF ReadIndex, Live, caches
  <2>3. QED
    BY <2>2, EntryHasResults
<1>2. ASSUME NEW w \in Workers, Worker(w) PROVE Missed
  <2>1. console' = console /\ opening' = opening
    BY <1>2 DEF Worker, NoSlot, Refuse, LookupHit, LookupMiss, AskSources, CacheResults,
                IndexVacancy, Indexed, DetailsLookup, AskDetails, DetailsFail, KeepDetails, Drop,
                consoleVars
  <2>2. opening.query \in Queries
    BY <2>1 DEF OInv, TInv, EntryNamesQuery
  <2>3. CASE CacheResults(w)
    <3>1. searchCache' = [searchCache EXCEPT ![want[w]] = [left |-> SearchTTL, found |-> found[w]]]
      BY <2>3 DEF CacheResults
    <3>2. opening.query # want[w]
      BY <2>1, <2>2, <3>1, ServiceAssumption DEF OInv, TInv, CacheType
    <3>3. QED
      BY <2>1, <2>2, <3>1, <3>2 DEF OInv, TInv, CacheType
  <2>4. CASE ~CacheResults(w)
    <3>1. searchCache' = searchCache
      BY <1>2, <2>4 DEF Worker, NoSlot, Refuse, LookupHit, LookupMiss, AskSources, IndexVacancy,
                        Indexed, DetailsLookup, AskDetails, DetailsFail, KeepDetails, Drop, caches
    <3>2. QED
      BY <2>1, <3>1
  <2>5. QED
    BY <2>3, <2>4
<1>3. CASE Recover \/ UNCHANGED vars
  BY <1>3 DEF Recover, vars, caches, consoleVars
<1>4. QED
  BY <1>1, <1>2, <1>3 DEF Next

(* As long as indexing was prompt, the lookup of a short description,      *)
(* which is two reads with anything in between, misses the results (and    *)
(* then empties the whole index) only if they expire between the reads;    *)
(* no search, abandoned job or second index can take them away.            *)
THEOREM MissOnlyByExpiry == Spec => [][Prompt /\ Missed' => Clock \/ Missed]_vars
<1>1. QED
  BY NextOInv, InitOInv, MissNeedsClock, PTL DEF Spec
-----------------------------------------------------------------------------
(* No line of the code writes vacancyDetails.                              *)
DetailsEmpty == \A v \in Vacancies : vacancyDetails[v] = 0

LEMMA NextDetailsEmpty == TInv /\ DetailsEmpty /\ [Next]_vars => DetailsEmpty'
<1> SUFFICES ASSUME TInv, DetailsEmpty, [Next]_vars PROVE DetailsEmpty'
  OBVIOUS
<1>1. CASE Clock
  BY <1>1 DEF Clock, Less, DetailsEmpty
<1>2. CASE ~Clock
  <2>1. vacancyDetails' = vacancyDetails
    BY <1>2 DEF Next, vars, caches, Console, MultiSearch, GetFullVacancyDetails, Job, Receive,
                GiveUp, ReadIndex, ShowVacancy, DeleteStale, Worker, NoSlot, Refuse, LookupHit,
                LookupMiss, AskSources, CacheResults, IndexVacancy, Indexed, DetailsLookup,
                AskDetails, DetailsFail, KeepDetails, Drop, Recover
  <2>2. QED
    BY <2>1 DEF DetailsEmpty
<1>3. QED
  BY <1>1, <1>2

(* The cache of details never has what is looked up in it: every request   *)
(* for full details that the breaker lets through asks the source, however *)
(* often and however soon it is repeated.  The run that refutes            *)
(* DetailsReused shows one such repetition.                                *)
THEOREM DetailsAlwaysAsked ==
  Spec => [][\A w \in Workers : DetailsLookup(w) => at'[w] = "askDetails"]_vars
<1>1. Init => DetailsEmpty
  BY DEF Init, DetailsEmpty
<1>2. ASSUME TInv, DetailsEmpty, NEW w \in Workers, DetailsLookup(w) PROVE at'[w] = "askDetails"
  <2>1. want[w] \in Vacancies
    BY <1>2 DEF DetailsLookup, TInv, JobMatches
  <2>2. ~(vacancyDetails[want[w]] > 0)
    BY <1>2, <2>1 DEF DetailsEmpty
  <2>3. QED
    BY <1>2, <2>2 DEF DetailsLookup, TInv, WorkerType
<1>3. TInv /\ DetailsEmpty => \A w \in Workers : DetailsLookup(w) => at'[w] = "askDetails"
  BY <1>2
<1>4. QED
  BY <1>1, <1>3, InitTInv, NextTInv, NextDetailsEmpty, PTL DEF Spec
=============================================================================

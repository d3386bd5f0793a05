--------------------------- MODULE SearchService ----------------------------
(***************************************************************************)
(* What the menu does with the three caches of ParsersManager.  A search   *)
(* (item 1) and the full details of a vacancy (item 3) are jobs carried    *)
(* out by workers; the short description (item 2) is looked up on the      *)
(* console's own goroutine, first in the reverse index, then in the search *)
(* results the index points to.  The console may give up on a job, which   *)
(* then goes on beside the next one and writes the same caches.            *)
(*                                                                         *)
(* A vacancy stands for the pair of its source and its id, the results of  *)
(* a search for the vacancies that all sources together found.  A cached   *)
(* value carries the time it has left; what has expired reads as absent.   *)
(***************************************************************************)
EXTENDS Naturals, FiniteSets

CONSTANTS
  Queries,    \* search parameters, or their hash
  Vacancies,  \* vacancies of all sources
  Workers,    \* workers, each with one job at a time
  SearchTTL,  \* SearchCacheTTL, in clock ticks
  IndexTTL,   \* VacancyCacheTTL
  None        \* no query, vacancy or worker

ASSUME ServiceAssumption ==
  /\ SearchTTL \in Nat \ {0}
  /\ IndexTTL \in Nat \ {0}
  /\ None \notin Queries \cup Vacancies \cup Workers

VARIABLES
  searchCache,     \* results by query
  vacancyIndex,    \* the query whose results have a vacancy
  vacancyDetails,  \* details by vacancy: the time left
  strayDetails,    \* details that were put into searchCache under the vacancy's id
  at,              \* where each worker is
  want,            \* the query or vacancy its job is about
  found,           \* what its search found
  todo,            \* the part of it that is still to be indexed
  failed,          \* its answer carries an error
  tripped,         \* the global breaker refuses calls
  console,         \* where the console is
  mine,            \* the worker with the job the console waits for
  opening,         \* item 2 between its two reads: the vacancy and its query
  patient,         \* history: the console never gave up on a job
  held,            \* history: ticks since a worker that is indexing stored its results
  delay            \* history: the longest such time; both saturate at SearchTTL

caches == <<searchCache, vacancyIndex, vacancyDetails, strayDetails>>
workerVars == <<at, want, found, todo, failed>>
consoleVars == <<console, mine, opening, patient>>
indexing == <<held, delay>>
vars == <<caches, workerVars, tripped, consoleVars, indexing>>

NoResults == [left |-> 0, found |-> {}]
NoEntry == [left |-> 0, query |-> None]
Menu == [vacancy |-> None, query |-> None]

TypeOK ==
  /\ searchCache \in [Queries -> [left : 0 .. SearchTTL, found : SUBSET Vacancies]]
  /\ vacancyIndex \in [Vacancies -> [left : 0 .. IndexTTL, query : Queries \cup {None}]]
  /\ vacancyDetails \in [Vacancies -> 0 .. IndexTTL]
  /\ strayDetails \in [Vacancies -> 0 .. IndexTTL]
  /\ at \in [Workers -> {"idle", "lookup", "ask", "store", "index", "answer",
                         "details", "askDetails", "keepDetails"}]
  /\ want \in [Workers -> Queries \cup Vacancies \cup {None}]
  /\ found \in [Workers -> SUBSET Vacancies]
  /\ todo \in [Workers -> SUBSET Vacancies]
  /\ failed \in [Workers -> BOOLEAN]
  /\ tripped \in BOOLEAN
  /\ console \in {"menu", "wait", "open"}
  /\ mine \in Workers \cup {None}
  /\ opening \in [vacancy : Vacancies \cup {None}, query : Queries \cup {None}]
  /\ patient \in BOOLEAN
  /\ held \in [Workers -> 0 .. SearchTTL]
  /\ delay \in 0 .. SearchTTL

Init ==
  /\ searchCache = [q \in Queries |-> NoResults]
  /\ vacancyIndex = [v \in Vacancies |-> NoEntry]
  /\ vacancyDetails = [v \in Vacancies |-> 0]
  /\ strayDetails = [v \in Vacancies |-> 0]
  /\ at = [w \in Workers |-> "idle"]
  /\ want = [w \in Workers |-> None]
  /\ found = [w \in Workers |-> {}]
  /\ todo = [w \in Workers |-> {}]
  /\ failed = [w \in Workers |-> FALSE]
  /\ tripped = FALSE
  /\ console = "menu"
  /\ mine = None
  /\ opening = Menu
  /\ patient = TRUE
  /\ held = [w \in Workers |-> 0]
  /\ delay = 0
-----------------------------------------------------------------------------
\* The console.  Job(w, kind, x) hands a job about x to an idle worker.
Job(w, kind, x) ==
  /\ console = "menu"
  /\ at[w] = "idle"
  /\ at' = [at EXCEPT ![w] = kind]
  /\ want' = [want EXCEPT ![w] = x]
  /\ console' = "wait"
  /\ mine' = w
  /\ UNCHANGED <<caches, found, todo, failed, tripped, opening, patient, indexing>>

MultiSearch(w, q) == Job(w, "lookup", q)
GetFullVacancyDetails(w, v) == Job(w, "details", v)

\* The end of a job: its worker is free again.
Free(w) ==
  /\ at' = [at EXCEPT ![w] = "idle"]
  /\ want' = [want EXCEPT ![w] = None]
  /\ found' = [found EXCEPT ![w] = {}]
  /\ failed' = [failed EXCEPT ![w] = FALSE]
  /\ UNCHANGED todo

\* waitJobResult: an answer with an error is shown as the error alone.
Receive(w) ==
  /\ console = "wait"
  /\ mine = w
  /\ at[w] = "answer"
  /\ console' = "menu"
  /\ mine' = None
  /\ Free(w)
  /\ UNCHANGED <<caches, tripped, opening, patient, indexing>>

GiveUp ==
  /\ console = "wait"
  /\ console' = "menu"
  /\ mine' = None
  /\ patient' = FALSE
  /\ UNCHANGED <<caches, workerVars, tripped, opening, indexing>>

\* Complete sends a success twice, which blocks when nobody receives; only a
\* failed job that was given up lets its worker go on.
Drop(w) ==
  /\ at[w] = "answer"
  /\ mine # w
  /\ failed[w]
  /\ Free(w)
  /\ UNCHANGED <<caches, tripped, consoleVars, indexing>>

\* GetVacancyDetails: the two reads, and DeleteItem, which empties the index.
ReadIndex(v) ==
  /\ console = "menu"
  /\ vacancyIndex[v].left > 0
  /\ console' = "open"
  /\ opening' = [vacancy |-> v, query |-> vacancyIndex[v].query]
  /\ UNCHANGED <<caches, workerVars, tripped, mine, patient, indexing>>

\* As if the second read did not look at whether the results have expired.
ShowVacancyUnchecked ==
  /\ console = "open"
  /\ console' = "menu"
  /\ opening' = Menu
  /\ UNCHANGED <<caches, workerVars, tripped, mine, patient, indexing>>

ShowVacancy ==
  /\ console = "open"
  /\ searchCache[opening.query].left > 0
  /\ console' = "menu"
  /\ opening' = Menu
  /\ UNCHANGED <<caches, workerVars, tripped, mine, patient, indexing>>

DeleteStale ==
  /\ console = "open"
  /\ searchCache[opening.query].left = 0
  /\ vacancyIndex' = [v \in Vacancies |-> NoEntry]
  /\ console' = "menu"
  /\ opening' = Menu
  /\ UNCHANGED <<searchCache, vacancyDetails, strayDetails, workerVars, tripped, mine,
                 patient, indexing>>
-----------------------------------------------------------------------------
\* A worker.  Answer(w, error) ends what its handler does.
Answer(w, error) ==
  /\ at' = [at EXCEPT ![w] = "answer"]
  /\ failed' = [failed EXCEPT ![w] = error]

\* No slot of the semaphore in time.
NoSlot(w) ==
  /\ at[w] \in {"lookup", "details"}
  /\ Answer(w, TRUE)
  /\ UNCHANGED <<caches, want, found, todo, tripped, consoleVars, indexing>>

\* The breaker refuses.  The fallback of the result handler reads the cache,
\* and its results leave with an error.
Refuse(w) ==
  /\ at[w] \in {"lookup", "details"}
  /\ tripped
  /\ Answer(w, TRUE)
  /\ found' = [found EXCEPT ![w] =
                 IF at[w] = "lookup" /\ searchCache[want[w]].left > 0
                   THEN searchCache[want[w]].found ELSE {}]
  /\ UNCHANGED <<caches, want, todo, tripped, consoleVars, indexing>>

\* As if a hit were indexed again, like a fresh result.
LookupHitIndexed(w) ==
  /\ at[w] = "lookup"
  /\ ~tripped
  /\ searchCache[want[w]].left > 0
  /\ at' = [at EXCEPT ![w] = "index"]
  /\ found' = [found EXCEPT ![w] = searchCache[want[w]].found]
  /\ todo' = [todo EXCEPT ![w] = searchCache[want[w]].found]
  /\ UNCHANGED <<caches, want, failed, tripped, consoleVars, indexing>>

\* tryGetFromCache
LookupHit(w) ==
  /\ at[w] = "lookup"
  /\ ~tripped
  /\ searchCache[want[w]].left > 0
  /\ Answer(w, FALSE)
  /\ found' = [found EXCEPT ![w] = searchCache[want[w]].found]
  /\ UNCHANGED <<caches, want, todo, tripped, consoleVars, indexing>>

\* As if the sources were asked whatever the cache has.
LookupMissAlways(w) ==
  /\ at[w] = "lookup"
  /\ ~tripped
  /\ at' = [at EXCEPT ![w] = "ask"]
  /\ UNCHANGED <<caches, want, found, todo, failed, tripped, consoleVars, indexing>>

LookupMiss(w) ==
  /\ at[w] = "lookup"
  /\ ~tripped
  /\ searchCache[want[w]].left = 0
  /\ at' = [at EXCEPT ![w] = "ask"]
  /\ UNCHANGED <<caches, want, found, todo, failed, tripped, consoleVars, indexing>>

\* The sources answer; a search that found nothing, whatever the reason, is
\* answered but not cached.
AskSources(w) ==
  /\ at[w] = "ask"
  /\ \E results \in SUBSET Vacancies :
       /\ found' = [found EXCEPT ![w] = results]
       /\ at' = [at EXCEPT ![w] = IF results = {} THEN "answer" ELSE "store"]
  /\ UNCHANGED <<caches, want, todo, failed, tripped, consoleVars, indexing>>

\* cacheSearchResults, then buildReverseIndex one vacancy at a time.
CacheResults(w) ==
  /\ at[w] = "store"
  /\ searchCache' = [searchCache EXCEPT ![want[w]] = [left |-> SearchTTL, found |-> found[w]]]
  /\ at' = [at EXCEPT ![w] = "index"]
  /\ todo' = [todo EXCEPT ![w] = found[w]]
  /\ UNCHANGED <<vacancyIndex, vacancyDetails, strayDetails, want, found, failed,
                 tripped, consoleVars, indexing>>

IndexVacancy(w, v) ==
  /\ at[w] = "index"
  /\ v \in todo[w]
  /\ vacancyIndex' = [vacancyIndex EXCEPT ![v] = [left |-> IndexTTL, query |-> want[w]]]
  /\ todo' = [todo EXCEPT ![w] = @ \ {v}]
  /\ UNCHANGED <<searchCache, vacancyDetails, strayDetails, at, want, found, failed,
                 tripped, consoleVars, indexing>>

Indexed(w) ==
  /\ at[w] = "index"
  /\ todo[w] = {}
  /\ Answer(w, FALSE)
  /\ held' = [held EXCEPT ![w] = 0]
  /\ UNCHANGED <<caches, want, found, todo, tripped, consoleVars, delay>>

\* searchVacancyDetailes
DetailsLookup(w) ==
  /\ at[w] = "details"
  /\ ~tripped
  /\ IF vacancyDetails[want[w]] > 0
       THEN Answer(w, FALSE)
       ELSE /\ at' = [at EXCEPT ![w] = "askDetails"]
            /\ UNCHANGED failed
  /\ UNCHANGED <<caches, want, found, todo, tripped, consoleVars, indexing>>

AskDetails(w) ==
  /\ at[w] = "askDetails"
  /\ at' = [at EXCEPT ![w] = "keepDetails"]
  /\ UNCHANGED <<caches, want, found, todo, failed, tripped, consoleVars, indexing>>

\* The one error a handler returns to the global breaker, which may trip.
DetailsFail(w) ==
  /\ at[w] = "askDetails"
  /\ Answer(w, TRUE)
  /\ \E trips \in BOOLEAN : tripped' = (tripped \/ trips)
  /\ UNCHANGED <<caches, want, found, todo, consoleVars, indexing>>

\* cacheDetailsResult writes to searchCache.
KeepDetails(w) ==
  /\ at[w] = "keepDetails"
  /\ strayDetails' = [strayDetails EXCEPT ![want[w]] = IndexTTL]
  /\ Answer(w, FALSE)
  /\ UNCHANGED <<searchCache, vacancyIndex, vacancyDetails, want, found, todo, tripped,
                 consoleVars, indexing>>

Recover ==
  /\ tripped
  /\ tripped' = FALSE
  /\ UNCHANGED <<caches, workerVars, consoleVars, indexing>>

Less(n) == IF n > 0 THEN n - 1 ELSE 0
More(n) == IF n < SearchTTL THEN n + 1 ELSE n

\* Each write took its own time.Now(), and time passes between two writes of
\* one job as it does anywhere else.
Clock ==
  /\ searchCache' = [q \in Queries |->
       IF searchCache[q].left > 1
         THEN [searchCache[q] EXCEPT !.left = Less(@)] ELSE NoResults]
  /\ vacancyIndex' = [v \in Vacancies |->
       IF vacancyIndex[v].left > 1
         THEN [vacancyIndex[v] EXCEPT !.left = Less(@)] ELSE NoEntry]
  /\ vacancyDetails' = [v \in Vacancies |-> Less(vacancyDetails[v])]
  /\ strayDetails' = [v \in Vacancies |-> Less(strayDetails[v])]
  /\ held' = [w \in Workers |-> IF at[w] = "index" THEN More(held[w]) ELSE held[w]]
  /\ delay' = IF \E w \in Workers : held'[w] > delay THEN More(delay) ELSE delay
  /\ UNCHANGED <<workerVars, tripped, consoleVars>>

Console ==
  \/ \E w \in Workers :
       \/ \E q \in Queries : MultiSearch(w, q)
       \/ \E v \in Vacancies : GetFullVacancyDetails(w, v)
       \/ Receive(w)
  \/ GiveUp
  \/ \E v \in Vacancies : ReadIndex(v)
  \/ ShowVacancy \/ DeleteStale

Worker(w) ==
  \/ NoSlot(w) \/ Refuse(w) \/ LookupHit(w) \/ LookupMiss(w) \/ AskSources(w) \/ CacheResults(w)
  \/ \E v \in Vacancies : IndexVacancy(w, v)
  \/ Indexed(w) \/ DetailsLookup(w) \/ AskDetails(w) \/ DetailsFail(w) \/ KeepDetails(w)
  \/ Drop(w)

Next == Console \/ (\E w \in Workers : Worker(w)) \/ Recover \/ Clock

Spec == Init /\ [][Next]_vars
-----------------------------------------------------------------------------
Live(v) == vacancyIndex[v].left > 0

(* An index entry outlives the results it points to by no more than its    *)
(* TTL exceeds theirs plus the time that indexing took: two searches of    *)
(* one query that overlap, a job that was given up or a second index never *)
(* add to that.  (With equal TTLs the delay alone is enough to leave it    *)
(* without results, and the results of a slow job expire under it.)        *)
SearchOutlivesIndex ==
  \A v \in Vacancies :
    Live(v) => vacancyIndex[v].left + SearchTTL
                 <= searchCache[vacancyIndex[v].query].left + IndexTTL + delay

\* Every search so far indexed its results soon enough for their TTL.
Prompt == IndexTTL + delay <= SearchTTL

(* As long as the console never gave up on a job and indexing was prompt,  *)
(* the results an index entry points to are there and have the vacancy.    *)
IndexIsFresh ==
  patient /\ Prompt => \A v \in Vacancies :
    Live(v) => v \in searchCache[vacancyIndex[v].query].found

(* Then the short description that is shown, two reads after the menu, is  *)
(* that of the vacancy that was asked for.  After a job was given up it    *)
(* may be blank: the job's results replace those the index points to.      *)
ShowsTheVacancy ==
  [][patient /\ Prompt /\ ShowVacancy =>
       opening.vacancy \in searchCache[opening.query].found]_vars

(* What the comment in searchVacancyDetailes says, "если в кэше ничего не  *)
(* было найдно, то выполняем запрос в конкретном парсере": the source is   *)
(* not asked for details that were fetched less than their TTL ago.        *)
DetailsReused ==
  [][\A w \in Workers : patient /\ AskDetails(w) => strayDetails[want[w]] = 0]_vars
=============================================================================

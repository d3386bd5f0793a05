# A TLA+ development for the vacancy parser

The program (`src/parser`, Go) is a console application. It asks several job
boards (HH.ru, SuperJob.ru) for vacancies at the same time, and puts between the
user and the boards the usual machinery of a service: a job queue with a worker
pool, two levels of semaphores and circuit breakers, a rate limiter per source,
health checks, and three in-memory caches. This directory holds TLA+ models of
that machinery, the TLC configurations that check them, and proofs of what
matters most. Paths below are relative to `src/parser/internal` unless they say
otherwise.

## 1. The system

| Component | State | Operations | Talks to |
|---|---|---|---|
| Console (`cmd/parser/app.go`, `parsers_manager/multi_search.go`, `search_vacancy_datails.go`) | none; one goroutine | menu: search, short details, full details, exit | makes a job, enqueues it (5 s), waits for its answer (30 s); `Shutdown` (10 s) |
| Worker pool (`parsers_manager/parsers_workers.go`, `parsers_jobs.go`) | queue, semaphore, stop channel, wait group | `searchWorker`, `proccessSearchJob`, `proccessDetailsJob`, `Shutdown` | queue, global breaker, search, `BaseJob.Complete` |
| Job completion (`jobs/base_job.go`) | one-message channel per job, `sync.Once` | `Complete` | worker sends, console receives |
| Job queue (`queue/`) | buffered channel, closed flag | `Enqueue`, `Dequeue`, `Close`, `Clear` | console, workers |
| Circuit breaker (`circuitbreaker/`) | state, counters, time of the last failure, statistics | `Execute` | one global (workers), one per source (base parser) |
| Search (`search_vacansies.go`, `result_handler.go`, `cache.go`, `internal_func.go`) | caches | cache lookup, search, fallback, reverse index | caches, concurrent search |
| Concurrent search (`parsers_conc_search.go`, `parsers_selector.go`) | goroutines and channels of one search | fan-out, deadline, collection | status manager, parsers |
| Status manager (`parsers_status_manager/`) | status per source | health checker, `UpdateStatus`, `GetHealthyParsers`, `Stop` | health client; searches |
| Base parser (`parser/base_parser.go`) | semaphore, limiter, breaker of a source | `SearchVacancies`, `SearchVacancyDetailes` | HTTP |
| Rate limiter (`rate_limiter/`) | token channel, ticker goroutine, stopped flag | `Wait`, `Stop` | base parser |
| Sharded cache (`inmemory_cache/`) | map per shard with a lock, clean-up goroutine | `GetItem`, `AddItemWithTTL`, `DeleteItem` | search, short details |
| Factory, source-specific parsers, configuration, domain models, `pkg` | filled at start-up, or none | conversion and formatting | |

What is hard in it, and hard to test:

* results of protected calls reach a breaker in any order and after it has
  changed state; the probe limit and the success threshold must fit together;
* the console gives up on an answer that a worker is about to send, on a channel
  with room for one message, to which a success is sent twice;
* several workers poll one queue while a stop is announced; a slot of the
  semaphore may or may not have been obtained when the handler returns;
* flags are read and acted on in two steps (queue, rate limiter), and clocks are
  read before locks are waited for (cache);
* operations over all the shards hold one lock at a time;
* health checks, searches and goroutines of searches long over update one status
  in any order; a search's deadline races its sources;
* a search looks its query up long before it stores and indexes what it found,
  and a job the console gave up on does so beside the next one; the index and the
  results it points to are read one after the other and expire apart.

`PROJECT.json` lists the hazards line by line, with the properties that would
catch each going wrong.

## 2. Modules

| Module | Models | Checked by |
|---|---|---|
| `CircuitBreaker` | the breaker: both critical sections of `Execute`, `onFailure`, `onSuccess`, statistics | run `guards` |
| `BreakerHistory` | extends it with history variables for promises about the past | runs `guards`, `breaker_probes` |
| `CircuitBreakerProofs` | theorems about `CircuitBreaker` and `BreakerHistory` | TLAPS |
| `BaseParser` | the calls of one source: its semaphore, limiter, request and an instance of `CircuitBreaker` | run `base` |
| `BaseParserProofs` | theorems about `BaseParser`, some of them those of `CircuitBreakerProofs` carried over | TLAPS |
| `JobService` | the abstract promise of the pool to the console | refined by `WorkerPool` |
| `WorkerPool` | console, queue, workers, semaphore, result channels, shutdown | runs `pool`, `pool_slot_leak` |
| `WorkerPoolProofs` | theorems about `WorkerPool` | TLAPS |
| `QueuePromise` | the abstract bounded first-in-first-out queue, each call one step | refined by `FIFOQueue` and by the queue of `WorkerPool` |
| `FIFOQueue` | the queue at the grain of its atomic steps, with `Close` and `Clear` | runs `guards`, `queue_close` |
| `FIFOQueueProofs` | theorems about `FIFOQueue` | TLAPS |
| `RateLimiter` | ticker goroutine, `Wait`, `Stop` | runs `guards`, `limiter_interval` |
| `MCGuards` | breaker, queue and limiter as subjects of one run of TLC | run `guards` |
| `RateLimiterProofs` | theorems about `RateLimiter` | TLAPS |
| `ShardedCache`, `MCShardedCache` | the cache, shard by shard; its hash function for TLC | runs `service`, `cache_delete`, `cache_cleanup` |
| `ShardedCacheProofs` | theorems about `ShardedCache` | TLAPS |
| `SearchPromise` | the abstract promise of a concurrent search | refined by `SourceSearch` |
| `SourceSearch` | concurrent search with its goroutines and deadline, health checks, statuses | run `search` |
| `SourceSearchProofs` | theorems about `SourceSearch` | TLAPS |
| `SearchService`, `MCSearchService` | menu items 1 to 3 on the three caches; for TLC, symmetry and the sharded cache as a second subject | runs `service`, `service_details` |
| `SearchServiceProofs` | theorems about `SearchService` | TLAPS |

Definitions whose comment begins with "As if" are variations of the code, used
only to confirm that each property notices a plausible mistake; no specification
refers to them.

`MCGuards` and `MCSearchService` check components that share no state in one run:
`subject`, chosen in the initial state, says whose behaviour it is, and the others
stay as they were made. Nothing is claimed of them together; each component's
states are those it has by itself, and a property of one is trivial in the
behaviours of the others.

### CircuitBreaker

The mutex makes each critical section one step, and between the two the caller
is in the set `executing`: that is the only concurrency there is, and results of
calls admitted long ago are what makes it interesting. `lastFailureTime` is
modelled by its age `sinceFailure`, saturated at `ResetTimeout`, since the code
only compares the two. `Admit` is the first section (refusals change nothing),
`Succeed` and `Fail` the second. The statistics are unsigned and wrap at
`UintModulus`. The zero-value defaults of `NewCircutBreaker` justify
`BreakerAssumption`.

`NoLockout` deserves a remark. The call that turns an open breaker half-open is
not counted as an attempt, so an episode lets `HalfOpenMaxRequests + 1` calls
through, one more than the comment on the field (`breaker.go:30`, "Макс запросов
в Half-Open состоянии") and the configuration say. That is the finding of the
run `breaker_probes` (`ProbesWithinMax`); that it is never more than one is
proved (`ProbesBound`). The default configuration depends on it: three successes
close the breaker and the limit is two, so if the off-by-one were corrected
alone, a half-open breaker would refuse everything for ever after two successful
probes. That is the variation `StartProbingCounted`.

### BaseParser

`SearchVacancies` and `SearchVacancyDetailes` run the same body inside
`Execute`, so one set of actions stands for both. `at[c]` is where call `c` is:
`acquire` is the select of `acquireSemaphore` with its three cases, `limit` the
wait for the rate limiter, `request` the HTTP request, `reading` everything done
with its response, `succeeded` and `failed` the way from the return of the body
to the second critical section of `Execute`. The deferred calls run last in,
first out and before the breaker counts the result, so the step that leaves
`request` or `reading` gives the slot back and a later one settles the call.
A call refused by the breaker, or whose URL cannot be built, changes nothing.

Of the limiter only its token is left: nothing stops it, so `Wait` ends with a
token, and the ticker's goroutine can be seen only by the token it puts into the
channel. That is the theorem `UnstoppedIsToken` about `RateLimiter`, whose
business it also is how many may pass in a burst. The
breaker is `CircuitBreaker` itself by INSTANCE, its `executing` being the calls
under way; `Call`, `Succeed` and `Fail` use its actions. Its statistics, which
nothing in a source's calls depends on, are instantiated with a modulus of one.
That all else the calls do is invisible to the breaker, and that each call comes
back to it once, is `ImplementsBreaker`.

`RecoveryCloses` says what the machinery around a source must come to. `Smooth`
are steps in which the source answers, a call fails at the semaphore only
because its timer fires with all slots taken, and there are not more calls than
slots. Then no timer fires: a call waits for the limiter with its slot held, but
those in front of it hold at most the other slots. With more calls than slots
the property does not hold (TLC finds the run when that conjunct of `Smooth` is
dropped): the slowest calls time out after two seconds, the timeouts count as
failures, and the breaker of a source that answers everything opens again and
again. HH.ru is configured with ten slots and a token every two seconds, so a
tenth call waits about twenty seconds with its slot while an eleventh gives up
after two; that it takes so many is what protects this program, with its one
console, from it.

### WorkerPool

`console` is where the menu loop is; since one goroutine reads the menu, at most
one request is being made at a time, but jobs the console gave up on are still
in the queue or with workers. `at[w]` follows a worker through `searchWorker`
and the handlers: `select` and `dequeue` are apart because the stop may be
announced between them; `slot` is the select on the semaphore and its timer;
`run` the execution, whose outcome is a nondeterministic `ok` or `err`; `send`
and `resend` are the two sends of `Complete`; `return` is the return with its
deferred release. The timers of the console (5 s, 30 s, 10 s) may fire at any
moment of the waits they bound. The timer on the slot (200 ms) only wins while
no slot is free, since a select with a ready case does not wait.

A request for the details of a vacancy of an unknown source is in
`UnknownSource`: its execution either is refused by the global breaker or panics
(`search_vacancy_datails.go:158-168`), and the process ends.

`JobService` says what the pool promises: a request is settled at most once, the
console is told the outcome of the request it made, and a request it was told
was refused is never carried out. `ImplementsPromise` is the refinement, with
the outcome read from wherever it has got to (`Outcome`).

The pool's queue is one variable with one step per operation. `ImplementsQueue`
says that this is a `QueuePromise` that is never closed: what is dequeued is the
oldest job, and at once in the hands of one worker. That is the order in which
jobs leave the queue, not that in which they are carried out: a worker that waits
for a slot can be overtaken. `FIFOQueue` implements the
same promise with its several steps, so the one stands for the other.

### FIFOQueue, RateLimiter, ShardedCache

The queue's `Enqueue`, `Close` and `Clear` are two steps or more each, as in the
code. `QueuePromise` is what they should look like from outside: an item is
accepted or refused, and handed out in order, to a consumer or to `Clear`, each at
one moment; a queue that is closing still accepts what had passed the check of the
flag, a closed one accepts nothing. `ImplementsQueuePromise` shows it as far as the
process lives: a producer that has passed the check when `Close` closes the
channel panics at its send, although the comment on `Close` calls it safe
(`queue_methods.go:40`) and the interface is to be thread-safe. That is the finding
of `queue_close`. `UnclosedQueue` shows that a queue nobody closes, as in this
program, never panics and is the always-open queue that `WorkerPool` uses. Nothing
is claimed of the end of `Clear`: producers can refill the channel as fast as it
takes, and on a closed channel its loop goes round for ever.

In the limiter a token can be in three places: the ticker's channel, the hand of
the goroutine, the token channel. `BucketHolds` states what the limiter
guarantees in terms of a history variable `credit`, the ticks less the passes,
never more than `Burst`: with `Burst = 3` it never goes below zero, and TLC
finds it does with 2. The interval between requests, which the comment on the
constructor (`rate_limiter.go:20`) and the configuration
(`src/parser/parsersConfig.yml:7`) speak of, is not kept: a token that nobody
waited for is taken by a late call, and the next tick lets another one pass.
That is the finding of `limiter_interval` (`IntervalKept`), which needs no delay
of the goroutine and no `Stop`.

Cache values are left out, only the expiry time of an entry matters to the
properties. `AddItemWithTTL` reads the clock when it starts and stores under the
lock later; `DeleteItem` and the clean-up visit the shards in order.

### SourceSearch

`phase[k]` follows a search through `searchWithParsers`. For each source it asks
there are two goroutines. The first is in `asking[k][s]`: `asking` while
`SearchVacancies` of the source runs, `got` with its answer in `reply`, `told`
after `UpdateStatus`, `gone` after the send on `resultChan`. The second is in
`waiting[k]` until its select takes the result or the deadline, and appends to
`results`. `expired` is the context of the search, done at the deadline or when
the search returns. `SearchVacancies` is the one call to the outside: it ends with
vacancies or with an error, or never. Any source may give an error at any time
(`Learn`): the search's context is handed to it (`parsers_conc_search.go:40`), and
a slow request, a slot that does not come free or the source's own breaker make an
error that line 45 records as unhealthy. What is sent on the channels is told
apart as far as `concurrentSearchWithTimeout` does: an answer, be it vacancies or
an error, or the timeout.

The status of a source is `healthy` and `age`, the ticks since `LastCheck`
saturated at `StaleAfter` (five minutes in `GetHealthyParsers`). The health
checker's goroutine is `checker`, its goroutines of a round are `probe`: it
takes one result per source and only then looks at its ticker and the stop
channel. `UpdateStatus` and the health checks write the status by the same
`SetStatus`. The counters and the last error of a status are left out because
nothing reads them. A source in `Failing` may fail for good (`GoDown`) and then
gives nothing but errors, the only way to speak of what statuses must come to;
the others may give an error now and then, too. `StaleAfter = 1` makes every
status stale at the first tick that no check or search precedes.

`SearchPromise` has one step to ask and one to answer, with exactly one result
for each source asked. `ImplementsPromise` hides the results until the search is
done, so it also says that a late answer cannot change what was returned.

### SearchService

A vacancy stands for the pair of source and id that keys the reverse index, and
the results of a search for the vacancies all sources found together. A cached
value carries the time it has left and reads as absent at zero; what shards and
clean-up add to that is the business of `ShardedCache`. That `DeleteItem` empties
the index is what `ShardedCache` shows of it (the run `cache_delete`, and for every
cache the theorem `DeleteEmptiesCache`). A worker's `at` is
the call of `executeSearch` or `searchVacancyDetailes` it is about to make:
looking up, asking the sources, storing, indexing one vacancy after the other.
Jobs wait for a worker at no cost, and the answer and `Complete` are as in
`WorkerPool`: a success that nobody waits for keeps its worker for good (`Drop`
is for errors only). The sources may find anything; a search that finds nothing,
because all sources failed or because there is nothing, is answered without
error and not cached. The global breaker is a flag that a failed request for
details may raise: that is the one error a handler returns to it.

Each write takes its own `time.Now()` (`parsers_manager/cache.go:48`, then
`internal_func.go:56` for each vacancy), so the clock may tick between the
results and their index entries. `held` and `delay` are history variables: how
long ago a worker that is indexing stored its results, and the longest such time
so far. `SearchOutlivesIndex` bounds what an index entry has left by what its
results have left, the difference of the TTLs and `delay`; `Prompt` says that
the TTLs leave room for the delay, and is the condition of `IndexIsFresh` and
`ShowsTheVacancy`. `src/parser/cachesConfig.yml` means the index to have 2700 s
and the results 3600 s, with which every search is prompt in practice. The keys
of that file are not those of `CachesConfig`, however, so the defaults apply, a
minute each: then an index entry outlives its results by the time indexing took,
and in that moment, which is short, the lookup of a short description finds the
entry without the results and empties the whole index. No comment promises
otherwise.

`patient` says that the console never gave up on a job. Without it `IndexIsFresh`
and `ShowsTheVacancy` fail: a search that was given up stores its results over
those of a later search of the same query, the index of the later one still
points to them, and the user sees a description with every field empty
(`GetVacancyDetails` prints `targetVacancy` whether it found the vacancy or not).
`SearchOutlivesIndex` does not need it.

The results the fallback finds while the breaker is open leave the worker with
an error, and `waitJobResult` drops them: `Receive` shows the error alone.

## 3. What the runs check

| Run | Instance | Shows |
|---|---|---|
| `guards` | breaker: 4 callers, thresholds 5/3/2, cool-down 2 ticks, counters modulo 4; queue: 3 items, 2 producers, 2 places; limiter: 2 callers, interval 2, `Burst` 3 | counts, accounted probes, no lock-out, statistics, the cool-down served in full, recovery; items neither lost nor duplicated, refinement of `QueuePromise`; token bucket, one late pass after `Stop`, every `Wait` returns |
| `breaker_probes` | 3 callers, the same thresholds | violation: one probe more than the maximum |
| `limiter_interval` | 2 callers, interval 2 | violation: two calls pass within the interval |
| `queue_close` | 2 items, 2 producers, 2 places | violation: a send panics beside `Close` |
| `pool` | 3 requests (one of an unknown source), 2 workers, 1 slot, 1 place in the queue | no job lost or duplicated, slots accounted for, refinement of `JobService`, the queue used as a `QueuePromise`, a patient console is always served and loses no slot |
| `pool_slot_leak` | 2 requests, 2 workers, 1 slot | violation: a slot is lost for ever |
| `cache_delete` | the cache of `service` | violation: other keys are deleted too |
| `cache_cleanup` | the same without deleter | violation: what expires after the first sweep stays |
| `search` | 1 search, 2 sources that may give errors, one of which may fail for good | no send on the channel of results blocks; refinement of `SearchPromise`; searches end by their deadline, no goroutine stays, statuses follow the source, `Stop` ends the checks |
| `base` | 4 callers, 2 slots, breaker thresholds 2/3/2, cool-down 2 ticks | slots accounted for; refinement of `CircuitBreaker`; every call returns; the breaker closes for good once the source answers |
| `service` | 2 queries, 2 vacancies, 2 workers, TTLs of 2 ticks for results and 1 for the index; cache: 3 keys in 2 shards, TTL 0 or 1, clock up to 2, 1 adder, 1 deleter | an index entry outlives its results by the indexing delay at most; a patient user of prompt searches is shown the vacancy asked for; deletion and clean-up remove what they should |
| `service_details` | 1 query, 2 vacancies, 2 workers, the same TTLs | violation: details are never found in their cache |

Bounds and why they are enough. Four callers let all three probes of a half-open
episode run beside a late call of an older state; a cool-down of two ticks
separates "just opened", "cooling" and "cooled down"; a modulus of four makes
the counters wrap. Three requests with one slot and one place in the queue let
two abandoned jobs occupy both while the third is refused; two workers suffice
for every race between workers, which are symmetric. Real pools are larger
(`NewPMLoad`: two workers per core, slots for 70 % of them, three places per
slot), which only delays the limits. An interval of two ticks separates "with
the tick" and "between ticks". Two keys of one shard and one of another separate
what shards have in common from what they do not; the clock bound `MaxTime`
leaves a tick after the clean-up began. What the two sources of a search share
is the channel of results, and what a search shares with others is the status of
a source; there the health checks, which go on when the search is over and its
late goroutines are not, stand for the others, since both write it by
`SetStatus`. A second search in the instance multiplies its states past what can
be checked; the safety of any number of searches is proved. Four callers are
twice the slots of `base`: two hold a slot, of which one waits for the token,
one waits for a slot and one can time out beside it; the thresholds keep
`SuccessThreshold = HalfOpenMaxRequests + 1`, the edge both configured sources
are at (3/2 and 2/1), with failures lowered to two so that two timeouts open the
breaker. Two vacancies and two queries let a vacancy move from one query's
results to the other's and out of both; two workers let an abandoned search
overlap the next one; a TTL of two ticks lets results be fresh, old or gone, and
an index TTL one tick shorter makes indexing within a tick prompt and any slower
not, so both sides of the condition are met.

Every violation listed is a disagreement of the code with a comment, quoted in
`PROJECT.json`. Two more are visible in the models without a run of their own,
because no line of the repository promises otherwise: `WorkerPool` ends in
`crashed` when a request names a source no parser has; and `RateLimiter` reaches
`panicked` when `Stop` comes between the goroutine's check and its send, which is
out of this program's reach because it never stops a limiter.

## 4. Fairness

* `CircuitBreaker!Fairness`: time passes and every protected call returns; HTTP
  clients and semaphore waits have timeouts and the limiter's ticker goes on.
  `RecoveryCloses` adds, as a premise, that callers keep trying.
* `BaseParser!FairSpec`: the clock and the limiter's ticker go on; a call at the
  semaphore gets a slot or its timer fires, a request ends by the client's timeout
  at the latest, and a goroutine runs on. `Wait` has strong fairness, since the
  waiters of a channel are served in turn. That a caller's context is ever done
  is not assumed. `RecoveryCloses` adds, as a premise, that callers keep trying.
* `WorkerPool!FairSpec`: every worker runs, the console enqueues when there is
  room and receives what is there. Nothing is assumed of the console's timers:
  `PatientConsoleServed` and `PatientSlotsReturn` speak of runs in which the
  console never gives up, and show that the answer does not depend on them.
  `TimedSpec` adds the timers, so that the leak it is used for is not an
  artefact of a console that stands still.
* `MCGuards!LimiterFairness`: the limiter's clock, its goroutine and `Stop` go on;
  each waiter is served with strong fairness, since a Go channel serves its
  waiters in order. It is stated there because it holds of behaviours whose
  subject is the limiter.
* `ShardedCache!FairSpec`: the clock and the clean-up goroutine go on.
* `SourceSearch!FairSpec`: time passes and deadlines with it, goroutines run,
  rounds of checks begin and end, and a check is answered or times out (the
  health client's requests have a timeout). `SeeStop` has strong fairness: a
  select with the ticker and the stop channel both ready takes each in the long
  run. Nothing is assumed of the sources' answers to a search.
* `FIFOQueue` and `SearchService` have no fairness; their properties are safety.

## 5. Proofs

Each proof module EXTENDS the component it is about; its theorems hold for every
value of the constants that meets the component's one named assumption
(`BreakerAssumption`, `PoolAssumption`, ...). `QueueAssumption`, `RateAssumption`
and `CacheAssumption` are hypotheses of the theorems; the modules that instantiate
these components for TLC assume them of the instances. The shape is the same everywhere:
an inductive invariant, one lemma per action or group of actions that it
survives, and a temporal step.

* `CircuitBreakerProofs`. `IInv` is `TypeOK`, `FailureCount` and
  `ProbesAccounted`. The last is what makes `NoLockout` provable: that a
  half-open breaker with nothing running has room for a probe follows from
  successes being at most `SuccessThreshold - 1` and attempts at most successes
  minus one. For the past, `HistoryIsBreaker` shows that the history variables
  change nothing, `OpenSinceFailure` that an open breaker's age is that of the
  failure which opened it, and `ProbesCounted` that all calls of an episode but
  the first are counted; from these follow `OpenServesCoolDown` (an action
  property) and `ProbesBoundHolds`.
  `StatsBalance` is inductive beside the types; its arithmetic modulo the width
  of the counters is two lemmas, that a remainder is the one number below the
  modulus that differs by a multiple of it (`Remainder`), and that a summand may
  be reduced first (`ReduceSum`). `LockoutIsForever` is the other side of
  `NoLockout`: a half-open breaker that has spent its probes and waits for none
  never changes again, because nothing but a result takes it out of that state.
  With the defaults no such state is reachable; with one success more required it
  is.
* `BaseParserProofs`. `IInv` is `SlotsHeld` with at most `MaxConcurrent` holders;
  every step moves one call, so the holders gain or lose that call or stay the
  same (`GoHolders`). `BreakerImplemented` maps `Call`, `Succeed`, `Fail` and
  `Tick` to the breaker's steps and everything else to stuttering; by it, the
  theorems of `CircuitBreakerProofs`, instantiated with the source's calls, give
  `TypeCorrect` and `NeverLocked` without proving anything of a breaker again.
  `SmoothStaysClosed` is the safety behind `RecoveryCloses`: as long as all is
  smooth, a call that waits for a slot is one more than the holders
  (`WaiterExtra`), so with no more calls than slots one is free, no timer
  fires, and no failure reaches the breaker. `RequestsBounded` is what the
  semaphore is for.
* `WorkerPoolProofs`. Three invariants, each of which needs the ones before:
  types; `SlotInv` (who holds a slot, and that a worker without one can only be
  about to report an error, without which `resend` could not be shown to hold a
  slot); `JobInv`, which says where a request can be given what the console knows
  of it (`Placed`), what has come of it in a worker's hands (`InHands`), that
  the console makes one request at a time (`OneRequest`), and `HeldOnce`. The
  properties are corollaries. `NoLostJob` alone is not inductive: that a
  dequeued job still has an empty buffer, and that an abandoned one is not
  another request's, have to be carried along.
* `PoolImplementsPromise` is the refinement of `JobService`. The outcome of a
  request is read from the console, the buffer or the worker that is about to
  send; `OutcomeIsRead` says that `HeldOnce` makes the choice of that worker
  unique, and `SameOutcome` reduces "this step does not change the outcome" to
  what it is read from. Then `SlotTimeout` and `Perform` settle a request, four
  of the console's steps submit, refuse, answer and abandon, and every other
  step, the second send of `Complete` included, is a stuttering step. Only
  the safety part is stated: `JobService` has no fairness.
* `PoolUsesQueue` is the refinement of `QueuePromise`. Where a job has gone
  (`Fate`) is read from the queue, the console and the workers; `FateIsRead`
  rests on `HeldOnce` as `OutcomeIsRead` does, and a step that changes neither
  of the three stutters (`QueueStutter`).
* What a stuck worker means, for every pool. `BlockedIsServed`: whoever waits in
  the second send of `Complete` has the job the console is waiting for, whose
  `Receive` frees it, or one that was given up. In the second case
  `LeakIsForever` says that its slot is never released, and that no shutdown sees
  all the workers end: the finding of `pool_slot_leak` without its bounds.
  `ExhaustedIsForever`: once all slots have leaked nothing is carried out any
  more. `UnknownSourceNeverFound`: a request to an unknown source is never
  answered with a success, and nothing but its execution ends the process.
* `FIFOQueueProofs`. `OnePlace` adds to `AcceptedOnce` that a producer between
  flag and send is alone with its item. `QueueImplementsPromise` is the
  refinement: an item's `Fate` changes only with the channel, at the send of
  `Enqueue`, the receive of `Dequeue` or `Clear`, or the refusal; the flag and the
  closing of the channel are the two steps of the abstract `Close`. The check of
  the flag and the return of `Clear` stutter. `UnclosedQueue` restricts it to runs
  without `Close`, in which no send can panic.
* `RateLimiterProofs`. `TokensBacked`: tokens in the three places never exceed
  `credit`; it needs `Burst >= 3`, which is a hypothesis of the theorem, and TLC
  shows that 2 would not do. `LastToken` gives `OneLateToken`. `UnstoppedIsToken`
  shows that without `Stop` every step puts a token into an empty channel, or lets
  one waiting call take it, or changes neither, as `Refill` and `Wait` of
  `BaseParser` do.
* `ShardedCacheProofs`. `DeletedBehind` and `CleanedBehind` state for the shards
  already visited what the properties state at the end. `LiveEntriesStay` is an
  action property; it needs that the clean-up began no later than now. Two
  findings are proved for every cache: `DeleteEmptiesCache`, with `EmptiedBehind`
  for the shards visited, and `ExpiredAreKept`, that an expired entry whose key
  nobody adds again stays for ever once the one clean-up is over and nobody deletes.
* `SourceSearchProofs`. `Collected` says that the sources reported and those still
  waited for are together, and as many as, the sources asked; so there is always
  room for a result (`RoomForResults`) and the results are complete when nobody
  waits. `Staged` adds what each phase means. `Return` is then the abstract
  answer, `Search` the abstract question, and every other step stutters.
  Three more theorems are the safety that its liveness properties rest on.
  `SendsNeverBlock` (for `NoGoroutineLeft`): the two goroutines of a source are
  paired (`Paired`), so there is room for the one answer whether or not anybody
  receives. `DownStaysMarked` (for `DownIsMarked`): once a source is down and the
  last good answer from before is written, a status that is not usable stays so.
  `StopIsFinal` (for
  `StopEndsChecks`): the checker that ended starts nothing again.
* `SearchServiceProofs`. Three invariants again. `TInv`: types, and that jobs and
  index entries name what they should. `OInv` adds `ResultsHeld`, that the results
  a worker is indexing have what is left of their TTL after the time it has held
  them, which with `delay` as the longest such time gives `SearchOutlivesIndex` for
  all TTLs, also when two searches of one query overlap. `FInv` adds what holds for
  a patient console with prompt searches: one job at a time, and that what it
  replaces in the cache has expired, so that by `SearchOutlivesIndex` no entry
  points to it any more. From it follow `IndexIsFresh` and the action property
  `ShowsTheVacancy`. `MissOnlyByExpiry` needs `OInv` and promptness only: between
  its two reads the lookup of a short description loses the results to nothing but
  the clock, however impatient the console was.
  `DetailsAlwaysAsked` proves the finding of `service_details` for every choice of
  constants: the details cache stays empty.

Only model-checked: everything that speaks of fairness (`RecoveryCloses` of the
breaker and of `BaseParser`, `CallsReturn`, `PatientConsoleServed`,
`PatientSlotsReturn`, `WaitReturns`, and of the
concurrent search `SearchReturns`, `NoGoroutineLeft`, `DownIsMarked`,
`StatusRefreshes` and `StopEndsChecks`), which is out of the prover's reach; for
`RecoveryCloses` of `BaseParser`, `PatientSlotsReturn`, `NoGoroutineLeft`,
`DownIsMarked` and `StopEndsChecks` the safety they rest on is proved, as said
above. The seven violations are model-checked counterexamples; of the four
that concern what the program does, `pool_slot_leak`, `cache_delete`,
`cache_cleanup` and `service_details`, it is proved that what they show goes on for
ever, in any instance. Every invariant and action property a
passing run checks, the four refinements of abstract promises (two of them of
`QueuePromise`) and the refinement of the breaker are theorems. The invariants used in the
proofs were checked by TLC before they were proved. The type invariants of
`CircuitBreaker`, `WorkerPool`, `FIFOQueue`, `RateLimiter`, `ShardedCache` and
`SearchService` are proved and, being theorems, are not checked again by the runs.

## 6. Plan

1. Done: breaker, pool with its abstract promise, queue, limiter, cache,
   concurrent search with its abstract promise and the status manager, search
   service; each with its safety proved.
2. Done: `BaseParser`, the composition of semaphore, limiter and breaker of a
   source, its slots and its refinement of `CircuitBreaker` proved, and the
   statistics of the breaker.
3. Done: what justifies the abstractions between the modules (the queue in the
   pool, the token in the base parser, the emptied index in the search service),
   the findings for every choice of constants, and the safety behind the liveness
   properties.
4. Left: the pool composed with the global breaker and the outcomes of searches.
   What is known of it without: a search in which every source failed is a
   success to the global breaker (`search_vacansies.go:68`), so only failed
   requests for details trip it, and the
   cached results the fallback then finds never reach the user (section 2).

## 7. Not modelled

URL building and JSON conversion of the two sources, formatting for the console,
configuration loading, the factory and the domain models: data formats and
start-up code with no behaviour over time. HTTP and the operating system's
timers appear only as outcomes and as "may fire". The negative shard index of a
32-bit build and a configuration with no shards are excluded by
`CacheAssumption`. The factory ignores the `Enabled` flag its comment speaks of;
both configured sources are enabled.

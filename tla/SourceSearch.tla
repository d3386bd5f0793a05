---------------------------- MODULE SourceSearch ----------------------------
(***************************************************************************)
(* The concurrent search of parsers_conc_search.go together with the       *)
(* status manager of parsers_status_manager.go.  A search asks the sources *)
(* the status manager calls healthy, or all of them if none is.  For each  *)
(* it starts two goroutines: one asks the source, tells the status manager *)
(* what came of it and puts the result on a channel with room for one; the *)
(* other waits for that result or for the deadline of the search.  Health  *)
(* checks, which write the same statuses, and the goroutines of searches   *)
(* that ended long ago interleave with all of it.                          *)
(***************************************************************************)
EXTENDS Naturals, Sequences, FiniteSets

CONSTANTS
  Searches,    \* calls of executeSearch that go to the sources, each once
  Sources,     \* the registered parsers
  Failing,     \* those that may fail for good; the others fail now and then
  StaleAfter   \* GetHealthyParsers' five minutes, in clock ticks

ASSUME SourceAssumption ==
  /\ IsFiniteSet(Sources) /\ Sources # {}
  /\ Failing \subseteq Sources
  /\ StaleAfter \in Nat \ {0}

VARIABLES
  phase,       \* where each search is
  chosen,      \* the sources it asks
  expired,     \* its context is done: deadline passed, or cancelled on return
  asking,      \* where the goroutine that asks is, per search and source
  reply,       \* and what it is to tell the status manager
  resultChan,  \* the channel between the two goroutines: vacancies or an error
  waiting,     \* the sources whose second goroutine is still in its select
  results,     \* what the second goroutines sent, in order
  healthy,     \* IsHealthy
  age,         \* ticks since LastCheck, saturated at StaleAfter
  checker,     \* the health checker's goroutine
  probe,       \* the goroutines of the current round of checks
  stopping,    \* stopChan is closed
  down         \* sources that have failed for good

searchVars == <<phase, chosen, expired, waiting, results>>
pairVars == <<asking, reply, resultChan>>
statusVars == <<healthy, age>>
checkVars == <<checker, probe>>
vars == <<searchVars, pairVars, statusVars, checkVars, stopping, down>>

Promise ==
  INSTANCE SearchPromise
    WITH asked <- chosen,
         answered <- [k \in Searches |-> IF phase[k] = "done" THEN results[k] ELSE <<>>]

Replies == {"ok", "err"}

TypeOK ==
  /\ phase \in [Searches -> {"new", "running", "done"}]
  /\ chosen \in [Searches -> SUBSET Sources]
  /\ expired \in [Searches -> BOOLEAN]
  /\ asking \in [Searches -> [Sources -> {"none", "asking", "got", "told", "gone"}]]
  /\ reply \in [Searches -> [Sources -> {"none"} \cup Replies]]
  /\ resultChan \in [Searches -> [Sources -> {"empty", "answer"}]]
  /\ waiting \in [Searches -> SUBSET Sources]
  /\ results \in [Searches -> Seq(Promise!Results)]
  /\ \A k \in Searches : Len(results[k]) <= Cardinality(chosen[k])  \* no send blocks
  /\ healthy \in [Sources -> BOOLEAN]
  /\ age \in [Sources -> 0 .. StaleAfter]
  /\ checker \in {"checking", "waiting", "stopped"}
  /\ probe \in [Sources -> {"none", "asking"} \cup Replies]
  /\ stopping \in BOOLEAN
  /\ down \in SUBSET Failing

\* NewParserStatusManager starts the first round before anyone searches.
Init ==
  /\ phase = [k \in Searches |-> "new"]
  /\ chosen = [k \in Searches |-> {}]
  /\ expired = [k \in Searches |-> FALSE]
  /\ asking = [k \in Searches |-> [s \in Sources |-> "none"]]
  /\ reply = [k \in Searches |-> [s \in Sources |-> "none"]]
  /\ resultChan = [k \in Searches |-> [s \in Sources |-> "empty"]]
  /\ waiting = [k \in Searches |-> {}]
  /\ results = [k \in Searches |-> <<>>]
  /\ healthy = [s \in Sources |-> FALSE]
  /\ age = [s \in Sources |-> 0]
  /\ checker = "checking"
  /\ probe = [s \in Sources |-> "asking"]
  /\ stopping = FALSE
  /\ down = {}
-----------------------------------------------------------------------------
\* The status manager.  As if only good news counted as a check:
SetStatusStampOnOk(s, news) ==
  /\ healthy' = [healthy EXCEPT ![s] = (news = "ok")]
  /\ age' = IF news = "ok" THEN [age EXCEPT ![s] = 0] ELSE age

\* As if LastCheck were not looked at.
UsableAnyAge(s) == healthy[s]

\* LastCheck is stamped whatever was learnt.
SetStatus(s, news) ==
  /\ healthy' = [healthy EXCEPT ![s] = (news = "ok")]
  /\ age' = [age EXCEPT ![s] = 0]

Usable(s) == healthy[s] /\ age[s] < StaleAfter

GetHealthyParsers == {s \in Sources : Usable(s)}

\* What a request to a source comes to.  One that works gives an error too,
\* now and then: the request takes too long or its context ends, no slot is
\* free, or the breaker of the source refuses it.
Learn(s) == IF s \in down THEN {"err"} ELSE Replies

StartRound ==
  /\ checker = "waiting"
  /\ checker' = "checking"
  /\ probe' = [s \in Sources |-> "asking"]
  /\ UNCHANGED <<searchVars, pairVars, statusVars, stopping, down>>

\* As if a check that fails sent no result.
CheckHealthSilent(s) ==
  /\ probe[s] = "asking"
  /\ \E news \in Learn(s) : news = "ok" /\ probe' = [probe EXCEPT ![s] = news]
  /\ UNCHANGED <<searchVars, pairVars, statusVars, checker, stopping, down>>

CheckHealth(s) ==
  /\ probe[s] = "asking"
  /\ \E news \in Learn(s) : probe' = [probe EXCEPT ![s] = news]
  /\ UNCHANGED <<searchVars, pairVars, statusVars, checker, stopping, down>>

\* performHealthCheck takes the results as they come, under the lock.
ApplyCheck(s) ==
  /\ probe[s] \in Replies
  /\ SetStatus(s, probe[s])
  /\ probe' = [probe EXCEPT ![s] = "none"]
  /\ UNCHANGED <<searchVars, pairVars, checker, stopping, down>>

AllChecked == \A s \in Sources : probe[s] = "none"

EndRound ==
  /\ checker = "checking"
  /\ AllChecked
  /\ checker' = "waiting"
  /\ UNCHANGED <<searchVars, pairVars, statusVars, probe, stopping, down>>

\* Shutdown calls Stop when all workers have returned; no search follows.
Stop ==
  /\ ~stopping
  /\ \A k \in Searches : phase[k] # "running"
  /\ stopping' = TRUE
  /\ UNCHANGED <<searchVars, pairVars, statusVars, checkVars, down>>

SeeStop ==
  /\ checker = "waiting"
  /\ stopping
  /\ checker' = "stopped"
  /\ UNCHANGED <<searchVars, pairVars, statusVars, probe, stopping, down>>
-----------------------------------------------------------------------------
\* selectParsersForSearch, and the goroutines of the search started.
SelectParsers ==
  IF GetHealthyParsers # {} THEN GetHealthyParsers ELSE Sources

Search(k) ==
  /\ phase[k] = "new"
  /\ ~stopping
  /\ phase' = [phase EXCEPT ![k] = "running"]
  /\ chosen' = [chosen EXCEPT ![k] = SelectParsers]
  /\ waiting' = [waiting EXCEPT ![k] = SelectParsers]
  /\ asking' = [asking EXCEPT ![k] =
                  [s \in Sources |-> IF s \in SelectParsers THEN "asking" ELSE "none"]]
  /\ UNCHANGED <<expired, results, reply, resultChan, statusVars, checkVars, stopping, down>>

\* SearchVacancies returns; an expired context makes an error likely, but an
\* answer that had come already is still returned.
SearchVacancies(k, s) ==
  /\ asking[k][s] = "asking"
  /\ asking' = [asking EXCEPT ![k][s] = "got"]
  /\ \E news \in Learn(s) : reply' = [reply EXCEPT ![k][s] = news]
  /\ UNCHANGED <<searchVars, resultChan, statusVars, checkVars, stopping, down>>

UpdateStatus(k, s) ==
  /\ asking[k][s] = "got"
  /\ asking' = [asking EXCEPT ![k][s] = "told"]
  /\ SetStatus(s, reply[k][s])
  /\ reply' = [reply EXCEPT ![k][s] = "none"]
  /\ UNCHANGED <<searchVars, resultChan, checkVars, stopping, down>>

\* As if resultChan were unbuffered.
ChanRoomUnbuffered(k, s) == resultChan[k][s] = "empty" /\ s \in waiting[k]

ChanRoom(k, s) == resultChan[k][s] = "empty"

SendResult(k, s) ==
  /\ asking[k][s] = "told"
  /\ ChanRoom(k, s)
  /\ asking' = [asking EXCEPT ![k][s] = "gone"]
  /\ resultChan' = [resultChan EXCEPT ![k][s] = "answer"]
  /\ UNCHANGED <<searchVars, reply, statusVars, checkVars, stopping, down>>

\* As if the goroutine stayed in its select after a result.
ReportAndStay(k, s, outcome) ==
  /\ results' = [results EXCEPT ![k] = Append(@, [source |-> s, outcome |-> outcome])]
  /\ UNCHANGED waiting

\* The second goroutine's send on results, which has room for all of them.
Report(k, s, outcome) ==
  /\ results' = [results EXCEPT ![k] = Append(@, [source |-> s, outcome |-> outcome])]
  /\ waiting' = [waiting EXCEPT ![k] = @ \ {s}]

\* The case of the select that has a result.
Forward(k, s) ==
  /\ s \in waiting[k]
  /\ resultChan[k][s] # "empty"
  /\ Report(k, s, resultChan[k][s])
  /\ resultChan' = [resultChan EXCEPT ![k][s] = "empty"]
  /\ UNCHANGED <<phase, chosen, expired, asking, reply, statusVars, checkVars, stopping, down>>

\* As if the goroutine waited for its result whatever the time.
GiveUpNever(k, s) ==
  /\ s \in waiting[k]
  /\ expired[k]
  /\ FALSE
  /\ UNCHANGED vars

\* The case of the select that has ctx.Done(); with both ready either is taken.
GiveUp(k, s) ==
  /\ s \in waiting[k]
  /\ expired[k]
  /\ Report(k, s, "timeout")
  /\ UNCHANGED <<phase, chosen, expired, pairVars, statusVars, checkVars, stopping, down>>

Deadline(k) ==
  /\ phase[k] = "running"
  /\ ~expired[k]
  /\ expired' = [expired EXCEPT ![k] = TRUE]
  /\ UNCHANGED <<phase, chosen, waiting, results, pairVars, statusVars, checkVars, stopping, down>>

\* As if the first result closed the channel.
SomeReported(k) == waiting[k] # chosen[k]

\* results is closed when every second goroutine is done; the search returns
\* and its context is cancelled.
AllReported(k) == waiting[k] = {}

Return(k) ==
  /\ phase[k] = "running"
  /\ AllReported(k)
  /\ phase' = [phase EXCEPT ![k] = "done"]
  /\ expired' = [expired EXCEPT ![k] = TRUE]
  /\ UNCHANGED <<chosen, waiting, results, pairVars, statusVars, checkVars, stopping, down>>
-----------------------------------------------------------------------------
Clock ==
  /\ age' = [s \in Sources |-> IF age[s] < StaleAfter THEN age[s] + 1 ELSE age[s]]
  /\ UNCHANGED <<searchVars, pairVars, healthy, checkVars, stopping, down>>

GoDown(s) ==
  /\ down' = down \cup {s}
  /\ UNCHANGED <<searchVars, pairVars, statusVars, checkVars, stopping>>

Asker(k, s) == UpdateStatus(k, s) \/ SendResult(k, s)
Waiter(k, s) == Forward(k, s) \/ GiveUp(k, s)
Checks == EndRound \/ \E s \in Sources : CheckHealth(s) \/ ApplyCheck(s)

Next ==
  \/ StartRound \/ Checks \/ Stop \/ SeeStop
  \/ \E k \in Searches :
       \/ Search(k) \/ Deadline(k) \/ Return(k)
       \/ \E s \in Sources : SearchVacancies(k, s) \/ Asker(k, s) \/ Waiter(k, s)
  \/ Clock
  \/ \E s \in Failing : GoDown(s)

Spec == Init /\ [][Next]_vars

\* Time passes, deadlines with it, every goroutine runs, and a health check
\* ends (its requests have a timeout).  Nothing is assumed of the sources'
\* answers to a search.  A select over two ready channels takes each of them
\* in the long run, so Stop is seen although the ticker fires again and again.
FairSpec ==
  /\ Spec
  /\ WF_vars(Clock)
  /\ WF_vars(StartRound)
  /\ WF_vars(EndRound)
  /\ SF_vars(SeeStop)
  /\ \A s \in Sources : WF_vars(CheckHealth(s)) /\ WF_vars(ApplyCheck(s))
  /\ \A k \in Searches :
       /\ WF_vars(Deadline(k))
       /\ WF_vars(Return(k))
       /\ \A s \in Sources : WF_vars(Asker(k, s)) /\ WF_vars(Waiter(k, s))
-----------------------------------------------------------------------------
(* A search returns exactly one result for each source it asked, once, and *)
(* nothing a late answer does changes what it returned.                    *)
ImplementsPromise == Promise!Spec

(* A search whose deadline has come ends, though no source ever answers.   *)
SearchReturns == \A k \in Searches : phase[k] = "running" ~> phase[k] = "done"

(* No goroutine is left behind: one that got an answer ends, although      *)
(* nobody may be waiting for its result any more.                          *)
NoGoroutineLeft ==
  \A k \in Searches, s \in Sources :
    asking[k][s] \in {"got", "told"} ~> asking[k][s] = "gone"

(* A source that failed for good is in the end no longer selected while    *)
(* others are usable, whatever answers from better times are still on      *)
(* their way and even if the health checks were stopped meanwhile.         *)
DownIsMarked == \A s \in Failing : s \in down ~> [](~Usable(s))

(* While health checks go on no status stays stale, however the checks     *)
(* end.                                                                    *)
StatusRefreshes ==
  \A s \in Sources : age[s] = StaleAfter ~> age[s] = 0 \/ checker = "stopped"

(* Stop returns, and from then on no health check writes a status.         *)
StopEndsChecks ==
  stopping ~> [](checker = "stopped" /\ \A s \in Sources : probe[s] = "none")
=============================================================================

# Verification of stock_helper

TLA+ models of the parts of stock_helper in which order, overlap, failure and
restart decide whether the program is right: TLC checks them on small instances,
and TLAPS proves the most important statements for every instance. Source paths
below are relative to `src/modules/` unless they start with `openspec/` or `shared/`.

## 1. The system

stock_helper is one asyncio process (FastAPI, APScheduler, SQLAlchemy on
PostgreSQL, Neo4j, LangGraph). It collects Chinese market data from Tushare and
AkShare, and answers research requests with several LLM experts, a debate and a
judge. Everything runs on one event loop, so control changes hands only at an
`await`; what persists is in the tables.

| Component | State | Operations | Interacts with |
|---|---|---|---|
| **History sync engine** (`data_engineering/application/commands/sync_engine.py`, `domain/model/sync_task.py`, daily and finance commands, task repository) | rows of `sync_tasks`, the saved quotes and indicators | `run_history_sync`: check the latest task, take it over, resume or create; page loop; complete or fail | scheduler and REST start it; stock table, provider clients, one AsyncSession per call |
| **Daily incremental sync** (`sync_engine.py`, second half, `sync_daily_by_date_cmd.py`) | stored bars and their latest date | compute missing dates, sync each | provider, quote repository, history sync |
| **Incremental finance sync** (`sync_incremental_finance_cmd.py`, `sync_stock_list_cmd.py`) | failure records, `last_finance_sync_date` | retry, disclosure, long tail, execute | provider, failure-record and stock repositories |
| **Provider clients** (`data_engineering/infrastructure/external_apis/`) | one sliding window of call times, one AkShare lock per process | acquire, call, retry | every sync |
| **Concept and market data sync** | concept tables, daily market tables | replace per concept, five market steps | AkShare, knowledge graph, market insight |
| **Job scheduling, execution tracking** (`foundation/`) | APScheduler's live jobs, `scheduler_job_config`, `scheduler_execution_log` | schedule, start, stop, load at start, track a run | the sync services |
| **Research orchestration** (`coordinator/`) | `research_sessions`, `node_executions`, the LangGraph state | `execute`, `retry`, graph nodes, node persistence | research, debate and judge through gateways |
| **Research experts** (`research/`) | none | read data, compute a snapshot, ask the model, parse | data engineering, LLM platform |
| **Debate, judge** | none | two and one agent calls | LLM platform |
| **LLM platform** (`llm_platform/`) | registry, `llm_configs`, call logs, search cache | refresh, create/update/delete, route with failover, cached search | every agent |
| **LLM output parsing** (`shared/infrastructure/llm_json_parser.py`) | none | strip, repair, parse, ask again | every agent |
| **Knowledge graph** (`knowledge_center/`) | Neo4j nodes and relations | full, incremental and concept sync, neighbours | data engineering |
| **Market insight** (`market_insight/`) | heat and limit-up rows of a day, report file | the daily report | data engineering |

What is hard, and the properties it calls for:

* *Two calls, one task.* `run_history_sync` reads the latest row, decides, and
  writes several awaits later; a slow call is declared stale and taken over while
  it still runs, and `update()` writes every column from memory. Mutual exclusion,
  no lost checkpoint, no reopened row.
* *Dying between two writes.* A batch is saved before its offset is; a job is live
  before its row is written; a concept is deleted before it is inserted. No work
  skipped on resume, no promise forgotten by a restart, no mixture of two versions.
* *A session that cannot be used any more.* A failed statement leaves an
  AsyncSession in need of a rollback that almost nobody issues, while the error is
  swallowed and the work goes on. What is still true of answers, counts and logs.
* *Parallel experts, one session.* Node records are committed concurrently through
  one AsyncSession, their failures are swallowed, and `retry()` relies on them.
* *Cancellation, retry chains, failover.* Nothing computed may be recomputed,
  nothing asked may vanish, no candidate may be passed over.
* *Read, await, write.* Registry refreshes and configuration requests overlap; two
  runs fill the same cache, concept or day. What each may lose is exactly known.
* *Windows, limits, clocks.* A sliding window with sleeping waiters, `utcnow()`
  against `now()`, percentiles and indicators at the lower end of their data.

## 2. Modules

| Module | What it is |
|---|---|
| `SyncEngine` | the history sync, one action per await |
| `ResearchOrchestration` | requests, graph nodes, the shared session, the two tables |
| `Scheduler`, `ExecutionTracker` | scheduling requests and restarts; the log of job runs |
| `IncrementalFinance`, `DailyCompensation` | the two incremental syncs |
| `ProviderCalls`, `SlidingWindow`, `AkShareCalls` | Tushare's limiter and retries; what it promises; AkShare's lock |
| `ConceptSync`, `KnowledgeGraph` | concepts into the tables, and from there into Neo4j |
| `MarketDataSync` | the five market tables |
| `LLMPlatform`, `WebSearch`, `LlmJson` | registry, routing and logs; cached searches; parsing of answers |
| `ResearchExperts`, `MarketInsight` | the experts' calculations; the daily report |
| `MCSyncEngine`, `MCResearch`, `MCFinance`, `MCJson`, `MCInsight`, `MCExperts` | constants of the TLC instances |
| `MCComponents` | all components but the two engines, composed for one run |
| `CheckpointedJob` | what the history sync promises whoever triggers it: the abstract specification of `SyncEngine` |
| `SyncEngineProofs`, `ResearchProofs`, `JobProofs` (scheduler, tracker, both incremental syncs), `ServiceProofs` (both limiters, the LLM platform, the web search), `ConceptMarketProofs` (concepts, graph, market data), `AnalysisProofs` (experts and report), `LlmJsonProofs` (parsing of answers), `ComponentsProofs` (all of these side by side) | theorems and proofs |

Every operation of the code is one action per stretch between two awaits, except
where a comment says why two stretches cannot be told apart. Histories (marked
*history* at their declaration) only record what happened; no guard reads them.

### SyncEngine

A *worker* is a slot for one call of `run_history_sync` for the job type `Kind`.
`pc[w]` names the await a call stands at: `pause`, `start`, `create` (the writes
before the `try`), `fetch` (`get_all`), `stock` (the provider and `save_all`),
`progress`, `complete`, and `fail` (the write in the `except` clause).

| Variable | Code |
|---|---|
| `tasks[t]` | the `sync_tasks` row with primary key t; `age` is the time since `updated_at`, `started` the rank of `started_at` |
| `mem[w]`, `id[w]` | the `SyncTask` object of a call and its id |
| `page[w]`, `pos[w]`, `count[w]` | the list `get_all` returned, the loop's place in it, the stocks saved in the batch (`synced_stocks` of a daily one) |
| `session[w]` | `aborted` after a failed statement: every later one is refused until a rollback, and nobody issues one |
| `order`, `saved` | the order an unordered SELECT yields; the stocks whose data is stored |
| `outcome[w]` | how the slot's last call ended |
| `attempted[t]` | history: the stocks processed under task t without an exception reaching the engine |

`Reject`, `BeginPause`, `BeginResume` and `BeginCreate` are the branches of the
check at lines 90-145, guarded by `IsLatest` (`get_latest_by_job_type`), `IsStale`
and `IsResumable`. `WritePause` and `WriteStart` are the writes before the loop;
`FetchPage`, `SyncStock`, `EndBatch`, `WriteProgress`, `WriteComplete` the loop,
`WriteFailed` the `except` clause. A daily stock that fails is skipped
(`DailyStockFails`), a finance stock fails the call (`FinanceStockFails`). Every
statement may raise, in two ways: it fails in the database, or its connection breaks,
and the session is aborted (`StatementRaises`); or it is the first of a transaction and
the pool has no connection for it, and the session can still be used (`CheckoutFails`).
`update()` commits and then reads the row back in a second transaction, so it may raise
in both ways with the row written (`UpdateRaises`).
`Crash`, `Tick` and `MoveRow` are the environment: the process dies, time passes, a
row of the stock table moves in the heap.

`Overlapping` and `SlowBatches` name two things the code leaves to its
surroundings: whether a second call may begin while another is between its first
read and its first write, and whether a call may go longer than the stale
threshold without writing its row.

`CheckpointedJob` knows tasks, a table and three things about each task: its status,
its offset and the items processed under it. Calls, their memory, sessions, ages and
batch sizes do not occur. `Job == INSTANCE CheckpointedJob WITH ...` maps status and
offset to the columns of the rows (`JobStatus`, `JobOffset`), `done` to `attempted`, and
`Thorough`, whether COMPLETED promises every item, to `Kind = FINANCE`. A write that
changes the row is one abstract step, and everything else (a takeover, a second
trigger, a crash, a lost reply, a repeated stock) has to be a stutter:
`IsCheckpointedJob == Job!JobSpec`. Two of its steps are there because `update()` can
raise with the row written and the session usable: `Fail` may carry a checkpoint that
could not be written on its own, and `Disown` writes FAILED over COMPLETED, by the call
that completed the task and was not told.

### ResearchOrchestration

One request is one ResearchSession, so all state is indexed by the session.
`node[s][n]` is the place of a graph node (`running`, `saving` inside
`save_node_execution`, `done`, `raised`, `cancelled`); `ran[s][n]` how its function
ended. `pending[s]` are the NodeExecutions added to the AsyncSession that no commit
has stored, `conn[s]` is `broken` once a statement failed or a commit was cut short; an
UPDATE for which there is no connection raises and leaves it usable.

SQLAlchemy does not support two tasks in one AsyncSession
(`coordinator/infrastructure/adapters/research_gateway_adapter.py:7` says so and
gives each expert a session of its own, but node records share one). What a commit
does when another runs into it, or when it is cancelled, is left open: the save may
end well, be refused with its record still added (a later commit stores it), or
leave the session unusable, with the record stored or not. LangGraph's reaction to
a failing node, cancelling the other tasks of the step, is `CancelSiblings`;
`CancelledError` is not an `Exception`, so a cancelled node writes no record.

`Execute` and `Retry` are the application service; `SaveSession`, `Aggregate`,
`LeaveGraph`, `UpdateSession`, `UpdateFailed` the orchestrator's `run()`; `RunNode`
and `SaveNode` the persistence wrapper around a node. The two reads of `retry()`
are one step, because a failed row and its records are written by one commit and do
not change any more (this is `FinishedIsFinal`).

### Scheduler and ExecutionTracker

`live[j]` is APScheduler's job (its cron or `NoCron`), `row[j]` the
`scheduler_job_config` row, `call[c]` a request between two statements. The service
keeps one AsyncSession for the life of the process: `poisoned` stays set after a
failed statement, until `Restart` (`LoadPersistedJobs`, or `LoadFails`, which sets
`degraded`). `promise[j]` is what the last answered request said. `ScheduleJob`,
`StartJob` and `StopJob` begin a request with everything APScheduler does; the SQL
statements `SelectRow`, `WriteRow`, `ReadBack`, `DisableRow` follow, each of which
may fail, and `Compensate` is the `except` clause that takes the live job back.

A run of a job is a slot of `ExecutionTracker`: `EnterRun` opens its log entry,
`Work` ends in success or failure, `LeaveRun` closes the entry; both writes may
fail and are swallowed, and the process may die at any point.

### IncrementalFinance and DailyCompensation

`IncrementalFinance` goes through one run at a time: `RetrySucceeds`, `RetryFails`,
`RetryAborts` work off the failure records, `Disclose` and `LongTail` build the task
set, `SyncCode...` works it off in any order, all through one session (`finAborted`).
`SyncStockList` writes the same stock table from its own schedule and resets
`last_finance_sync_date`, as its upsert does. `owed` is history: the stocks whose
last attempt failed.

`DailyCompensation` lets runs overlap: `StartDailySync` computes the missing days
from the latest bar of any stock, `FetchDay` and `SaveDay` walk them. `lostDays` and
`passedLate` are history: the days the code itself gives up (a day that raised
ends it, a history sync moved the latest bar past it) and the bars that were
published too late.

### ProviderCalls, SlidingWindow and AkShareCalls

`grants` is the history of permitted Tushare calls, of which those from `oldest` on
are in the limiter's deque; `lockQueue` is the asyncio lock with its waiters. A
caller that finds the window full sleeps *holding* the lock (`AcquireWaits`,
`AcquireAfterWait`). `RateExceeded` and `Retried` are `_rate_limited_call`.
`SlidingWindow` is the abstract specification: time passes, and a call is granted if
the one `MaxCalls` before it is at least `Window` old. `Promise == INSTANCE
SlidingWindow` maps `clock` and `grants` to themselves and hides the deque, the
lock, the sleeps and the retries: `GrantsWithinWindow == Promise!WindowSpec`.
`AkShareCalls` is the other limiter: a lock held over pause and call. One call goes by
it: `fetch_dragon_tiger_detail` asks for the trading calendar itself
(`external_apis/akshare/market_data_client.py:265`), without lock or pause and on the
event loop, so that no other coroutine runs meanwhile (`ChecksCalendar`,
`CalendarAnswers`, `LoopRuns`), while a limited call may be out in its thread.

### ConceptSync, KnowledgeGraph, MarketDataSync

`ConceptSync` is one transaction per concept, in three statements, with row locks
(`RowFree`); what `DELETE` removes is what it sees, so that two runs can be mixed
only as PostgreSQL allows. `KnowledgeGraph` extends it, reads its tables and writes
`stockNode`, `conceptNode`, `inIndustry`, `inConcept`; the Neo4j driver blocks the
event loop, so delete and merge of the relations are one step that only a crash can
divide. A rebuild of the concept relations
reads concepts and constituents in two statements (`SelectConcepts`, `SelectMembers`),
between which a concept sync may commit (`CommitNoted`). Two histories account for what
the graph need not show: `changed[g]`, the concepts committed since run g last read of
them, and `outdated`, those whose change no rebuild has read, whose record failed, of
which a stock got its node late, or that were cleared. A query returns rows, a stock with
a node it shares, of which `LIMIT` takes some (`Limited`). `MarketDataSync` is a request's list of steps: `FetchStep`, `SaveStep` and
their failures, one session; a row carries `of`, the day its figures are of.

### LLMPlatform, WebSearch, LlmJson

A configuration request looks its row up (`LookUp`), writes it (`WriteConfig`), and
refreshes the registry (`ReadActive`, `Rebuild`), with awaits in between; an LLM call
takes its candidates once (`Generate`) and works them off (`CandidateAnswers`,
`CandidateFails`), looking each up in the registry that refreshes change meanwhile.
`repoOf` is the repository, and with it the session, that the registry singleton was
last given. `serial` is history: the table, had every request been alone; `raced`
the rows that changed between a request's lookup and its write; `views` the states of
the active rows.

`WebSearch` has one expert per slot, one dimension after the other: cache lookup,
Bocha, cache write, log, with both clocks (`utcnow()` in the code, `now()` in the
database). `LlmJson` takes a text as a sequence of tokens (a
character that some scanner looks for, a fence, a tag, or `word` for anything else): the
think and fence stripping, the stray quotation mark, the raw line break, the outermost
object as fallback, and `generate_and_parse` with its bounded repetition. `ModelWrites` gives an answer that
stands for a document, with noise; `meant` remembers which.

### ResearchExperts, MarketInsight

Both are calculations at the end of reads. `ResearchExperts` computes the snapshots
(relative strength, volume trend, levels, growth series, percentiles, PEG, Graham
number, filtered search results) from enumerated inputs and follows each error to
what the caller is told. `MarketInsight` is one action per step of
`GenerateDailyReportCmd`; two copies of the limit-up rules are modelled separately,
because the code has two.

### MCComponents

The components of this module share no state in the code but the database, whose
session rules each models for itself. A behaviour therefore chooses one component
(`focus`) and leaves the others in an initial state: interleaving them would multiply
the states and add no behaviour. Where components do meet, they are composed: the
graph sync runs beside the concept sync (`focus = "graph"`), the daily sync beside
the history sync, the finance sync beside the stock list sync, LLM calls beside
configuration requests.

## 3. Runs

All constants of a run are in its `.cfg`.

| Run | Instance | Shows |
|---|---|---|
| `sync_overlap` | FINANCE, 2 workers, 2 rows, 3 stocks (one without data), batches of 1 or 2, 3 starts, 1 fault of either kind, 1 crash, overlapping, slow batches | types; `Checkpoint`: an offset, in a row or in memory, is never ahead of the work; `CompletedMeansAllDone`; `ProcessedMatchesOffset` |
| `sync_spaced` | DAILY, as above with 3 rows and 4 starts, all stocks with data, triggers apart, batches faster than the threshold | `AtMostOneRunning`, `OneWorkerPerTask`, `OffsetNeverGoesBack`; `SingleStockFailureIsolated`; `IsCheckpointedJob`: the rows behave like one checkpointed job (with `Thorough` false, since a daily task can complete early: violation 2) |
| `sync_liveness` | FINANCE, 2 stocks, local time ahead of UTC, 1 provider fault, 1 crash, one moving row, with fairness | `RaisedMeansFinished`, `CallReturns`, `OrphanIsTakenOver`, `UndisturbedCallCompletes` |
| `research_trail` | 3 experts, a request and its retry, any 2 faults, 1 crash | types, `FinishedHasRecords`, `FailedTellsWhy`, `CompletedHasResults`, `ReusedWereComputed`, `SuccessNotRedone`, `FinishedIsFinal` |
| `research_liveness` | 2 concurrent requests, 2 experts, 2 node faults, with fairness | `RequestEnds`, `RunningIsFinished` |
| `components` | the other components, about 1.4 million states | the table below |
| `sync_two_running` (violation) | 2 calls that coincide | `AtMostOneRunning` fails |
| `sync_daily_stops_early` (violation) | 1 call, one stock without data | `CompletedMeansAllTried` fails |
| `research_cancelled` (violation) | 2 experts, one fails | `RetryCoversExperts` fails |
| `finance_long_tail` (violation) | 2 stocks, 3 days | `LongTailIsComplete` fails |
| `daily_report` (violation) | 1 request, no failing statement | `FaultlessRunWritesReport` fails |
| `search_order` (violation) | the experts with lists of search items | `SearchesMostRecentFirst` fails |

Properties of `components` beside the types of every component (`DataTypeOK`):

| Property | Component | What holds |
|---|---|---|
| `SchedulerAnswersHold` | scheduler | what the last answered request said of a job is what process and table agree on, also after restarts |
| `LogTellsOutcome` | tracker | a closed log entry tells how its own run ended |
| `FailureIsKept` | finance | a stock whose last attempt failed has an unresolved record |
| `NoSilentGap` | daily | a stored day hides no missing bar, but for the days and bars the code is known to give up |
| `GrantsWithinWindow` | Tushare | the limiter implements `SlidingWindow` |
| `AkShareCallsApart` | AkShare | calls through the limiter do not overlap and keep their interval; checks of the calendar do not overlap each other. Nothing keeps a check and a call apart |
| `ConceptsAreOneVersion` | concepts, graph | a concept's constituents are one list the provider offered, never a mixture |
| `NeighborsFollowDatabase` | graph | the neighbours by concept, and the concepts of a stock, are those of the database, but for the concepts that a commit, a late node, a failed record or a clearing has outdated: torn reads and failing batches cost no other concept |
| `UnreportedIsStored` | market data | a step not reported as failed stored and counted all it got |
| `RegistryIsASnapshot`, `OnlyOverlapsLoseUpdates`, `FailsOnlyAfterAll` | LLM platform | the registry is one state of the table; only a write between another's lookup and write is lost; a call fails only after every candidate |
| `SearchAnswersHold` | web search | what Bocha answered reaches the expert; nothing expired is served |
| `RepairsAreExact` | LLM output | a repaired answer is read as the document it stands for, and babble as none |
| `InsightAnswersHold` | report | the two counts of limit-ups agree, the ladder and totals add up |
| `ExpertAnswersHold` | experts | growth, percentiles and levels are in bounds and agree between the experts; no result without data |

The six violations, each against a sentence of the repository:

1. `sync_engine.py:52` promises one RUNNING task per job type. Two calls that both
   read the table before either writes create two. `sync_spaced` shows that the
   check does work when triggers are apart.
2. `openspec/specs/data-engineering/spec.md:108` wants the whole table synced. A
   daily page on which nothing is saved (all suspended, no `third_code`, or all
   failing) counts as the end, and the task is COMPLETED.
3. `openspec/specs/coordinator/spec.md:994` wants a retry of a failed session to
   give a complete result. An expert cancelled because another one failed has no
   record, so the retry completes without it.
4. `pg_stock_repo.py:34` says that the query returns the stocks that lack a period's
   figures. Line 53 compares a column with `is None`, which is always false, so a
   stock never checked is never found, and the long tail never asks for it.
5. `openspec/specs/market-insight/spec.md:318` wants the complete report. Its
   sentiment section calls `.get` on a pydantic model, so that a run without any
   failure ends in an error, after its heats and limit-ups were committed.
6. `result_filter.py:33` sorts search results by date in descending order, and
   `tests/test_result_filter.py:157` and `:193` expect the most recent first. Line 104
   sorts them the oldest first, so that is what the prompts of the experts begin with.
   What else the filter promises (titles, contents, one item per page, the undated at
   the end) is part of `ExpertAnswersHold`.

### Bounds

*SyncEngine.* Two workers are enough for every overlap of a pair, and any property
here is violated by a pair: a third call finds the same row or another. Three stocks
with batches of one and two give a full page, a short page, a page boundary inside
the table and the empty page at its end; three starts give an original call, one that
takes it over and one after it, four a further generation. Counters that only grow
(starts, faults, crashes, moves, sessions) are bounded by `Max...` constants in the
guards of the environment's actions; ages stop at the threshold, beyond which the
code does not distinguish them.

*Research.* Three experts give one that fails, one in its commit and one still
running at the same time.

*Components.* Two concurrent requests, runs or slots of each kind, and three callers
of the Tushare limiter (a holder that sleeps, one in the queue, one in a retry) with
two calls per window. Each component has one or two failing statements: the second
of a session is refused anyway. Three crons give an old one, a new one and one that
passes the validation and is refused by APScheduler. Codes, boards, bars, pools and
answers are short lists chosen so that every branch of the calculations is taken: a
board code of the wrong exchange, a stock that is ST in one table only, a loss before
a profit, a history just below and at its minimum, undated and repeated pages, a
string with brackets and escaped quotation marks. `OneConceptSync` and
`RequestsOrChats` keep two combinations apart that would only multiply states (the
concept sync's own failures have a focus of their own; many requests, or many calls).
One graph sync is under way at a time (the calls block the event loop, but for the
reads), and a second concept sync, after the provider has changed its list, only where
no Cypher statement fails; that overlapping rebuilds change nothing is proved, not run.
The bars table starts filled: on an empty table `NoSilentGap` promises nothing.

Tasks, workers, experts, concepts, stocks of bars and daily runs are interchangeable, so safety
runs use symmetry; liveness runs do not. Deadlock is not checked, since a bounded
instance stops when its bounds are used up.

### Fairness

`FairSpec` (`SyncEngine`, `ResearchOrchestration`): weak fairness of each call's own
next step. The event loop runs every ready coroutine and each await ends, since
provider and LLM calls carry timeouts or raise. `TriggeredSpec` adds that time passes
and that somebody (the cron schedule or an operator) triggers again. No fairness is
assumed of faults, crashes or moving rows. The other components promise nothing that
must eventually happen beyond the end of each request, which their straight-line code
gives.

## 4. Proofs

Each theorem holds for every value of the constants that satisfies the named
assumptions of its module; the bounds of the runs are constants like the others.

| Module | Theorem | Inductive invariant, and why it is needed |
|---|---|---|
| `SyncEngineProofs` | `TypeCorrect`, `CheckpointSafe`, `CompletedIsDone`, `ProcessedExact` | `IInv`, below |
| `SyncEngineProofs` | `RunningIsUnique`, `OwnersDiffer`, `OffsetsGrow`, `FinishedRowsAreNotReopened` | `MutexInv`, below |
| `SyncEngineProofs` | `CallsMakeOneJob`, `OneJobIsSound` | `JobInv`, below: the refinement of `CheckpointedJob` |
| `SyncEngineProofs` | `OneStockFailsAlone` | `IsolationInv`: the property speaks of the end of a batch, so the steps preserve its bound for the part of the page that was passed (`Unsaved`) |
| `SyncEngineProofs` | `EndedMeansFinished` | `TidyInv`: what the last two awaits are about to write, and that only a call under way has a row |
| `ResearchProofs` | `ResearchTypes`, `TrailIsComplete`, `FailuresTellWhy`, `CompletedIsComplete`, `RetryReusesComputed`, `RetryRedoesNoSuccess`, `FinishedStays` | `ResearchInv`: `SessionInv` says, at every point of a request, which records are stored, added or lost with the session, and what the graph knows; `Lineage` says the same of a retry and its origin. `FinishedHasRecords` alone says nothing of a request whose last commit is under way |
| `ResearchProofs` | `OnlyCancelledAreLeftOut` | `OverInv`: every node of a request that has left the graph has returned, raised or been cancelled, and the first two have a record. It is the exact extent of the finding of `research_cancelled` |
| `JobProofs` | `AnswersHold` | `SchedulerInv`: a request that is alone on its job (`AloneIsAlone`, `NoPromiseWhileBusy`) knows live job and row at each of its statements (`CallHolds`); a poisoned session and a degraded start weaken what a promise says (`PromiseHolds`) |
| `JobProofs` | `TrackerTellsOutcome` | `TrackerInv`: an entry is closed only by its own run at its end (`ClosedAtTheEnd`), and a run about to leave knows how it ended (`LeavingHasEnd`) |
| `JobProofs` | `FinanceTypes`, `FailuresAreKept` | `FinanceInv`: the records that a retry phase still has to do are unresolved (`RetriesUnresolved`); without it, resolving one record could leave an owed stock without any |
| `JobProofs` | `NoGapOnTheQuiet` | `DailyInv`: `NoSilentGap` says nothing of a day beyond the latest bar that a run has walked past, until a later save moves the latest bar over it. `PassedIsAccounted` speaks of the days behind the latest bar or behind any run, `BatchKnown` of what a fetched batch can lack |
| `ConceptMarketProofs` | `ConceptsAreNeverMixed` | `ConceptInv`: two transactions that hold a lock are about different concepts (`LocksAreApart`), so what one deletes is all there is when it inserts (`DeletesAll`). `GraphInv`: what a rebuild has read is, concept by concept, part of a list that was offered |
| `ConceptMarketProofs` | `NeighborsAreOfDatabase` | `FollowInv`: a concept that is not outdated has in the graph the constituents it has in the database (`InStep`), and what a rebuild has read of it and will write is still so (`ReadIsFresh`), between the two reads too: there the concepts it has not seen have no constituents unless they changed. For any number of overlapping rebuilds, where the later one may write what it read earlier |
| `ConceptMarketProofs` | `WhatIsNotReportedIsStored` | `MarketInv`: every step of a run is in its errors, or counted and covered by its table, except the one whose rows are fetched and not yet saved |
| `ServiceProofs` | `DequeInvariant`, `LimiterImplementsWindow`, `NoBurstOfCalls` | `CallsInv`: what left the deque left the window (`LeftTheWindow`), the deque never exceeds the limit (`DequeBounded`), a sleeper holds the lock and wakes when the oldest grant leaves (`SleeperHolds`). With it every step maps to a step of `SlidingWindow` or a stutter; `NoBurst` is then proved of the abstract specification's behaviours |
| `ServiceProofs` | `AkShareCallsKeepApart` | `AkInv`: only the holder of the lock sleeps or calls (`HolderActs`), `_akshare_last_call` is the end of the latest success (`LastIsLatest`), and what is out now was sent after all of its kind had ended, a call with the pause after the last success (`SentApart`): the calls that are only part of the history once they end |
| `ServiceProofs` | `RegistryIsOneTable`, `NoModelIsPassedOver`, `NoOtherUpdateIsLost` | `RegistryInv`: the list a refresh holds in memory is a state that the table had (`ReadIsAView`). `ChatInv`: the candidates before the turn are those tried or missing (`CallHolds`). `UpdatesInv`: a writer's lookup still tells of the row, or the row is in `raced` (`WriterKnows`) |
| `ServiceProofs` | `SearchKeepsItsPromises` | `SearchInv`: a cache entry lives no longer than the freshness in its own key (`CacheHolds`), and what Bocha gave is in hand or among the results at every statement between (`ExpertsHold`) |
| `AnalysisProofs` | `ResultsAreGrounded`, `SearchesAreFiltered` | `InquiryInv`: what each step of an inquiry has read (`ReadSoFar`), so that a step that asks the model has what its expert needs |
| `AnalysisProofs` | `ExpertsComputeInBounds` | `FiguresInv` adds to `InquiryInv` that the bars, reports, ratios and basic data in hand are what the tables hold (`FiguresHold`); the bounds then follow from the lemmas on what is computed of them (`BarsInBounds`, `SnapshotInBounds`, `GrowthsAgree`) |
| `AnalysisProofs` | `ReportFiguresAgree`, `HeatsTellTheListedLimitUps` | `InsightInv`: a stored row is one its run has computed, and the run computed heats and limits from the same bars (`HeatsCounted`); `AnalysedInv` adds that the analyses are of the pool and the list that were read |
| `LlmJsonProofs` | `AnswersAreExact`, `AnswersTyped` | `JsonInv`: the property and the types, inductive together. The weight is in the lemmas on what the scanners return, below |
| `ConceptMarketProofs`, `ServiceProofs`, `AnalysisProofs` | `PipelineTypes`, `MarketTypes`, `PlatformTypes`, `SearchTypes`, `InquiryTypes`, `ReportTypes` | the invariant of the component, with a typed part of its own (`MarketTyped`, `ConfigTyped` and `LogsTyped`, `WebTyped`, `InsightTyped`) for what the properties do not need to know |
| `ComponentsProofs` | `ComponentsTypes`, `ComponentsAnswer` | none of its own: below |

The history sync's `CheckpointSafe`, `CompletedIsDone` and `ProcessedExact` assume
`MaxMoves = 0`, a stock table whose order does not change while a task is alive. None of them
assumes anything about overlap, batch length or the clock. `Checkpoint` is not
inductive, because it says nothing of the page a call is working through. `IInv` adds
`Grounded` (a row and the memory of a call are each backed by `attempted`, with the
count that belongs to the offset) and `PageDone` (the stocks of the page before `pos`
have been processed under the call's task, and the page is the one `get_all` returned
for its offset). `Before` is the set of stocks before an offset; the lemma that
matters says that the stocks before `offset + batch_size` are those before `offset`
and those of the page. Since every write of a row copies a grounded memory and
`attempted` only grows, the stale overwrite of a row by a displaced call cannot break
it: it may move the checkpoint back, never ahead.

The four theorems of mutual exclusion assume `Spaced`: triggers apart, batches faster
than the threshold, and local time not so far behind UTC that the threshold is used up.
That a call only takes a stale, paused or finished task is not inductive.
`MutexInv` adds that a row which can be resumed is the one started last
(`ResumableIsLatest`, so the latest row is the only one that matters), that a call
which enters is alone and knows its row (`EntersAlone`), that a call in its loop owns a
RUNNING row that is not stale (`OwnsRow`), what each await is about to write
(`ToWrite`) and that no memory is behind its row (`NotBehind`). The delicate case is an
`update()` that raises after the commit of COMPLETED: the call is then in its `except`
clause and may write FAILED over its own row. `OwnsRow` therefore lets the row of a call
that fails be COMPLETED, and the theorem is `FinishedRowsAreNotReopened`, not that no
finished row changes.

The refinement assumes both, `Spaced` and `MaxMoves = 0`. Each write of a row has to be
one step of the job, so a write of a status may not move the offset with it, unless the
status is FAILED and takes over from RUNNING. Neither `MutexInv` nor `IInv` says so;
`JobInv` adds `AtCheckpoint`: what a call holds is at the offset of its row, except
between `update_progress()` and its write and in an `except` clause that follows it
(where the row is RUNNING still). With it each action is mapped to the step of `CheckpointedJob` it is, or to a stutter. `OneJobIsSound` is proved
of the abstract specification alone and shown for every behaviour that implements it.

`EndedMeansFinished` assumes `"db" \notin FaultKinds`: the provider may raise at every
call, but no statement of the database fails. This is not a convenience of the proof. When
the session is aborted, the write in the `except` clause raises too, and when `create()`
reads its new row back and gets no connection, the call ends before its `try`; either way
the row stays RUNNING (section 6). `OneStockFailsAlone` needs no such assumption, since
`SingleStockFailureIsolated` speaks only of sessions that can be used.

The proofs of `AnalysisProofs` rest on lemmas about two operators of its modules. A sort
by rank (`Sorted`, and the rungs of `Ladder`) takes for place i the element that has
i - 1 before it: `RankOnto` and `RankedSorts` say that in a finite set with a strict
order there is exactly one, and that the places are in order. `Sum` is a recursion over
subsets; `SumRules`, `SumOfUnion` and `SumByParts` say that the order of the elements
does not matter, that disjoint sets add up, and that a total is the sum of its parts by
key. `SumOfIsSum` says that what `FoldLeft` adds up along a sequence is that sum over its
places, so that `SumGrows` and `SumScaled` compare the volume-weighted price with the
close: were the least low not below a close that is above the average price, every
typical price would weigh at least what the close does, and so would their sum. Where a
proof over finite sets needs induction, it takes a smallest counterexample instead
(`LeastNumber`, `SmallestSet`, from the well-foundedness of <).

Some assumptions on constants say what the database or the provider can only hand over:
finite sets of member codes and finite tables, pools and lists, numbers where the columns
or the models' answers are numeric, rows and patches of the columns' types, bars whose close is between low and high, sequences of search items, and a
`None` that is no number (`ExpertAssumption`, `InsightAssumption`, `ConceptAssumption`,
`WebAssumption`, `LLMAssumption`). One relates two constants of the code: the bars that the technical
expert demands (30) are more than the period of the relative strength (14). No assumption
bounds a size.

`AnswersAreExact` has to say what functions defined by recursion over a text return, for
texts of every length. The proof takes each of them (the two repairs, the search for the
outermost object, `json.loads`, the thought and fence stripping) to a machine that reads a
text token by token and writes one (`Scans`); `QuotesSound`, `CharsSound`, `ObjectSound` and
`JsonSound` say that the function returns what its machine writes. Machines compose along
texts (`ScanCat`), so each is followed through the parts of a document once (`TextScan`):
the machine of the repairs leaves every string where it entered it, whatever the string
holds, because `Escaped` hides each quotation mark behind a backslash and the machine knows
of backslashes (the mutant `ModeIgnoringEscapes` fails here). The noise around it is read
by the same machines (`ParseNoisy`), and `UselessNeverRead` goes through the answers that
stand for nothing. Induction over places takes the least one that fails (`LeastPlace`, `UpTo`).
Its assumptions on the constants are types: a document's strings are any sequences of tokens
that do not open a thought, since `<think>` inside a string is taken for a thought.

`ComponentsProofs` is about the specification that the run `components` checks. A step of it
is a step of one component and leaves the variables of the others alone, so that every
behaviour of `ComponentsSpec` is a behaviour of each component's own specification
(`SchedulerAlone` ... `ExpertsAlone`), and the theorems of the components carry over: with
`ComponentsTypes` and `ComponentsAnswer` every property of that run is proved for every value
of the constants. A few type invariants bound what the code only bounds through its logic:
a call that fails over never turns past its last candidate (a model is a candidate once,
so there are no more candidates than aliases: `ChatHolds`), a search gives one answer per
result outside the two statements between, and no answer was heard after the clock.

Model-checked only: liveness (outside TLAPS). The six properties of the violation runs are false.

## 5. Plan

Done: the two engines with their theorems, scheduler and tracker, the incremental
syncs, the limiters, both refinements, concepts, graph and market data, the LLM
platform, search cache, parsing, experts and report, and the theorems above: every
invariant that a passing run checks is proved.

Left: liveness of the limiter's waiters as a run.

## 6. Deviations that no run checks

Met while modelling. The models contain them (or exclude their cause by name), and the
properties are stated so that they hold of what the code does.

*History sync.* After a failed statement neither the other stocks of a daily page nor
`fail()` can be written, so the row stays RUNNING (`sync_liveness` allows provider faults
only, and `SingleStockFailureIsolated` speaks of usable sessions). When the read-back after
the commit of `complete()` gets no connection, the `except` clause marks the finished task
FAILED, and the next trigger starts again from nothing; after `update_progress()` the
FAILED row carries the new offset. A stock row that moves between two pages of a finance
sync is skipped (`MaxMoves = 0`). A stale task is paused and resumed where
`openspec/specs/data-engineering/spec.md:192` says failed and replaced. The threshold
is off by the UTC offset.

*Daily and finance syncs.* A day that fails inside a walk is never compensated, since
the next run starts at the latest bar of any stock, and the answer's status is
"success" in any case; a failing `adj_factor` or `daily_basic` leaves columns empty.
Two runs on an empty table can leave a hole. The stock list's upsert
(`pg_stock_repo.py:136-141`) resets `last_finance_sync_date`. A second run of the incremental finance sync can be started by
REST while the first one is under way (`stock_routes.py:223`); the model has one.

*Providers.* `akshare/base_client.py:6` says that the lock, shared by the whole process,
keeps the frequency of the calls below the limit. The check of the trading calendar
(`market_data_client.py:265`) does not take it, does not wait and does not count for
the next call's pause: it may be sent while a call is out or right after one, and it
blocks every request of the process until it is answered.

*Research orchestration.* A row stays running after a failed node save
(`research_liveness` excludes database faults and commits cut short) or a crash; a
session in which some experts fail never becomes `partial`; a retry of a retry loses
the results the first one took over. When the update to completed gets no connection,
the `except` clause marks the session failed although all its experts succeeded, and
`retry()` refuses it for want of a failed one, where the comment at
`research_orchestration_service.py:152` holds that for theoretical (`FailedTellsWhy` has
this as its second case).

*Scheduler.* The job is scheduled before its row is written, where
`openspec/specs/foundation/spec.md:135` has the reverse order. The REST routes pass an
empty registry, so that every schedule and start request is answered with an error
(the run gives `RouteRegistry` two jobs, what the registry of the start-up has). Two
requests that overlap on one job can leave a stopped job enabled; a read-back that
fails after the commit leaves the row enabled while the job is taken away; a failed
stop cannot be repeated; after one failed statement the singleton's session refuses
all others until the process restarts. `query_execution_logs` calls repository methods
that do not exist. A crash leaves an execution log entry RUNNING for ever.

*Concepts, graph, market data.* The scheduled jobs of the concept, market data and
stock list syncs raise before they do anything; only the REST routes work. Concepts
that the provider dropped are never deleted, in table or graph, nor is an old industry
relation. Neo4j results are not consumed, so errors that come late are swallowed. The
market calendar compares texts with dates. `fetch_sector_capital_flow` takes no day, so today's
ranking is filed under any day asked for (the rows of the model tell by `of`; no property
is about it). One failing statement aborts the session that the five market steps
share, so that a single failure does stop the others.

*Sessions elsewhere.* That a connection is refused and the session stays usable is modelled
in the two engines. In scheduler, incremental finance, market data and search a failed
statement is always one that aborts the session.

*LLM platform.* Models are tried in ascending order of priority where the
documentation says descending. With a database west of UTC (`DbOffsets` are not negative, by assumption) the search cache would
serve what has expired, east of it it forgets early; `cleanup_expired` is never called.
The parser cuts think tags inside strings too, and an odd quotation mark in prose
breaks the fallback to the outermost object (`Noises` has neither).

*Experts and report.* The valuation data adapter passes the daily change as `pe_ttm` and
leaves the other ratios empty. Normalising a URL drops its query, so that different
pages may count as one. The auditor's year-on-year margin compares with the previous
quarter; a previous loss inverts the sign of growth; a flat price series gives a
relative strength of 100; support and resistance may cross (only the outermost levels
are claimed). A placeholder of the macro expert after a parse error is refused by the
response model, a 500 instead of the documented 422. In the report, Beijing codes that
begin with 92 fall under the main board's limit in both copies of the rule, `ST` is
looked up in two tables that may differ, and rows that are no longer true are
overwritten, never deleted.

## 7. Not modelled

Debate and judge: a gather of two agent calls, a third call and one parse, without
state; they are nodes of `ResearchOrchestration` that return or raise. REST routes,
containers, ORM models and migrations: conversion and wiring without state, except the
statuses that routes answer in the modelled components. Prompts and the wording of
snapshots and reports. The text of Cypher statements, modelled by what they do.
Operations that nothing calls: `update_job_config`, `remove_job`, `merge_dimensions`,
the graph's relation filter, the clean-up script's labels, which match no node.
Cancellation of a waiting limiter call.

In all modules the content of quotes, indicators, reports and expert results is
abstracted to what the properties tell apart, and error messages, logging, the
ExecutionContext and timestamps other than ages and orders are left out.

----------------------------- MODULE SyncEngine -----------------------------
(***************************************************************************)
(* The history sync of the data-engineering module: calls of               *)
(* SyncEngine.run_history_sync for one job type, the SyncTask rows they     *)
(* read and write, the page loop over the stock table and the per-stock     *)
(* work of SyncDailyHistoryCmd and SyncFinanceHistoryCmd.                   *)
(*                                                                         *)
(* One action per await.  What the coroutine computes between two awaits    *)
(* belongs to the action that ends at the later one's call, so another      *)
(* call, a crash or the passing of time can come in between wherever the    *)
(* event loop may switch.                                                   *)
(***************************************************************************)
EXTENDS Integers, Sequences, FiniteSets, SequencesExt

CONSTANTS
  Kind,          \* the job type: DAILY_HISTORY or FINANCE_HISTORY
  Workers,       \* calls that may be in progress at once
  TaskIds,       \* primary keys available to sync_task rows (a bound)
  NoTask,        \* "no SyncTask at hand"
  StockRows,     \* the stock table in the order the first page query sees it
  NoData,        \* stocks the provider has no data for, or without third_code
  BatchSizes,    \* values config["batch_size"] may have
  Timeout,       \* SYNC_TASK_STALE_TIMEOUT_MINUTES, in ticks
  UtcOffset,     \* local time minus UTC, in ticks
  FaultKinds,    \* "api": the provider raises; "db": a statement raises
  MaxStarts,     \* bound on SyncTask.start()
  MaxFaults,     \* bound on faults
  MaxCrashes,    \* bound on process crashes
  MaxMoves,      \* bound on rows that move in the stock table
  Overlapping,   \* may two calls be between their first read and first write?
  SlowBatches    \* may a call go longer than the stale threshold without a write?

DAILY == "DAILY_HISTORY"
FINANCE == "FINANCE_HISTORY"

Stocks == ToSet(StockRows)
N == Len(StockRows)

\* `now - updated_at` compares utcnow() with a local timestamp: a row is stale
\* from this age on, and ages are not counted beyond it.
StaleAge == IF Timeout + UtcOffset + 1 > 0 THEN Timeout + UtcOffset + 1 ELSE 0

ASSUME KindAssumption == Kind \in {DAILY, FINANCE}
ASSUME RowsAssumption ==
  /\ StockRows \in Seq(ToSet(StockRows))
  /\ \A i, j \in 1..Len(StockRows) : StockRows[i] = StockRows[j] => i = j
ASSUME NoDataAssumption == NoData \subseteq Stocks
ASSUME BatchAssumption == BatchSizes \subseteq Nat \ {0}
ASSUME TimeAssumption == Timeout \in Nat /\ UtcOffset \in Int
ASSUME IdAssumption == NoTask \notin TaskIds
ASSUME BoundAssumption ==
  /\ {MaxStarts, MaxFaults, MaxCrashes, MaxMoves} \subseteq Nat
  /\ {Overlapping, SlowBatches} \subseteq BOOLEAN

VARIABLES
  tasks,      \* the sync_task table, of this job type
  order,      \* the order in which an unordered SELECT returns the stock table
  saved,      \* stocks whose quotes or indicators are in the database
  pc,         \* where each call stands
  id,         \* the row each call works on
  mem,        \* its SyncTask object
  page,       \* the stocks its last get_all returned
  pos,        \* the next of them to process
  count,      \* stocks saved in the batch so far, synced_stocks of a daily one
  session,    \* "ok", or "aborted" once a statement of its session failed
  outcome,    \* how the last call ended
  attempted,  \* history: stocks processed under each task without an exception
  clock,      \* number of start() calls so far: stands for started_at
  faults, crashes, moves

table == <<tasks, order, saved>>
local == <<id, mem, page, pos, count, session, outcome>>
budget == <<clock, faults, crashes, moves>>
vars == <<tasks, order, saved, pc, id, mem, page, pos, count, session,
          outcome, attempted, clock, faults, crashes, moves>>

-----------------------------------------------------------------------------
(* SyncTask: the entity and its row. *)

Statuses == {"RUNNING", "PAUSED", "COMPLETED", "FAILED"}

\* The columns the engine uses; `age` is the time since updated_at.
SyncTask == [status : Statuses, offset : Nat, bs : BatchSizes,
             processed : Nat, started : Nat, age : 0..StaleAge]

ASSUME NoTaskAssumption == NoTask \notin SyncTask

Rows == {t \in TaskIds : tasks[t] # NoTask}

\* Faulty variants, for checking that the properties notice: a restart from
\* offset 0; a whole batch counted for a short page; no progress recorded;
\* the status forgotten on completion.
StartedOver(task) ==
  [task EXCEPT !.status = "RUNNING", !.offset = 0, !.started = clock + 1, !.age = 0]
ProgressedByBatch(task, n) ==
  [task EXCEPT !.processed = @ + task.bs, !.offset = @ + task.bs, !.age = 0]
NotProgressed(task, n) == [task EXCEPT !.age = 0]
CompletedInName(task) == [task EXCEPT !.age = 0]

\* start(): started_at and updated_at become now.
Started(task) == [task EXCEPT !.status = "RUNNING", !.started = clock + 1, !.age = 0]
NewTask(bs) == [status |-> "RUNNING", offset |-> 0, bs |-> bs, processed |-> 0,
                started |-> clock + 1, age |-> 0]
Progressed(task, n) == [task EXCEPT !.processed = @ + n, !.offset = @ + task.bs, !.age = 0]
Completed(task) == [task EXCEPT !.status = "COMPLETED", !.age = 0]
Failed(task) == [task EXCEPT !.status = "FAILED", !.age = 0]
Paused(task) == [task EXCEPT !.status = "PAUSED", !.age = 0]

\* Faulty: a failed task is resumed; any age, or none, counts as stale; a
\* row that has not finished is overlooked.
FailedIsResumable(task) == task.status \in {"RUNNING", "PAUSED", "FAILED"}
StaleAtOnce(task) == task.age > 0
StaleNever(task) == task.age > StaleAge
IsLatestFinished(t) ==
  LET Finished == {u \in Rows : tasks[u].status \in {"COMPLETED", "FAILED"}}
  IN  t \in Finished /\ \A u \in Finished : tasks[u].started <= tasks[t].started

IsResumable(task) == task.status \in {"RUNNING", "PAUSED"}
IsStale(task) == task.age = StaleAge

\* get_latest_by_job_type: ORDER BY started_at DESC LIMIT 1.
IsLatest(t) == t \in Rows /\ \A u \in Rows : tasks[u].started <= tasks[t].started

\* Faulty: the offset taken for the first row's number.
PageAfter(off, bs) == SubSeq(order, off + 2, off + bs + 1)

\* get_all(skip, limit): OFFSET and LIMIT on a SELECT without ORDER BY.
PageAt(off, bs) ==
  SubSeq(order, off + 1, IF off + bs < N THEN off + bs ELSE N)

Init ==
  /\ tasks = [t \in TaskIds |-> NoTask]
  /\ order = StockRows
  /\ saved = {}
  /\ pc = [w \in Workers |-> "idle"]
  /\ id = [w \in Workers |-> NoTask]
  /\ mem = [w \in Workers |-> NoTask]
  /\ page = [w \in Workers |-> <<>>]
  /\ pos = [w \in Workers |-> 1]
  /\ count = [w \in Workers |-> 0]
  /\ session = [w \in Workers |-> "ok"]
  /\ outcome = [w \in Workers |-> "none"]
  /\ attempted = [t \in TaskIds |-> {}]
  /\ clock = 0
  /\ faults = 0
  /\ crashes = 0
  /\ moves = 0

-----------------------------------------------------------------------------
(* Statements of a session.  PostgreSQL aborts the transaction of a failed   *)
(* statement and no repository rolls back, so every later statement of the   *)
(* session raises too.  A statement that begins a transaction first takes a  *)
(* connection from the pool; when it gets none, it raises and the session     *)
(* can still be used.  update() commits the row and then reads it back in     *)
(* another transaction: it may also raise after the commit.                   *)

Fault(kind) == kind \in FaultKinds /\ faults < MaxFaults /\ faults' = faults + 1
NoFault == UNCHANGED faults

StatementRuns(w) == session[w] = "ok" /\ NoFault /\ UNCHANGED session
StatementRaises(w) ==
  \/ session[w] = "aborted" /\ NoFault /\ UNCHANGED session
  \/ session[w] = "ok" /\ Fault("db") /\ session' = [session EXCEPT ![w] = "aborted"]

CheckoutFails(w) == session[w] = "ok" /\ Fault("db") /\ UNCHANGED session

\* Faulty: an UPDATE also where the row does not exist yet.
UpdateRow(w) == tasks' = [tasks EXCEPT ![id[w]] = IF @ = NoTask THEN NoTask ELSE mem[w]]

WriteRow(w) == tasks' = [tasks EXCEPT ![id[w]] = mem[w]]

\* update() or create() raises: before its commit or in it, whose reply may be
\* lost; in the read-back after it; or, where the save of a stock has ended the
\* transaction before, without a connection for its first statement.
UpdateRaises(w) ==
  \/ StatementRaises(w) /\ (UNCHANGED tasks \/ (session[w] = "ok" /\ WriteRow(w)))
  \/ CheckoutFails(w) /\ WriteRow(w)
  \/ CheckoutFails(w) /\ count[w] > 0 /\ UNCHANGED tasks

\* The call ends: run_history_sync returns or raises and its session is closed.
EndCall(w, how) ==
  /\ pc' = [pc EXCEPT ![w] = "idle"]
  /\ outcome' = [outcome EXCEPT ![w] = how]
  /\ id' = [id EXCEPT ![w] = NoTask]
  /\ mem' = [mem EXCEPT ![w] = NoTask]
  /\ page' = [page EXCEPT ![w] = <<>>]
  /\ pos' = [pos EXCEPT ![w] = 1]
  /\ count' = [count EXCEPT ![w] = 0]

\* The except clause of the loop: task.fail(), then update(task).
Except(w) ==
  /\ pc' = [pc EXCEPT ![w] = "fail"]
  /\ mem' = [mem EXCEPT ![w] = Failed(@)]
  /\ page' = [page EXCEPT ![w] = <<>>]
  /\ pos' = [pos EXCEPT ![w] = 1]
  /\ count' = [count EXCEPT ![w] = 0]
  /\ UNCHANGED <<id, outcome>>

Goto(w, there) == pc' = [pc EXCEPT ![w] = there]

-----------------------------------------------------------------------------
(* Entering a call: mutual exclusion, stale detection, resume or create. *)

Entering == {"pause", "start", "create"}
InLoop == {"fetch", "stock", "progress", "complete", "fail"}

MayEnter(w) ==
  /\ pc[w] = "idle"
  /\ Overlapping \/ \A v \in Workers : pc[v] \notin Entering
  /\ clock + Cardinality({v \in Workers : pc[v] = "pause"}) < MaxStarts

\* Every call begins with a fresh session.
OpenSession(w) ==
  /\ session' = [session EXCEPT ![w] = "ok"]
  /\ outcome' = [outcome EXCEPT ![w] = "none"]

\* A RUNNING task that is not stale: the call returns it and does nothing.
Reject(w) ==
  /\ MayEnter(w)
  /\ \E t \in TaskIds : IsLatest(t) /\ tasks[t].status = "RUNNING" /\ ~IsStale(tasks[t])
  /\ outcome' = [outcome EXCEPT ![w] = "rejected"]
  /\ UNCHANGED <<table, pc, id, mem, page, pos, count, session, attempted, budget>>

\* A stale RUNNING task: pause() it and write that.
BeginPause(w) ==
  /\ MayEnter(w)
  /\ \E t \in TaskIds :
       /\ IsLatest(t) /\ tasks[t].status = "RUNNING" /\ IsStale(tasks[t])
       /\ id' = [id EXCEPT ![w] = t]
       /\ mem' = [mem EXCEPT ![w] = Paused(tasks[t])]
  /\ Goto(w, "pause")
  /\ OpenSession(w)
  /\ UNCHANGED <<table, page, pos, count, attempted, budget>>

\* A resumable task that need not be paused first: start() it.
BeginResume(w) ==
  /\ MayEnter(w)
  /\ \E t \in TaskIds :
       /\ IsLatest(t) /\ tasks[t].status # "RUNNING" /\ IsResumable(tasks[t])
       /\ id' = [id EXCEPT ![w] = t]
       /\ mem' = [mem EXCEPT ![w] = Started(tasks[t])]
  /\ clock' = clock + 1
  /\ Goto(w, "start")
  /\ OpenSession(w)
  /\ UNCHANGED <<table, page, pos, count, attempted, faults, crashes, moves>>

\* No task, or a finished one: a new SyncTask with a fresh id.
BeginCreate(w) ==
  /\ MayEnter(w)
  /\ \A t \in TaskIds : IsLatest(t) => ~IsResumable(tasks[t])
  /\ \E t \in TaskIds \ Rows, bs \in BatchSizes :
       /\ \A v \in Workers : id[v] # t
       /\ id' = [id EXCEPT ![w] = t]
       /\ mem' = [mem EXCEPT ![w] = NewTask(bs)]
  /\ clock' = clock + 1
  /\ Goto(w, "create")
  /\ OpenSession(w)
  /\ UNCHANGED <<table, page, pos, count, attempted, faults, crashes, moves>>

\* The pause is written; the task is resumable, so start() follows at once.
WritePause(w) ==
  /\ pc[w] = "pause"
  /\ \/ /\ StatementRuns(w) /\ WriteRow(w)
        /\ mem' = [mem EXCEPT ![w] = Started(@)]
        /\ clock' = clock + 1
        /\ Goto(w, "start")
        /\ UNCHANGED <<id, page, pos, count, outcome>>
     \/ /\ UpdateRaises(w)
        /\ EndCall(w, "raised")
        /\ UNCHANGED clock
  /\ UNCHANGED <<order, saved, attempted, crashes, moves>>

\* update(task) of a resumed task, create(task) of a new one: before the try.
WriteStart(w) ==
  /\ pc[w] \in {"start", "create"}
  /\ \/ /\ StatementRuns(w) /\ WriteRow(w)
        /\ Goto(w, "fetch")
        /\ UNCHANGED <<id, mem, page, pos, count, outcome>>
     \/ UpdateRaises(w) /\ EndCall(w, "raised")
  /\ UNCHANGED <<order, saved, attempted, clock, crashes, moves>>

-----------------------------------------------------------------------------
(* The batch loop. *)

\* The use case reads its page of stocks.
FetchPage(w) ==
  /\ pc[w] = "fetch"
  /\ \/ /\ StatementRuns(w)
        /\ page' = [page EXCEPT ![w] = PageAt(mem[w].offset, mem[w].bs)]
        /\ pos' = [pos EXCEPT ![w] = 1]
        /\ count' = [count EXCEPT ![w] = 0]
        /\ Goto(w, "stock")
        /\ UNCHANGED <<id, mem, outcome>>
     \/ StatementRaises(w) /\ Except(w)
  /\ UNCHANGED <<table, attempted, clock, crashes, moves>>

Stock(w) == page[w][pos[w]]

\* The stock at hand is done with; the for loop goes on.
NextStock(w) ==
  /\ pos' = [pos EXCEPT ![w] = @ + 1]
  /\ attempted' = [attempted EXCEPT ![id[w]] = @ \cup {Stock(w)}]
  /\ UNCHANGED <<pc, id, mem, page, outcome>>

\* Fetched and upserted, and counted by the daily use case.
SaveStock(w) ==
  /\ Stock(w) \notin NoData
  /\ StatementRuns(w)
  /\ saved' = saved \cup {Stock(w)}
  /\ count' = [count EXCEPT ![w] = @ + 1]
  /\ NextStock(w)

\* Nothing to save: skipped, in the daily use case without being counted.
SkipStock(w) ==
  /\ Stock(w) \in NoData
  /\ NoFault
  /\ NextStock(w)
  /\ UNCHANGED <<saved, count, session>>

\* fetch_daily / fetch_fina_indicator or save_all raises, the latter also for want
\* of a connection once another save has ended the transaction of get_all.
StockRaises(w) ==
  \/ Fault("api") /\ UNCHANGED session
  \/ Stock(w) \notin NoData /\ (StatementRaises(w) \/ (count[w] > 0 /\ CheckoutFails(w)))

\* Faulty: the exception ends the batch.
DailyBatchBreaks(w) ==
  /\ Kind = DAILY
  /\ StockRaises(w)
  /\ pos' = [pos EXCEPT ![w] = Len(page[w]) + 1]
  /\ attempted' = [attempted EXCEPT ![id[w]] = @ \cup {Stock(w)}]
  /\ UNCHANGED <<pc, id, mem, page, outcome, saved, count>>

\* The daily use case logs the exception and goes on with the next stock.
DailyStockFails(w) ==
  /\ Kind = DAILY
  /\ StockRaises(w)
  /\ NextStock(w)
  /\ UNCHANGED <<saved, count>>

\* The finance use case lets it through to the engine.
FinanceStockFails(w) ==
  /\ Kind = FINANCE
  /\ StockRaises(w)
  /\ Except(w)
  /\ UNCHANGED <<saved, attempted>>

SyncStock(w) ==
  /\ pc[w] = "stock" /\ pos[w] <= Len(page[w])
  /\ SaveStock(w) \/ SkipStock(w) \/ DailyStockFails(w) \/ FinanceStockFails(w)
  /\ UNCHANGED <<tasks, order, clock, crashes, moves>>

\* Faulty: stocks without data not counted in a finance batch either.
SavedCount(w) == count[w]

\* processed_count: synced_stocks (DAILY) or the length of the page (FINANCE).
ProcessedCount(w) == IF Kind = DAILY THEN count[w] ELSE Len(page[w])

\* The batch is over: complete() on 0, update_progress() otherwise.
EndBatch(w) ==
  /\ pc[w] = "stock" /\ pos[w] > Len(page[w])
  /\ IF ProcessedCount(w) = 0
       THEN mem' = [mem EXCEPT ![w] = Completed(@)] /\ Goto(w, "complete")
       ELSE mem' = [mem EXCEPT ![w] = Progressed(@, ProcessedCount(w))] /\ Goto(w, "progress")
  /\ page' = [page EXCEPT ![w] = <<>>]
  /\ pos' = [pos EXCEPT ![w] = 1]
  /\ UNCHANGED <<table, id, count, session, outcome, attempted, budget>>

WriteProgress(w) ==
  /\ pc[w] = "progress"
  /\ \/ /\ StatementRuns(w) /\ WriteRow(w)
        /\ count' = [count EXCEPT ![w] = 0]
        /\ Goto(w, "fetch")
        /\ UNCHANGED <<id, mem, page, pos, outcome>>
     \/ UpdateRaises(w) /\ Except(w)
  /\ UNCHANGED <<order, saved, attempted, clock, crashes, moves>>

WriteComplete(w) ==
  /\ pc[w] = "complete"
  /\ \/ StatementRuns(w) /\ WriteRow(w) /\ EndCall(w, "completed")
     \/ UpdateRaises(w) /\ Except(w)
  /\ UNCHANGED <<order, saved, attempted, clock, crashes, moves>>

\* Faulty: raised without writing the failure.
RaiseOnly(w) ==
  /\ pc[w] = "fail"
  /\ EndCall(w, "raised")
  /\ UNCHANGED <<table, session, attempted, budget>>

\* The update in the except clause; the exception is raised either way.
WriteFailed(w) ==
  /\ pc[w] = "fail"
  /\ \/ StatementRuns(w) /\ WriteRow(w)
     \/ UpdateRaises(w)
  /\ EndCall(w, "raised")
  /\ UNCHANGED <<order, saved, attempted, clock, crashes, moves>>

-----------------------------------------------------------------------------
(* The environment. *)

\* The process dies: every call in progress is gone, the tables stay.  Bounded
\* so that a later call is still within MaxStarts.
Crash ==
  /\ crashes < MaxCrashes /\ clock < MaxStarts
  /\ \E w \in Workers : pc[w] # "idle"
  /\ crashes' = crashes + 1
  /\ pc' = [w \in Workers |-> "idle"]
  /\ id' = [w \in Workers |-> NoTask]
  /\ mem' = [w \in Workers |-> NoTask]
  /\ page' = [w \in Workers |-> <<>>]
  /\ pos' = [w \in Workers |-> 1]
  /\ count' = [w \in Workers |-> 0]
  /\ session' = [w \in Workers |-> "ok"]
  /\ outcome' = [w \in Workers |-> "none"]
  /\ UNCHANGED <<table, attempted, clock, faults, moves>>

Older(task) == [task EXCEPT !.age = IF @ < StaleAge THEN @ + 1 ELSE @]

\* Without slow batches a call writes again before its row can be called stale.
InTime(w) ==
  /\ pc[w] \in InLoop \cup {"start", "create"} => mem[w].age + 1 < StaleAge
  /\ pc[w] \in InLoop => tasks[id[w]].age + 1 < StaleAge

Tick ==
  /\ SlowBatches \/ \A w \in Workers : InTime(w)
  /\ \E t \in Rows : tasks[t].age < StaleAge
  /\ tasks' = [t \in TaskIds |-> IF t \in Rows THEN Older(tasks[t]) ELSE NoTask]
  /\ mem' = [w \in Workers |-> IF mem[w] = NoTask THEN NoTask ELSE Older(mem[w])]
  /\ UNCHANGED <<order, saved, pc, id, page, pos, count, session, outcome, attempted, budget>>

\* Another use case updates or inserts a stock: PostgreSQL writes a new version
\* of the row elsewhere in the heap and the unordered SELECT changes its order.
MoveRow ==
  /\ moves < MaxMoves
  /\ moves' = moves + 1
  /\ \E k \in 1..N :
       order' = [j \in 1..N |-> IF j < k THEN order[j] ELSE IF j < N THEN order[j + 1] ELSE order[k]]
  /\ UNCHANGED <<tasks, saved, pc, local, attempted, clock, faults, crashes>>

Begin(w) == Reject(w) \/ BeginPause(w) \/ BeginResume(w) \/ BeginCreate(w)

Step(w) ==
  \/ WritePause(w) \/ WriteStart(w)
  \/ FetchPage(w) \/ SyncStock(w) \/ EndBatch(w)
  \/ WriteProgress(w) \/ WriteComplete(w) \/ WriteFailed(w)

Next ==
  \/ \E w \in Workers : Begin(w) \/ Step(w)
  \/ Crash \/ Tick \/ MoveRow

Spec == Init /\ [][Next]_vars

\* A call that is under way goes on: the event loop runs every ready coroutine.
FairSpec == Spec /\ \A w \in Workers : WF_vars(Step(w))

\* ... and time passes, and somebody (cron, an operator) keeps triggering.
TriggeredSpec == FairSpec /\ WF_vars(Tick) /\ \A w \in Workers : WF_vars(Begin(w))

-----------------------------------------------------------------------------
(* Properties. *)

\* Every variable has the shape the code gives it, and the pieces of one call
\* agree: a call has a task at hand exactly when it is not idle, and once it is
\* in the loop its row exists.
TypeOK ==
  /\ tasks \in [TaskIds -> SyncTask \cup {NoTask}]
  /\ order \in [1..N -> Stocks]
  /\ saved \subseteq Stocks
  /\ pc \in [Workers -> {"idle"} \cup Entering \cup InLoop]
  /\ id \in [Workers -> TaskIds \cup {NoTask}]
  /\ mem \in [Workers -> SyncTask \cup {NoTask}]
  /\ page \in [Workers -> Seq(Stocks)]
  /\ pos \in [Workers -> Nat \ {0}]
  /\ count \in [Workers -> Nat]
  /\ session \in [Workers -> {"ok", "aborted"}]
  /\ outcome \in [Workers -> {"none", "rejected", "completed", "raised"}]
  /\ attempted \in [TaskIds -> SUBSET Stocks]
  /\ clock \in Nat /\ faults \in Nat /\ crashes \in Nat /\ moves \in Nat
  /\ \A w \in Workers :
       /\ pc[w] # "idle" => id[w] \in TaskIds /\ mem[w] \in SyncTask
       /\ pc[w] \in {"pause", "start"} \cup InLoop => tasks[id[w]] # NoTask

\* The stocks the first `off` places of the table hold.
FirstStocks(off) == {order[k] : k \in {j \in 1..N : j <= off}}

\* A checkpoint never runs ahead of the work: every stock before the offset of
\* a row, or of the SyncTask a call still holds, was processed under that task,
\* whatever calls overlapped, took the row over or died.  Resuming from
\* current_offset is sound only because of this (the stock table keeping its
\* order, MaxMoves = 0).
Checkpoint ==
  /\ \A t \in Rows : FirstStocks(tasks[t].offset) \subseteq attempted[t]
  /\ \A w \in Workers : pc[w] # "idle" => FirstStocks(mem[w].offset) \subseteq attempted[id[w]]

\* A finance task is COMPLETED only when every stock of the table was fetched
\* and saved under it without an exception: run_history_sync promises to run
\* the whole table through, and a COMPLETED task is never resumed.
CompletedMeansAllDone ==
  Kind = FINANCE =>
    \A t \in Rows : tasks[t].status = "COMPLETED" => attempted[t] = Stocks

\* total_processed of a finance task counts each stock before its offset once,
\* across resumes, takeovers and calls that share a row.
ProcessedMatchesOffset ==
  Kind = FINANCE =>
    \A t \in Rows :
      tasks[t].processed = IF tasks[t].offset < N THEN tasks[t].offset ELSE N

\* At most one RUNNING task of a job type.
AtMostOneRunning ==
  \A t, u \in Rows : tasks[t].status = "RUNNING" /\ tasks[u].status = "RUNNING" => t = u

\* No two calls work on the same task: the owner of a row is never displaced
\* while it lives.
OneWorkerPerTask ==
  \A v, w \in Workers : pc[v] # "idle" /\ pc[w] # "idle" /\ id[v] = id[w] => v = w

\* What was checkpointed is not done again: no write moves the offset of a row
\* back, not even the first one of a call that resumes it.
OffsetNeverGoesBack ==
  [][\A t \in TaskIds :
       tasks[t] # NoTask /\ tasks'[t] # NoTask => tasks'[t].offset >= tasks[t].offset]_vars

\* A finished row is not worked on again: FAILED is final, and COMPLETED is only
\* ever overwritten with FAILED, by the call that completed the row and did not
\* hear that it had.
FinishedIsNotReopened ==
  [][\A t \in TaskIds :
       tasks[t] # NoTask /\ tasks[t].status \in {"COMPLETED", "FAILED"}
         => \/ tasks'[t].status = tasks[t].status
            \/ /\ tasks'[t].status = "FAILED"
               /\ \E w \in Workers : id[w] = t /\ pc[w] = "fail"]_vars

\* A failing stock costs no other stock its data: at the end of a daily batch
\* at most as many stocks of the page are unsaved as faults occurred, unless a
\* statement has left the session unusable, which costs all of the rest.
SingleStockFailureIsolated ==
  \A w \in Workers :
    Kind = DAILY /\ pc[w] = "stock" /\ pos[w] > Len(page[w]) /\ session[w] = "ok"
      => Cardinality(ToSet(page[w]) \ (saved \cup NoData)) <= faults

\* A task is COMPLETED only when every stock was at least tried.
CompletedMeansAllTried ==
  \A t \in Rows : tasks[t].status = "COMPLETED" => attempted[t] = Stocks

\* A call that ends without the process dying leaves a finished row: no task
\* stays RUNNING without a call that works on it.
RaisedMeansFinished ==
  \A t \in Rows :
    tasks[t].status = "RUNNING" => crashes > 0 \/ \E w \in Workers : id[w] = t

\* The rows, without age, batch size and counters, as a checkpointed job.
JobStatus == [t \in TaskIds |-> IF tasks[t] = NoTask THEN "none" ELSE tasks[t].status]
JobOffset == [t \in TaskIds |-> IF tasks[t] = NoTask THEN 0 ELSE tasks[t].offset]

Job == INSTANCE CheckpointedJob
  WITH Tasks <- TaskIds, Table <- StockRows, Thorough <- (Kind = FINANCE),
       status <- JobStatus, offset <- JobOffset, done <- attempted

\* Whatever the calls do between them, the rows behave like one checkpointed job:
\* takeovers, crashes, lost replies and repeated triggers do not show.
IsCheckpointedJob == Job!JobSpec

\* Every call returns, whatever fails on the way.
CallReturns == \A w \in Workers : pc[w] # "idle" ~> pc[w] = "idle"

\* A RUNNING row whose call is gone does not block its job type for ever: it
\* becomes stale and a later call takes it over.
Orphaned(t) == t \in Rows /\ tasks[t].status = "RUNNING" /\ \A w \in Workers : id[w] # t
OrphanIsTakenOver == \A t \in TaskIds : Orphaned(t) ~> ~Orphaned(t)

\* Once nothing fails any more, a call that got into its loop leaves its task
\* COMPLETED.
Undisturbed == faults = MaxFaults /\ crashes = MaxCrashes
UndisturbedCallCompletes ==
  \A w \in Workers, t \in TaskIds :
    Undisturbed /\ pc[w] = "fetch" /\ session[w] = "ok" /\ id[w] = t
      ~> t \in Rows /\ tasks[t].status = "COMPLETED"

=============================================================================

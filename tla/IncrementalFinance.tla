------------------------ MODULE IncrementalFinance ------------------------
(***************************************************************************)
(* SyncIncrementalFinanceCmd: the daily sync of financial indicators with   *)
(* its three strategies (retry of failure records, stocks disclosed today,  *)
(* long tail of stocks without data), and SyncStockListCmd, which writes    *)
(* the same stock table from its own schedule.                              *)
(*                                                                         *)
(* One run at a time, as the scheduler starts it; a run works in one        *)
(* AsyncSession, and each step is one failure record or one stock.          *)
(***************************************************************************)
EXTENDS Integers, FiniteSets

CONSTANTS
  FinStocks,      \* third_codes of the stock table
  FinDays,        \* days of the calendar, 0..k
  PeriodOf,       \* [FinDays -> Nat]: _get_target_period, periods by number
  CheckDays,      \* the 3 days of check_threshold
  MissingLimit,   \* SYNC_INCREMENTAL_MISSING_LIMIT
  MaxRetries,     \* SYNC_FAILURE_MAX_RETRIES
  Records,        \* primary keys available to failure records (a bound)
  NoRecord,       \* "no such record"
  MaxApiFaults,   \* bound on provider errors
  MaxFinFaults,   \* bound on failing statements and crashes
  MaxListSyncs    \* bound on runs of the stock list sync

FinPeriods == {PeriodOf[d] : d \in FinDays}
Never == -1                                        \* a date column that IS NULL

\* _get_target_period, the periods numbered by quarters: the annual report of
\* last year until April, then the first, second and third quarter.
TargetPeriod(year, month) ==
  4 * year + CASE month \in 1..4   -> 0
               [] month \in 5..8   -> 1
               [] month \in 9..10  -> 2
               [] month \in 11..12 -> 3

ASSUME FinanceAssumption ==
  /\ 0 \in FinDays /\ FinDays \subseteq Nat /\ CheckDays \in Nat /\ MissingLimit \in Nat
  /\ MaxRetries \in Nat \ {0}
  /\ {MaxApiFaults, MaxFinFaults, MaxListSyncs} \subseteq Nat
  /\ NoRecord \notin [code : FinStocks, retries : Nat, resolved : BOOLEAN]

VARIABLES
  day,          \* the date
  published,    \* provider: the day each report of a stock was disclosed
  stored,       \* stock_finance: the periods stored for each stock
  checked,      \* stock_info.last_finance_sync_date
  record,       \* sync_failure_records
  finPc,        \* where the run stands
  runDay,       \* its current_date
  todo,         \* records or stocks still to handle
  finAborted,   \* a statement of its session failed
  owed,         \* history: the last attempt at the stock failed
  lostRecord,   \* history: its failure record could not be written
  apiFaults, finFaults, listSyncs

finBudget == <<apiFaults, finFaults, listSyncs>>
financeVars == <<day, published, stored, checked, record, finPc, runDay,
                 todo, finAborted, owed, lostRecord, apiFaults, finFaults, listSyncs>>

FailureRecord == [code : FinStocks, retries : 0..MaxRetries, resolved : BOOLEAN]

FinanceTypeOK ==
  /\ day \in FinDays /\ runDay \in FinDays
  /\ published \in [FinStocks -> [FinPeriods -> FinDays \cup {Never}]]
  /\ stored \in [FinStocks -> SUBSET FinPeriods]
  /\ checked \in [FinStocks -> FinDays \cup {Never}]
  /\ record \in [Records -> FailureRecord \cup {NoRecord}]
  /\ finPc \in {"idle", "retry", "disclose", "longtail", "sync"}
  /\ todo \subseteq IF finPc = "retry" THEN Records ELSE FinStocks
  /\ finAborted \in BOOLEAN
  /\ owed \subseteq FinStocks /\ lostRecord \subseteq FinStocks

FinanceInit ==
  /\ day = 0 /\ runDay = 0
  /\ published = [s \in FinStocks |-> [p \in FinPeriods |-> Never]]
  /\ stored = [s \in FinStocks |-> {}]
  /\ checked = [s \in FinStocks |-> Never]
  /\ record = [r \in Records |-> NoRecord]
  /\ finPc = "idle"
  /\ todo = {}
  /\ finAborted = FALSE
  /\ owed = {} /\ lostRecord = {}
  /\ apiFaults = 0 /\ finFaults = 0 /\ listSyncs = 0

\* The report period a run asks for.
target == PeriodOf[runDay]

\* The rows of the provider that become entities: those with an announcement.
Disclosed(s) == {p \in FinPeriods : published[s][p] # Never}

\* fetch_fina_indicator(end_date = target): every report up to the period.
Fetched(s) == {p \in Disclosed(s) : p <= target}

\* save_all: one row per (stock, announcement, period), upserted.
Saved(s) == [stored EXCEPT ![s] = @ \cup Fetched(s)]

ApiRaises == apiFaults < MaxApiFaults /\ apiFaults' = apiFaults + 1

-----------------------------------------------------------------------------
(* Strategy C: failure records first. *)

\* get_unresolved_failures
Unresolved(r) ==
  /\ record[r] # NoRecord
  /\ ~record[r].resolved
  /\ record[r].retries < MaxRetries

StartFinanceSync ==
  /\ finPc = "idle"
  /\ finPc' = "retry"
  /\ runDay' = day
  /\ todo' = {r \in Records : Unresolved(r)}
  /\ finAborted' = FALSE
  /\ UNCHANGED <<day, published, stored, checked, record, owed, lostRecord, finBudget>>

\* resolve_failure
Resolved(rec) == [rec EXCEPT !.resolved = TRUE]

\* Reports for the failed stock: stored, and the record resolved.
RetrySucceeds(r) ==
  LET s == record[r].code IN
  /\ finPc = "retry" /\ r \in todo /\ ~finAborted
  /\ Fetched(s) # {}
  /\ stored' = Saved(s)
  /\ record' = [record EXCEPT ![r] = Resolved(@)]
  /\ todo' = todo \ {r}
  /\ owed' = owed \ {s}
  /\ UNCHANGED <<day, published, checked, finPc, runDay, finAborted, lostRecord, finBudget>>

\* Faulty: the record is given up at the first failed retry.
GivenUp(rec) == [rec EXCEPT !.resolved = TRUE]

\* increment_retry
Incremented(rec) == [rec EXCEPT !.retries = @ + 1]

\* No report yet, whatever the disclosure list says, or the provider raises: the
\* attempt is counted.
RetryFails(r) ==
  LET s == record[r].code IN
  /\ finPc = "retry" /\ r \in todo /\ ~finAborted
  /\ \/ owed' = owed \ {s} /\ UNCHANGED apiFaults
     \/ ApiRaises /\ owed' = owed \cup {s}
  /\ record' = [record EXCEPT ![r] = Incremented(@)]
  /\ todo' = todo \ {r}
  /\ UNCHANGED <<day, published, stored, checked, finPc, runDay, finAborted, lostRecord,
                 finFaults, listSyncs>>

\* A statement raises while a record is handled; the handler's own
\* update_failure raises as well, in the aborted transaction, and the phase is
\* over.  The reports may be stored already, or the record resolved or counted
\* up by a commit whose reply was lost.
RetryAborts(r) ==
  LET s == record[r].code IN
  /\ finPc = "retry" /\ r \in todo /\ ~finAborted
  /\ finFaults < MaxFinFaults /\ finFaults' = finFaults + 1
  /\ \/ stored' \in {stored, Saved(s)} /\ UNCHANGED <<record, owed>>
     \/ /\ Fetched(s) # {} /\ stored' = Saved(s) /\ owed' = owed \ {s}
        /\ record' = [record EXCEPT ![r] = Resolved(@)]
     \/ /\ owed' = owed \ {s} /\ UNCHANGED stored
        /\ record' = [record EXCEPT ![r] = Incremented(@)]
  /\ finAborted' = TRUE
  /\ finPc' = "disclose" /\ todo' = {}
  /\ UNCHANGED <<day, published, checked, runDay, lostRecord, apiFaults, listSyncs>>

RetryPhaseEnds ==
  /\ finPc = "retry" /\ todo = {}
  /\ finPc' = "disclose"
  /\ UNCHANGED <<day, published, stored, checked, record, runDay, todo, finAborted, owed,
                 lostRecord, finBudget>>

-----------------------------------------------------------------------------
(* Strategies A and B: the task set. *)

\* fetch_disclosure_date(actual_date) asks for the date the run started with.
DisclosedToday == {s \in FinStocks : published[s][target] = runDay}

Disclose ==
  /\ finPc = "disclose"
  /\ finPc' = "longtail"
  /\ \/ todo' = DisclosedToday /\ UNCHANGED apiFaults
     \/ todo' = {} /\ ApiRaises
  /\ UNCHANGED <<day, published, stored, checked, record, runDay, finAborted, owed,
                 lostRecord, finFaults, listSyncs>>

\* get_missing_finance_stocks.  `last_finance_sync_date is None` compares the
\* column object, not its value: it is false for every row, and NULL < date
\* is not true either.
Missing(s) ==
  /\ target \notin stored[s]
  /\ checked[s] # Never
  /\ checked[s] < runDay - CheckDays

\* At most MissingLimit of them, in no order.
LongTail ==
  /\ finPc = "longtail"
  /\ finPc' = "sync"
  /\ \/ /\ ~finAborted
        /\ \E More \in SUBSET {s \in FinStocks : Missing(s)} :
             /\ Cardinality(More) <= MissingLimit
             /\ \A s \in FinStocks : Missing(s) /\ s \notin More =>
                  Cardinality(More) = MissingLimit
             /\ todo' = todo \cup More
        /\ UNCHANGED <<finAborted, finFaults>>
     \/ finAborted /\ UNCHANGED <<todo, finAborted, finFaults>>
     \/ /\ ~finAborted /\ finFaults < MaxFinFaults /\ finFaults' = finFaults + 1
        /\ finAborted' = TRUE /\ UNCHANGED todo
  /\ UNCHANGED <<day, published, stored, checked, record, runDay, owed, lostRecord,
                 apiFaults, listSyncs>>

-----------------------------------------------------------------------------
(* The sync of one stock. *)

\* update_last_finance_sync_date
CheckedNow(s) == [checked EXCEPT ![s] = runDay]

\* Reports or none, as the provider may lag behind its disclosure list, the stock
\* counts as checked today.
SyncCode(s) ==
  /\ finPc = "sync" /\ s \in todo /\ ~finAborted
  /\ stored' \in {stored, Saved(s)}
  /\ checked' = CheckedNow(s)
  /\ owed' = owed \ {s}
  /\ todo' = todo \ {s}
  /\ UNCHANGED <<day, published, record, finPc, runDay, finAborted, lostRecord, finBudget>>

\* The record of a failed stock; the first attempt counts.
NewRecord(s) == [code |-> s, retries |-> 1, resolved |-> FALSE]

\* The provider raises: a failure record is created, a further one if the
\* stock has one already.
SyncCodeFails(s) ==
  /\ finPc = "sync" /\ s \in todo
  /\ ApiRaises
  /\ owed' = owed \cup {s}
  /\ todo' = todo \ {s}
  /\ \/ /\ ~finAborted
        /\ \E r \in Records : /\ record[r] = NoRecord
                              /\ record' = [record EXCEPT ![r] = NewRecord(s)]
        /\ UNCHANGED <<lostRecord, finAborted, finFaults>>
     \/ /\ finAborted /\ lostRecord' = lostRecord \cup {s}
        /\ UNCHANGED <<record, finAborted, finFaults>>
     \/ /\ ~finAborted /\ finFaults < MaxFinFaults /\ finFaults' = finFaults + 1
        /\ finAborted' = TRUE /\ lostRecord' = lostRecord \cup {s}
        /\ UNCHANGED record
  /\ UNCHANGED <<day, published, stored, checked, finPc, runDay, listSyncs>>

\* A statement raises, or the session is aborted: the failure record is
\* written through the same session and is lost with it.
SyncCodeAborts(s) ==
  /\ finPc = "sync" /\ s \in todo
  /\ \/ finAborted /\ UNCHANGED <<stored, finAborted, finFaults>>
     \/ /\ ~finAborted /\ finFaults < MaxFinFaults /\ finFaults' = finFaults + 1
        /\ finAborted' = TRUE
        /\ stored' \in {stored, Saved(s)}
  /\ owed' = owed \cup {s}
  /\ lostRecord' = lostRecord \cup {s}
  /\ todo' = todo \ {s}
  /\ UNCHANGED <<day, published, checked, record, finPc, runDay, apiFaults, listSyncs>>

FinanceSyncEnds ==
  /\ finPc = "sync" /\ todo = {}
  /\ finPc' = "idle"
  /\ UNCHANGED <<day, published, stored, checked, record, runDay, todo, finAborted, owed,
                 lostRecord, finBudget>>

-----------------------------------------------------------------------------
(* What happens around a run. *)

\* save_all of the stock repository: ON CONFLICT sets every column but id and
\* created_at to its EXCLUDED value, and last_finance_sync_date, which the
\* provider does not send, is NULL there.
Overwritten == [s \in FinStocks |-> Never]

\* The stock list comes from the provider; only its REST route runs, the
\* scheduled job asks the factory for a use case it does not have and fails.
SyncStockList ==
  /\ listSyncs < MaxListSyncs /\ listSyncs' = listSyncs + 1
  /\ checked' = Overwritten
  /\ UNCHANGED <<day, published, stored, record, finPc, runDay, todo, finAborted, owed,
                 lostRecord, apiFaults, finFaults>>

\* A company discloses its report of a period that is due.
Publish(s, p) ==
  /\ p <= PeriodOf[day] /\ published[s][p] = Never
  /\ published' = [published EXCEPT ![s][p] = day]
  /\ UNCHANGED <<day, stored, checked, record, finPc, runDay, todo, finAborted, owed,
                 lostRecord, finBudget>>

NextDay ==
  /\ day + 1 \in FinDays
  /\ day' = day + 1
  /\ UNCHANGED <<published, stored, checked, record, finPc, runDay, todo, finAborted, owed,
                 lostRecord, finBudget>>

\* The process dies; a stock may have been stored and not marked.
FinanceCrash ==
  /\ finPc # "idle"
  /\ finFaults < MaxFinFaults /\ finFaults' = finFaults + 1
  /\ \/ UNCHANGED stored
     \/ finPc = "sync" /\ \E s \in todo : stored' = Saved(s)
  /\ finPc' = "idle" /\ todo' = {}
  /\ UNCHANGED <<day, published, checked, record, runDay, finAborted, owed, lostRecord,
                 apiFaults, listSyncs>>

FinanceNext ==
  \/ StartFinanceSync \/ RetryPhaseEnds \/ Disclose \/ LongTail \/ FinanceSyncEnds
  \/ \E r \in Records : RetrySucceeds(r) \/ RetryFails(r) \/ RetryAborts(r)
  \/ \E s \in FinStocks : SyncCode(s) \/ SyncCodeFails(s) \/ SyncCodeAborts(s)
  \/ SyncStockList \/ NextDay \/ FinanceCrash
  \/ \E s \in FinStocks, p \in FinPeriods : Publish(s, p)

FinanceSpec == FinanceInit /\ [][FinanceNext]_financeVars

-----------------------------------------------------------------------------

\* A stock whose last attempt failed has a failure record that is not resolved,
\* to be retried or, with its retries used up, to be looked at by a person;
\* only a record that the database itself refused is missing.  Several records
\* of one stock are retried, resolved and counted independently.
FailureIsKept ==
  \A s \in owed \ lostRecord :
    \E r \in Records : /\ record[r] # NoRecord
                       /\ record[r].code = s
                       /\ ~record[r].resolved

\* The long tail leaves no stock out: when it found fewer than its limit, every
\* stock without the target period that was never checked, or not for CheckDays
\* days, is in the task set.
LongTailIsComplete ==
  [][LongTail /\ ~finAborted' /\ Cardinality(todo' \ todo) < MissingLimit =>
       \A s \in FinStocks :
         /\ target \notin stored[s]
         /\ checked[s] = Never \/ checked[s] < runDay - CheckDays
         => s \in todo']_financeVars
=============================================================================

------------------------- MODULE DailyCompensation -------------------------
(***************************************************************************)
(* SyncEngine.run_incremental_daily_sync: the daily bars of a target date   *)
(* and, when days are missing since the latest stored bar, of every day in  *)
(* between.  The scheduler and the REST route may start runs that overlap;  *)
(* each works in a session of its own and gives way to the others at the    *)
(* provider calls and at the statements of a save.                          *)
(***************************************************************************)
EXTENDS Integers, FiniteSets

CONSTANTS
  BarStocks,       \* third_codes
  LastDay,         \* the calendar is 0..LastDay
  DailyRuns,       \* runs that may be in progress together
  MaxDailyFaults,  \* bound on provider errors, failing statements and crashes
  MaxHistorySyncs  \* bound on history syncs of a single stock

BarDays == 0..LastDay
NoDate == -1

ASSUME DailyAssumption ==
  /\ LastDay \in Nat
  /\ {MaxDailyFaults, MaxHistorySyncs} \subseteq Nat

VARIABLES
  today,
  quoted,      \* provider: the stocks with a bar, by day
  bars,        \* stock_daily, by stock and day
  filled,      \* history: the table was filled when it was first synced
  dailyRun,    \* the runs in progress
  passedLate,  \* history: bars quoted after a run had passed their day
  lostDays,    \* history: days whose last sync raised or crashed, or that a
               \*   history sync of single stocks left behind the latest bar
  dailyFaults, historySyncs

dailyBudget == <<dailyFaults, historySyncs>>
dailyVars == <<today, quoted, bars, filled, dailyRun, passedLate, lostDays,
               dailyFaults, historySyncs>>

IdleRun == [pc |-> "idle", next |-> NoDate, last |-> NoDate, alone |-> FALSE,
            batch |-> {}, aborted |-> FALSE]

DailyTypeOK ==
  /\ today \in BarDays
  /\ quoted \in [BarDays -> SUBSET BarStocks]
  /\ bars \in [BarDays -> SUBSET BarStocks] /\ filled \in BOOLEAN
  /\ dailyRun \in [DailyRuns ->
       [pc : {"idle", "fetch", "save"}, next : BarDays \cup {NoDate, LastDay + 1},
        last : BarDays \cup {NoDate}, alone : BOOLEAN, batch : SUBSET BarStocks,
        aborted : BOOLEAN]]
  /\ passedLate \subseteq BarStocks \X BarDays
  /\ lostDays \subseteq BarDays

\* get_latest_trade_date: the latest bar of any stock.
StoredDays == {d \in BarDays : bars[d] # {}}
LatestDay == IF StoredDays = {} THEN NoDate
             ELSE CHOOSE d \in StoredDays : \A e \in StoredDays : e <= d

\* The table is empty, or a history sync filled it up to day 0.
DailyInit ==
  /\ today = 0
  /\ quoted = [d \in BarDays |-> IF d = 0 THEN BarStocks ELSE {}]
  /\ filled \in BOOLEAN
  /\ bars = [d \in BarDays |-> IF filled /\ d = 0 THEN BarStocks ELSE {}]
  /\ dailyRun = [w \in DailyRuns |-> IdleRun]
  /\ passedLate = {} /\ lostDays = {}
  /\ dailyFaults = 0 /\ historySyncs = 0

Pending(w) == IF dailyRun[w].pc = "idle" THEN {}
              ELSE dailyRun[w].next..dailyRun[w].last
EndDailySync(w) == dailyRun' = [dailyRun EXCEPT ![w] = IdleRun]

-----------------------------------------------------------------------------

\* Faulty: the day after the latest bar is left out.
MissingDatesLate(latest, targetDay) == (latest + 2)..(targetDay - 1)

\* _calculate_missing_dates: the calendar days strictly between.
MissingDates(latest, targetDay) == (latest + 1)..(targetDay - 1)

\* The latest bar is read; the target alone, or the missing days and the target.
StartDailySync(w, targetDay) ==
  /\ dailyRun[w].pc = "idle"
  /\ targetDay <= today
  /\ LET missing == IF LatestDay = NoDate THEN {} ELSE MissingDates(LatestDay, targetDay)
         first == IF missing = {} THEN targetDay
                  ELSE CHOOSE d \in missing : \A e \in missing : d <= e
     IN  dailyRun' = [dailyRun EXCEPT ![w] =
           [IdleRun EXCEPT !.pc = "fetch", !.next = first, !.last = targetDay,
                           !.alone = (missing = {})]]
  /\ UNCHANGED <<filled, today, quoted, bars, passedLate, lostDays, dailyBudget>>

\* The walk goes on with the next day, or the run is over.
Advance(w) ==
  IF dailyRun[w].next = dailyRun[w].last
  THEN EndDailySync(w)
  ELSE dailyRun' = [dailyRun EXCEPT ![w].pc = "fetch", ![w].next = @ + 1,
                                    ![w].batch = {}]

\* A day that fails: alone it ends the run, in a walk it is skipped.
DayFails(w) ==
  /\ lostDays' = lostDays \cup {dailyRun[w].next}
  /\ Advance(w)

\* fetch_daily of one day.  Without bars the day is done.  The calls for the
\* adj_factor and daily_basic columns may fail too: the bars go on without them.
FetchDay(w) ==
  LET d == dailyRun[w].next IN
  /\ dailyRun[w].pc = "fetch"
  /\ IF quoted[d] = {}
     THEN Advance(w) /\ lostDays' = lostDays \ {d}
     ELSE /\ dailyRun' = [dailyRun EXCEPT ![w].pc = "save", ![w].batch = quoted[d]]
          /\ UNCHANGED lostDays
  /\ UNCHANGED <<filled, today, quoted, bars, passedLate, dailyBudget>>

FetchDayFails(w) ==
  /\ dailyRun[w].pc = "fetch"
  /\ dailyFaults < MaxDailyFaults /\ dailyFaults' = dailyFaults + 1
  /\ DayFails(w)
  /\ UNCHANGED <<filled, today, quoted, bars, passedLate, historySyncs>>

\* save_all: an upsert of the batch's bars, in one transaction.
SavedBars(w) == [bars EXCEPT ![dailyRun[w].next] = @ \cup dailyRun[w].batch]

SaveDay(w) ==
  /\ dailyRun[w].pc = "save" /\ ~dailyRun[w].aborted
  /\ bars' = SavedBars(w)
  /\ lostDays' = lostDays \ {dailyRun[w].next}
  /\ Advance(w)
  /\ UNCHANGED <<filled, today, quoted, passedLate, dailyBudget>>

\* A statement raises: the transaction is aborted and nobody rolls it back, so
\* every later save of the run raises as well.  Perhaps the commit was done.
SaveDayFails(w) ==
  /\ dailyRun[w].pc = "save"
  /\ \/ dailyRun[w].aborted /\ UNCHANGED <<dailyFaults, bars>>
        /\ DayFails(w)
     \/ /\ ~dailyRun[w].aborted
        /\ dailyFaults < MaxDailyFaults /\ dailyFaults' = dailyFaults + 1
        /\ bars' \in {bars, SavedBars(w)}
        /\ lostDays' = lostDays \cup {dailyRun[w].next}
        /\ IF dailyRun[w].next = dailyRun[w].last THEN EndDailySync(w)
           ELSE dailyRun' = [dailyRun EXCEPT ![w].pc = "fetch", ![w].next = @ + 1,
                               ![w].batch = {}, ![w].aborted = TRUE]
  /\ UNCHANGED <<filled, today, quoted, passedLate, historySyncs>>

-----------------------------------------------------------------------------

\* The exchange trades and the provider offers a bar, perhaps days later.
Quote(s, d) ==
  /\ d <= today /\ s \notin quoted[d]
  /\ quoted' = [quoted EXCEPT ![d] = @ \cup {s}]
  /\ passedLate' =
       IF \/ d <= LatestDay
          \/ \E w \in DailyRuns : /\ dailyRun[w].pc # "idle"
                                  /\ \/ d < dailyRun[w].next
                                     \/ d = dailyRun[w].next /\ dailyRun[w].pc = "save"
       THEN passedLate \cup {<<s, d>>} ELSE passedLate
  /\ UNCHANGED <<filled, today, bars, dailyRun, lostDays, dailyBudget>>

NextTradeDay ==
  /\ today < LastDay
  /\ today' = today + 1
  /\ UNCHANGED <<filled, quoted, bars, dailyRun, passedLate, lostDays, dailyBudget>>

\* The history sync reaches one stock: all its bars are stored, which moves the
\* latest bar of the whole table.
HistorySync(s) ==
  /\ historySyncs < MaxHistorySyncs /\ historySyncs' = historySyncs + 1
  /\ bars' = [d \in BarDays |-> bars[d] \cup ({s} \cap quoted[d])]
  /\ lostDays' = lostDays \cup (LatestDay + 1)..today
  /\ UNCHANGED <<filled, today, quoted, dailyRun, passedLate, dailyFaults>>

\* The process dies.  Days it had still to walk are found again by the next run
\* unless a run beside it has already moved the latest bar past them.
DailyCrash ==
  /\ \E w \in DailyRuns : dailyRun[w].pc # "idle"
  /\ dailyFaults < MaxDailyFaults /\ dailyFaults' = dailyFaults + 1
  /\ lostDays' = lostDays \cup {d \in UNION {Pending(w) : w \in DailyRuns} : d <= LatestDay}
  /\ dailyRun' = [w \in DailyRuns |-> IdleRun]
  /\ UNCHANGED <<filled, today, quoted, bars, passedLate, historySyncs>>

DailyNext ==
  \/ \E w \in DailyRuns : \/ \E d \in BarDays : StartDailySync(w, d)
                          \/ FetchDay(w) \/ FetchDayFails(w) \/ SaveDay(w) \/ SaveDayFails(w)
  \/ \E s \in BarStocks, d \in BarDays : Quote(s, d)
  \/ \E s \in BarStocks : HistorySync(s)
  \/ NextTradeDay \/ DailyCrash

DailySpec == DailyInit /\ [][DailyNext]_dailyVars

-----------------------------------------------------------------------------

\* Compensation leaves no hole behind the latest bar on the quiet: in a table
\* that was filled once, a quoted bar of an earlier day that is not stored
\* belongs to a day whose own sync raised, is still ahead of a run in progress,
\* was quoted after a run had passed it, or lies behind a bar that a history
\* sync of single stocks stored.  This is what run_incremental_daily_sync
\* relies on when it takes the latest bar of any stock as the start of the gap.
NoSilentGap ==
  filled =>
    \A s \in BarStocks, d \in 1..LatestDay :
      s \in quoted[d] /\ s \notin bars[d] =>
        \/ d \in lostDays
        \/ <<s, d>> \in passedLate
        \/ \E w \in DailyRuns : d \in Pending(w)
=============================================================================

--------------------------- MODULE MarketDataSync ---------------------------
(***************************************************************************)
(* SyncAkShareMarketDataCmd: five commands, one after the other, on one      *)
(* session: the limit-up pool, the broken boards, yesterday's limit-ups, the *)
(* dragon-tiger list and the capital flow of the sectors of a trading day.   *)
(* A command that raises is noted in errors and the next one goes on.  The   *)
(* REST routes run all five or a single one, each request with a session of  *)
(* its own.  (The scheduled job fails before it does anything, as the one of *)
(* ConceptSync.)  Of a row the columns of its key are kept.                  *)
(***************************************************************************)
EXTENDS Integers, FiniteSets, Sequences

CONSTANTS
  RawCodes,       \* leading digits of the stock codes AkShare lists
  MarketRuns,     \* requests that may be in progress together
  MaxMoves,       \* bound on changes of today's boards
  MaxMarketSyncs, \* bound on the requests
  MaxMarketFaults \* bound on failing calls and statements

ASSUME MarketAssumption == {MaxMoves, MaxMarketSyncs, MaxMarketFaults} \subseteq Nat

VARIABLES
  board,         \* provider: where each stock stands today
  calendarText,  \* provider: the calendar lists its days as yyyymmdd texts
  limitUps, brokenBoards, previousUps, dragonTigers, sectorFlows, \* the tables
  marketRun,     \* the requests
  moves, marketSyncs, marketFaults

marketTables == <<limitUps, brokenBoards, previousUps, dragonTigers, sectorFlows>>
marketProvider == <<board, calendarText, moves>>
marketVars == <<marketProvider, marketTables, marketRun, marketSyncs, marketFaults>>

Yesterday == 0
Today == 1
Days == {Yesterday, Today}
Reasons == {"rise", "turnover"}
Sectors == {"sector"}
SectorTypes == {"concept", "industry"}

\* The five commands in the order of execute.
AllSteps == <<"limit_up", "broken", "previous", "dragon", "flow">>
Steps == {AllSteps[i] : i \in DOMAIN AllSteps}

\* convert_akshare_stock_code: the exchange by the leading digits; a code with
\* others (900 of the B shares, an empty one) is converted to nothing.
ThirdCode(raw) ==
  CASE raw \in {"68", "60"} -> {<<raw, "SH">>}
    [] raw \in {"00", "30"} -> {<<raw, "SZ">>}
    [] raw \in {"43", "83", "92"} -> {<<raw, "BJ">>}
    [] OTHER -> {}

StockRow == [day : Days, code : UNION {ThirdCode(raw) : raw \in RawCodes}]
DragonRow == [day : Days, code : UNION {ThirdCode(raw) : raw \in RawCodes},
              reason : Reasons]
FlowRow == [day : Days, sector : Sectors, type : SectorTypes]

\* The DTOs of a provider's answer, and the entities of the command: codes that
\* are not converted are left out.
StockRows(raws, day) ==
  UNION {{[day |-> day, code |-> c] : c \in ThirdCode(raw)} : raw \in raws}

Standing(where) == {raw \in RawCodes : board[raw] = where}

\* The provider's answers.  The boards of yesterday are closed: every stock was
\* at its limit at the end of the day.
FetchLimitUpPool(day) ==
  StockRows(IF day = Today THEN Standing("limit_up") ELSE RawCodes, day)

FetchBrokenBoardPool(day) == StockRows(IF day = Today THEN Standing("broken") ELSE {}, day)

FetchPreviousLimitUp(day) == StockRows(IF day = Today THEN RawCodes ELSE {}, day)

\* fetch_dragon_tiger_detail returns nothing for a day that it does not find in
\* the trading calendar, and compares a text with the days of the calendar; a
\* failing calendar is logged and the list fetched all the same.
FetchDragonTigerDetail(day, calendarAnswers) ==
  IF calendarAnswers /\ ~calendarText
  THEN {}
  ELSE {[day |-> day, code |-> r.code, reason |-> reason] :
          r \in StockRows(RawCodes, day), reason \in Reasons}

\* fetch_sector_capital_flow has no day: it is the ranking of today, for the
\* concept sectors, and the command files it under the day it was asked for.
FetchSectorCapitalFlow(day) ==
  {[day |-> day, sector |-> s, type |-> "concept"] : s \in Sectors}

Answered(step, day, calendarAnswers) ==
  CASE step = "limit_up" -> FetchLimitUpPool(day)
    [] step = "broken"   -> FetchBrokenBoardPool(day)
    [] step = "previous" -> FetchPreviousLimitUp(day)
    [] step = "dragon"   -> FetchDragonTigerDetail(day, calendarAnswers)
    [] step = "flow"     -> FetchSectorCapitalFlow(day)

\* INSERT ... ON CONFLICT (key) DO UPDATE: the rows replace the ones of their key.
Upserted(table, rows, SameKey(_, _)) ==
  {old \in table : \A new \in rows : ~SameKey(old, new)} \cup rows

SameStock(r, s) == r.day = s.day /\ r.code = s.code
SameListing(r, s) == SameStock(r, s) /\ r.reason = s.reason
SameSector(r, s) == r.day = s.day /\ r.sector = s.sector /\ r.type = s.type

\* The queries by date.
LimitUpsOn(day) == {r \in limitUps : r.day = day}
BrokenBoardsOn(day) == {r \in brokenBoards : r.day = day}
PreviousUpsOn(day) == {r \in previousUps : r.day = day}
DragonTigersOn(day) == {r \in dragonTigers : r.day = day}
SectorFlowsOn(day, types) == {r \in sectorFlows : r.day = day /\ r.type \in types}

RowsOn(step, day) ==
  CASE step = "limit_up" -> LimitUpsOn(day)
    [] step = "broken"   -> BrokenBoardsOn(day)
    [] step = "previous" -> PreviousUpsOn(day)
    [] step = "dragon"   -> DragonTigersOn(day)
    [] step = "flow"     -> SectorFlowsOn(day, SectorTypes)

\* A request; counts and errors are the AkShareSyncResult, owed is what the
\* provider had for a step when it was asked (history).
NoRequest ==
  [pc |-> "idle", todo |-> <<>>, day |-> Today, batch |-> {}, aborted |-> FALSE,
   counts |-> [s \in Steps |-> 0], errors |-> {}, owed |-> [s \in Steps |-> {}]]

AnyRow == StockRow \cup DragonRow \cup FlowRow

MarketTypeOK ==
  /\ board \in [RawCodes -> {"limit_up", "broken"}]
  /\ calendarText \in BOOLEAN
  /\ limitUps \subseteq StockRow /\ brokenBoards \subseteq StockRow
  /\ previousUps \subseteq StockRow /\ dragonTigers \subseteq DragonRow
  /\ sectorFlows \subseteq FlowRow
  /\ \A r \in MarketRuns :
       /\ marketRun[r].pc \in {"idle", "fetch", "save", "done"}
       /\ marketRun[r].todo \in Seq(Steps) /\ marketRun[r].day \in Days
       /\ marketRun[r].batch \subseteq AnyRow /\ marketRun[r].aborted \in BOOLEAN
       /\ marketRun[r].errors \subseteq Steps
       /\ marketRun[r].counts \in [Steps -> Nat]
       /\ \A s \in Steps : marketRun[r].owed[s] \subseteq AnyRow

MarketInit ==
  /\ board \in [RawCodes -> {"limit_up", "broken"}]
  /\ calendarText \in BOOLEAN
  /\ limitUps = {} /\ brokenBoards = {} /\ previousUps = {}
  /\ dragonTigers = {} /\ sectorFlows = {}
  /\ marketRun = [r \in MarketRuns |-> NoRequest]
  /\ moves = 0 /\ marketSyncs = 0 /\ marketFaults = 0

Current(r) == Head(marketRun[r].todo)

MarketFault == marketFaults < MaxMarketFaults /\ marketFaults' = marketFaults + 1

\* The provider: a board breaks, or is closed again.
MoveBoard(raw) ==
  /\ moves < MaxMoves /\ moves' = moves + 1
  /\ board' = [board EXCEPT ![raw] = IF @ = "limit_up" THEN "broken" ELSE "limit_up"]
  /\ UNCHANGED <<calendarText, marketTables, marketRun, marketSyncs, marketFaults>>

Requested(r, steps, day) ==
  /\ marketRun[r].pc \in {"idle", "done"}
  /\ marketSyncs < MaxMarketSyncs /\ marketSyncs' = marketSyncs + 1
  /\ marketRun' = [marketRun EXCEPT ![r] =
                     [NoRequest EXCEPT !.pc = "fetch", !.todo = steps, !.day = day]]
  /\ UNCHANGED <<marketProvider, marketTables, marketFaults>>

\* POST /market/sync
SyncMarketData(r, day) == Requested(r, AllSteps, day)

\* POST /market/sync/limit-up-pool, ... : one command, nobody catches what it raises.
SyncOneStep(r, day, step) == Requested(r, <<step>>, day)

\* The request after a step that ended with these errors and this count.
AfterStep(run, errors, count) ==
  [run EXCEPT !.pc = IF Len(run.todo) = 1 THEN "done" ELSE "fetch",
              !.todo = Tail(run.todo), !.batch = {},
              !.errors = run.errors \cup errors,
              !.counts = [run.counts EXCEPT ![Head(run.todo)] = count]]

\* A command has the provider's answer; an empty one ends it without a statement.
FetchStep(r, calendarAnswers) ==
  LET rows == Answered(Current(r), marketRun[r].day, calendarAnswers)
      asked == [marketRun[r] EXCEPT !.owed[Current(r)] = rows]
  IN /\ marketRun[r].pc = "fetch"
     /\ IF calendarAnswers \/ Current(r) # "dragon" THEN UNCHANGED marketFaults ELSE MarketFault
     /\ marketRun' = [marketRun EXCEPT ![r] =
                        IF rows = {} THEN AfterStep(asked, {}, 0)
                        ELSE [asked EXCEPT !.pc = "save", !.batch = rows]]
     /\ UNCHANGED <<marketProvider, marketTables, marketSyncs>>

\* The provider raises: AppException.
FetchStepFails(r) ==
  LET rows == Answered(Current(r), marketRun[r].day, TRUE) IN
  /\ marketRun[r].pc = "fetch" /\ MarketFault
  /\ marketRun' = [marketRun EXCEPT ![r] =
       AfterStep([marketRun[r] EXCEPT !.owed[Current(r)] = rows], {Current(r)}, 0)]
  /\ UNCHANGED <<marketProvider, marketTables, marketSyncs>>

\* save_all of the five repositories: one statement and its commit.
SaveLimitUps(rows) ==
  /\ limitUps' = Upserted(limitUps, rows, SameStock)
  /\ UNCHANGED <<brokenBoards, previousUps, dragonTigers, sectorFlows>>

SaveBrokenBoards(rows) ==
  /\ brokenBoards' = Upserted(brokenBoards, rows, SameStock)
  /\ UNCHANGED <<limitUps, previousUps, dragonTigers, sectorFlows>>

SavePreviousUps(rows) ==
  /\ previousUps' = Upserted(previousUps, rows, SameStock)
  /\ UNCHANGED <<limitUps, brokenBoards, dragonTigers, sectorFlows>>

SaveDragonTigers(rows) ==
  /\ dragonTigers' = Upserted(dragonTigers, rows, SameListing)
  /\ UNCHANGED <<limitUps, brokenBoards, previousUps, sectorFlows>>

SaveSectorFlows(rows) ==
  /\ sectorFlows' = Upserted(sectorFlows, rows, SameSector)
  /\ UNCHANGED <<limitUps, brokenBoards, previousUps, dragonTigers>>

\* A command saves the rows of its step.
SaveStep(r) ==
  LET rows == marketRun[r].batch IN
  /\ marketRun[r].pc = "save" /\ ~marketRun[r].aborted
  /\ \/ Current(r) = "limit_up" /\ SaveLimitUps(rows)
     \/ Current(r) = "broken" /\ SaveBrokenBoards(rows)
     \/ Current(r) = "previous" /\ SavePreviousUps(rows)
     \/ Current(r) = "dragon" /\ SaveDragonTigers(rows)
     \/ Current(r) = "flow" /\ SaveSectorFlows(rows)
  /\ marketRun' = [marketRun EXCEPT ![r] = AfterStep(marketRun[r], {}, Cardinality(rows))]
  /\ UNCHANGED <<marketProvider, marketSyncs, marketFaults>>

\* Faulty: the failure of a later step, in a session that is already aborted, is
\* taken for the one that was noted before.
NotedOnce(r) == IF marketRun[r].aborted THEN {} ELSE {Current(r)}

\* except Exception as e: errors.append(...)
Noted(r) == {Current(r)}

\* A statement fails.  Nobody rolls back, so that every later statement of the
\* request fails too, and each is noted as the error of its own step.
SaveStepFails(r) ==
  /\ marketRun[r].pc = "save"
  /\ IF marketRun[r].aborted THEN UNCHANGED marketFaults ELSE MarketFault
  /\ marketRun' = [marketRun EXCEPT ![r] =
                     [AfterStep(marketRun[r], Noted(r), 0) EXCEPT !.aborted = TRUE]]
  /\ UNCHANGED <<marketProvider, marketTables, marketSyncs>>

MarketNext ==
  \/ \E raw \in RawCodes : MoveBoard(raw)
  \/ \E r \in MarketRuns :
       \/ \E day \in Days : \/ SyncMarketData(r, day)
                            \/ \E step \in Steps : SyncOneStep(r, day, step)
       \/ \E answers \in BOOLEAN : FetchStep(r, answers)
       \/ FetchStepFails(r)
       \/ SaveStep(r)
       \/ SaveStepFails(r)

MarketSpec == MarketInit /\ [][MarketNext]_marketVars

\* A step that the answer does not report as failed has what the provider had for
\* it in its table, and the answer counts exactly these rows: also when an
\* earlier statement has aborted the session that the five commands share.
UnreportedIsStored ==
  \A r \in MarketRuns : marketRun[r].pc = "done" =>
    \A s \in Steps \ marketRun[r].errors :
      /\ marketRun[r].counts[s] = Cardinality(marketRun[r].owed[s])
      /\ \A row \in marketRun[r].owed[s] : row \in RowsOn(s, row.day)
=============================================================================

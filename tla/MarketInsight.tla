---------------------------- MODULE MarketInsight ----------------------------
(***************************************************************************)
(* The daily market report (GenerateDailyReportCmd): from the bars and the    *)
(* concepts of a day it computes how hot each concept is and which stocks     *)
(* closed at their limit, saves both, analyses sentiment and capital flow,    *)
(* and writes a file.  One action stands for what runs between two awaits.    *)
(* Percentages are in tenths; a code is the sequence of its digits; of a      *)
(* stock's name only counts whether it says ST.                              *)
(***************************************************************************)
EXTENDS Integers, FiniteSets, Sequences, SequencesExt

CONSTANTS
  ReportRuns,      \* requests for the report of the day
  Feeds,           \* the day as the sync may have stored it: [bars, st, stocks, st_in_concept]
  Pools,           \* limit-up pools: sequences of numbers of consecutive boards
  Lists,           \* dragon-tiger lists: sequences of [code, net, institution]
  TopN,            \* concepts that the report lists (10 in the code)
  MaxReportFaults  \* bound on failing statements

ASSUME InsightAssumption ==
  /\ {TopN, MaxReportFaults} \subseteq Nat
  /\ \A pool \in Pools : IsFiniteSet(DOMAIN pool) /\ \A i \in DOMAIN pool : pool[i] \in Int
  /\ \A list \in Lists : IsFiniteSet(DOMAIN list) /\ \A i \in DOMAIN list : list[i].net \in Int

VARIABLES
  feed,         \* what the data tables hold of the day
  heatTable,    \* concept heats of the day: concept |-> heat
  limitTable,   \* limit-up stocks of the day: code |-> row
  report,       \* the requests
  reportFile,   \* the report file of the day: the sequence of its versions
  reportFaults

insightVars == <<feed, heatTable, limitTable, report, reportFile, reportFaults>>

NoMetrics == [max_height |-> -1, total |-> -1, tiers |-> <<>>]
NoFlow == [stocks |-> {}, total_net_buy |-> 0, net |-> <<>>, institutional |-> {}]

IdleReport == [pc |-> "idle", bars |-> <<>>, st |-> {}, heats |-> <<>>, limits |-> <<>>,
               names_agree |-> TRUE, pool |-> <<>>, list |-> <<>>, metrics |-> NoMetrics,
               flow |-> NoFlow, analysed |-> {}, session |-> "fine", faulted |-> FALSE]

ReportConcepts == UNION {DOMAIN f.stocks : f \in Feeds}
ReportCodes == UNION {DOMAIN f.bars : f \in Feeds}

InsightTypeOK ==
  /\ feed \in Feeds
  /\ DOMAIN heatTable \subseteq ReportConcepts /\ DOMAIN limitTable \subseteq ReportCodes
  /\ \A r \in ReportRuns :
       /\ report[r].pc \in {"idle", "bars", "concepts", "heat", "limit", "sentiment", "flow",
                            "write", "done", "failed"}
       /\ DOMAIN report[r].heats \subseteq ReportConcepts
       /\ DOMAIN report[r].limits \subseteq DOMAIN report[r].bars
       /\ report[r].analysed \subseteq {"sentiment", "flow"}
       /\ report[r].session \in {"fine", "unusable"}
  /\ reportFaults \in 0..MaxReportFaults

InsightInit ==
  /\ feed \in Feeds
  /\ heatTable = <<>> /\ limitTable = <<>>
  /\ report = [r \in ReportRuns |-> IdleReport]
  /\ reportFile = <<>> /\ reportFaults = 0

ReportFault == reportFaults < MaxReportFaults /\ reportFaults' = reportFaults + 1

StartsWith(code, prefix) == IsPrefix(prefix, code)

-----------------------------------------------------------------------------
(* The domain services *)

NotLimited == 10000

\* Faulty: the code of the STAR market is taken for one of the main board.
LimitTypeByFirstDigit(st, code) ==
  IF st THEN "ST" ELSE IF StartsWith(code, <<4>>) \/ StartsWith(code, <<8>>) THEN "BSE"
  ELSE IF StartsWith(code, <<3>>) THEN "GEM" ELSE "MAIN_BOARD"

\* LimitUpScanner._determine_limit_type: the rule of a stock, by name, then by code.
LimitType(st, code) ==
  IF st THEN "ST" ELSE IF StartsWith(code, <<4>>) \/ StartsWith(code, <<8>>) THEN "BSE"
  ELSE IF StartsWith(code, <<6, 8>>) THEN "STAR"
  ELSE IF StartsWith(code, <<3>>) THEN "GEM" ELSE "MAIN_BOARD"

Threshold == [ST |-> 49, BSE |-> 295, STAR |-> 198, GEM |-> 198, MAIN_BOARD |-> 99]

\* scan: the bars at their limit, each with the concepts of its stock.
Scan(bars, st, stocks) ==
  LET at == {code \in DOMAIN bars : bars[code] >= Threshold[LimitType(code \in st, code)]}
  IN [code \in at |-> [limit_type |-> LimitType(code \in st, code),
                       concepts |-> {c \in DOMAIN stocks : code \in stocks[c]}]]

\* ConceptHeatCalculator._is_limit_up: the same rules, written a second time.
IsLimitUp(st, pct, code) ==
  IF st THEN pct >= 49
  ELSE IF StartsWith(code, <<4>>) \/ StartsWith(code, <<8>>) THEN pct >= 295
  ELSE IF StartsWith(code, <<6, 8>>) THEN pct >= 198
  ELSE IF StartsWith(code, <<3>>) THEN pct >= 198
  ELSE pct >= 99

Sum(pct, codes) ==
  LET sum[s \in SUBSET codes] ==
        IF s = {} THEN 0 ELSE LET code == CHOOSE x \in s : TRUE IN pct[code] + sum[s \ {code}]
  IN sum[codes]

\* calculate: the concepts with a stock that was traded; st are the names that the
\* concept table has.
Heats(bars, stocks, st) ==
  LET valid(c) == stocks[c] \cap DOMAIN bars
      Count(c, P(_)) == Cardinality({code \in valid(c) : P(code)})
  IN [c \in {c \in DOMAIN stocks : valid(c) # {}} |->
        [stock_count |-> Cardinality(valid(c)),
         sum_pct_chg |-> Sum(bars, valid(c)),
         up_count |-> Count(c, LAMBDA code : bars[code] > 0),
         down_count |-> Count(c, LAMBDA code : bars[code] < 0),
         limit_up_count |-> Count(c, LAMBDA code : IsLimitUp(code \in st, bars[code], code))]]

\* analyze_consecutive_board_ladder: the pool by number of boards, highest first.
Ladder(pool) ==
  LET boards == {pool[i] : i \in DOMAIN pool}
      heights == [t \in 1..Cardinality(boards) |->
                    CHOOSE b \in boards : Cardinality({c \in boards : c > b}) = t - 1]
  IN [max_height |-> IF pool = <<>> THEN 0 ELSE heights[1],
      total |-> Len(pool),
      tiers |-> [t \in DOMAIN heights |->
                   [board_count |-> heights[t],
                    stocks |-> {i \in DOMAIN pool : pool[i] = heights[t]}]]]

\* analyze_dragon_tiger: a stock is listed once for each reason; its net purchases
\* are added up.
DragonTiger(list) ==
  LET codes == {list[i].code : i \in DOMAIN list}
      Rows(code) == {i \in DOMAIN list : list[i].code = code}
      net == [i \in DOMAIN list |-> list[i].net]
  IN [stocks |-> codes, total_net_buy |-> Sum(net, DOMAIN list),
      net |-> [code \in codes |-> Sum(net, Rows(code))],
      institutional |-> {code \in codes : \E i \in Rows(code) : list[i].institution}]

\* The heats, hottest first.
Hottest(heats) ==
  {s \in [1..Cardinality(DOMAIN heats) -> DOMAIN heats] :
     /\ \A i, j \in DOMAIN s : i # j => s[i] # s[j]
     /\ \A i, j \in DOMAIN s : i < j =>
          heats[s[i]].sum_pct_chg * heats[s[j]].stock_count
            >= heats[s[j]].sum_pct_chg * heats[s[i]].stock_count}

\* _group_limit_up_by_concept: a stock is listed under one of its top concepts.
Groups(limits, top) ==
  LET listed == {code \in DOMAIN limits : limits[code].concepts \cap Range(top) # {}}
  IN {g \in [listed -> Range(top)] : \A code \in listed : g[code] \in limits[code].concepts}

-----------------------------------------------------------------------------
(* The command *)

\* The sync stores the day anew: later, or corrected, bars.
FeedChanges(f) == /\ f.stocks = feed.stocks /\ feed' = f /\ f # feed
                  /\ \E r \in ReportRuns : report[r].pc = "idle"
                  /\ UNCHANGED <<heatTable, limitTable, report, reportFile, reportFaults>>

StartReport(r) ==
  /\ report[r].pc = "idle"
  /\ report' = [report EXCEPT ![r].pc = "bars"]
  /\ UNCHANGED <<feed, heatTable, limitTable, reportFile, reportFaults>>

\* No bar: an empty result, nothing is saved.
ReadBars(r) ==
  /\ report[r].pc = "bars"
  /\ report' = [report EXCEPT ![r].bars = feed.bars, ![r].st = feed.st,
                              ![r].pc = IF DOMAIN feed.bars = {} THEN "done" ELSE "concepts"]
  /\ UNCHANGED <<feed, heatTable, limitTable, reportFile, reportFaults>>

\* After the heats come the limit-ups, if there are any, and the analyses.
AfterHeat(limits) == IF DOMAIN limits = {} THEN "sentiment" ELSE "limit"

\* The concepts are read, heats and limit-ups computed from what was read.
ReadConcepts(r) ==
  LET bars == report[r].bars
      heats == Heats(bars, feed.stocks, feed.st_in_concept)
      limits == Scan(bars, report[r].st, feed.stocks)
  IN /\ report[r].pc = "concepts"
     /\ report' = [report EXCEPT
          ![r].heats = heats, ![r].limits = limits,
          ![r].names_agree = \A c \in DOMAIN feed.stocks : \A code \in feed.stocks[c] :
                               code \in report[r].st <=> code \in feed.st_in_concept,
          ![r].pc = IF DOMAIN heats = {} THEN AfterHeat(limits) ELSE "heat"]
     /\ UNCHANGED <<feed, heatTable, limitTable, reportFile, reportFaults>>

\* INSERT ... ON CONFLICT DO UPDATE, committed; rows of an earlier run that this
\* one does not have stay.
UpsertedRows(table, rows, r) ==
  [k \in DOMAIN table \cup DOMAIN rows |->
     IF k \in DOMAIN rows THEN [row |-> rows[k], run |-> r] ELSE table[k]]

SaveHeats(r) ==
  /\ report[r].pc = "heat"
  /\ heatTable' = UpsertedRows(heatTable, report[r].heats, r)
  /\ report' = [report EXCEPT ![r].pc = AfterHeat(report[r].limits)]
  /\ UNCHANGED <<feed, limitTable, reportFile, reportFaults>>

SaveScanned(r) ==
  /\ report[r].pc = "limit"
  /\ limitTable' = UpsertedRows(limitTable, report[r].limits, r)
  /\ report' = [report EXCEPT ![r].pc = "sentiment"]
  /\ UNCHANGED <<feed, heatTable, reportFile, reportFaults>>

\* The three pools are read and analysed.
AnalyseSentiment(r, pool) ==
  /\ report[r].pc = "sentiment"
  /\ report' = [report EXCEPT ![r].pc = "flow", ![r].pool = pool,
                              ![r].metrics = Ladder(pool), ![r].analysed = @ \cup {"sentiment"}]
  /\ UNCHANGED <<feed, heatTable, limitTable, reportFile, reportFaults>>

\* Dragon-tiger list and sector flows are read and analysed.
AnalyseCapitalFlow(r, list) ==
  /\ report[r].pc = "flow" /\ report[r].session = "fine"
  /\ report' = [report EXCEPT ![r].pc = "write", ![r].list = list,
                              ![r].flow = DragonTiger(list), ![r].analysed = @ \cup {"flow"}]
  /\ UNCHANGED <<feed, heatTable, limitTable, reportFile, reportFaults>>

\* A statement of the first steps raises: the request fails.
ReportStatementFails(r) ==
  /\ report[r].pc \in {"bars", "concepts", "heat", "limit"} /\ ReportFault
  /\ report' = [report EXCEPT ![r].pc = "failed", ![r].faulted = TRUE]
  /\ UNCHANGED <<feed, heatTable, limitTable, reportFile>>

\* One of an analysis raises: the report does without.  Nobody rolls the session
\* back: after a failing statement the other analysis fails too; after an error of
\* another kind, or of the checkout of a connection, it need not.
AnalysisFails(r) ==
  /\ report[r].pc \in {"sentiment", "flow"}
  /\ IF report[r].session = "fine" THEN ReportFault ELSE UNCHANGED reportFaults
  /\ \E session \in {report[r].session, "unusable"} :
       report' = [report EXCEPT ![r].session = session, ![r].faulted = TRUE,
                                ![r].pc = IF @ = "sentiment" THEN "flow" ELSE "write"]
  /\ UNCHANGED <<feed, heatTable, limitTable, reportFile>>

\* _build_sentiment_section and _build_capital_flow_section call get on what they
\* are given: the DTO of the analysis, which has no such method.
SectionRaises(r) == report[r].analysed # {}

\* generate_extended_report: nothing to report, an error, or the file of the day.
WriteReport(r) ==
  /\ report[r].pc = "write"
  /\ \/ /\ DOMAIN report[r].heats = {} /\ report[r].analysed = {}
        /\ report' = [report EXCEPT ![r].pc = "done"]
        /\ UNCHANGED reportFile
     \/ /\ SectionRaises(r)
        /\ report' = [report EXCEPT ![r].pc = "failed"]
        /\ UNCHANGED reportFile
     \/ /\ ~SectionRaises(r) /\ DOMAIN report[r].heats # {}
        /\ report' = [report EXCEPT ![r].pc = "done"]
        /\ \E ranking \in Hottest(report[r].heats) :
             LET top == SubSeq(ranking, 1, TopN) IN
             \E groups \in Groups(report[r].limits, top) :
               reportFile' = Append(reportFile, [run |-> r, top |-> top, groups |-> groups])
  /\ UNCHANGED <<feed, heatTable, limitTable, reportFaults>>

InsightNext ==
  \/ \E f \in Feeds : FeedChanges(f)
  \/ \E r \in ReportRuns :
       \/ StartReport(r) \/ ReadBars(r) \/ ReadConcepts(r) \/ SaveHeats(r) \/ SaveScanned(r)
       \/ \E pool \in Pools : AnalyseSentiment(r, pool)
       \/ \E list \in Lists : AnalyseCapitalFlow(r, list)
       \/ ReportStatementFails(r) \/ AnalysisFails(r) \/ WriteReport(r)

InsightSpec == InsightInit /\ [][InsightNext]_insightVars

-----------------------------------------------------------------------------
\* get_by_date_and_concept
LimitUpsOf(concept) ==
  {code \in DOMAIN limitTable : concept \in limitTable[code].row.concepts}

\* The number of limit-ups that a heat tells is the number of limit-up stocks that a
\* query for the concept finds of the same run, although two copies of the rules
\* have counted them: once both are saved, unless another run has overwritten some,
\* and if stock and concept table agree on who is ST.
HeatCountsLimitUps ==
  \A c \in DOMAIN heatTable :
    LET r == heatTable[c].run
        mine == {code \in DOMAIN limitTable : limitTable[code].run = r}
    IN (report[r].names_agree /\ mine = DOMAIN report[r].limits)
         => heatTable[c].row.limit_up_count = Cardinality(mine \cap LimitUpsOf(c))

\* Every stock of the pool is on one rung of the ladder, whose rungs are ordered,
\* and the total of the dragon-tiger list is the sum over its stocks.
AnalysesAddUp ==
  \A r \in ReportRuns :
    /\ "sentiment" \in report[r].analysed =>
         LET tiers == report[r].metrics.tiers IN
         /\ \A i \in DOMAIN report[r].pool :
              Cardinality({t \in DOMAIN tiers : i \in tiers[t].stocks}) = 1
         /\ \A t \in 2..Len(tiers) : tiers[t].board_count < tiers[t - 1].board_count
         /\ tiers # <<>> => report[r].metrics.max_height = tiers[1].board_count
    /\ "flow" \in report[r].analysed =>
         LET flow == report[r].flow IN flow.total_net_buy = Sum(flow.net, flow.stocks)

\* The report's figures agree with each other.
InsightAnswersHold == HeatCountsLimitUps /\ AnalysesAddUp

\* "MUST" of the specification: with all the data there, the run goes through all
\* its steps and the report has its two sections; it fails only if a statement did.
FaultlessRunWritesReport ==
  \A r \in ReportRuns : report[r].pc = "failed" => report[r].faulted
==============================================================================

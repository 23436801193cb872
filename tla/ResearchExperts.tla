---------------------------- MODULE ResearchExperts ----------------------------
(***************************************************************************)
(* The five experts of the research module.  An expert reads what it needs    *)
(* of a stock, computes a snapshot, hands it to the language model and parses *)
(* the answer.  The experts share no state (each has its session), so that one *)
(* inquiry stands for all; the action between two awaits is one step.         *)
(* Rounding is left out; prices are integers, growth is in percent; a quarter  *)
(* is numbered 4 * year + 0..3.                                              *)
(***************************************************************************)
EXTENDS Integers, FiniteSets, Sequences, SequencesExt

CONSTANTS
  BarLists,        \* what the table holds of a year: sequences of [high, low, close, vol]
  Statements,      \* what it holds of the reports: [quarters -> [profit, eps, bps, margin]]
  Infos,           \* basic data of a stock: NoStock, or [traded, close, pct_chg]
  PeHistories,     \* three years of price-earnings ratios, None for a missing one
  SearchResults,   \* what one search returns: sequences of [page, titled, content, date]
  Scores,          \* scores that the model gives
  MinBars,         \* MIN_BARS_REQUIRED (30)
  MinHistory,      \* MIN_HISTORICAL_DATA_FOR_PERCENTILE (60)
  Lookback,        \* days that the levels look back (20)
  RsiPeriod,       \* 14
  ObvDays,         \* 5
  SearchDimensions,      \* dimensions that are searched (4 of each expert)
  None, NoStock

ASSUME ExpertAssumption ==
  /\ {MinBars, MinHistory, Lookback, RsiPeriod, ObvDays, SearchDimensions} \subseteq Nat \ {0}
  /\ MinBars > RsiPeriod
  /\ None \notin Int /\ Scores \subseteq Int
  /\ BarLists \subseteq Seq([high : Int, low : Int, close : Int, vol : Nat])
  /\ \A bars \in BarLists : \A i \in DOMAIN bars :
       bars[i].low <= bars[i].close /\ bars[i].close <= bars[i].high
  /\ \A table \in Statements :
       /\ IsFiniteSet(DOMAIN table) /\ DOMAIN table \subseteq Int
       /\ \A q \in DOMAIN table : table[q].profit \in Int \cup {None}
  /\ \A info \in Infos \ {NoStock} : info.pct_chg \in Int \cup {None}
  /\ PeHistories \subseteq Seq(Int \cup {None})
  /\ \A items \in SearchResults :
       /\ Len(items) \in Nat /\ DOMAIN items = 1..Len(items)
       /\ \A i \in DOMAIN items : items[i].date \in Int \cup {None}

VARIABLE inquiry   \* the inquiry: who is asked by whom, what has been read, what was answered

ExpertKinds == {"technical", "auditor", "valuation", "macro", "catalyst"}
Signals == {"STRONG_BULLISH", "BULLISH", "NEUTRAL", "BEARISH", "STRONG_BEARISH"}

NoInquiry == [step |-> "idle", expert |-> "technical", caller |-> "rest", limit |-> 0,
              bars |-> <<>>, records |-> <<>>, info |-> NoStock, history |-> <<>>,
              found |-> <<>>, signal |-> "NEUTRAL", score |-> 0, answer |-> "none"]

ExpertTypeOK ==
  /\ inquiry.step \in {"idle", "bars", "info", "history", "records", "search", "model", "done"}
  /\ inquiry.expert \in ExpertKinds /\ inquiry.caller \in {"rest", "coordinator"}
  /\ inquiry.bars \in BarLists \cup {<<>>} /\ inquiry.history \in PeHistories \cup {<<>>}
  /\ inquiry.info \in Infos \cup {NoStock}
  /\ Len(inquiry.found) \in 0..SearchDimensions /\ inquiry.signal \in Signals
  /\ inquiry.answer \in {"none", "result", "placeholder", "400", "422", "500", "raised"}

ExpertInit == inquiry = NoInquiry

-----------------------------------------------------------------------------
(* The technical snapshot *)

Closes(bars) == [i \in DOMAIN bars |-> bars[i].close]
FirstOf(s, n) == SubSeq(s, 1, IF Len(s) < n THEN Len(s) ELSE n)
LastOf(s, n) == SubSeq(s, IF Len(s) > n THEN Len(s) - n + 1 ELSE 1, Len(s))
SumOf(s) == FoldLeft(LAMBDA a, b : a + b, 0, s)
Sorted(S, Before(_, _)) ==
  [i \in 1..Cardinality(S) |-> CHOOSE x \in S : Cardinality({y \in S : Before(y, x)}) = i - 1]
Positive(x) == IF x > 0 THEN x ELSE 0

\* _rsi: gains against losses of the last days; without a loss 100.
Rsi(closes) ==
  LET change(k) == closes[Len(closes) - RsiPeriod + k] - closes[Len(closes) - RsiPeriod + k - 1]
      gain == SumOf([k \in 1..RsiPeriod |-> Positive(change(k))])
      loss == SumOf([k \in 1..RsiPeriod |-> Positive(-change(k))])
  IN IF Len(closes) < RsiPeriod + 1 THEN None
     ELSE IF loss = 0 THEN 100 ELSE (100 * gain) \div (gain + loss)

\* _obv_trend: the volume of rising days less that of falling days, now and some
\* days before; their difference is the sum over the days between.
ObvTrend(bars) ==
  LET sign(i) == IF bars[i].close > bars[i - 1].close THEN 1
                 ELSE IF bars[i].close < bars[i - 1].close THEN -1 ELSE 0
      moved == SumOf([k \in 1..ObvDays |-> LET i == Len(bars) - ObvDays + k IN sign(i) * bars[i].vol])
  IN IF Len(bars) <= ObvDays \/ moved = 0 THEN "Flat"
     ELSE IF moved > 0 THEN "Rising" ELSE "Falling"

\* _vwap and price_vs_vwap_status: the close against the typical price weighted by
\* volume, if anything was traded.
PriceVsVwap(bars) ==
  LET window == LastOf(bars, Lookback)
      traded == SumOf([i \in DOMAIN window |-> window[i].vol])
      value == SumOf([i \in DOMAIN window |->
                 (window[i].high + window[i].low + window[i].close) * window[i].vol])
      close == bars[Len(bars)].close
  IN IF traded = 0 \/ value = 0 THEN ""
     ELSE IF 3 * close * traded > value THEN "above"
     ELSE IF 3 * close * traded < value THEN "below" ELSE "level"

\* compute_technical_indicators: those that need few enough days to be modelled; the
\* levels are the three lowest lows and highest highs of the last days.
Indicators(bars) ==
  LET window == LastOf(bars, Lookback)
      Extreme(S, Before(_, _)) == FirstOf(Sorted(S, Before), 3)
  IN [rsi |-> Rsi(Closes(bars)), obv_trend |-> ObvTrend(bars), vwap_status |-> PriceVsVwap(bars),
      support |-> Extreme({window[i].low : i \in DOMAIN window}, LAMBDA a, b : a < b),
      resistance |-> Extreme({window[i].high : i \in DOMAIN window}, LAMBDA a, b : a > b)]

-----------------------------------------------------------------------------
(* The snapshots of auditor and valuation modeler *)

\* get_by_third_code_recent: the last periods, newest first.
Recent(table, limit) ==
  LET quarters == Sorted(DOMAIN table, LAMBDA a, b : a > b)
  IN [i \in DOMAIN FirstOf(quarters, limit) |->
        [quarter |-> quarters[i], figures |-> table[quarters[i]]]]

\* The growth from one figure to another, in percent of the earlier one.
Growth(new, old) ==
  IF old > 0 THEN ((new - old) * 100) \div old ELSE ((old - new) * 100) \div (-old)

\* Faulty: the period before, instead of the same one a year ago.
SeriesByPeriod(records) ==
  [i \in DOMAIN records |->
     IF i = Len(records) THEN None
     ELSE LET new == records[i].figures.profit  old == records[i + 1].figures.profit
          IN IF new = None \/ old = None \/ old = 0 THEN None ELSE Growth(new, old)]

\* _compute_yoy_series of the auditor: each period against the one a year before.
ProfitGrowthSeries(records) ==
  LET Prior(i) == {j \in DOMAIN records : records[j].quarter = records[i].quarter - 4}
  IN [i \in DOMAIN records |->
        IF Len(records) < 2 \/ Prior(i) = {} THEN None
        ELSE LET j == CHOOSE j \in Prior(i) : TRUE
                 new == records[i].figures.profit
                 old == records[j].figures.profit
             IN IF new = None \/ old = None \/ old = 0 THEN None ELSE Growth(new, old)]

\* _calculate_avg_profit_growth of the modeler: the last four that can be computed, as
\* their sum and their number.
AverageGrowth(records) ==
  LET old(i) == {j \in DOMAIN records : records[j].quarter + 4 = records[i].quarter}
      computable == {i \in DOMAIN records :
                       /\ records[i].figures.profit # None
                       /\ \E j \in old(i) : records[j].figures.profit \notin {None, 0}}
      order == Sorted(computable, LAMBDA a, b : a < b)
      first == FirstOf(order, 4)
      rate(i) == Growth(records[i].figures.profit,
                        records[CHOOSE j \in old(i) : TRUE].figures.profit)
  IN IF Len(records) < 2 \/ first = <<>> THEN None
     ELSE [sum |-> SumOf([k \in DOMAIN first |-> rate(first[k])]), count |-> Len(first)]

\* _calculate_percentile: how many of the positive values are at most the current one.
Percentile(values, current) ==
  LET valid == {i \in DOMAIN values : values[i] # None /\ values[i] > 0}
      rank == Cardinality({i \in valid : values[i] <= current})
  IN IF current = None \/ current <= 0 \/ Cardinality(valid) < MinHistory THEN None
     ELSE (rank * 100) \div Cardinality(valid)

\* _calculate_peg: only for a positive ratio and a growth that is positive.
Peg(pe, growth) ==
  IF pe = None \/ growth = None \/ pe <= 0 \/ growth.sum <= 0 THEN None
  ELSE [num |-> pe * growth.count, den |-> growth.sum]

\* _calculate_graham_number: its square, which is 22.5 * eps * bps, in halves.
GrahamSquared(eps, bps) ==
  IF eps = None \/ bps = None \/ eps <= 0 \/ bps <= 0 THEN None ELSE 45 * eps * bps

\* _calculate_safety_margin: of the margin, whether the price is below the number.
SafetyMargin(squared, price) ==
  IF squared = None \/ price = None \/ price <= 0 THEN None
  ELSE IF squared > 2 * price * price THEN "above price"
  ELSE IF squared = 2 * price * price THEN "at price" ELSE "below price"

Plausible(margin) == margin # None /\ -100 <= margin /\ margin <= 100

\* _calculate_gross_margin_trend: the newest period against the one before it.
MarginTrend(records) ==
  LET new == records[1].figures.margin  old == records[2].figures.margin
  IN IF Len(records) < 2 \/ ~Plausible(new) \/ ~Plausible(old) \/ old = 0 THEN None
     ELSE IF new = old THEN "flat" ELSE IF new > old THEN "up" ELSE "down"

\* ValuationSnapshotBuilderImpl.build.  What _to_stock_overview calls pe_ttm is the
\* day's change in percent.
ValuationSnapshot ==
  LET pe == inquiry.info.pct_chg
      growth == AverageGrowth(inquiry.records)
      newest == inquiry.records[1].figures
      graham == GrahamSquared(newest.eps, newest.bps)
  IN [growth |-> growth, peg |-> Peg(pe, growth), graham |-> graham,
      pe_percentile |-> Percentile(inquiry.history, pe),
      margin |-> IF Plausible(newest.margin) THEN newest.margin ELSE None,
      margin_trend |-> MarginTrend(inquiry.records),
      safety |-> SafetyMargin(graham, inquiry.info.close)]

-----------------------------------------------------------------------------
(* The searches of the macro expert and the catalyst detective *)

\* SearchResultFilter.filter_and_sort: of the items of a page, whatever follows its
\* path, the first one; of those the ones with title and content, by date (the oldest
\* first), the undated at the end; equal ones in their order.
FilterAndSort(items) ==
  LET kept == {i \in DOMAIN items :
                 /\ \A j \in 1..(i - 1) : items[j].page # items[i].page
                 /\ items[i].titled /\ items[i].content}
      Before(i, j) ==
        IF items[i].date = None THEN items[j].date = None /\ i < j
        ELSE items[j].date = None \/ items[i].date < items[j].date
             \/ (items[i].date = items[j].date /\ i < j)
      order == Sorted(kept, Before)
  IN [k \in DOMAIN order |-> items[order[k]]]

\* The items of all dimensions.
Found == UNION {ToSet(inquiry.found[d]) : d \in DOMAIN inquiry.found}

-----------------------------------------------------------------------------
(* The inquiry *)

InquiryEnds(answer) == inquiry' = [inquiry EXCEPT !.step = "done", !.answer = answer]

\* An exception: the routes turn it into a status, the coordinator gets it as it is.
Refused(status) == InquiryEnds(IF inquiry.caller = "rest" THEN status ELSE "raised")

FirstStep(expert) == CASE expert = "technical" -> "bars" [] expert = "auditor" -> "records"
                       [] OTHER -> "info"

\* ResearchGatewayAdapter.run_expert or a route: the expert is asked about a named
\* stock, the auditor about a number of periods.
Ask(expert, caller, limit) ==
  /\ inquiry.step = "idle"
  /\ limit \in 1..20
  /\ inquiry' = [inquiry EXCEPT !.expert = expert, !.caller = caller,
                                !.limit = IF expert = "auditor" THEN limit ELSE 8,
                                !.step = FirstStep(expert)]

\* No symbol, or a number of periods that the auditor does not take: a route refuses
\* such a number before the service is reached.
AskWrongly(expert, caller, limit) ==
  /\ inquiry.step = "idle"
  /\ inquiry' = [inquiry EXCEPT !.expert = expert, !.caller = caller, !.step = "done",
                   !.answer = IF caller = "coordinator" THEN "raised"
                              ELSE IF expert = "auditor" /\ limit \notin 1..20 THEN "422" ELSE "400"]

ReadYearOfBars(bars) ==
  /\ inquiry.step = "bars"
  /\ IF Len(bars) < MinBars THEN Refused("400")
     ELSE inquiry' = [inquiry EXCEPT !.bars = bars, !.step = "model"]

\* The auditor's and the modeler's read of the reports.
ReadRecords(table) ==
  LET records == Recent(table, IF inquiry.expert = "auditor" THEN inquiry.limit ELSE 8)
  IN /\ inquiry.step = "records"
     /\ IF records = <<>> THEN Refused("400")
        ELSE inquiry' = [inquiry EXCEPT !.records = records, !.step = "model"]

\* Basic data and latest bar; the modeler takes a stock that never traded for none.
ReadInfo(info) ==
  /\ inquiry.step = "info"
  /\ IF info = NoStock \/ (inquiry.expert = "valuation" /\ ~info.traded) THEN Refused("400")
     ELSE inquiry' = [inquiry EXCEPT !.info = info,
                        !.step = IF inquiry.expert = "valuation" THEN "history" ELSE "search"]

ReadHistory(history) ==
  /\ inquiry.step = "history"
  /\ inquiry' = [inquiry EXCEPT !.history = history, !.step = "records"]

\* A read raises; only the detective takes an error of the database for no stock.
ReadRaises ==
  /\ inquiry.step \in {"bars", "info", "history", "records"}
  /\ \/ Refused("500")
     \/ inquiry.expert = "catalyst" /\ Refused("400")

\* After the last dimension: something must have been found in one of them.
Searched(found) ==
  IF Len(found) < SearchDimensions THEN inquiry' = [inquiry EXCEPT !.found = found]
  ELSE IF \A d \in DOMAIN found : found[d] = <<>> THEN Refused("400")
  ELSE inquiry' = [inquiry EXCEPT !.found = found, !.step = "model"]

Search(items) ==
  /\ inquiry.step = "search"
  /\ Searched(Append(inquiry.found, FilterAndSort(items)))

\* A search that fails leaves its dimension empty.
SearchRaises ==
  /\ inquiry.step = "search"
  /\ Searched(Append(inquiry.found, <<>>))

\* _score_to_signal
ScoreToSignal(score) ==
  CASE score >= 90 -> "STRONG_BULLISH"
    [] score >= 75 /\ score < 90 -> "BULLISH"
    [] score >= 50 /\ score < 75 -> "NEUTRAL"
    [] score >= 30 /\ score < 50 -> "BEARISH"
    [] score < 30 -> "STRONG_BEARISH"

\* The model answers as asked; whatever signal it gives, the auditor's is made to
\* agree with the score (_ensure_signal_consistent).
ModelAnswers(score) ==
  /\ inquiry.step = "model"
  /\ inquiry' = [inquiry EXCEPT !.step = "done", !.answer = "result",
       !.score = IF inquiry.expert = "auditor" THEN score ELSE @,
       !.signal = IF inquiry.expert = "auditor" THEN ScoreToSignal(score) ELSE @]

\* The answer cannot be parsed: an error, but for the macro expert, who makes up a
\* neutral result, which the response model of the route does not accept.
ModelAnswersBadly ==
  /\ inquiry.step = "model"
  /\ IF inquiry.expert # "macro" THEN Refused("422")
     ELSE InquiryEnds(IF inquiry.caller = "rest" THEN "500" ELSE "placeholder")

ModelRaises == inquiry.step = "model" /\ Refused("500")

ExpertNext ==
  \/ \E e \in ExpertKinds, c \in {"rest", "coordinator"}, n \in {0, 2, 8, 21} :
       Ask(e, c, n) \/ AskWrongly(e, c, n)
  \/ \E bars \in BarLists : ReadYearOfBars(bars)
  \/ \E table \in Statements : ReadRecords(table)
  \/ \E info \in Infos : ReadInfo(info)
  \/ \E history \in PeHistories : ReadHistory(history)
  \/ \E items \in SearchResults : Search(items)
  \/ ReadRaises \/ SearchRaises
  \/ \E score \in Scores : ModelAnswers(score)
  \/ ModelAnswersBadly \/ ModelRaises

ExpertSpec == ExpertInit /\ [][ExpertNext]_inquiry

-----------------------------------------------------------------------------
\* Auditor and modeler, who compute growth each in their own way, agree on it: the
\* modeler averages the first four growths of the auditor's series.
ExpertsAgreeOnGrowth ==
  LET series == ProfitGrowthSeries(inquiry.records)
      known == {i \in DOMAIN series : series[i] # None}
      first == FirstOf(Sorted(known, LAMBDA a, b : a < b), 4)
      average == AverageGrowth(inquiry.records)
  IN IF known = {} THEN average = None
     ELSE average = [sum |-> SumOf([k \in DOMAIN first |-> series[first[k]]]),
                     count |-> Len(first)]

\* What the modeler computes is in its bounds, and it states no ratio to a growth,
\* and no margin of safety, that is not there.
ValuationInBounds ==
  inquiry.expert = "valuation" /\ inquiry.step \in {"model", "done"} /\ inquiry.records # <<>> =>
    LET s == ValuationSnapshot IN
    /\ s.pe_percentile # None => /\ s.pe_percentile \in 0..100
                                 /\ Len(inquiry.history) >= MinHistory
    /\ s.peg # None => s.growth # None /\ s.peg.num > 0 /\ s.peg.den > 0
    /\ s.safety # None => s.graham # None
    /\ s.margin = None => s.margin_trend = None

\* The technical snapshot of enough bars has a relative strength in its range, and the
\* last close between the outermost levels.
TechnicalInBounds ==
  inquiry.bars # <<>> =>
    LET s == Indicators(inquiry.bars)
        close == inquiry.bars[Len(inquiry.bars)].close
    IN /\ s.rsi \in 0..100
       /\ s.support[1] <= close /\ close <= s.resistance[1]
       /\ s.vwap_status = "above" => s.support[1] < close
       /\ s.vwap_status = "below" => close < s.resistance[1]

\* Of what a search returned, the items of a dimension have title and content, no two
\* are of one page, and the undated are at the end.
SearchesFiltered ==
  \A d \in DOMAIN inquiry.found : LET items == inquiry.found[d] IN
    \A i \in DOMAIN items :
      /\ items[i].titled /\ items[i].content
      /\ \A j \in i+1..Len(items) : /\ items[i].page # items[j].page
                                    /\ items[i].date = None => items[j].date = None

\* The docstrings and the tests of filter_and_sort: of two dated items the more recent
\* one comes first.
SearchesMostRecentFirst ==
  \A d \in DOMAIN inquiry.found : LET items == inquiry.found[d] IN
    \A i, j \in DOMAIN items :
      i < j /\ items[i].date # None /\ items[j].date # None => items[i].date >= items[j].date

\* A result is grounded on data: no expert gives one, made up or not, about a stock of
\* which nothing was read; and the auditor's signal fits its score.
ResultIsGrounded ==
  inquiry.answer \in {"result", "placeholder"} =>
    CASE inquiry.expert = "technical" -> Len(inquiry.bars) >= MinBars
      [] inquiry.expert = "auditor" ->
           /\ Len(inquiry.records) \in 1..inquiry.limit
           /\ inquiry.answer = "result" => inquiry.signal = ScoreToSignal(inquiry.score)
      [] inquiry.expert = "valuation" -> inquiry.records # <<>> /\ inquiry.info.traded
      [] OTHER -> inquiry.info # NoStock /\ Found # {} /\ Len(inquiry.found) = SearchDimensions

\* The experts' answers hold, whatever was read and whatever the model answered.
ExpertAnswersHold ==
  /\ ExpertsAgreeOnGrowth /\ ValuationInBounds /\ TechnicalInBounds
  /\ SearchesFiltered /\ ResultIsGrounded
===============================================================================

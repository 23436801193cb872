----------------------------- MODULE MCComponents -----------------------------
(***************************************************************************)
(* The components of the system but its two engines, for TLC: the scheduler,  *)
(* the incremental syncs of bars, financial figures and market data, the calls *)
(* to the providers, the concepts on their way into the graph, the platform of *)
(* language models and web searches, the experts and the daily report.         *)
(*                                                                         *)
(* They share no state but the database's session rules, which each models    *)
(* for itself, so that a behaviour works on one of them, chosen at the start:  *)
(* interleaving them would multiply the states and add no behaviour.  The      *)
(* table of bars is filled at the start: on an empty one NoSilentGap promises  *)
(* nothing.                                                                  *)
(***************************************************************************)
EXTENDS Scheduler, ExecutionTracker, MCFinance, DailyCompensation, ProviderCalls, AkShareCalls,
        KnowledgeGraph, MarketDataSync, LLMPlatform, WebSearch, MCJson, MCInsight, MCExperts, TLC

VARIABLE focus  \* the component of this behaviour

\* Stocks are interchangeable, and so are runs, requests and records, and concepts.
Sym == Permutations(BarStocks) \cup Permutations(DailyRuns) \cup Permutations(Concepts)

ModelRows ==
  {[priority |-> 1, tags |-> {"fast"}, is_active |-> TRUE, provider_type |-> "openai"],
   [priority |-> 2, tags |-> {}, is_active |-> TRUE, provider_type |-> "other"]}
ModelPatches == {[is_active |-> FALSE], [provider_type |-> "openai"]}

TwoDimensions == <<[query |-> "policy", freshness |-> "oneDay"],
                   [query |-> "industry", freshness |-> "oneWeek"]>>

\* The other components stay as they started.
DataTypeOK ==
  /\ focus = "scheduler" => SchedulerTypeOK
  /\ focus = "tracker" => TrackerTypeOK
  /\ focus = "finance" => FinanceTypeOK
  /\ focus = "daily" => DailyTypeOK
  /\ focus = "calls" => CallsTypeOK
  /\ focus = "akshare" => AkTypeOK
  /\ focus \in {"concepts", "graph"} => ConceptTypeOK /\ GraphTypeOK
  /\ focus = "market" => MarketTypeOK
  /\ focus = "llm" => LLMTypeOK
  /\ focus = "search" => WebTypeOK
  /\ focus = "json" => JsonTypeOK
  /\ focus = "report" => InsightTypeOK
  /\ focus = "experts" => ExpertTypeOK

\* The variables of the components up to the graph, and of the others.
dataVars == <<schedulerVars, trackerVars, financeVars, dailyVars, callVars, akVars, pipelineVars,
              marketVars>>
serviceVars == <<llmVars, webVars, jsonVars, insightVars, inquiry>>

\* A component that is not in focus starts in one of its initial states only.
ComponentsInit ==
  /\ focus \in {"scheduler", "tracker", "finance", "daily", "calls", "akshare", "concepts", "graph",
                "market", "llm", "search", "json", "report", "experts"}
  /\ SchedulerInit /\ TrackerInit /\ FinanceInit /\ CallsInit /\ AkInit
  /\ DailyInit /\ filled
  /\ ConceptInit
  /\ focus \notin {"concepts", "graph"} => \A c \in Concepts : offered[c] = {}
  /\ focus = "graph" => Cardinality({c \in Concepts : offered[c] # {}}) <= 1
  /\ GraphInit
  /\ focus = "concepts" => \A s, t \in MemberCodes : industry[s] = industry[t]
  /\ MarketInit
  /\ focus # "market" => calendarText /\ \A raw \in RawCodes : board[raw] = "broken"
  /\ LLMInit
  /\ focus # "llm" => configs = <<>> /\ loaded
  /\ \A a \in DOMAIN configs : configs[a].priority = IF a = "m1" THEN 1 ELSE 2
  /\ DOMAIN configs \in {{}, Aliases}
  /\ WebInit
  /\ focus # "search" => dbOffset = 0
  /\ InsightInit
  /\ focus # "report" => feed = [bars |-> <<>>, st |-> {}, stocks |-> [robot |-> {}],
                                 st_in_concept |-> {}]
  /\ JsonInit /\ ExpertInit

\* Beside the graph syncs runs one sync of the concepts without failures (those
\* have a focus of their own), or a second one after the provider has changed its
\* list, if nothing fails; and one concept has constituents.
OneConceptSync ==
  /\ Cardinality({w \in ConceptRuns : conceptRun'[w].pc # "idle"}) <= 1
  /\ conceptFaults' = 0
  /\ conceptSyncs' = 2 => offers' = 1 /\ graphFaults' = 0
  /\ Cardinality({c \in Concepts : offered'[c] # {}}) <= 1

\* Many configuration requests, or many LLM calls and failures.
RequestsOrChats == configOps' <= 1 \/ (chats' <= 1 /\ llmFaults' <= 1)

ComponentsNext ==
  \/ /\ focus = "scheduler" /\ SchedulerNext
     /\ UNCHANGED <<focus, trackerVars, financeVars, dailyVars, callVars, akVars, pipelineVars,
                    marketVars, serviceVars>>
  \/ /\ focus = "tracker" /\ TrackerNext
     /\ UNCHANGED <<focus, schedulerVars, financeVars, dailyVars, callVars, akVars, pipelineVars,
                    marketVars, serviceVars>>
  \/ /\ focus = "finance" /\ FinanceNext
     /\ UNCHANGED <<focus, schedulerVars, trackerVars, dailyVars, callVars, akVars, pipelineVars,
                    marketVars, serviceVars>>
  \/ /\ focus = "daily" /\ DailyNext
     /\ UNCHANGED <<focus, schedulerVars, trackerVars, financeVars, callVars, akVars,
                    pipelineVars, marketVars, serviceVars>>
  \/ /\ focus = "calls" /\ CallsNext
     /\ UNCHANGED <<focus, schedulerVars, trackerVars, financeVars, dailyVars, akVars,
                    pipelineVars, marketVars, serviceVars>>
  \/ /\ focus = "akshare" /\ AkNext
     /\ UNCHANGED <<focus, schedulerVars, trackerVars, financeVars, dailyVars, callVars,
                    pipelineVars, marketVars, serviceVars>>
  \/ /\ focus = "concepts" /\ ConceptNext /\ CommitNoted
     /\ UNCHANGED <<focus, schedulerVars, trackerVars, financeVars, dailyVars, callVars, akVars,
                    marketVars, serviceVars>>
  \/ /\ focus = "graph" /\ PipelineNext /\ OneConceptSync
     /\ UNCHANGED <<focus, schedulerVars, trackerVars, financeVars, dailyVars, callVars, akVars,
                    marketVars, serviceVars>>
  \/ /\ focus = "market" /\ MarketNext
     /\ UNCHANGED <<focus, schedulerVars, trackerVars, financeVars, dailyVars, callVars, akVars,
                    pipelineVars, serviceVars>>
  \/ /\ focus = "llm" /\ LLMNext /\ RequestsOrChats
     /\ UNCHANGED <<focus, dataVars, webVars, jsonVars, insightVars, inquiry>>
  \/ /\ focus = "search" /\ WebNext
     /\ UNCHANGED <<focus, dataVars, llmVars, jsonVars, insightVars, inquiry>>
  \/ /\ focus = "json" /\ JsonNext
     /\ UNCHANGED <<focus, dataVars, llmVars, webVars, insightVars, inquiry>>
  \/ /\ focus = "report" /\ InsightNext
     /\ UNCHANGED <<focus, dataVars, llmVars, webVars, jsonVars, inquiry>>
  \/ /\ focus = "experts" /\ ExpertNext
     /\ UNCHANGED <<focus, dataVars, llmVars, webVars, jsonVars, insightVars>>

componentVars == <<focus, dataVars, serviceVars>>

ComponentsSpec == ComponentsInit /\ [][ComponentsNext]_componentVars
===============================================================================

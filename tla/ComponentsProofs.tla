--------------------------- MODULE ComponentsProofs ---------------------------
(***************************************************************************)
(* What holds of the components that MCComponents puts side by side: each     *)
(* behaviour of the whole is, for each component, one of its own behaviours,  *)
(* so that what its own module promises of it holds here.                     *)
(***************************************************************************)
EXTENDS MCComponents, JobProofs, ServiceProofs, ConceptMarketProofs, AnalysisProofs, LlmJsonProofs

-----------------------------------------------------------------------------
(* A step of the whole is a step of the component in focus, and leaves the   *)
(* other components alone.                                                  *)

LEMMA SchedulerAlone == ComponentsSpec => SchedulerSpec
  <1>1. ComponentsInit => SchedulerInit
    BY DEF ComponentsInit
  <1>2. [ComponentsNext]_componentVars => [SchedulerNext]_schedulerVars
    BY DEF ComponentsNext, componentVars, dataVars, serviceVars
  <1>3. QED
    BY <1>1, <1>2, PTL DEF ComponentsSpec, SchedulerSpec

LEMMA TrackerAlone == ComponentsSpec => TrackerSpec
  <1>1. ComponentsInit => TrackerInit
    BY DEF ComponentsInit
  <1>2. [ComponentsNext]_componentVars => [TrackerNext]_trackerVars
    BY DEF ComponentsNext, componentVars, dataVars, serviceVars
  <1>3. QED
    BY <1>1, <1>2, PTL DEF ComponentsSpec, TrackerSpec

LEMMA FinanceAlone == ComponentsSpec => FinanceSpec
  <1>1. ComponentsInit => FinanceInit
    BY DEF ComponentsInit
  <1>2. [ComponentsNext]_componentVars => [FinanceNext]_financeVars
    BY DEF ComponentsNext, componentVars, dataVars, serviceVars
  <1>3. QED
    BY <1>1, <1>2, PTL DEF ComponentsSpec, FinanceSpec

LEMMA DailyAlone == ComponentsSpec => DailySpec
  <1>1. ComponentsInit => DailyInit
    BY DEF ComponentsInit
  <1>2. [ComponentsNext]_componentVars => [DailyNext]_dailyVars
    BY DEF ComponentsNext, componentVars, dataVars, serviceVars
  <1>3. QED
    BY <1>1, <1>2, PTL DEF ComponentsSpec, DailySpec

LEMMA CallsAlone == ComponentsSpec => CallsSpec
  <1>1. ComponentsInit => CallsInit
    BY DEF ComponentsInit
  <1>2. [ComponentsNext]_componentVars => [CallsNext]_callVars
    BY DEF ComponentsNext, componentVars, dataVars, serviceVars
  <1>3. QED
    BY <1>1, <1>2, PTL DEF ComponentsSpec, CallsSpec

LEMMA AkShareAlone == ComponentsSpec => AkSpec
  <1>1. ComponentsInit => AkInit
    BY DEF ComponentsInit
  <1>2. [ComponentsNext]_componentVars => [AkNext]_akVars
    BY DEF ComponentsNext, componentVars, dataVars, serviceVars
  <1>3. QED
    BY <1>1, <1>2, PTL DEF ComponentsSpec, AkSpec

LEMMA MarketAlone == ComponentsSpec => MarketSpec
  <1>1. ComponentsInit => MarketInit
    BY DEF ComponentsInit
  <1>2. [ComponentsNext]_componentVars => [MarketNext]_marketVars
    BY DEF ComponentsNext, componentVars, dataVars, serviceVars
  <1>3. QED
    BY <1>1, <1>2, PTL DEF ComponentsSpec, MarketSpec

LEMMA PlatformAlone == ComponentsSpec => LLMSpec
  <1>1. ComponentsInit => LLMInit
    BY DEF ComponentsInit
  <1>2. [ComponentsNext]_componentVars => [LLMNext]_llmVars
    BY DEF ComponentsNext, componentVars, dataVars, serviceVars
  <1>3. QED
    BY <1>1, <1>2, PTL DEF ComponentsSpec, LLMSpec

LEMMA SearchAlone == ComponentsSpec => WebSpec
  <1>1. ComponentsInit => WebInit
    BY DEF ComponentsInit
  <1>2. [ComponentsNext]_componentVars => [WebNext]_webVars
    BY DEF ComponentsNext, componentVars, dataVars, serviceVars
  <1>3. QED
    BY <1>1, <1>2, PTL DEF ComponentsSpec, WebSpec

LEMMA JsonAlone == ComponentsSpec => JsonSpec
  <1>1. ComponentsInit => JsonInit
    BY DEF ComponentsInit
  <1>2. [ComponentsNext]_componentVars => [JsonNext]_jsonVars
    BY DEF ComponentsNext, componentVars, dataVars, serviceVars
  <1>3. QED
    BY <1>1, <1>2, PTL DEF ComponentsSpec, JsonSpec

LEMMA ReportAlone == ComponentsSpec => InsightSpec
  <1>1. ComponentsInit => InsightInit
    BY DEF ComponentsInit
  <1>2. [ComponentsNext]_componentVars => [InsightNext]_insightVars
    BY DEF ComponentsNext, componentVars, dataVars, serviceVars
  <1>3. QED
    BY <1>1, <1>2, PTL DEF ComponentsSpec, InsightSpec

LEMMA PipelineAlone == ComponentsSpec => PipelineSpec
  <1>1. ComponentsInit => PipelineInit
    BY DEF ComponentsInit, PipelineInit
  <1>2. [ComponentsNext]_componentVars => [PipelineNext]_pipelineVars
    BY DEF ComponentsNext, componentVars, dataVars, serviceVars, PipelineNext, pipelineVars
  <1>3. QED
    BY <1>1, <1>2, PTL DEF ComponentsSpec, PipelineSpec

LEMMA ExpertsAlone == ComponentsSpec => ExpertSpec
  <1>1. ComponentsInit => ExpertInit
    BY DEF ComponentsInit
  <1>2. [ComponentsNext]_componentVars => [ExpertNext]_inquiry
    BY DEF ComponentsNext, componentVars, dataVars, serviceVars
  <1>3. QED
    BY <1>1, <1>2, PTL DEF ComponentsSpec, ExpertSpec

-----------------------------------------------------------------------------
(* The types that no theorem of the component's own states: its inductive    *)
(* invariant has them.                                                      *)

LEMMA SchedulerTypes == SchedulerSpec => []SchedulerTypeOK
  <1>1. SchedulerInv => SchedulerTypeOK
    BY DEF SchedulerInv
  <1>2. QED
    BY <1>1, SchedulerInvInit, SchedulerInvNext, PTL DEF SchedulerSpec

LEMMA TrackerTypes == TrackerSpec => []TrackerTypeOK
  <1>1. TrackerInv => TrackerTypeOK
    BY DEF TrackerInv
  <1>2. QED
    BY <1>1, TrackerInvInit, TrackerInvNext, PTL DEF TrackerSpec

LEMMA DailyTypes == DailySpec => []DailyTypeOK
  <1>1. DailyInit => DailyInv
    BY DailyInvInit
  <1>2. DailyInv /\ [DailyNext]_dailyVars => DailyInv'
    BY DailyInvStep
  <1>3. DailyInv => DailyTypeOK
    BY DEF DailyInv
  <1>4. QED
    BY <1>1, <1>2, <1>3, PTL DEF DailySpec

LEMMA CallTypes == CallsSpec => []CallsTypeOK
  <1>1. CallsInv => CallsTypeOK
    BY DEF CallsInv
  <1>2. QED
    BY <1>1, DequeInvariant, PTL

LEMMA AkShareTypes == AkSpec => []AkTypeOK
  <1>1. AkInv => AkTypeOK
    BY DEF AkInv
  <1>2. QED
    BY <1>1, AkInvInit, AkInvStep, PTL DEF AkSpec

-----------------------------------------------------------------------------

\* Whatever the syncs, the provider, the users and the models do, and wherever a
\* statement fails or the process stops, every component's state keeps its type:
\* the rows are rows of their tables, the counters stay within their limits, and
\* no request, run or call is left in a state that the code has no branch for.
THEOREM ComponentsTypes == ComponentsSpec => []DataTypeOK
  <1>1. /\ SchedulerTypeOK /\ TrackerTypeOK /\ FinanceTypeOK /\ DailyTypeOK /\ CallsTypeOK
        /\ AkTypeOK /\ ConceptTypeOK /\ GraphTypeOK /\ MarketTypeOK /\ LLMTypeOK /\ WebTypeOK
        /\ JsonTypeOK /\ InsightTypeOK /\ ExpertTypeOK
        => DataTypeOK
    BY DEF DataTypeOK
  <1>2. ComponentsSpec => []SchedulerTypeOK /\ []TrackerTypeOK /\ []FinanceTypeOK /\ []DailyTypeOK
    BY SchedulerAlone, TrackerAlone, FinanceAlone, DailyAlone, SchedulerTypes, TrackerTypes,
       FinanceTypes, DailyTypes, PTL
  <1>3. ComponentsSpec => []CallsTypeOK /\ []AkTypeOK /\ []MarketTypeOK
                          /\ [](ConceptTypeOK /\ GraphTypeOK)
    BY CallsAlone, AkShareAlone, MarketAlone, PipelineAlone, CallTypes, AkShareTypes, MarketTypes,
       PipelineTypes, PTL
  <1>4. ComponentsSpec => []LLMTypeOK /\ []WebTypeOK /\ []JsonTypeOK /\ []InsightTypeOK
                          /\ []ExpertTypeOK
    BY PlatformAlone, SearchAlone, JsonAlone, ReportAlone, ExpertsAlone, PlatformTypes,
       SearchTypes, AnswersTyped, ReportTypes, InquiryTypes, PTL
  <1>5. QED
    BY <1>1, <1>2, <1>3, <1>4, PTL

\* Side by side the components keep the promises that each keeps alone: those of
\* the syncs and their clients, and those of the services on top of them.
DataAnswersHold ==
  /\ SchedulerAnswersHold /\ LogTellsOutcome /\ FailureIsKept /\ NoSilentGap
  /\ ConceptsAreOneVersion /\ NeighborsFollowDatabase /\ UnreportedIsStored
  /\ AkShareCallsApart

ServiceAnswersHold ==
  /\ RegistryIsASnapshot /\ FailsOnlyAfterAll /\ OnlyOverlapsLoseUpdates
  /\ SearchAnswersHold /\ RepairsAreExact /\ InsightAnswersHold /\ ExpertAnswersHold

\* A component runs no worse for the others: every invariant that the whole is
\* checked for on small instances holds of it for every value of the constants,
\* and the limiter still implements the sliding window.
THEOREM ComponentsAnswer ==
  ComponentsSpec => [](DataAnswersHold /\ ServiceAnswersHold) /\ GrantsWithinWindow
  <1>1. ComponentsSpec => []SchedulerAnswersHold /\ []LogTellsOutcome /\ []FailureIsKept
                          /\ []NoSilentGap
    BY SchedulerAlone, TrackerAlone, FinanceAlone, DailyAlone, AnswersHold, TrackerTellsOutcome,
       FailuresAreKept, NoGapOnTheQuiet, PTL
  <1>2. ComponentsSpec => []ConceptsAreOneVersion /\ []NeighborsFollowDatabase
                          /\ []UnreportedIsStored /\ []AkShareCallsApart
    BY PipelineAlone, MarketAlone, AkShareAlone, ConceptsAreNeverMixed, NeighborsAreOfDatabase,
       WhatIsNotReportedIsStored, AkShareCallsKeepApart, PTL
  <1>3. ComponentsSpec => []RegistryIsASnapshot /\ []FailsOnlyAfterAll /\ []OnlyOverlapsLoseUpdates
                          /\ []SearchAnswersHold
    BY PlatformAlone, SearchAlone, RegistryIsOneTable, NoModelIsPassedOver, NoOtherUpdateIsLost,
       SearchKeepsItsPromises, PTL
  <1>4. ComponentsSpec => []RepairsAreExact /\ []InsightAnswersHold /\ []ExpertAnswersHold
    BY JsonAlone, ReportAlone, ExpertsAlone, AnswersAreExact, ReportFiguresAgree,
       ExpertsComputeInBounds, PTL
  <1>5. ComponentsSpec => GrantsWithinWindow
    BY CallsAlone, LimiterImplementsWindow
  <1>6. QED
    BY <1>1, <1>2, <1>3, <1>4, <1>5, PTL DEF DataAnswersHold, ServiceAnswersHold
===============================================================================

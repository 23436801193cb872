SPECIFICATION ComponentsSpec
CONSTANTS
  Jobs = {j1, j2}
  JobRegistry = {j1, j2}
  RouteRegistry = {j1, j2}
  SeededJobs = {j1}
  Crons = {c1, c2, c3}
  SeedCron = c1
  SixFieldCrons = {c3}
  NoCron = NoCron
  Calls = {n1, n2}
  MaxSchedFaults = 1
  MaxRestarts = 1
  Runs = {n1, n2}
  TrackedJobs = {j1, j2}
  MaxTrackerFaults = 2
  FinStocks = {a, b}
  FinDays = {0, 1}
  PeriodOf <- ReportPeriod
  CheckDays = 0
  MissingLimit = 1
  MaxRetries = 2
  Records = {n1, n2}
  NoRecord = NoRecord
  MaxApiFaults = 2
  MaxFinFaults = 1
  MaxListSyncs = 1
  BarStocks = {a, b}
  LastDay = 2
  DailyRuns = {n1, n2}
  MaxDailyFaults = 1
  MaxHistorySyncs = 1
  Callers = {p, q, r}
  MaxCalls = 2
  Window = 2
  MaxCallRetries = 1
  BaseWait = 1
  MaxClock = 5
  MaxPermits = 4
  AkCallers = {p, q}
  AkInterval = 2
  MaxAkClock = 5
  MaxAkCalls = 2
  Concepts = {k1, k2}
  MemberCodes = {a, b}
  ConceptRuns = {n1, n2}
  MaxOffers = 1
  MaxConceptSyncs = 2
  MaxConceptFaults = 1
  Industries = {"bank"}
  NoIndustry = "none"
  GraphRuns = {g1}
  MaxGraphEvents = 2
  MaxGraphFaults = 1
  RawCodes = {"60", "90"}
  MarketRuns = {n1, n2}
  MaxMoves = 1
  MaxMarketSyncs = 2
  MaxMarketFaults = 1
  Aliases = {"m1", "m2"}
  Tags = {"fast"}
  CreatedRows <- ModelRows
  Patches <- ModelPatches
  ConfigClients = {k1, k2}
  ChatClients = {"chat"}
  NoAlias = "none"
  MaxConfigOps = 2
  MaxChats = 2
  MaxLlmFaults = 2
  Experts = {n1, n2}
  Dimensions <- TwoDimensions
  DbOffsets = {0, 2}
  MaxWebTime = 3
  MaxSearches = 2
  MaxSearchFaults = 1
  Documents <- SomeDocuments
  Noises <- SomeNoises
  MaxJsonRetries = 1
  ReportRuns = {n1, n2}
  Feeds <- SomeFeeds
  Pools <- SomePools
  Lists <- SomeLists
  TopN = 1
  MaxReportFaults = 1
  BarLists <- SomeBars
  Statements <- SomeStatements
  Infos <- SomeInfos
  PeHistories <- SomeHistories
  SearchResults <- SomeResults
  Scores = {29, 30, 74, 75, 90}
  MinBars = 3
  MinHistory = 2
  Lookback = 3
  RsiPeriod = 2
  ObvDays = 2
  SearchDimensions = 2
  None = None
  NoStock = NoStock
SYMMETRY Sym
INVARIANTS
  DataTypeOK
  SchedulerAnswersHold
  LogTellsOutcome
  FailureIsKept
  NoSilentGap
  ConceptsAreOneVersion
  NeighborsFollowDatabase
  UnreportedIsStored
  AkShareCallsApart
  RegistryIsASnapshot
  FailsOnlyAfterAll
  OnlyOverlapsLoseUpdates
  SearchAnswersHold
  RepairsAreExact
  InsightAnswersHold
  ExpertAnswersHold
PROPERTY GrantsWithinWindow
CHECK_DEADLOCK FALSE

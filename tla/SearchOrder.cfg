SPECIFICATION ExpertSpec
CONSTANTS
  BarLists <- SomeBars
  Statements <- SomeStatements
  Infos <- SomeInfos
  PeHistories <- SomeHistories
  SearchResults <- SomeResults
  Scores = {29, 30, 74, 75, 90}
  MinBars = 3
  MinHistory = 2
  Lookback = 3
  RsiPeriod = 2
  ObvDays = 2
  SearchDimensions = 2
  None = None
  NoStock = NoStock
INVARIANT SearchesMostRecentFirst
CHECK_DEADLOCK FALSE

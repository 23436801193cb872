SPECIFICATION TriggeredSpec
CONSTANTS
  s1 = s1
  s2 = s2
  s3 = s3
  NoTask = NoTask
  StockRows <- TwoRows
  Kind = "FINANCE_HISTORY"
  Workers = {w1, w2}
  TaskIds = {t1, t2}
  BatchSizes = {1}
  Timeout = 1
  UtcOffset = 1
  NoData <- NoStocks
  FaultKinds <- ApiFaults
  MaxStarts = 3
  MaxFaults = 1
  MaxCrashes = 1
  MaxMoves = 1
  Overlapping = FALSE
  SlowBatches = FALSE
INVARIANTS
  RaisedMeansFinished
PROPERTIES
  CallReturns
  OrphanIsTakenOver
  UndisturbedCallCompletes
CHECK_DEADLOCK FALSE

SPECIFICATION Spec
CONSTANTS
  s1 = s1
  s2 = s2
  s3 = s3
  NoTask = NoTask
  StockRows <- ThreeRows
  Kind = "DAILY_HISTORY"
  Workers = {w1, w2}
  TaskIds = {t1, t2, t3}
  BatchSizes = {1, 2}
  Timeout = 2
  UtcOffset = 0
  NoData <- NoStocks
  FaultKinds <- BothFaults
  MaxStarts = 4
  MaxFaults = 1
  MaxCrashes = 1
  MaxMoves = 0
  Overlapping = FALSE
  SlowBatches = FALSE
SYMMETRY TaskSymmetry
INVARIANTS
  AtMostOneRunning
  OneWorkerPerTask
  SingleStockFailureIsolated
PROPERTIES
  OffsetNeverGoesBack
  IsCheckpointedJob
CHECK_DEADLOCK FALSE

SPECIFICATION Spec
CONSTANTS
  s1 = s1
  s2 = s2
  s3 = s3
  NoTask = NoTask
  StockRows <- ThreeRows
  Kind = "DAILY_HISTORY"
  Workers = {w1}
  TaskIds = {t1, t2}
  BatchSizes = {1, 2}
  Timeout = 1
  UtcOffset = 0
  NoData <- FirstStock
  FaultKinds <- BothFaults
  MaxStarts = 3
  MaxFaults = 0
  MaxCrashes = 0
  MaxMoves = 0
  Overlapping = TRUE
  SlowBatches = TRUE
SYMMETRY IdSymmetry
INVARIANTS
  CompletedMeansAllTried
CHECK_DEADLOCK FALSE

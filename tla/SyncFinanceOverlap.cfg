SPECIFICATION Spec
CONSTANTS
  s1 = s1
  s2 = s2
  s3 = s3
  NoTask = NoTask
  StockRows <- ThreeRows
  Kind = "FINANCE_HISTORY"
  Workers = {w1, w2}
  TaskIds = {t1, t2}
  BatchSizes = {1, 2}
  Timeout = 1
  UtcOffset = 0
  NoData <- FirstStock
  FaultKinds <- BothFaults
  MaxStarts = 3
  MaxFaults = 1
  MaxCrashes = 1
  MaxMoves = 0
  Overlapping = TRUE
  SlowBatches = TRUE
SYMMETRY TaskSymmetry
INVARIANTS
  TypeOK
  Checkpoint
  CompletedMeansAllDone
  ProcessedMatchesOffset
CHECK_DEADLOCK FALSE

SPECIFICATION InsightSpec
CONSTANTS
  ReportRuns = {n1}
  Feeds <- SomeFeeds
  Pools <- SomePools
  Lists <- SomeLists
  TopN = 1
  MaxReportFaults = 0
INVARIANT FaultlessRunWritesReport
CHECK_DEADLOCK FALSE

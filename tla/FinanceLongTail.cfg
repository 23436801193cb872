SPECIFICATION FinanceSpec
CONSTANTS
  FinStocks = {a, b}
  FinDays = {0, 1, 2}
  PeriodOf <- ReportPeriod
  CheckDays = 0
  MissingLimit = 1
  MaxRetries = 2
  Records = {n1, n2}
  NoRecord = NoRecord
  MaxApiFaults = 1
  MaxFinFaults = 1
  MaxListSyncs = 1
PROPERTY LongTailIsComplete
CHECK_DEADLOCK FALSE

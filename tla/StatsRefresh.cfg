SPECIFICATION FairSpec
CONSTANTS
  Refreshes = {f1, f2, f3}
  MaxChunks = 4
  MaxFailures = 1
INVARIANTS RefreshIsDue
PROPERTIES StatisticsSettle
CHECK_DEADLOCK FALSE

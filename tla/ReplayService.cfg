SPECIFICATION FairSpec
CONSTANTS
  MaxLedger = 3
  EventsOf <- TwoInTheSecond
  BatchSize = 3
  MaxCopies = 2
  MaxFaults = 1
INVARIANTS OnlyTheRange CompletedCoversRange
PROPERTIES EndsUnlessStalled
CHECK_DEADLOCK FALSE

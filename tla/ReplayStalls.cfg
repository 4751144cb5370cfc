SPECIFICATION FairSpec
CONSTANTS
  MaxLedger = 3
  EventsOf <- OneEach
  BatchSize = 3
  MaxCopies = 1
  MaxFaults = 0
PROPERTIES ReplayEnds
CHECK_DEADLOCK FALSE

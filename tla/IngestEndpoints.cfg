SPECIFICATION FairSpec
CONSTANTS
  WatchedContracts = 1
  MaxLedger = 3
  EventsPerLedger = 1
  Workers = {w1}
  Endpoints = {a, b}
  NoEndpoint = NoEndpoint
  PageLimit = 2
  BatchSize = 1
  RetentionLedgers = 3
  StartKind = "none"
  StartValue = 0
  ReorgWindow = 1
  AddressSlots = {1}
  TokenSlots = {1}
  MaxLate = 1
  MaxFaults = 1
INVARIANTS TypeOK CursorWithinNetwork CursorCoverage PublishedAreIndexed
PROPERTIES EventuallyIndexed

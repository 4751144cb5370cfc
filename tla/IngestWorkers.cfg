SPECIFICATION Spec
CONSTANTS
  WatchedContracts = 26
  MaxLedger = 3
  EventsPerLedger = 1
  Workers = {w1, w2}
  Endpoints = {a}
  NoEndpoint = NoEndpoint
  PageLimit = 2
  BatchSize = 3
  RetentionLedgers = 0
  StartKind = "offset"
  StartValue = 1
  ReorgWindow = 1
  AddressSlots = {1}
  TokenSlots = {1}
  MaxLate = 0
  MaxFaults = 1
SYMMETRY WorkerSymmetry
INVARIANTS CursorCoverage DerivedRowsHaveEvents
PROPERTIES CursorNeverRegresses ImplementsLedgerIndex

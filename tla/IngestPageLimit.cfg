SPECIFICATION Spec
CONSTANTS
  WatchedContracts = 1
  MaxLedger = 1
  EventsPerLedger = 2
  Workers = {w1}
  Endpoints = {a}
  NoEndpoint = NoEndpoint
  PageLimit = 1
  BatchSize = 1
  RetentionLedgers = 3
  StartKind = "none"
  StartValue = 0
  ReorgWindow = 0
  AddressSlots = {1}
  TokenSlots = {1}
  MaxLate = 0
  MaxFaults = 0
INVARIANTS NothingSkipped

SPECIFICATION Spec
CONSTANTS
  Endpoints = {e1, e2}
  NoEndpoint = NoEndpoint
  Runs = {r1, r2}
  Commands <- ThreeCommands
  NoRun = NoRun
  MaxLedger = 4
  Batches = 2
  Events <- TwoBatches
  BatchSize = 3
  PageLimit = 2
  MaxFaults = 1
  MaxReruns = 1
SYMMETRY Symmetry
INVARIANTS FinishedRunCoversRange RowTellsProgress
CHECK_DEADLOCK FALSE

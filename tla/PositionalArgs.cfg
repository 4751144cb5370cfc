SPECIFICATION Spec
CONSTANTS
  MaxExact = 4
  Int64Limit = 16
  OutOfRange <- OutOfRange64
  NoValue = NoValue
  Publishers = {p1, p2}
  Bodies <- MCBodies
  Events <- SampleEvents
  Window = 1
  MaxClock = 4
INVARIANT PositionalArgsDecode
CHECK_DEADLOCK FALSE

SPECIFICATION FairSpec
CONSTANTS
  Conns = {c1, c2}
  n1 = n1
  Networks = {n1, n2}
  NoNetwork = NoNetwork
  Events = {1, 2}
  Ingests <- OneChunk
  RecentLimit = 1
  Stamps = {1}
  MaxInserts = 1
  NetworkOf <- AllOfFirst
  MaxClients = 1
  SendBuffer = 1
  MaxFailures = 1
CHECK_DEADLOCK FALSE
INVARIANTS TypeOK AtMostMaxClients BroadcastNeverPanics NoGap OwnNetworkOnly
PROPERTIES NothingLeaks

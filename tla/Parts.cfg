SPECIFICATION PartsSpec
CONSTANTS
  Creations = {c1, c2}
  Updates = {u1}
  Publications = {q1, q2}
  Names = {1, 3}
  Slugify <- MCSlugify
  MaxTries = 2
  MaxPublishTokens = 1
  ContractOf <- MCContractOf
  MaxFailures = 3
  None = None
  q1 = q1
  VerifyTokens = {1, 2}
  ResetTokens = {3, 4}
  Requests = {r1, r2}
  Passwords = {w1, w2}
  MaxLinks = 3
  MaxFaults = 1
  NoPassword = NoPassword
  NoToken = NoToken
  Keys = {k1, k2, k3, k4}
  Calls = {g1}
  MaxApiKeys = 2
  Anonymous = Anonymous
  MaxExact = 4
  Int64Limit = 16
  OutOfRange <- OutOfRange64
  NoValue = NoValue
  Publishers = {p1, p2}
  Bodies <- MCBodies
  Events <- SampleEvents
  Window = 1
  MaxClock = 4
  Logs = {1, 2}
  Emitter <- MCEmitter
  LedgerOf <- MCLedgerOf
  MonthLength = 2
  PageSizes = {1, 2}
  MaxBatch = 2
  MaxStamp = 3
  MaxErrors = 1
  Pools <- MCPools
  Clients = {a1, a2}
  Ingester = ing
  MaxAttempts = 2
  MaxCancels = 3
  Settings <- MCSettings
  MaxReloads = 3
INVARIANTS PartsTypesOK SlugsAreSound LimitsHold LinksAreSound ReadsAreSound DecodingIsSound ExploreAgrees HealthyServes
PROPERTIES PublicationShows DecodingStays SettingsApply
CHECK_DEADLOCK FALSE

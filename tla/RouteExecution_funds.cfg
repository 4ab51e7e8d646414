SPECIFICATION FairSpec
CONSTANTS
  Route <- MCRoute
  Settings <- MCSettings
  BuiltIn <- MCBuiltIn
  BuiltInRouter <- MCBuiltInRouter
  V2Factory = "v2F"
  Known <- MCKnown
  None = None
  Scenarios <- MCScenarios
  LateRow <- MCLateRow
  Whitelists = TRUE
  WebTokens <- MCWebTokens
  Discovered <- MCDiscovered
  Allowed0 <- MCAllowed0
  Mapped0 <- MCMapped0
  TargetGas = 2
  MinGas = 2
  MaxReady = 2
  Capacity = 1
  Gains = {1, 2}
  Slots = 3
INVARIANTS
  RoutesSound
  NoCandidateKills
  WalletSound
  LiveSimulationsKept
PROPERTIES
  RouteGetsApproved
CHECK_DEADLOCK FALSE

SPECIFICATION FairSpec
CONSTANTS
  Pools <- MCPools
  Factories = {"fd", "fv", "fu"}
  Pairs = {"a", "b"}
  NoPool = "no pool"
  NoFactory = "no factory"
  FactoryOf <- MCFactoryOf
  PairOf <- MCPairOf
  TopicOf <- MCTopicOf
  Canonical = {"dp", "up"}
  V2Factories = {"fv"}
  Defaults = {"fd"}
  ClassicFactory = "fd"
  Configured = {"dp"}
  LogsAt <- MCLogs
  Span = 2
  Lookback = 1
  Scenarios <- MCScenarios
  Faults = 1
  Restarts <- MCRestarts
  Jobs <- MCJobs
INVARIANTS
  RegistrySound
  NothingSkipped
  TrustKept
PROPERTIES
  MonitoredFollows
CHECK_DEADLOCK FALSE

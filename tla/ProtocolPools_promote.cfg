SPECIFICATION FairSpec
CONSTANTS
  V4 = {"u", "h"}
  Balancer = {"b"}
  Hooked = {"h"}
  Weighted = {"b"}
  Enabled0 = {"b"}
  NoState = NoState
  LogsAt <- MCLogs
  Width = 5
  Starts = {0, 1}
  Span = 2
  Lookback = 1
  MaxAge = 2
  Limit = 1
  Scenarios <- MCScenarios
  Failures = 1
  Scans <- MCScans
INVARIANTS
  ProtocolSound
  PriceWithinBlock
PROPERTIES
  CatchesUp
  
CHECK_DEADLOCK FALSE

\* Both readers of the log, a crash of either service; beside it the words of
\* the pools, with a crash, a failed call and a replaced block.
SPECIFICATION EitherSpec
CONSTANTS
  NoState = NoState
  Pools = {v2}
  TickPools = {}
  MaxSpan = 2
  Flash = TRUE
  LateLogs = FALSE
  RefreshFails = TRUE
  FirstStart = TRUE
  MaxBlock = 3
  MaxEvents = 3
  MaxCrashes = 1
  None = None
  Classic = {c}
  Slipstream = {s}
  UniswapV3 = {u}
  Registries = {{c, s}, {u}}
  Words = {40000, 40004}
  Word0 = 40000
  Fees = {30, 31}
  Fee0 = 30
  Span = 2
  Delay = 1
  MaxLogs = 3
  MaxFaults = 1
  MaxReorgs = 1
INVARIANTS
  NoChangeMissed
  StatesExact
  VerdictsRight
\* The chain of the instance ends: nothing is left to do then.
CHECK_DEADLOCK FALSE

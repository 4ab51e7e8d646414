\* Sealed loop and Flashblocks, no crash.
SPECIFICATION FairSpec
CONSTANTS
  NoState = NoState
  Pools = {v2, v3}
  TickPools = {v3}
  MaxSpan = 1
  Flash = TRUE
  LateLogs = FALSE
  RefreshFails = FALSE
  FirstStart = FALSE
  MaxBlock = 3
  MaxEvents = 2
  MaxCrashes = 0
PROPERTIES
  StatesCatchUp

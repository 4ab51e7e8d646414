\* Sealed loop only, a crash of either service.
SPECIFICATION FairSpec
CONSTANTS
  NoState = NoState
  Pools = {v2, v3}
  TickPools = {v3}
  MaxSpan = 1
  Flash = FALSE
  LateLogs = FALSE
  RefreshFails = FALSE
  FirstStart = FALSE
  MaxBlock = 3
  MaxEvents = 2
  MaxCrashes = 1
PROPERTIES
  StatesCatchUp

\* Every pair of writers and the readers, at times with a fault.
SPECIFICATION FairSpec
CONSTANTS
  None = None
  Tick <- MCTick
  Near <- MCNear
  Wide <- MCWide
  Scenarios <- MCStore
  MaxSpan = 2
  QueueCap = 1
  ChunkBlocks = 2
  Lookback = 2
  Overlap = 1
INVARIANTS
  TicksNoticed
  DeltasExact
  FullScanExact
PROPERTIES
  RangeNotStuck
CHECK_DEADLOCK FALSE

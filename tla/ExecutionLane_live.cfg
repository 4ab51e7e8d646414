\* Liveness of pending lanes: a crash, lost replies, skipped replacements.
SPECIFICATION FairSpec
CONSTANTS
  NoTx = NoTx
  NoWorker = NoWorker
  NoKey = NoKey
  Workers = {w1}
  Routes = {r1}
  MaxLag = 1
  CandidateLife = 1
  LockTtl = 1
  ReplacementBlocks = 1
  MaxReplacements = 1
  BreakerMinTxs = 1
  MinSuccessBps = 5000
  LostReplies = TRUE
  Evictions = FALSE
  LowFunds = FALSE
  MaxBlock = 2
  MaxNonce = 1
  MaxFee = 2
  MaxCrashes = 1
PROPERTIES
  PendingLaneResolves

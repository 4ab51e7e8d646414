\* Two workers, one crash anywhere, a reliable node.
SPECIFICATION Spec
CONSTANTS
  NoTx = NoTx
  NoWorker = NoWorker
  NoKey = NoKey
  Workers = {w1, w2}
  Routes = {r1}
  MaxLag = 1
  CandidateLife = 1
  LockTtl = 1
  ReplacementBlocks = 1
  MaxReplacements = 1
  BreakerMinTxs = 1
  MinSuccessBps = 5000
  LostReplies = FALSE
  Evictions = FALSE
  LowFunds = FALSE
  MaxBlock = 2
  MaxNonce = 1
  MaxFee = 2
  MaxCrashes = 1
SYMMETRY Symmetry
INVARIANTS
  LaneSound
  PendingLaneIsBroadcast
PROPERTIES
  SettledLaneHasOutcome
  HaltLatched

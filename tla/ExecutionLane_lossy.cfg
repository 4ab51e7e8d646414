\* One worker, lost replies, evictions, low balances, expiring locks, one crash.
SPECIFICATION Spec
CONSTANTS
  NoTx = NoTx
  NoWorker = NoWorker
  NoKey = NoKey
  Workers = {w1}
  Routes = {r1}
  MaxLag = 1
  CandidateLife = 0
  LockTtl = 0
  ReplacementBlocks = 1
  MaxReplacements = 1
  BreakerMinTxs = 1
  MinSuccessBps = 5000
  LostReplies = TRUE
  Evictions = TRUE
  LowFunds = TRUE
  MaxBlock = 2
  MaxNonce = 1
  MaxFee = 2
  MaxCrashes = 1
INVARIANTS
  SubmitOncePerKey
  KeyMinedOnce
PROPERTIES
  LedgerSpec

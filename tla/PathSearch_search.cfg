SPECIFICATION Spec
CONSTANTS
  None = None
  Cases <- MCCases
  Tiers <- MCTiers
  SqrtAt <- MCSqrtAt
  TierUnit = 100
  Bps = 100
  FeeUnit = 100
  Q96 = 1000
  MaxSqrt = 1000000
  Word = 5000
  One = 1
  Rounds = 12
  Haircut = 1
  Fanout = 2
  PriorityCap = 1
  SegmentCap = 6
  CandidateCap = 4
  PathCap = 3
  BatchSize = 2
  Safety = 1
  MaxImpact = 30
  MinProfit = 1
INVARIANTS
  Consistent
  IndexCurrent
  CyclesComplete
  NoFalseDrop
  WinnersPublished
  QuotesFair
CHECK_DEADLOCK FALSE

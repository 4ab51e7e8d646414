\* Pushes, expiry and new blocks while a cycle drains the queue.
SPECIFICATION Spec
CONSTANTS
  Routes = {r1, r2}
  Profits = {0, 2000}
  Rank <- ProfitRank
  Scale = 100000
  MaxLag = 1
  Chunk = 2
  MaxFresh = 2
  MaxPopped = 3
  MaxBlock = 3
  MaxPushes = 3
SYMMETRY Symmetry
INVARIANTS
  TypeOK
  NewestFirst
  KeySubmittedOnce
PROPERTIES
  OnlyStaleDropped

--------------------------- MODULE MCCandidateQueue ---------------------------
(* A small instance of CandidateQueue, with the scores of the code. *)
EXTENDS CandidateQueue, CandidateRank, TLC

\* A larger profit has no lower rank; the rank stays below the block scale.
ASSUME RankMonotone ==
  \A p \in 0..20000 : ProfitRank(p) <= ProfitRank(p + 1) /\ ProfitRank(p) < 100000

Symmetry == Permutations(Routes)
==============================================================================

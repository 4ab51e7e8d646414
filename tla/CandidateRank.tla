---------------------------- MODULE CandidateRank ----------------------------
(***************************************************************************)
(* candidate_profit_rank of crates/storage/src/redis.rs: the number of      *)
(* decimal digits after the first, then the three leading digits.          *)
(***************************************************************************)
EXTENDS Integers

\* How many decimal digits n has.
Digits[n \in Nat] == IF n < 10 THEN 1 ELSE 1 + Digits[n \div 10]

\* The first three decimal digits of n, padded with zeros on the right.
Leading[n \in Nat] ==
  IF n < 10 THEN n * 100 ELSE IF n < 100 THEN n * 10
  ELSE IF n < 1000 THEN n ELSE Leading[n \div 10]

ProfitRank(p) ==
  IF p = 0 THEN 0
  ELSE LET r == (Digits[p] - 1) * 1000 + Leading[p]
       IN  IF r < 99999 THEN r ELSE 99999
==============================================================================

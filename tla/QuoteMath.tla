----------------------------- MODULE QuoteMath -----------------------------
(* The quotes of crates/dex: constant product, stable (Newton), V3 with    *)
(* initialized ticks, spot, and Balancer's weighted pool.  Amounts are     *)
(* natural numbers, a failed quote is Failed.  The units of the code (10^4 *)
(* basis points, 10^6 pips, 2^96, 10^18) are constants: the formulas keep  *)
(* their order and their rounding.                                         *)
EXTENDS Integers, Sequences, FiniteSets, SequencesExt

CONSTANTS
  Bps,        \* basis points of a whole
  FeeUnit,    \* pips of a whole
  Q96,        \* the price 1 as a square root
  MaxSqrt,    \* U256::MAX as a square root
  SqrtAt,     \* tick -> square root of its price
  Word,       \* the greatest amount a spot quote may return
  One,        \* the fixed point of the stable pool
  Rounds,     \* Newton rounds
  Haircut     \* what a weighted quote takes off, in basis points

ASSUME UnitsAssumption ==
  /\ {Bps, FeeUnit, Q96, MaxSqrt, Word, One, Rounds} \subseteq Nat \ {0}
  /\ Haircut \in 0..Bps
  /\ \A t \in DOMAIN SqrtAt : SqrtAt[t] \in 1..MaxSqrt

Failed == -1

DivUp(a, b) == (a + b - 1) \div b

Sub(a, b) == IF a > b THEN a - b ELSE 0

-----------------------------------------------------------------------------
(* Constant product and stable pools. *)

QuoteVolatile(rIn, rOut, a, fee) ==
  LET net == a * (Bps - fee)
  IN  IF rIn = 0 \/ rOut = 0 \/ fee > Bps THEN Failed
      ELSE (net * rOut) \div (rIn * Bps + net)

StableK(x, y) ==
  (((x * y) \div One) * ((x * x) \div One + (y * y) \div One)) \div One

StableSlope(x, y) ==
  (3 * x * ((y * y) \div One)) \div One + (((x * x) \div One) * x) \div One

\* Mutant of NewtonRound: the last step down does not look at what it loses.
X_NewtonOversteps(x, k, s) ==
  LET y == s.y
      now == StableK(x, y)
      slope == StableSlope(x, y)
      up == ((k - now) * One) \div slope
      down == ((now - k) * One) \div slope
  IN  CASE s.state # "run" -> s
        [] s.state = "run" /\ slope = 0 -> [s EXCEPT !.state = "failed"]
        [] s.state = "run" /\ slope # 0 /\ now < k ->
             IF up > 0 THEN [s EXCEPT !.y = y + up] ELSE [y |-> y + 1, state |-> "done"]
        [] OTHER ->
             IF down = 0 THEN [y |-> y - 1, state |-> "done"]
             ELSE IF down > y THEN [s EXCEPT !.state = "failed"] ELSE [s EXCEPT !.y = y - down]

(* One round: y moves towards the least y whose StableK is not below k. *)
NewtonRound(x, k, s) ==
  LET y == s.y
      now == StableK(x, y)
      slope == StableSlope(x, y)
      up == ((k - now) * One) \div slope
      down == ((now - k) * One) \div slope
  IN  CASE s.state # "run" -> s
        [] s.state = "run" /\ slope = 0 -> [s EXCEPT !.state = "failed"]
        [] s.state = "run" /\ slope # 0 /\ now < k ->
             IF up > 0 THEN [s EXCEPT !.y = y + up]
             ELSE [y |-> y + 1, state |-> IF StableK(x, y + 1) > k THEN "done" ELSE "run"]
        [] OTHER ->
             IF down = 0 /\ (now = k \/ y = 0 \/ StableK(x, y - 1) < k)
             THEN [s EXCEPT !.state = "done"]
             ELSE LET by == IF down = 0 THEN 1 ELSE down
                  IN IF by > y THEN [s EXCEPT !.state = "failed"] ELSE [s EXCEPT !.y = y - by]

GetY(x, k, y) ==
  FoldLeft(LAMBDA s, i : NewtonRound(x, k, s), [y |-> y, state |-> "run"],
           [i \in 1..Rounds |-> i])

(* unitIn, unitOut: 10^decimals of the tokens. *)
QuoteStable(rIn, rOut, a, fee, unitIn, unitOut) ==
  LET scaled(v, unit) == (v * One) \div unit
      x == scaled(rIn, unitIn)
      y == scaled(rOut, unitOut)
      net == (a * (Bps - fee)) \div Bps
      paid(last) == IF last.state # "done" \/ last.y > y THEN Failed
                    ELSE ((y - last.y) * unitOut) \div One
  IN  IF rIn = 0 \/ rOut = 0 \/ fee > Bps THEN Failed
      ELSE IF a = 0 THEN 0
      ELSE paid(GetY(x + scaled(net, unitIn), StableK(x, y), y))

(* Equal weights, token rates of one; part of the balance may come in. *)
QuoteWeighted(bIn, bOut, a, fee, scaleIn, scaleOut) ==
  LET in == a * scaleIn
      net == in * (Bps - fee)
  IN  IF a = 0 \/ bIn = 0 \/ bOut = 0 \/ 10 * in > 3 * bIn THEN Failed
      ELSE (bOut * net * (Bps - Haircut)) \div ((bIn * Bps + net) * Bps * scaleOut)

-----------------------------------------------------------------------------
(* V3-style pools. *)

Amount0(liq, a, b, roundUp) ==
  LET low == IF a < b THEN a ELSE b
      high == IF a < b THEN b ELSE a
      num == liq * Q96 * (high - low)
  IN  IF roundUp THEN DivUp(DivUp(num, high), low) ELSE (num \div high) \div low

Amount1(liq, a, b, roundUp) ==
  LET num == liq * (IF a < b THEN b - a ELSE a - b)
  IN  IF roundUp THEN DivUp(num, Q96) ELSE num \div Q96

NextSqrt0(sqrt, liq, a) == DivUp(liq * Q96 * sqrt, liq * Q96 + a * sqrt)

NextSqrt1(sqrt, liq, a) == sqrt + (a * Q96) \div liq

(* compute_swap_step: one range of constant liquidity. *)
SwapStep(sqrt, target, liq, remaining, fee, zeroForOne) ==
  LET net == (remaining * (FeeUnit - fee)) \div FeeUnit
      needed(next) == IF zeroForOne THEN Amount0(liq, next, sqrt, TRUE) ELSE Amount1(liq, sqrt, next, TRUE)
      moved(next, in, charged) ==
        [sqrt |-> next, in |-> in, fee |-> charged,
         out |-> IF zeroForOne THEN Amount1(liq, next, sqrt, FALSE) ELSE Amount0(liq, sqrt, next, FALSE)]
      full(in) == moved(target, in, DivUp(in * fee, FeeUnit - fee))
      part(next, in) == moved(next, in, Sub(remaining, in))
      short(next) == part(next, needed(next))
  IN  IF net >= needed(target) THEN full(needed(target))
      ELSE short(IF zeroForOne THEN NextSqrt0(sqrt, liq, net) ELSE NextSqrt1(sqrt, liq, net))

(* The ticks a swap may meet, nearest first. *)
TicksAhead(ticks, tick, zeroForOne) ==
  IF zeroForOne THEN SetToSortSeq({t \in DOMAIN ticks : t <= tick}, LAMBDA a, b : a > b)
  ELSE SetToSortSeq({t \in DOMAIN ticks : t > tick}, LAMBDA a, b : a < b)

CrossTick(w, net, zeroForOne) ==
  LET moved == w.liq + (IF zeroForOne THEN -net ELSE net)
  IN  [w EXCEPT !.liq = IF moved < 0 THEN 0 ELSE moved, !.crossed = @ + 1]

(* The walk to tick t: over a gap, through the tick, or to rest before it. *)
TickStep(w, t, ticks, fee, zeroForOne) ==
  LET target == SqrtAt[t]
      after(step) == [w EXCEPT !.left = Sub(@, step.in + step.fee), !.out = @ + step.out,
                               !.sqrt = step.sqrt, !.used = @ + 1]
      arrive(moved) == IF moved.sqrt = target THEN CrossTick(moved, ticks[t], zeroForOne)
                       ELSE [moved EXCEPT !.rest = TRUE]
  IN  IF w.rest \/ w.left = 0 THEN w
      ELSE IF w.liq = 0
           THEN CrossTick([w EXCEPT !.sqrt = target, !.used = @ + 1], ticks[t], zeroForOne)
      ELSE arrive(after(SwapStep(w.sqrt, target, w.liq, w.left, fee, zeroForOne)))

(* quote_exact_in_with_ticks_diagnostics; exhausted: the known ticks end before the input. *)
QuoteTicks(state, zeroForOne, a, fee) ==
  LET start == [left |-> a, sqrt |-> state.sqrt, liq |-> state.liq, out |-> 0,
                used |-> 0, crossed |-> 0, rest |-> FALSE]
      beyond(w) == SwapStep(w.sqrt, IF zeroForOne THEN 1 ELSE MaxSqrt, w.liq, w.left, fee, zeroForOne)
      result(w, exhausted) == [out |-> w.out + (IF exhausted THEN beyond(w).out ELSE 0),
                               exhausted |-> exhausted, crossed |-> w.crossed]
      ended(w) == result(w, ~w.rest /\ w.left # 0 /\ w.liq # 0)
  IN  IF DOMAIN state.ticks = {} \/ fee >= FeeUnit
      THEN [out |-> Failed, exhausted |-> FALSE, crossed |-> 0]
      ELSE ended(FoldLeft(LAMBDA s, t : TickStep(s, t, state.ticks, fee, zeroForOne), start,
                          TicksAhead(state.ticks, state.tick, zeroForOne)))

(* The price before the trade, without the fee; Failed when it does not fit. *)
SpotQuote(sqrt, zeroForOne, a) ==
  LET out == IF zeroForOne THEN (a * sqrt * sqrt) \div (Q96 * Q96)
             ELSE (a * Q96 * Q96) \div (sqrt * sqrt)
  IN  IF sqrt = 0 \/ out > Word THEN Failed ELSE out

ImpactFromSpot(spot, out) == IF spot = 0 THEN 0 ELSE (Sub(spot, out) * Bps) \div spot

(* apply_quote_haircut *)
AfterHaircut(a, safety) == (a * (Bps - (IF safety > Bps THEN Bps ELSE safety))) \div Bps

=============================================================================

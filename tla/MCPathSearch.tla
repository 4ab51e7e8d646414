---------------------------- MODULE MCPathSearch ----------------------------
(* Small markets for PathSearch: tokens 1..4, pools by number. *)
EXTENDS PathSearch

Base == [variant |-> "AerodromeVolatile", token0 |-> 1, token1 |-> 2, factory |-> "classic",
         fee |-> 1, pips |-> None, stable |-> FALSE, spacing |-> None, unit0 |-> 1, unit1 |-> 1,
         r0 |-> None, r1 |-> None, sqrt |-> None, liq |-> None, tick |-> None, weighted |-> FALSE]

Classic(t0, t1, r0, r1) ==
  [Base EXCEPT !.token0 = t0, !.token1 = t1, !.r0 = r0, !.r1 = r1]

Stable(t0, t1, r0, r1) == [Classic(t0, t1, r0, r1) EXCEPT !.stable = TRUE]

V3(t0, t1, sqrt, liq, tick) ==
  [Base EXCEPT !.variant = "UniswapV3", !.token0 = t0, !.token1 = t1, !.factory = "v3",
               !.sqrt = sqrt, !.liq = liq, !.tick = tick]

Trusted == [variant \in {"AerodromeVolatile"} \cup V3Style \cup {"BalancerV3"} |->
              IF variant = "AerodromeVolatile" THEN {"classic"}
              ELSE IF variant = "UniswapV3" THEN {"v3"} ELSE {}]

Row(t0, t1, own0) == [token0 |-> t0, token1 |-> t1, own0 |-> own0, min0 |-> 1, own1 |-> {},
                      min1 |-> None, enabled |-> TRUE]

Value(amounts, min) == [amounts |-> amounts, min |-> min]

NoDefault == [two |-> None, multi |-> None, all |-> None]

Config(rows) ==
  [rows |-> rows, registry |-> {}, defaults |-> [t \in 1..4 |-> NoDefault],
   tokens |-> {r.token0 : r \in rows} \cup {r.token1 : r \in rows}]

Market(states) ==
  [states |-> states, ticks |-> [p \in DOMAIN states |-> << >>],
   start |-> [p \in DOMAIN states |-> IF states[p] = << >> THEN 0 ELSE 1],
   saved |-> [p \in DOMAIN states |-> 0], aging |-> {},
   builtin |-> Trusted, config |-> Config({Row(1, 2, {40})}), forms |-> << >>]

(* A triangle with a second pool on one side and a price that moves. *)
Triangle ==
  [Market(<< <<Classic(1, 2, 400, 400), Classic(1, 2, 400, 600)>>,
             <<Classic(2, 3, 400, 400)>>,
             <<Classic(1, 3, 400, 400), Classic(1, 3, 600, 400)>>,
             <<Classic(1, 2, 300, 300)>> >>) EXCEPT !.aging = {2}]

(* V3 pools: one loses its ticks to Postgres, one runs out of them, a mint *)
(* moves price and ticks together, a spacing appears late.                 *)
Crossing ==
  [Market(<< <<V3(1, 2, 1000, 600, 0), V3(1, 2, 950, 900, -1)>>,
             <<V3(2, 3, 1050, 500, 0)>>,
             <<Classic(1, 3, 600, 500)>>,
             <<[V3(1, 2, 1150, 700, 1) EXCEPT !.variant = "AerodromeSlipstream", !.pips = 2],
               [V3(1, 2, 1150, 700, 1) EXCEPT !.variant = "AerodromeSlipstream", !.pips = 2,
                                              !.spacing = 1]>> >>)
     EXCEPT !.ticks = << << (1 :> -300 @@ 2 :> -300), (-2 :> 900 @@ 1 :> -600 @@ 2 :> -300)>>,
                         << (-1 :> 500 @@ 1 :> -500) >>, << >>,
                         << (-2 :> 700 @@ 2 :> -700) >> >>,
            !.saved = <<0, 1, 0, 1>>,
            !.builtin["AerodromeSlipstream"] = {"v3"}]

(* More pools at a token than the fanout, two of one depth, two anchors. *)
Fan ==
  [Market(<< <<Classic(1, 2, 500, 500), Classic(1, 2, 420, 580)>>,
             <<Classic(1, 2, 450, 450)>>, <<Classic(1, 2, 300, 700)>>,
             <<Classic(2, 3, 200, 300), Classic(2, 3, 200, 360)>>,
             <<Classic(3, 4, 300, 300)>>, <<Classic(1, 4, 400, 300)>>,
             <<Stable(1, 3, 120, 130)>> >>)
     EXCEPT !.config = Config({Row(1, 2, {20}), Row(3, 4, {10})})]

(* Factories lose and gain trust, amounts come from defaults, a pair is switched off. *)
Settings ==
  LET all == [amounts |-> {30}, min |-> 2]
      market == Market(<< <<Classic(1, 2, 400, 600)>>, <<Classic(1, 2, 500, 400)>>,
                          <<Classic(2, 3, 400, 500), Classic(2, 3, 300, 600)>>,
                          <<[Classic(1, 3, 300, 300) EXCEPT !.factory = "other"]>> >>)
      rows == {Row(1, 2, {}), [Row(1, 3, {20}) EXCEPT !.min0 = 3]}
      defaults == [[t \in 1..4 |-> NoDefault] EXCEPT
                     ![1] = [NoDefault EXCEPT !.all = all, !.multi = [amounts |-> {20}, min |-> 1]],
                     ![2] = [NoDefault EXCEPT !.multi = [amounts |-> {20}, min |-> 1]]]
      first == [Config(rows) EXCEPT !.defaults = defaults]
  IN  [market EXCEPT !.aging = {1, 3},
         !.config = first,
         !.forms = <<[kind |-> "factories", registry |-> {[variant |-> "AerodromeVolatile", factory |-> "other"]}],
                     [kind |-> "pair", a |-> 1, b |-> 2, first |-> Value({10}, 1), second |-> Value({}, None)],
                     [kind |-> "disable", a |-> 3, b |-> 1],
                     [kind |-> "factories", registry |-> {}]>>]

(* No amounts at first: a form for all defaults, refused at its last token, makes *)
(* token 1 an anchor whose pairs are then discovered; a token is added.           *)
Listing ==
  LET market == Market(<< <<Classic(1, 2, 400, 600)>>, <<Classic(1, 2, 500, 400)>>,
                          <<Classic(2, 3, 400, 500), Classic(2, 3, 300, 600)>>, <<Classic(1, 3, 500, 400)>> >>)
  IN  [market EXCEPT
         !.config = [Config({}) EXCEPT !.tokens = {1, 2}],
         !.forms = <<[kind |-> "defaults",
                      values |-> (<<1, "all">> :> Value({40}, 2)) @@ (<<2, "two">> :> Value({20}, None))],
                     [kind |-> "token", token |-> 3]>>]

(* One default at a time, and pairs deleted and discovered again. *)
Upkeep ==
  LET market == Market(<< <<Classic(1, 2, 400, 600)>>, <<Classic(1, 2, 500, 400)>>,
                          <<Classic(2, 3, 400, 500), Classic(2, 3, 300, 600)>> >>)
  IN  [market EXCEPT
         !.config = Config({Row(1, 2, {}), Row(2, 3, {20})}),
         !.forms = <<[kind |-> "default", token |-> 1, scope |-> "two", value |-> Value({30}, 1)],
                     [kind |-> "delete", a |-> 1, b |-> 2], [kind |-> "reconcile"],
                     [kind |-> "default", token |-> 1, scope |-> "two", value |-> Value({}, None)],
                     [kind |-> "pair", a |-> 2, b |-> 3, first |-> Value({10}, None), second |-> Value({}, None)],
                     [kind |-> "rediscover"]>>]

(* Balancer pools: one weighted, one only its router could quote; a stable pool *)
(* that gains the decimals it lacks; a V3 pool whose spot quote overflows.      *)
Vault ==
  LET balancer(t0, t1, r0, r1, weighted) ==
        [Classic(t0, t1, r0, r1) EXCEPT !.variant = "BalancerV3", !.factory = "vault", !.weighted = weighted]
  IN  [Market(<< <<balancer(1, 2, 400, 700, TRUE)>>, <<balancer(2, 3, None, None, FALSE)>>,
                 <<V3(2, 3, 20, 5, -4)>>, <<Classic(1, 3, 400, 380), Classic(1, 3, 0, 380)>>,
                 <<[Stable(1, 4, 100, 110) EXCEPT !.unit0 = None], [Stable(1, 4, 100, 110) EXCEPT !.fee = 0]>>,
                 <<Classic(1, 2, 1600, 1600)>>, <<Classic(3, 4, 220, 200)>> >>)
        EXCEPT !.ticks[3] = << (-4 :> 5 @@ 2 :> -5) >>, !.saved[3] = 1, !.builtin["BalancerV3"] = {"vault"}, !.config = Config({Row(1, 2, {20})})]

MCCases == <<Triangle, Crossing, Fan, Settings, Vault, Listing, Upkeep>>
MCTiers == {50}
MCSqrtAt == [t \in {-4} \cup -2..2 |-> CASE t = -4 -> 20 [] t = -2 -> 810 [] t = -1 -> 900 [] t = 0 -> 1000
                               [] t = 1 -> 1100 [] OTHER -> 1210]
=============================================================================

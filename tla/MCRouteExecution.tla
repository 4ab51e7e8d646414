--------------------------- MODULE MCRouteExecution ---------------------------
(* Routes between W and U: through two routers, through a pair the hub swaps  *)
(* with itself, through a pool its factory does not know, through a pool of a *)
(* factory trusted later, and one that cannot be encoded.                     *)
EXTENDS RouteExecution

Step(dex, variant, factory, pool_, tin, tout, fee) ==
  [dex |-> dex, variant |-> variant, factory |-> factory, pool |-> pool_, tin |-> tin,
   tout |-> tout, fee |-> fee, spacing |-> None, hex |-> TRUE]

UniStep == Step("UniswapV3", "UniswapV3", None, "u1", "W", "U", 5)

MCRoute ==
  [routers |-> <<UniStep, Step("Aerodrome", None, "aeroF", "a1", "U", "W", 0)>>,
   pair    |-> <<UniStep, Step("Aerodrome", "AerodromeVolatile", "v2F", "p1", "U", "W", 30)>>,
   fake    |-> <<UniStep, Step("UniswapV3", None, None, "x1", "U", "W", 1)>>,
   later   |-> <<UniStep, Step("PancakeSwap", "PancakeV3", "newF", "n1", "U", "W", 1)>>,
   broken  |-> <<UniStep, Step("Aerodrome", "AerodromeSlipstream", None, "s1", "U", "W", 0)>>]

Nothing == [f \in {"classic", "slipstream", "uniswap", "pancake", "v4", "balancer"} |-> None]

MCSettings ==
  [exec2 |-> "E2", execMulti |-> None, execAny |-> "EM",
   router |-> [Nothing EXCEPT !["classic"] = "aeroR", !["uniswap"] = "uniR"],
   factory |-> [Nothing EXCEPT !["classic"] = "aeroF"]]

MCBuiltIn ==
  [classic |-> <<"aeroF", "v2F">>, slipstream |-> <<"slipF">>, uniswap |-> <<"uniF">>,
   pancake |-> <<"cakeF">>]

MCBuiltInRouter == [Nothing EXCEPT !["slipstream"] = "slipR", !["pancake"] = "cakeR"]

MCKnown ==
  {<<"uniF", {"W", "U"}, 500, "u1">>, <<"aeroF", {"W", "U"}, 0, "a1">>,
   <<"v2F", {"W", "U"}, 30, "p1">>, <<"newF", {"W", "U"}, 100, "n1">>,
   <<"uniF", {"W", "U"}, 100, "u2">>}

MCLateRow == [family |-> "pancake", factory |-> "newF", trusted |-> TRUE, enabled |-> TRUE]

Quiet == [batches |-> {<<"broken", "routers">>, <<"pair", "fake">>}, live |-> TRUE, late |-> FALSE,
          gas |-> TargetGas, faults |-> 1, lowered |-> 0, configures |-> 0]

MCScenarios ==
  {Quiet,
   [Quiet EXCEPT !.live = FALSE, !.faults = 0],
   [Quiet EXCEPT !.batches = {<<"later">>}, !.late = TRUE],
   [Quiet EXCEPT !.batches = {<<"routers">>}, !.gas = 1, !.configures = 1],
   [Quiet EXCEPT !.batches = {<<"pair", "routers">>}, !.lowered = 1, !.faults = 0]}

MCWebTokens == <<"W", "U">>

MCDiscovered == {[family |-> "uniswap", pool |-> "u1"]}

MCAllowed0 ==
  {<<"E2", "U", "uniR">>, <<"E2", "U", "cakeR">>, <<"EM", "W", "aeroR">>, <<"EM", "U", "aeroR">>}

MCMapped0 == {"W", "U", "aeroR", "u1"}

=============================================================================

---------------------------- MODULE RouteEncoding ----------------------------
(* What execution-manager makes of a candidate's route before it may be sent: *)
(* the kind of each step, the router, factory and fee written into the call,  *)
(* the executor that takes it and the allowances it needs; and what the       *)
(* executor contract checks when the call arrives.                            *)
EXTENDS Integers, Sequences, FiniteSets, Functions

CONSTANTS
  Route,     \* candidate -> its steps, a sequence of
             \* [dex, variant, factory, pool, tin, tout, fee, spacing, hex]
  Settings,  \* [exec2, execMulti, execAny, router, factory]: the .env of the process
  BuiltIn,   \* [families with a registry -> factories compiled in, first the default]
  BuiltInRouter,  \* [families -> router compiled in, or None]
  V2Factory, \* UNISWAP_V2_FACTORY
  Known,     \* <<factory, {tokens}, fee, pool>>: the pools factories answer for
  None

Routes == DOMAIN Route

Families ==
  [classic    |-> [dex |-> "Aerodrome", variant |-> "AerodromeVolatile", bare |-> TRUE],
   slipstream |-> [dex |-> "Aerodrome", variant |-> "AerodromeSlipstream", bare |-> FALSE],
   uniswap    |-> [dex |-> "UniswapV3", variant |-> "UniswapV3", bare |-> TRUE],
   pancake    |-> [dex |-> "PancakeSwap", variant |-> "PancakeV3", bare |-> TRUE],
   v4         |-> [dex |-> "UniswapV4", variant |-> "UniswapV4", bare |-> TRUE],
   balancer   |-> [dex |-> "Balancer", variant |-> "BalancerV3", bare |-> TRUE]]

Adapted == {"v4", "balancer"}

ASSUME EncodingAssumption ==
  /\ DOMAIN BuiltIn = DOMAIN Families \ Adapted
  /\ DOMAIN BuiltInRouter = DOMAIN Families
  /\ \A f \in DOMAIN BuiltIn : 1 \in DOMAIN BuiltIn[f]
  /\ \A r \in Routes : Len(Route[r]) \in 2..4

(* The family a step's dex and variant name; {} when they do not match.      *)
Family(s) ==
  {f \in DOMAIN Families :
     /\ s.dex = Families[f].dex
     /\ \/ s.variant = Families[f].variant
        \/ Families[f].bare /\ s.variant = None}

(* The set the process loads once, when it starts.                           *)
TrustedFactorySet(registry) ==
  [f \in DOMAIN BuiltIn |->
     {BuiltIn[f][i] : i \in DOMAIN BuiltIn[f]}
     \cup ({Settings.factory[f]} \ {None})
     \cup {row.factory : row \in {g \in registry : g.trusted /\ g.enabled /\ g.family = f}}]

Allowed(trusted, f, factory) ==
  \/ factory = None
  \/ f \in DOMAIN trusted /\ factory \in trusted[f]
  \/ f \in Adapted /\ factory = Settings.factory[f]

(* The kind of a step: "DirectV2", "Adapter", the family itself, or "none".  *)
StepKind(trusted, s) ==
  LET f == CHOOSE g \in Family(s) : TRUE
  IN IF Family(s) = {} THEN "none"
     ELSE IF f = "classic" /\ s.factory = V2Factory THEN "DirectV2"
     ELSE IF ~Allowed(trusted, f, s.factory) THEN "none"
     ELSE IF f \in Adapted THEN "Adapter" ELSE f

NeedsHub(kind) == kind \in {"DirectV2", "Adapter"}

OrElse(value, default) == IF value = None THEN default ELSE value

RouterOf(f) == OrElse(Settings.router[f], BuiltInRouter[f])

(* The factory written into the call: the step's own, else the configured    *)
(* one, else the one compiled in, so that the contract always has one to     *)
(* check the pool with. Adapted families name their own manager.             *)
FactoryOf(s, f) ==
  IF f \in Adapted THEN Settings.factory[f]
  ELSE OrElse(s.factory, OrElse(Settings.factory[f], BuiltIn[f][1]))

FeeOf(s, f) ==
  CASE f = "slipstream" -> s.spacing
    [] f \in {"uniswap", "pancake", "v4"} -> 100 * s.fee
    [] OTHER -> s.fee

(* One step of the call; None when it cannot be encoded.                     *)
EncodeStep(trusted, s) ==
  LET kind == StepKind(trusted, s)
      f == CHOOSE g \in Family(s) : TRUE
      router == IF kind = "DirectV2" THEN None ELSE RouterOf(f)
  IN IF \/ kind = "none"
        \/ kind # "DirectV2" /\ router = None
        \/ f = "slipstream" /\ (s.spacing = None \/ s.spacing <= 0)
        \/ FactoryOf(s, f) = None
        \/ ~s.hex
     THEN None
     ELSE [kind |-> kind, router |-> router, factory |-> FactoryOf(s, f),
           pool |-> s.pool, tin |-> s.tin, tout |-> s.tout, fee |-> FeeOf(s, f)]

Encode(trusted, r) == [i \in DOMAIN Route[r] |-> EncodeStep(trusted, Route[r][i])]

Executor(trusted, r) ==
  LET steps == Route[r]
      hub == \E i \in DOMAIN steps : NeedsHub(StepKind(trusted, steps[i]))
  IN OrElse(IF Len(steps) = 2 /\ ~hub THEN Settings.exec2 ELSE Settings.execMulti,
            Settings.execAny)

Encodable(trusted, r) == None \notin Range(Encode(trusted, r))

\* Mutant of RequiredApprovals: looked up for the two-hop executor.
X_TwoHopApprovals(trusted, r) ==
  {<<OrElse(Settings.exec2, Settings.execAny), e.tin, e.router>> :
     e \in {e \in Range(Encode(trusted, r)) : ~NeedsHub(e.kind)}}

(* The keys (executor, token, spender) of the allowances a route needs.      *)
RequiredApprovals(trusted, r) ==
  {<<Executor(trusted, r), e.tin, e.router>> :
     e \in {e \in Range(Encode(trusted, r)) : ~NeedsHub(e.kind)}}

-----------------------------------------------------------------------------
(* ExecutorHub.executeWithOwnFunds: a pool is one its factory answers for    *)
(* (adapters check theirs), and routers may draw what they need. Whether the *)
(* swaps leave min_profit is up to the market.                               *)

CheckedPool(e) ==
  \/ e.kind = "Adapter"
  \/ e.kind # "DirectV2" /\ None \in {e.factory, e.pool}
  \/ <<e.factory, {e.tin, e.tout}, e.fee, e.pool>> \in Known

Accepts(executor, call, allow) ==
  \A e \in Range(call) :
    /\ CheckedPool(e)
    /\ ~NeedsHub(e.kind) => <<executor, e.tin, e.router>> \in allow

=============================================================================

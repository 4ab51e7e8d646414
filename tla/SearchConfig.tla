---------------------------- MODULE SearchConfig ----------------------------
(* What the searcher is told to search: the token pairs with their amounts  *)
(* and least profits, the defaults of tokens, the trusted factories.        *)
(* monitor-web's forms and the discoveries they start write them row by     *)
(* row; the searcher reads them joined into one configuration per pair.     *)
(* A configuration is a record [rows, defaults, tokens, registry]; amounts  *)
(* are sets, {} for a column without any; tokens are numbers in the order   *)
(* of their addresses.                                                      *)
EXTENDS Naturals, SequencesExt, FiniteSetsExt

CONSTANTS
  None,          \* an Option without a value
  Tiers,         \* MAX_AMOUNT_TIER_NUMERATORS, of TierUnit
  TierUnit

ASSUME TierAssumption == TierUnit \in Nat \ {0}

-----------------------------------------------------------------------------
(* As the searcher reads it. *)

(* Every row's own amounts and every default have a least profit with them. *)
WellPaired(conf, tokens) ==
  /\ DOMAIN conf = {"rows", "defaults", "tokens", "registry"} /\ DOMAIN conf.defaults = tokens
  /\ \A r \in conf.rows :
       /\ DOMAIN r = {"token0", "token1", "own0", "min0", "own1", "min1", "enabled"}
       /\ {r.token0, r.token1} \subseteq tokens
       /\ (r.own0 # {} => r.min0 # None) /\ (r.own1 # {} => r.min1 # None)
  /\ \A t \in tokens :
       /\ DOMAIN conf.defaults[t] = {"all", "two", "multi"}
       /\ \A scope \in {"all", "two", "multi"} :
            LET d == conf.defaults[t][scope] IN d = None \/ (d.amounts # {} => d.min # None)

ExpandMaxAmounts(amounts) ==
  {(a * n) \div TierUnit : a \in amounts, n \in Tiers \cup {TierUnit}} \ {0}

(* The row that gives one token of a pair its amounts, for one scope. *)
Source(own, ownMin, scoped, all) ==
  IF own # {} THEN [amounts |-> own, min |-> ownMin]
  ELSE IF scoped # None THEN scoped
  ELSE IF all # None THEN all ELSE [amounts |-> {}, min |-> None]

(* effective_min_profit: never less than the token's default for every scope. *)
Effective(row, all) ==
  LET least == IF row.min = None THEN 1 ELSE row.min
      floor == IF all = None THEN 0 ELSE all.min
  IN  [amounts |-> row.amounts, min |-> IF least > floor THEN least ELSE floor]

PairConfig(row, defaults) ==
  LET of(t, own, least, scope) ==
        Effective(Source(own, least, defaults[t][scope], defaults[t].all), defaults[t].all)
      side(t, own, least) == [two |-> of(t, own, least, "two"), multi |-> of(t, own, least, "multi")]
  IN  [token0 |-> row.token0, token1 |-> row.token1,
       side0 |-> side(row.token0, row.own0, row.min0),
       side1 |-> side(row.token1, row.own1, row.min1)]

(* enabled_pair_search_configs: a pair without two-hop amounts is left out. *)
PairConfigs(conf) ==
  {c \in {PairConfig(r, conf.defaults) : r \in {q \in conf.rows : q.enabled}} :
     c.side0.two.amounts # {} \/ c.side1.two.amounts # {}}

(* anchor_search_configs: the amounts of a token merged over its pairs. *)
Anchors(configs) ==
  LET sides == {<<c.token0, c.side0.multi>> : c \in configs} \cup {<<c.token1, c.side1.multi>> : c \in configs}
      of(t) == {s[2] : s \in {x \in sides : x[1] = t /\ x[2].amounts # {}}}
  IN  {[token |-> t, amounts |-> UNION {ExpandMaxAmounts(m.amounts) : m \in of(t)},
        min |-> Min({m.min : m \in of(t)})] :
       t \in {x \in {s[1] : s \in sides} : of(x) # {}}}

(* TrustedFactorySet: the settings' and the known factories, whatever the registry *)
(* says of them, and those the registry trusts.                                    *)
TrustedFactories(builtin, registry) ==
  [v \in DOMAIN builtin |-> builtin[v] \cup {f.factory : f \in {g \in registry : g.variant = v}}]

-----------------------------------------------------------------------------
(* As monitor-web writes it: a form's answer, and jobs that write one row a step. *)

(* normalize_raw_amount, normalize_raw_amount_list: zero is no amount. *)
Malformed(v) == 0 \in v.amounts \/ v.min = 0

HalfSet(v) == (v.amounts # {}) # (v.min # None)

Unset == [amounts |-> {}, min |-> None]
StoredAs(default) == IF default = None THEN Unset ELSE default

(* PostgresStore::update_token_search_default: a row, or none when both are unset. *)
PutDefault(conf, token, scope, v) ==
  [conf EXCEPT !.defaults[token][scope] = IF v = Unset THEN None ELSE v]

UpdateTokenSearchDefault(conf, form) ==
  IF Malformed(form.value) \/ HalfSet(form.value) THEN conf
  ELSE PutDefault(conf, form.token, form.scope, form.value)

SamePair(row, a, b) == {row.token0, row.token1} = {a, b}

\* Mutant of UpdatePairSearchConfig: amounts are taken without a least profit.
X_MinOptional(conf, form) ==
  LET set(row) == [row EXCEPT !.own0 = form.first.amounts, !.min0 = form.first.min,
                              !.own1 = form.second.amounts, !.min1 = form.second.min]
  IN  IF \E v \in {form.first, form.second} : Malformed(v) THEN conf
      ELSE [conf EXCEPT !.rows = {IF SamePair(r, form.a, form.b) THEN set(r) ELSE r : r \in @}]

(* update_pair_search_config: only a pair that has a row; the tokens are put in *)
(* order, their amounts are not.                                                *)
UpdatePairSearchConfig(conf, form) ==
  LET lacksMin(v) == v.amounts # {} /\ v.min = None
      set(row) == [row EXCEPT !.own0 = form.first.amounts, !.min0 = form.first.min,
                              !.own1 = form.second.amounts, !.min1 = form.second.min]
  IN  IF \E v \in {form.first, form.second} : Malformed(v) \/ lacksMin(v) THEN conf
      ELSE [conf EXCEPT !.rows = {IF SamePair(r, form.a, form.b) THEN set(r) ELSE r : r \in @}]

DisablePair(conf, a, b) ==
  [conf EXCEPT !.rows = {IF SamePair(r, a, b) THEN [r EXCEPT !.enabled = FALSE] ELSE r : r \in @}]

DeletePair(conf, a, b) == [conf EXCEPT !.rows = {r \in @ : ~SamePair(r, a, b)}]

(* upsert_token_pair after a discovery: the pair is enabled, its amounts are kept. *)
UpsertPair(conf, a, b) ==
  LET new == [token0 |-> Min({a, b}), token1 |-> Max({a, b}), own0 |-> {}, min0 |-> None,
              own1 |-> {}, min1 |-> None, enabled |-> TRUE]
      old == {r \in conf.rows : SamePair(r, a, b)}
  IN  [conf EXCEPT !.tokens = @ \cup {a, b},
                   !.rows = (@ \ old) \cup (IF old = {} THEN {new} ELSE {[r EXCEPT !.enabled = TRUE] : r \in old})]

HasDefault(conf, t) == \E scope \in {"all", "two", "multi"} : conf.defaults[t][scope] # None

FundingAnchors(conf) ==
  {t \in DOMAIN conf.defaults : HasDefault(conf, t)}
  \cup {r.token0 : r \in {q \in conf.rows : q.enabled /\ q.own0 # {} /\ q.min0 # None}}
  \cup {r.token1 : r \in {q \in conf.rows : q.enabled /\ q.own1 # {} /\ q.min1 # None}}

EnabledTokens(conf) == conf.tokens \cup {t \in DOMAIN conf.defaults : HasDefault(conf, t)}

Ascending(S) == SetToSortSeq(S, LAMBDA a, b : a < b)

-----------------------------------------------------------------------------
(* Jobs. *)

(* discover_pairs_for_anchor, discover_pairs_for_new_token, for tokens in turn; *)
(* peers are read when a token's turn comes.                                    *)
DiscoverJob(kind, tokens) == [kind |-> kind, tokens |-> tokens, pairs |-> << >>]

(* The peers of the token whose turn it is. *)
FetchPeers(conf, job) ==
  LET token == Head(job.tokens)
      peers == (IF job.kind = "token" THEN FundingAnchors(conf) ELSE EnabledTokens(conf)) \ {token}
      order == Ascending(peers)
  IN  [job EXCEPT !.tokens = Tail(@), !.pairs = [i \in DOMAIN order |-> <<token, order[i]>>]]

(* discover_and_upsert_pair_addresses: the chain has pools of the pair, or not. *)
DiscoverPair(conf, pair, found) == IF found THEN UpsertPair(conf, pair[1], pair[2]) ELSE conf

ScopeOrder == <<"all", "two", "multi">>

(* update_token_search_defaults: the rows are read once, the tokens known then. *)
DefaultsJob(conf, values) ==
  LET tokens == Ascending({k[1] : k \in DOMAIN values} \cap EnabledTokens(conf))
      steps == [i \in 1..(3 * Len(tokens)) |-> <<tokens[(i + 2) \div 3], ScopeOrder[((i - 1) % 3) + 1]>>]
  IN  [kind |-> "defaults", values |-> values, left |-> steps, old |-> conf.defaults]

DefaultsValue(job) ==
  LET k == Head(job.left)
      stored == StoredAs(job.old[k[1]][k[2]])
  IN  IF k \in DOMAIN job.values THEN job.values[k] ELSE stored

(* The first value that cannot be stored ends the form; what was written stays. *)
DefaultsRefused(job) == Malformed(DefaultsValue(job)) \/ HalfSet(DefaultsValue(job))

DefaultsChanges(job) ==
  LET k == Head(job.left) IN DefaultsValue(job) # StoredAs(job.old[k[1]][k[2]])

DefaultsWrite(conf, job) ==
  LET k == Head(job.left)
  IN  [PutDefault(conf, k[1], k[2], DefaultsValue(job)) EXCEPT !.tokens = @ \cup {k[1]}]

BecameAnchor(job) ==
  LET k == Head(job.left) IN job.old[k[1]][k[2]] = None /\ DefaultsValue(job) # Unset

=============================================================================

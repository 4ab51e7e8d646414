----------------------------- MODULE PathSearch -----------------------------
(* The searcher: a cycle drains the changed pools, refreshes configuration *)
(* and states, keeps a path index and a graph of the active pools, expands *)
(* the cycles through every changed pool, scores them with an upper bound, *)
(* quotes the best ones and publishes the winners.  What the market-data   *)
(* processes and the operator do in the meantime are actions of their own. *)
(* Pools and tokens are numbers, in the order of their addresses and       *)
(* labels; a pool state is a version of Cases[scen].states[pool].          *)
EXTENDS QuoteMath, SearchConfig, TLC

CONSTANTS
  Cases,         \* the scenarios: states, ticks, configuration, forms
  Fanout,        \* MAX_DYNAMIC_EDGE_FANOUT_PER_TOKEN
  PriorityCap,   \* MAX_DYNAMIC_PRIORITY_EDGES_PER_TOKEN
  SegmentCap,    \* MAX_DYNAMIC_SEGMENT_PATHS
  CandidateCap,  \* MAX_DYNAMIC_MULTIHOP_CANDIDATES_PER_SCAN
  PathCap,       \* MAX_DYNAMIC_MULTIHOP_PATHS_PER_SCAN
  BatchSize,     \* SEARCHER_PUBLISH_BATCH_PATHS
  Safety,        \* v3_quote_safety_bps
  MaxImpact,     \* max_price_impact_bps
  MinProfit      \* min_expected_profit

ASSUME CapsAssumption ==
  {Fanout, PriorityCap, SegmentCap, CandidateCap, PathCap, BatchSize} \subseteq Nat \ {0}

(* A scenario starts with versions its pools have, with a token for every default, *)
(* and with a configuration the forms can have left: amounts come with a minimum.  *)
ASSUME CasesAssumption ==
  \A c \in DOMAIN Cases :
    LET k == Cases[c] tokens == DOMAIN k.config.defaults
    IN  /\ DOMAIN k.start = DOMAIN k.states /\ Len(k.forms) \in Nat
        /\ \A p \in DOMAIN k.states :
             /\ Len(k.states[p]) \in Nat /\ k.start[p] \in 0..Len(k.states[p])
             /\ Len(k.ticks[p]) \in Nat /\ k.saved[p] \in 0..Len(k.ticks[p])
             /\ \A s \in Range(k.states[p]) : {s.token0, s.token1} \subseteq tokens
        /\ tokens \subseteq Nat /\ WellPaired(k.config, tokens)

VARIABLES
  scen,    \* the scenario
  redis,   \* pool -> version of its state, 0 for none
  aged,    \* pool -> the latest version older than max_pool_state_age_ms
  rticks,  \* pool -> version of its ticks, 0 for none
  known,   \* chain:current_block is set
  marks,   \* pools:changed
  tmarks,  \* pools:tick_changed
  conf,    \* the configuration in Postgres
  web,     \* monitor-web: how many forms were sent, the jobs under way
  run,     \* SearchRuntime
  scan     \* the cycle under way

vars == <<scen, redis, aged, rticks, known, marks, tmarks, conf, web, run, scan>>
feed == <<redis, aged, rticks, known, marks, tmarks, conf, web>>

Pools == DOMAIN Cases[scen].states
StateOf(p, v) == Cases[scen].states[p][v]
TicksOf(p, v) == IF v = 0 THEN << >> ELSE Cases[scen].ticks[p][v]

-----------------------------------------------------------------------------
(* Which pools may be quoted. *)

V3Style == {"AerodromeSlipstream", "UniswapV3", "PancakeV3", "UniswapV4"}

(* TrustedFactorySet::supports; V4 and Balancer are checked against their manager. *)
Trusts(trusted, s) == s.factory # None /\ s.factory \in trusted[s.variant]

QuoteReady(trusted, s) ==
  /\ Trusts(trusted, s)
  /\ CASE s.variant = "AerodromeVolatile" -> s.r0 \notin {None, 0} /\ s.r1 \notin {None, 0}
       [] s.variant \in V3Style -> s.sqrt # None /\ s.liq \notin {None, 0} /\ s.tick # None
       [] OTHER -> s.token0 # 0 /\ s.token1 # 0

IsSupported(s) ==
  /\ s.token0 # 0 /\ s.token1 # 0 /\ s.token0 # s.token1
  /\ CASE s.variant = "AerodromeVolatile" ->
            /\ s.stable => s.unit0 # None /\ s.unit1 # None
            /\ s.r0 # None /\ s.r1 # None
       [] s.variant \in V3Style ->
            /\ s.sqrt \notin {None, 0} /\ s.liq \notin {None, 0} /\ s.tick # None
            /\ s.variant \in {"AerodromeSlipstream", "UniswapV4"} =>
                 s.spacing # None /\ s.spacing > 0
       [] OTHER -> TRUE

(* PoolTopology *)
Topology(s) == <<s.variant, s.token0, s.token1, s.fee, s.pips, s.stable, s.spacing>>

-----------------------------------------------------------------------------
(* Amounts are tried in ascending order. *)
InOrder(amounts) == Ascending(amounts)

-----------------------------------------------------------------------------
(* The path index and the graph: both built from the active pools' states. *)

Edge(p, in, out) == [pool |-> p, in |-> in, out |-> out]

(* states: pool -> version. *)
EdgesOf(states, p) ==
  LET s == StateOf(p, states[p])
  IN  IF IsSupported(s) THEN <<Edge(p, s.token0, s.token1), Edge(p, s.token1, s.token0)>> ELSE << >>

GraphEdges(states) == UNION {Range(EdgesOf(states, p)) : p \in DOMAIN states}

(* two_hop_paths_for_pool_states *)
TwoHopPaths(states, configs) ==
  LET edges == GraphEdges(states)
      cycles(t, mid, side) ==
        {[steps |-> <<e, f>>, amounts |-> InOrder(ExpandMaxAmounts(side.amounts)),
          min |-> side.min] :
         e \in {x \in edges : side.amounts # {} /\ x.in = t /\ x.out = mid},
         f \in {x \in edges : x.in = mid /\ x.out = t}}
  IN  {path \in UNION {cycles(c.token0, c.token1, c.side0.two)
                       \cup cycles(c.token1, c.token0, c.side1.two) : c \in configs} :
         path.steps[1].pool # path.steps[2].pool}

Depth(s) ==
  LET orZero(x) == IF x = None THEN 0 ELSE x
  IN  CASE s.variant = "AerodromeVolatile" -> orZero(s.r0) + orZero(s.r1)
        [] s.variant \in V3Style -> orZero(s.liq)
        [] OTHER -> 1

(* The pools that share their depth with another: their order is the hash set's. *)
Tied(states) ==
  {p \in DOMAIN states : \E q \in DOMAIN states \ {p} :
     Depth(StateOf(p, states[p])) = Depth(StateOf(q, states[q]))}

(* edges_by_token: the edges out of every token, deepest pool first. *)
EdgesByToken(states, tie) ==
  LET edges == GraphEdges(states)
      depth == [p \in DOMAIN states |-> Depth(StateOf(p, states[p]))]
      deeper(e, f) == \/ depth[e.pool] > depth[f.pool]
                      \/ depth[e.pool] = depth[f.pool] /\ tie[e.pool] < tie[f.pool]
  IN  [t \in {e.in : e \in edges} |-> SetToSortSeq({e \in edges : e.in = t}, deeper)]

GraphSnapshot(states, tie) == [states |-> states, byToken |-> EdgesByToken(states, tie)]

(* bounded_priority_pools: changed pools beyond the fanout of some token. *)
PriorityPools(graph, changed) ==
  LET beyond(edges) == SelectSeq(SubSeq(edges, Fanout + 1, Len(edges)), LAMBDA e : e.pool \in changed)
      first(edges) == SubSeq(edges, 1, Min({PriorityCap, Len(edges)}))
  IN  UNION {{e.pool : e \in Range(first(beyond(graph.byToken[t])))} : t \in DOMAIN graph.byToken}

(* candidate_edges_from_token, for every token. *)
CandidateEdges(graph, changed) ==
  LET priority == PriorityPools(graph, changed)
      chosen(edges) == {edges[i] : i \in {j \in DOMAIN edges :
                                            j <= Fanout \/ edges[j].pool \in priority}}
      before(e, f) == e.out < f.out \/ (e.out = f.out /\ e.pool < f.pool)
  IN  [t \in DOMAIN graph.byToken |-> SetToSortSeq(chosen(graph.byToken[t]), before)]

-----------------------------------------------------------------------------
(* Cycles through a changed pool. *)

(* can_reach: the tokens from which n candidate edges lead to a token. *)
Reaching(next, end) ==
  LET R[n \in 0..3] ==
        IF n = 0 THEN {end}
        ELSE {t \in DOMAIN next : \E e \in Range(next[t]) : e.out \in R[n - 1]}
  IN  R

(* edge_paths_between: in depth-first order, cut off at SegmentCap. *)
Segments(next, start, end, n) ==
  LET reach == Reaching(next, end)
      ways(path, k) ==
        LET at == IF path = << >> THEN start ELSE Last(path).out
        IN  IF at \notin DOMAIN next THEN << >>
            ELSE SelectSeq(next[at], LAMBDA e :
                   e.out \in reach[n - k] /\ \A f \in Range(path) : f.pool # e.pool)
      extend(path, k) == LET on == ways(path, k) IN [i \in DOMAIN on |-> Append(path, on[i])]
      level(paths, k) == FoldLeft(LAMBDA all, path : all \o extend(path, k), << >>, paths)
      found == IF start \notin reach[n] THEN << >>
               ELSE FoldLeft(level, << << >> >>, [k \in 1..n |-> k])
  IN  SubSeq(found, 1, Min({SegmentCap, Len(found)}))

(* is_valid_dynamic_cycle *)
IsCycle(anchor, edges) ==
  LET inner == [i \in 1..(Len(edges) - 1) |-> edges[i].out]
  IN  /\ edges # << >> /\ edges[1].in = anchor /\ Last(edges).out = anchor
      /\ IsInjective([i \in DOMAIN edges |-> edges[i].pool])
      /\ IsInjective(inner) /\ anchor \notin Range(inner)

\* Mutant of CyclesThrough: the changed edge is never the first one.
X_NeverFirst(next, anchor, edge, n) ==
  LET at(k) ==
        LET prefixes == Segments(next, anchor, edge.in, k)
            suffixes == Segments(next, edge.out, anchor, n - k - 1)
            with(prefix) == [j \in DOMAIN suffixes |-> prefix \o <<edge>> \o suffixes[j]]
        IN  FoldLeft(LAMBDA all, prefix : all \o with(prefix), << >>, prefixes)
      all == FoldLeft(LAMBDA cycles, k : cycles \o at(k), << >>, [k \in 1..(n - 1) |-> k])
  IN  SelectSeq(all, LAMBDA c : IsCycle(anchor, c))

(* add_dynamic_cycles_for_changed_edge: the edge at every place of a cycle of length n. *)
CyclesThrough(next, anchor, edge, n) ==
  LET at(k) ==
        LET prefixes == Segments(next, anchor, edge.in, k)
            suffixes == Segments(next, edge.out, anchor, n - k - 1)
            with(prefix) == [j \in DOMAIN suffixes |-> prefix \o <<edge>> \o suffixes[j]]
        IN  FoldLeft(LAMBDA all, prefix : all \o with(prefix), << >>, prefixes)
      all == FoldLeft(LAMBDA cycles, k : cycles \o at(k), << >>, [k \in 1..n |-> k - 1])
  IN  SelectSeq(all, LAMBDA c : IsCycle(anchor, c))

-----------------------------------------------------------------------------
(* The rough score: an upper bound of the quote, on the graph's own states. *)

Quoted(out, why) == [out |-> out, why |-> why]
OrFailed(out, why) == IF out = Failed THEN Quoted(0, why) ELSE Quoted(out, "")

Sides(s, in) ==
  IF in = s.token0 THEN [in |-> s.r0, out |-> s.r1, unitIn |-> s.unit0, unitOut |-> s.unit1]
  ELSE [in |-> s.r1, out |-> s.r0, unitIn |-> s.unit1, unitOut |-> s.unit0]

(* decimal_normalized_optimistic_quote *)
Optimistic(s, in, a) ==
  LET side == Sides(s, in)
      normal == 1000 * ((a * side.unitOut) \div side.unitIn)
  IN  IF s.unit0 = None \/ s.unit1 = None THEN Quoted(0, "MissingDecimals")
      ELSE Quoted(IF normal = 0 THEN 1 ELSE normal, "")

WeightedQuote(s, in, a) ==
  LET side == Sides(s, in)
  IN  IF s.r0 = None \/ s.r1 = None THEN Failed
      ELSE QuoteWeighted(side.in, side.out, a, s.fee, side.unitIn, side.unitOut)

RoughQuote(s, in, a) ==
  LET side == Sides(s, in)
  IN  CASE s.variant = "AerodromeVolatile" /\ (s.r0 = None \/ s.r1 = None) ->
             Quoted(0, "MissingReserves")
        [] s.variant = "AerodromeVolatile" /\ s.r0 # None /\ s.r1 # None /\ s.stable ->
             IF s.unit0 = None \/ s.unit1 = None THEN Quoted(0, "MissingDecimals")
             ELSE OrFailed(QuoteStable(side.in, side.out, a, s.fee, side.unitIn, side.unitOut),
                           "StableQuoteFailed")
        [] s.variant = "AerodromeVolatile" /\ s.r0 # None /\ s.r1 # None /\ ~s.stable ->
             OrFailed(QuoteVolatile(side.in, side.out, a, s.fee), "V2QuoteFailed")
        [] s.variant \in V3Style ->
             IF s.sqrt \in {None, 0} THEN Quoted(0, "MissingV3State")
             ELSE OrFailed(SpotQuote(s.sqrt, in = s.token0, a), "V3SpotOverflow")
        [] OTHER -> IF s.weighted THEN OrFailed(WeightedQuote(s, in, a), "BalancerQuoteFailed")
                    ELSE Optimistic(s, in, a)

\* Mutant of MayRecover: an overflowing spot quote drops the cycle.
X_NoSpotRecovery(why, variant) == why = "MissingDecimals" /\ variant = "BalancerV3"

(* should_include_rough_quote_failure *)
MayRecover(why, variant) ==
  \/ why = "V3SpotOverflow"
  \/ why = "MissingDecimals" /\ variant = "BalancerV3"

(* One amount along the cycle, up to the first edge without an output. *)
RoughWalk(graph, cycle, amount) ==
  LET quoted(s, q) == [amount |-> q.out, variant |-> s.variant,
                       why |-> IF q.why = "" /\ q.out = 0 THEN "ZeroOutput" ELSE q.why]
      on(s, in, a) == quoted(s, RoughQuote(s, in, a))
      step(w, e) == IF w.why # "" THEN w ELSE on(StateOf(e.pool, graph.states[e.pool]), e.in, w.amount)
  IN  FoldLeft(step, [amount |-> amount, why |-> "", variant |-> ""], cycle)

(* The walks of all amounts, judged: [score, profit], or None for a dropped cycle. *)
Judged(anchor, amounts, walks) ==
  LET ends == {i \in DOMAIN walks : walks[i].why = ""}
      profit(i) == Sub(walks[i].amount, amounts[i])
      score(i) == (walks[i].amount * Bps) \div amounts[i]
      good == {i \in ends : profit(i) >= anchor.min /\ score(i) > 0}
      failed == DOMAIN walks \ ends
      first == walks[Min(failed)]
  IN  IF good # {}
      THEN LET i == CHOOSE j \in good : \A k \in good :
                      \/ score(j) > score(k)
                      \/ score(j) = score(k) /\ profit(j) >= profit(k)
           IN  [score |-> score(i), profit |-> profit(i)]
      ELSE IF failed # {} /\ MayRecover(first.why, first.variant)
           THEN [score |-> 1, profit |-> 0] ELSE None

(* score_dynamic_multihop_path *)
ScoreCycle(graph, anchor, cycle) ==
  LET amounts == InOrder(anchor.amounts)
  IN  Judged(anchor, amounts, [i \in DOMAIN amounts |-> RoughWalk(graph, cycle, amounts[i])])

(* The scan so far with one more cycle: scored once, kept while there is room. *)
AddCycle(graph, anchor, found, cycle) ==
  LET key == <<anchor.token, cycle>>
      path == [steps |-> cycle, min |-> anchor.min, amounts |-> InOrder(anchor.amounts)]
      seen == [found EXCEPT !.seen = @ \cup {key}, !.stop = FALSE]
      kept(f) == [f EXCEPT !.full = Cardinality(f.cands) >= CandidateCap]
      with(scored) ==
        IF scored = None THEN [seen EXCEPT !.full = FALSE]
        ELSE kept([seen EXCEPT !.cands = @ \cup {[path |-> path, score |-> scored.score,
                                                  profit |-> scored.profit]}])
  IN  IF found.full \/ key \in found.seen THEN found ELSE with(ScoreCycle(graph, anchor, cycle))

(* Both lengths are tried before the scan looks at the cap and stops. *)
ExpandEdge(graph, next, anchor, found, edge) ==
  LET through(f, n) == FoldLeft(LAMBDA g, cycle : AddCycle(graph, anchor, g, cycle),
                                [f EXCEPT !.full = FALSE], CyclesThrough(next, anchor.token, edge, n))
      checked(f) == [f EXCEPT !.stop = Cardinality(f.cands) >= CandidateCap]
  IN  IF found.stop THEN found ELSE checked(FoldLeft(through, found, <<3, 4>>))

(* The changed pools of one anchor; next: the candidate edges. *)
ExpandPool(graph, next, anchor, found, p) ==
  FoldLeft(LAMBDA f, e : ExpandEdge(graph, next, anchor, f, e), found,
           IF p \in DOMAIN graph.states THEN EdgesOf(graph.states, p) ELSE << >>)

ExpandAnchor(graph, next, anchor, found, pools) ==
  FoldLeft(LAMBDA f, p : ExpandPool(graph, next, anchor, f, p), found, pools)

(* dynamic_multihop_paths_for_changed_pools, in one order of anchors and pools. *)
ExpandAll(graph, next, anchors, pools) ==
  FoldLeft(LAMBDA found, anchor : ExpandAnchor(graph, next, anchor, found, pools),
           [seen |-> {}, cands |-> {}, full |-> FALSE, stop |-> FALSE], anchors)

NameBefore(p, q) ==
  LET key(path) == <<Len(path.steps), path.steps[1].in>> \o [i \in DOMAIN path.steps |-> path.steps[i].pool]
      k == key(p)
      l == key(q)
  IN  \E i \in DOMAIN k : (\A j \in 1..(i - 1) : k[j] = l[j]) /\ k[i] < l[i]

(* select_dynamic_paths: the best scores, names breaking ties. *)
SelectPaths(cands) ==
  LET ahead(c, d) ==
        \/ c.score > d.score
        \/ c.score = d.score /\ c.profit > d.profit
        \/ c.score = d.score /\ c.profit = d.profit /\ NameBefore(c.path, d.path)
      sorted == SetToSortSeq(cands, ahead)
      best == SubSeq(sorted, 1, Min({PathCap, Len(sorted)}))
  IN  [i \in DOMAIN best |-> best[i].path]

-----------------------------------------------------------------------------
(* The exact quote, on the cached states and the ticks as books (pool -> ticks). *)

FeePips(s) == IF s.variant = "AerodromeSlipstream" /\ s.pips = None THEN FeeUnit
              ELSE IF s.pips = None THEN s.fee * (FeeUnit \div Bps) ELSE s.pips

ExactStep(s, ticks, in, a) ==
  LET of(out) == [out |-> out, exhausted |-> FALSE, why |-> IF out = Failed THEN "QuoteError" ELSE ""]
      walked(walk) == [of(walk.out) EXCEPT !.exhausted = walk.exhausted]
      reserves(rough) == IF rough.why = "" THEN rough.out ELSE Failed
  IN  CASE s.variant \in V3Style /\ DOMAIN ticks = {} ->
             [out |-> Failed, exhausted |-> FALSE, why |-> "MissingTicks"]
        [] s.variant \in V3Style /\ DOMAIN ticks # {} ->
             walked(QuoteTicks([sqrt |-> s.sqrt, liq |-> s.liq, tick |-> s.tick, ticks |-> ticks],
                               in = s.token0, a, FeePips(s)))
        [] s.variant = "AerodromeVolatile" -> of(reserves(RoughQuote(s, in, a)))
        [] OTHER -> of(IF s.weighted THEN WeightedQuote(s, in, a) ELSE Failed)

(* estimate_price_impact_bps *)
Impact(s, in, a, out) ==
  LET side == Sides(s, in)
      orOne(x) == IF x = 0 THEN 1 ELSE x
      spot == IF s.r0 # None /\ s.r1 # None THEN (a * orOne(side.out)) \div orOne(side.in)
              ELSE SpotQuote(s.sqrt, in = s.token0, a)
  IN  IF s.variant = "BalancerV3" \/ spot = Failed THEN 0 ELSE ImpactFromSpot(spot, out)

(* The quote so far, after a step that was quoted; the haircut comes off a V3 output. *)
StepQuoted(w, e, s, q) ==
  LET v3 == s.variant \in V3Style
      out == IF v3 THEN AfterHaircut(q.out, Safety) ELSE q.out
  IN  IF q.why # ""
      THEN [w EXCEPT !.why = q.why, !.repair = IF q.why = "MissingTicks" THEN {e.pool} ELSE {}]
      ELSE [amount |-> out, why |-> "", v3 |-> w.v3 + (IF v3 THEN 1 ELSE 0),
            impact |-> Max({w.impact, Impact(s, e.in, w.amount, out)}),
            repair |-> w.repair \cup (IF q.exhausted THEN {e.pool} ELSE {})]

(* quote_path: the first error ends it; an exhausted tick range fails it in the end. *)
QuotePath(states, books, steps, amount) ==
  LET quote(w, e) == ExactStep(states[e.pool], books[e.pool], e.in, w.amount)
      step(w, e) == IF w.why # "" THEN w ELSE StepQuoted(w, e, states[e.pool], quote(w, e))
      ended(w) == IF w.why = "" /\ w.repair # {} THEN [w EXCEPT !.why = "TickRangeExhausted"] ELSE w
  IN  ended(FoldLeft(step, [amount |-> amount, why |-> "", v3 |-> 0, impact |-> 0, repair |-> {}], steps))

RequiredProfit(least) == IF least = 0 THEN MinProfit ELSE least

(* quote_model_edge_floor *)
EdgeFloor(amount, v3) == (amount * v3 * Safety) \div Bps

(* The gates of quote_search_path, in their order. *)
Passes(q, amount, least) ==
  LET profit == Sub(q.amount, amount)
  IN  q.why = "" /\ profit >= RequiredProfit(least) /\ q.impact <= MaxImpact
      /\ profit >= EdgeFloor(amount, q.v3)

Scope(steps) == IF Len(steps) = 2 THEN "TwoHop" ELSE "MultiHop"

(* quote_search_path: the candidates of one path. *)
CandidatesOf(states, books, path) ==
  LET of(a, q) == IF ~Passes(q, a, path.min) THEN {}
                  ELSE {[steps |-> path.steps, amount |-> a, token |-> path.steps[1].in,
                         min |-> path.min, profit |-> Sub(q.amount, a), impact |-> q.impact]}
  IN  UNION {of(a, QuotePath(states, books, path.steps, a)) : a \in Range(path.amounts)}

(* The pools whose ticks ran out under a path. *)
RepairsOf(states, books, path) ==
  UNION {QuotePath(states, books, path.steps, a).repair : a \in Range(path.amounts)}

CoalesceKey(c) == <<c.token, c.amount, Scope(c.steps)>>

\* Mutant of Coalesced: the least profitable candidate of a key is kept.
X_KeepsWorst(cands) ==
  {S \in SUBSET cands :
     /\ \A k \in {CoalesceKey(c) : c \in cands} : Cardinality({c \in S : CoalesceKey(c) = k}) = 1
     /\ \A c \in S, d \in cands : CoalesceKey(c) = CoalesceKey(d) => c.profit <= d.profit}

(* coalesce_candidates_for_publish: one candidate of every key, of the greatest profit. *)
Coalesced(cands) ==
  {S \in SUBSET cands :
     /\ \A k \in {CoalesceKey(c) : c \in cands} : Cardinality({c \in S : CoalesceKey(c) = k}) = 1
     /\ \A c \in S, d \in cands : CoalesceKey(c) = CoalesceKey(d) => c.profit >= d.profit}

(* risk::validate_candidate *)
RiskAccepts(c, available) ==
  /\ c.profit >= RequiredProfit(c.min)
  /\ c.impact <= MaxImpact
  /\ \A i \in DOMAIN c.steps : c.steps[i].pool \in available

-----------------------------------------------------------------------------
(* The surroundings: market-data, the clock, the operator. *)

Publish(p) ==
  /\ redis[p] < Len(Cases[scen].states[p])
  /\ redis' = [redis EXCEPT ![p] = @ + 1]
  /\ marks' = marks \cup {p}
  /\ known' = TRUE
  /\ UNCHANGED <<scen, aged, rticks, tmarks, conf, web, run, scan>>

PublishTicks(p) ==
  /\ rticks[p] < Len(Cases[scen].ticks[p])
  /\ rticks' = [rticks EXCEPT ![p] = @ + 1]
  /\ tmarks' = tmarks \cup {p}
  /\ UNCHANGED <<scen, redis, aged, known, marks, conf, web, run, scan>>

Age(p) ==
  /\ p \in Cases[scen].aging /\ aged[p] < redis[p]
  /\ aged' = [aged EXCEPT ![p] = redis[p]]
  /\ UNCHANGED <<scen, redis, rticks, known, marks, tmarks, conf, web, run, scan>>

(* Some pool of the two tokens exists: discover_pools_for_pair finds it. *)
PairOnChain(pair) ==
  \E p \in Pools : \E s \in Range(Cases[scen].states[p]) : {s.token0, s.token1} = {pair[1], pair[2]}

(* A form of monitor-web; those that write several rows become a job. *)
SubmitForm ==
  /\ web.done < Len(Cases[scen].forms)
  /\ LET form == Cases[scen].forms[web.done + 1]
         job == CASE form.kind = "defaults" -> DefaultsJob(conf, form.values)
                  [] form.kind = "token" -> DiscoverJob("token", <<form.token>>)
                  [] form.kind = "reconcile" -> DiscoverJob("anchor", Ascending(FundingAnchors(conf)))
                  [] form.kind = "rediscover" ->
                       [DiscoverJob("anchor", << >>) EXCEPT
                          !.pairs = SetToSeq({<<r.token0, r.token1>> : r \in {q \in conf.rows : q.enabled}})]
                  [] OTHER -> None
     IN  /\ conf' = CASE form.kind = "default" -> UpdateTokenSearchDefault(conf, form)
                       [] form.kind = "pair" -> UpdatePairSearchConfig(conf, form)
                       [] form.kind = "disable" -> DisablePair(conf, form.a, form.b)
                       [] form.kind = "delete" -> DeletePair(conf, form.a, form.b)
                       [] form.kind = "factories" -> [conf EXCEPT !.registry = form.registry]
                       [] form.kind = "token" -> [conf EXCEPT !.tokens = @ \cup {form.token}]
                       [] OTHER -> conf
         /\ web' = [done |-> web.done + 1, jobs |-> IF job = None THEN web.jobs ELSE Append(web.jobs, job)]
  /\ UNCHANGED <<scen, redis, aged, rticks, known, marks, tmarks, run, scan>>

JobIs(i, job) == web' = [web EXCEPT !.jobs = [@ EXCEPT ![i] = job]]
JobEnds(i) == web' = [web EXCEPT !.jobs = RemoveAt(@, i)]

(* One step of a discovery: the peers of the next token, or one pair. *)
DiscoveryStep(i) ==
  LET job == web.jobs[i]
  IN  /\ job.kind # "defaults"
      /\ IF job.pairs # << >>
         THEN /\ \E reached \in BOOLEAN :
                   conf' = DiscoverPair(conf, Head(job.pairs), reached /\ PairOnChain(Head(job.pairs)))
              /\ JobIs(i, [job EXCEPT !.pairs = Tail(@)])
         ELSE /\ UNCHANGED conf
              /\ IF job.tokens = << >> THEN JobEnds(i) ELSE JobIs(i, FetchPeers(conf, job))
      /\ UNCHANGED <<scen, redis, aged, rticks, known, marks, tmarks, run, scan>>

(* One value of the form for all defaults: written, unchanged or refused. *)
DefaultsStep(i) ==
  LET job == web.jobs[i]
      next == [job EXCEPT !.left = Tail(@)]
  IN  /\ job.kind = "defaults"
      /\ IF job.left = << >> THEN UNCHANGED conf /\ JobEnds(i)
         ELSE IF DefaultsRefused(job) THEN UNCHANGED conf /\ JobEnds(i)
         ELSE IF ~DefaultsChanges(job) THEN UNCHANGED conf /\ JobIs(i, next)
         ELSE /\ conf' = DefaultsWrite(conf, job)
              /\ web' = [web EXCEPT !.jobs =
                           [@ EXCEPT ![i] = next]
                           \o (IF BecameAnchor(job) THEN <<DiscoverJob("anchor", <<Head(job.left)[1]>>)>> ELSE << >>)]
      /\ UNCHANGED <<scen, redis, aged, rticks, known, marks, tmarks, run, scan>>

Operator == SubmitForm \/ \E i \in DOMAIN web.jobs : DiscoveryStep(i) \/ DefaultsStep(i)

-----------------------------------------------------------------------------
(* run_search_cycle *)

Fresh == [booted |-> FALSE, cached |-> << >>, ticks |-> << >>, active |-> {}, engine |-> None,
          trusted |-> None, index |-> None, graph |-> None, sweep |-> TRUE]

Idle == [pc |-> "idle"]

Rest == scan' = Idle

DrainPools ==
  /\ scan.pc = "idle"
  /\ marks \cup tmarks # {} \/ ~run.booted
  /\ run' = IF run.booted THEN run
            ELSE [run EXCEPT !.booted = TRUE,
                    !.cached = [p \in {q \in Pools : redis[q] # 0} |-> redis[p]]]
  /\ scan' = [pc |-> "drain", changed |-> marks]
  /\ marks' = {}
  /\ UNCHANGED <<scen, redis, aged, rticks, known, tmarks, conf, web>>

(* The configuration is read again when it is due, or there is none yet. *)
Refreshed(due) ==
  LET read == run.engine = None \/ due
      trusted == TrustedFactories(Cases[scen].builtin, conf.registry)
      retrust == read /\ run.trusted # trusted
      retune == read /\ run.engine # PairConfigs(conf)
  IN  [run EXCEPT !.trusted = IF retrust THEN trusted ELSE @,
                  !.engine = IF retune THEN PairConfigs(conf) ELSE @,
                  !.sweep = @ \/ retrust,
                  !.index = IF retrust \/ retune THEN None ELSE @,
                  !.graph = IF retrust \/ retune THEN None ELSE @]

DrainTicks ==
  /\ scan.pc = "drain"
  /\ tmarks' = {}
  /\ IF scan.changed \cup tmarks = {} THEN Rest /\ UNCHANGED run
     ELSE /\ \E due \in BOOLEAN : run' = Refreshed(due)
          /\ scan' = [pc |-> "load", changed |-> scan.changed \cup tmarks, ticked |-> tmarks]
  /\ UNCHANGED <<scen, redis, aged, rticks, known, marks, conf, web>>

Ready(p, v) == QuoteReady(run.trusted, StateOf(p, v))

(* The states a cycle reads: not those of pools marked for their ticks alone. *)
ToLoad == {p \in scan.changed : p \notin scan.ticked \/ p \notin DOMAIN run.cached}

Loaded ==
  LET present == {p \in ToLoad : redis[p] # 0}
  IN  [p \in (DOMAIN run.cached \ ToLoad) \cup present |->
         IF p \in present THEN redis[p] ELSE run.cached[p]]

(* A pool read again is active when it may be quoted, however old it is. *)
Reactivated(cached) ==
  (run.active \ ToLoad) \cup {p \in ToLoad \cap DOMAIN cached : Ready(p, cached[p])}

\* Mutant of TopologyMoved: only appearing and vanishing pools count.
X_TopologyPresence(cached) ==
  \E p \in ToLoad : (p \in DOMAIN cached) # (p \in DOMAIN run.cached)

TopologyMoved(cached) ==
  \E p \in ToLoad :
    \/ (p \in DOMAIN cached) # (p \in DOMAIN run.cached)
    \/ /\ p \in DOMAIN cached \cap DOMAIN run.cached
       /\ Topology(StateOf(p, cached[p])) # Topology(StateOf(p, run.cached[p]))

(* refresh_active_pool_cache_if_due *)
Swept(cached) == {p \in DOMAIN cached : cached[p] > aged[p] /\ Ready(p, cached[p])}

(* force_changed_quote_ready_pools_active *)
Forced(cached) == {p \in scan.changed \cap DOMAIN cached : Ready(p, cached[p])}

Rebuilt(before, cached, active) ==
  LET states == [p \in active |-> cached[p]]
  IN  {[before EXCEPT !.index = [states |-> states, engine |-> run.engine],
                      !.graph = GraphSnapshot(states, tie)] :
       tie \in Permutations(Tied(states))}

LoadStates ==
  /\ scan.pc = "load"
  /\ LET cached == Loaded
         loaded == Reactivated(cached)
         stopped == DOMAIN cached = {} \/ ~known
         ticks == [p \in DOMAIN run.ticks \ (ToLoad \ DOMAIN cached) |-> run.ticks[p]]
     IN  \E sweep \in IF run.sweep THEN {TRUE} ELSE BOOLEAN :
           LET active == (IF sweep THEN Swept(cached) ELSE loaded) \cup Forced(cached)
               dirty == \/ run.index = None \/ TopologyMoved(cached)
                        \/ loaded # run.active \/ active # loaded
               after == [run EXCEPT !.cached = cached, !.ticks = ticks, !.active = active,
                                    !.sweep = FALSE]
           IN  IF stopped THEN /\ run' = [run EXCEPT !.cached = cached, !.ticks = ticks, !.active = loaded]
                               /\ Rest
               ELSE IF active = {} THEN run' = after /\ Rest
               ELSE /\ run' \in IF dirty THEN Rebuilt(after, cached, active) ELSE {after}
                    /\ scan' = [scan EXCEPT !.pc = "expand"]
  /\ UNCHANGED <<scen, feed>>

PathPools(path) == {path.steps[i].pool : i \in DOMAIN path.steps}

(* The dynamic paths at these places of the selection. *)
Dynamic(places) == {scan.selected[i] : i \in places}

(* select_search_paths_for_path_index *)
IndexPaths ==
  {path \in TwoHopPaths(run.index.states, run.index.engine) :
     PathPools(path) \cap scan.changed # {} /\ PathPools(path) \subseteq run.active}

Expand ==
  /\ scan.pc = "expand"
  /\ \E anchors \in SetToSeqs(Anchors(run.engine)), pools \in SetToSeqs(scan.changed) :
       \E found \in {ExpandAll(run.graph, CandidateEdges(run.graph, scan.changed), anchors, pools)} :
         LET dynamic == SelectPaths(found.cands)
         IN  scan' = [pc |-> "ticks", changed |-> scan.changed, ticked |-> scan.ticked,
                      seen |-> found.seen, capped |-> found.stop, selected |-> dynamic,
                      two |-> IndexPaths,
                      dyn |-> {i \in DOMAIN dynamic : PathPools(dynamic[i]) \subseteq run.active},
                      quoted |-> {}, pushed |-> {}, repairs |-> {}]
  /\ UNCHANGED <<scen, feed, run>>

(* load_tick_states_for_pools, with the fallback to Postgres, and the paths *)
(* without ticks taken out (missing_tick_pools_for_paths).                 *)
LoadTicks ==
  /\ scan.pc = "ticks"
  /\ LET pools == {p \in UNION {PathPools(path) : path \in scan.two \cup Dynamic(scan.dyn)} :
                     StateOf(p, run.cached[p]).variant \in V3Style}
     IN  \E expired \in {{}, DOMAIN run.ticks} :
           LET reload == {p \in pools : p \notin DOMAIN run.ticks \ expired \/ p \in scan.ticked}
               stored(p) == IF p \in reload /\ rticks[p] = 0 THEN Cases[scen].saved[p] ELSE rticks[p]
               ticks == [p \in DOMAIN run.ticks \cup reload |->
                           IF p \in reload THEN stored(p) ELSE run.ticks[p]]
               missing == {p \in pools : DOMAIN TicksOf(p, ticks[p]) = {}}
               quotable(path) == PathPools(path) \cap missing = {}
           IN  /\ rticks' = [p \in Pools |-> stored(p)]
               /\ run' = [run EXCEPT !.ticks = ticks]
               /\ scan' = [scan EXCEPT !.pc = "quote", !.two = {path \in @ : quotable(path)},
                                       !.dyn = {i \in @ : quotable(scan.selected[i])}]
  /\ UNCHANGED <<scen, redis, aged, known, marks, tmarks, conf, web>>

(* QuoteContext::from_pool_map *)
States == [p \in DOMAIN run.cached |-> StateOf(p, run.cached[p])]
Books == [p \in Pools |-> TicksOf(p, IF p \in DOMAIN run.ticks THEN run.ticks[p] ELSE 0)]

(* quote_and_publish_path_batch; the order of the two-hop paths is the hash map's. *)
QuoteBatch ==
  /\ scan.pc = "quote" /\ (scan.two # {} \/ scan.dyn # {})
  /\ LET size == Min({BatchSize, Cardinality(scan.two)})
         next == {i \in scan.dyn : Cardinality({j \in scan.dyn : j <= i}) <= BatchSize - size}
     IN  \E first \in kSubset(size, scan.two) :
           LET batch == first \cup Dynamic(next)
           IN  \E kept \in Coalesced(UNION {CandidatesOf(States, Books, path) : path \in batch}) :
                 scan' = [scan EXCEPT !.two = @ \ first,
                                      !.dyn = @ \ next,
                                      !.quoted = @ \cup batch,
                                      !.repairs = @ \cup UNION {RepairsOf(States, Books, path) : path \in batch},
                                      !.pushed = @ \cup {c \in kept : RiskAccepts(c, run.active)}]
  /\ UNCHANGED <<scen, feed, run>>

Finish ==
  /\ scan.pc = "quote" /\ scan.two = {} /\ scan.dyn = {}
  /\ Rest
  /\ UNCHANGED <<scen, feed, run>>

(* An error of Redis or Postgres ends the process; it starts again with nothing. *)
Die ==
  /\ scan.pc # "idle"
  /\ run' = Fresh
  /\ Rest
  /\ UNCHANGED <<scen, feed>>

Cycle == DrainPools \/ DrainTicks \/ LoadStates \/ Expand \/ LoadTicks \/ QuoteBatch \/ Finish

Around == (\E p \in Pools : Publish(p) \/ PublishTicks(p) \/ Age(p)) \/ Operator

Init ==
  /\ scen \in DOMAIN Cases
  /\ redis = Cases[scen].start
  /\ rticks = [p \in Pools |-> 0]
  /\ aged = [p \in Pools |-> 0]
  /\ known = FALSE
  /\ marks = {} /\ tmarks = {}
  /\ conf = Cases[scen].config
  /\ web = [done |-> 0, jobs |-> << >>]
  /\ run = Fresh
  /\ scan = Idle

Next == Cycle \/ Around \/ Die

Spec == Init /\ [][Next]_vars

-----------------------------------------------------------------------------
(* Every variable has its type; a pool is active only while its state is cached. *)
TypeOK ==
  /\ scen \in DOMAIN Cases
  /\ DOMAIN redis = Pools /\ DOMAIN aged = Pools /\ DOMAIN rticks = Pools
  /\ \A p \in Pools : redis[p] \in 0..Len(Cases[scen].states[p]) /\ aged[p] \in 0..redis[p]
                      /\ rticks[p] \in 0..Len(Cases[scen].ticks[p])
  /\ known \in BOOLEAN /\ marks \subseteq Pools /\ tmarks \subseteq Pools
  /\ web.done \in 0..Len(Cases[scen].forms)
  /\ run.active \subseteq DOMAIN run.cached /\ DOMAIN run.cached \subseteq Pools
  /\ scan.pc \in {"idle", "drain", "load", "expand", "ticks", "quote"}

(* Amounts are never searched with the least profit of one unit that stands in for *)
(* an absent one: whatever mixture of a pair's own amounts and its tokens' defaults *)
(* the forms leave behind, refused ones included, each comes with its own minimum.  *)
NoFallbackProfit ==
  LET given(own, least, scoped, all) ==
        LET source == Source(own, least, scoped, all) IN source.amounts # {} => source.min # None
      side(t, own, least) ==
        \A scope \in {"two", "multi"} :
          given(own, least, conf.defaults[t][scope], conf.defaults[t].all)
  IN  \A r \in conf.rows : side(r.token0, r.own0, r.min0) /\ side(r.token1, r.own1, r.min1)

(* Both hold of every state: monitor-web's rows, the registers of the searcher. *)
Consistent == TypeOK /\ NoFallbackProfit

(* When a cycle expands, the path index and the graph are those of the pools that *)
(* are active now, with their present topology and under the present engine: every *)
(* way a pool becomes active, inactive, trusted or changes shape rebuilds them.    *)
IndexCurrent ==
  scan.pc = "expand" =>
    /\ DOMAIN run.index.states = run.active /\ DOMAIN run.graph.states = run.active
    /\ run.index.engine = run.engine
    /\ \A p \in run.active :
         /\ Topology(StateOf(p, run.graph.states[p])) = Topology(StateOf(p, run.cached[p]))
         /\ Ready(p, run.cached[p])

(* All simple cycles of three or four pools from a token back to it. *)
SimpleCycles(edges, anchor) ==
  LET hop(a, b) == {e \in edges : e.in = a /\ e.out = b}
      others == {e.in : e \in edges} \ {anchor}
      three == {x \in others \X others : x[1] # x[2]}
      four == {x \in others \X others \X others : Cardinality(Range(x)) = 3}
      cycles == UNION {{<<e, f, g>> : e \in hop(anchor, x[1]), f \in hop(x[1], x[2]),
                                      g \in hop(x[2], anchor)} : x \in three}
                \cup UNION {{<<e, f, g, h>> : e \in hop(anchor, x[1]), f \in hop(x[1], x[2]),
                             g \in hop(x[2], x[3]), h \in hop(x[3], anchor)} : x \in four}
  IN  {c \in cycles : IsInjective([i \in DOMAIN c |-> c[i].pool])}

(* A scan that met no cap has looked at every simple cycle of three or four pools  *)
(* through a changed pool whose other edges are among the deepest of their token   *)
(* (or changed themselves), and at no other: none is lost between the segments     *)
(* before and after the changed edge, none is found under a wrong anchor.          *)
CyclesComplete ==
  scan.pc = "ticks" /\ ~scan.capped =>
    LET edges == GraphEdges(run.graph.states)
        next == CandidateEdges(run.graph, scan.changed)
        offered == UNION {Range(next[t]) : t \in DOMAIN next}
        cycles(t) == {c \in SimpleCycles(edges, t) :
                        \E i \in DOMAIN c : c[i].pool \in scan.changed
                                            /\ \A j \in DOMAIN c \ {i} : c[j] \in offered}
    IN  scan.seen = UNION {{<<a.token, c>> : c \in cycles(a.token)} : a \in Anchors(run.engine)}

(* The rough score drops nothing the exact quote would have published: a cycle the *)
(* scan saw and did not select has no amount that passes every gate of the quote,  *)
(* if the graph's copies of its pools are the cached states and no cap was met;    *)
(* pools of dropped cycles have the ticks the scan would have loaded.              *)
NoFalseDrop ==
  scan.pc = "quote" /\ ~scan.capped /\ Len(scan.selected) < PathCap =>
    LET books == [p \in Pools |->
                    IF p \in DOMAIN run.ticks THEN Books[p]
                    ELSE TicksOf(p, IF rticks[p] = 0 THEN Cases[scen].saved[p] ELSE rticks[p])]
        kept == {path.steps : path \in Range(scan.selected)}
        current(c) == \A i \in DOMAIN c : run.graph.states[c[i].pool] = run.cached[c[i].pool]
    IN  \A a \in Anchors(run.engine) :
          \A s \in scan.seen :
            s[1] = a.token /\ s[2] \notin kept /\ current(s[2]) =>
              \A x \in a.amounts : ~Passes(QuotePath(States, books, s[2], x), x, a.min)

(* When all paths are quoted, every path and amount that passed the gates of the   *)
(* quote has been published, or lost to a publication of the same token, amount    *)
(* and executor that earns no less: neither the coalescing of a batch nor the risk *)
(* gate loses a winner.                                                            *)
WinnersPublished ==
  scan.pc = "quote" /\ scan.two = {} /\ scan.dyn = {} =>
    \A path \in scan.quoted : \A c \in CandidatesOf(States, Books, path) :
      \E d \in scan.pushed : CoalesceKey(d) = CoalesceKey(c) /\ d.profit >= c.profit

SwapAmounts == 1..40

(* One swap of a pool: it pays no more than the reserves' invariant (or, without   *)
(* the fee, the spot price) allows, and a larger input never pays less.            *)
PaysFairly(s, in, out) ==
  LET side == Sides(s, in)
      good == {a \in SwapAmounts : out[a].why = ""}
  IN  /\ \A a \in good, b \in good : a < b => out[a].out <= out[b].out
      /\ \A a \in good :
           CASE s.variant \in V3Style ->
                  LET spot == SpotQuote(s.sqrt, in = s.token0, a)
                  IN spot = Failed \/ out[a].out <= spot
             [] s.variant = "AerodromeVolatile" /\ s.stable ->
                  StableK(side.in + a, side.out - out[a].out) >= StableK(side.in, side.out)
             [] OTHER -> (side.in + a) * (side.out - out[a].out) >= side.in * side.out

FairCases ==
  [c \in DOMAIN Cases |->
     \A p \in DOMAIN Cases[c].states : \A v \in DOMAIN Cases[c].states[p] :
       LET s == Cases[c].states[p][v]
           books == {<< >>} \cup Range(Cases[c].ticks[p])
       IN  IsSupported(s) => \A ticks \in books : \A in \in {s.token0, s.token1} :
             PaysFairly(s, in, [a \in SwapAmounts |-> ExactStep(s, ticks, in, a)])]

(* Newton's rounds of the stable pool, the walk over the ticks and the rounding of *)
(* every formula err on the side of the pool: no quote promises more than the      *)
(* pool's own curve, at any amount, in any state the scenarios reach.              *)
QuotesFair == FairCases[scen]

=============================================================================

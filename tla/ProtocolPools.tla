---------------------------- MODULE ProtocolPools ----------------------------
(* Pools of singleton contracts (Uniswap V4, Balancer V3): their logs become *)
(* rows of protocol_pool_observations, and the rows, once complete, states   *)
(* in Redis. market-data upserts logs and promotes rows block by block,      *)
(* pool-discovery promotes every second, the metadata hydrator upserts       *)
(* Initialize logs, and the Balancer classifier reads balances.              *)
EXTENDS Integers, Sequences, FiniteSetsExt

CONSTANTS
  V4, Balancer,  \* the pools
  Hooked,        \* V4 pools with hooks
  Weighted,      \* Balancer pools with two weighted tokens
  Enabled0,      \* Balancer pools that are in the registry already
  NoState,
  LogsAt,        \* for each block, its logs <<kind, pool>>
  Width,         \* more than the logs of any block
  Starts,        \* the blocks market-data may begin after
  Span,          \* SEALED_EVENT_MAX_BLOCK_SPAN
  Lookback,      \* --lookback-blocks
  MaxAge,        \* --max-observation-age-blocks
  Limit,         \* --limit: rows the hydrator looks for in a pass
  Scenarios,     \* the sets of processes that run together
  Failures,      \* bound on failed calls and restarts
  Scans          \* [Scenarios -> bound on runs by hand]

Pools == V4 \cup Balancer
Promoters == {"market", "discovery"}
Processes == Promoters \cup {"hydrator", "classifier"}
Blocks == 1..Len(LogsAt)

\* What is published: the pool's price at a block.
State == [pool : Pools, block : Blocks, price : Nat]

ASSUME ProtocolAssumption ==
  /\ V4 \cap Balancer = {} /\ Hooked \subseteq V4
  /\ Weighted \subseteq Balancer /\ Enabled0 \subseteq Balancer
  /\ LogsAt \in Seq(Seq({"initialize", "swap", "modify"} \X Pools))
  /\ Width \in Nat /\ \A b \in Blocks : Len(LogsAt[b]) < Width
  /\ Starts \subseteq 0..Len(LogsAt) /\ Span \in Nat \ {0}
  /\ Lookback \in Nat /\ MaxAge \in Nat /\ Limit \in Nat \ {0}
  /\ Scenarios \subseteq SUBSET Processes
  /\ Failures \in Nat /\ Scans \in [Scenarios -> Nat]

ASSUME NoStateIsNone == NoState \notin State

VARIABLES
  on,        \* the processes of this behaviour
  head,
  obs,       \* [Pools -> row of protocol_pool_observations]
  model,     \* [Balancer -> what pool_model_coverage has: stamp of the balances]
  registry,  \* pools of the pools table
  redis,     \* [Pools -> state, or NoState]
  recorded,  \* [Pools -> newest block in pool_states, 0 for none]
  queue,     \* records on their way to pool_states: <<promoter, pool, block>>
  watermark, \* chain:current_block
  m,         \* market-data: where it is, and the logs in hand
  prom,      \* [Promoters -> promotion under way]
  hyd,       \* the hydrator's batch
  faults, crashes, scans

rowVars == <<obs, model, registry>>
storeVars == <<redis, recorded, queue, watermark>>
vars == <<on, head, rowVars, storeVars, m, prom, hyd, faults, crashes, scans>>

-----------------------------------------------------------------------------
(* Logs. A log is known by its stamp, so that stamps order logs.             *)

Stamp(b, i) == b * Width + i

\* eth_getLogs of the singleton contracts
Logs == UNION {{[kind |-> LogsAt[b][i][1], pool |-> LogsAt[b][i][2], block |-> b, stamp |-> Stamp(b, i)] :
                  i \in 1..Len(LogsAt[b])} : b \in Blocks}

LogsIn(from, to) == {l \in Logs : from <= l.block /\ l.block <= to}

\* The log a loop over these logs comes to first.
Earliest(logs) == {l \in logs : \A k \in logs : l.stamp <= k.stamp}

\* What a loop over these logs may have come to when it ends early.
Prefixes(logs) == {got \in SUBSET logs : \A l \in got, k \in logs \ got : l.stamp < k.stamp}

\* What a log says: the fields that are not null.
HasMeta(log) == IF log.pool \in V4 THEN log.kind = "initialize" ELSE log.kind = "swap"
HasPrice(log) == log.pool \in V4 /\ log.kind \in {"initialize", "swap"}
HasLiquidity(log) == log.pool \in V4 /\ log.kind = "swap"

\* The price of each pool on chain, at the end of each block.
PriceStamps(p, b) == {0} \cup {l.stamp : l \in {k \in Logs : k.block <= b /\ k.pool = p /\ HasPrice(k)}}

Prices == [p \in V4 |-> [b \in 0..Len(LogsAt) |-> Max(PriceStamps(p, b))]]

NoRow == [status |-> "none", meta |-> FALSE, price |-> 0, liquidity |-> 0, first |-> 0, latest |-> 0]

\* Mutant of Upserted: COALESCE prefers what the row has.
Upserted_KeepsPrice(row, log) ==
  [status |-> "observed",
   meta |-> row.meta \/ HasMeta(log),
   price |-> IF HasPrice(log) /\ row.price = 0 THEN log.stamp ELSE row.price,
   liquidity |-> IF HasLiquidity(log) THEN log.stamp ELSE row.liquidity,
   first |-> IF row = NoRow THEN log.block ELSE Min({row.first, log.block}),
   latest |-> Max({row.latest, log.block})]

\* upsert_protocol_pool_observation: null fields keep what the row has
Upserted(row, log) ==
  [status |-> "observed",
   meta |-> row.meta \/ HasMeta(log),
   price |-> IF HasPrice(log) THEN log.stamp ELSE row.price,
   liquidity |-> IF HasLiquidity(log) THEN log.stamp ELSE row.liquidity,
   first |-> IF row = NoRow THEN log.block ELSE Min({row.first, log.block}),
   latest |-> Max({row.latest, log.block})]

Upsert(log) == obs' = [obs EXCEPT ![log.pool] = Upserted(@, log)]

\* The rows a promotion may take: metadata and price are complete, no hooks.
Quoteable(p) ==
  IF p \in V4
  THEN obs[p].meta /\ p \notin Hooked /\ obs[p].price > 0 /\ obs[p].liquidity > 0
  ELSE obs[p].meta /\ model[p] > 0

\* Mutant of Selected: the block bound is exclusive.
Selected_After(kind, min) ==
  {p \in (IF kind = "v4" THEN V4 ELSE Balancer) :
     Quoteable(p) /\ obs[p].latest > min /\ obs[p].latest > recorded[p]}

\* fetch_one of the rows to promote, from block min on
Selected(kind, min) ==
  {p \in (IF kind = "v4" THEN V4 ELSE Balancer) :
     Quoteable(p) /\ obs[p].latest >= min /\ obs[p].latest > recorded[p]}

\* uniswap_v4_state_from_row, balancer_v3_state_from_row
StateOf(p) ==
  [pool |-> p, block |-> obs[p].latest, price |-> IF p \in V4 THEN obs[p].price ELSE model[p]]

-----------------------------------------------------------------------------
NoPromotion ==
  [kind |-> "idle", min |-> 0, at |-> "select", rows |-> {}, row |-> NoState, done |-> {}]
NoScan == [pending |-> {}, logs |-> {}]

\* market-data after a block
Polling(b) == [at |-> "poll", seen |-> b, upto |-> b, inbox |-> {}, observed |-> FALSE]

Init ==
  /\ on \in Scenarios
  /\ head \in Starts
  /\ obs = [p \in Pools |-> NoRow]
  /\ model = [p \in Balancer |-> 0]
  /\ registry = Enabled0
  /\ redis = [p \in Pools |-> NoState]
  /\ recorded = [p \in Pools |-> 0]
  /\ queue = {} /\ watermark = head
  /\ m = Polling(head)
  /\ prom = [w \in Promoters |-> NoPromotion]
  /\ hyd = NoScan
  /\ faults = 0 /\ crashes = 0 /\ scans = 0

NewBlock ==
  /\ head < Len(LogsAt) /\ head' = head + 1
  /\ UNCHANGED <<on, rowVars, storeVars, m, prom, hyd, faults, crashes, scans>>

Fault(failed) == faults' = faults + (IF failed THEN 1 ELSE 0) /\ faults' + crashes <= Failures

-----------------------------------------------------------------------------
(* Promotion: one statement after another, then one publication.             *)


Begin(kind, min) == [NoPromotion EXCEPT !.kind = kind, !.min = min]

Promoting(w, at) == prom[w].kind # "idle" /\ prom[w].at = at

\* What follows the promotion of a kind: Balancer after V4, then the caller.
AfterKind(w) ==
  prom' = [prom EXCEPT ![w] = IF @.kind = "v4" THEN Begin("balancer", @.min) ELSE NoPromotion]

\* The SELECT
SelectRows(w) ==
  LET rows == {StateOf(p) : p \in Selected(prom[w].kind, prom[w].min)}
  IN /\ Promoting(w, "select")
     /\ prom' = [prom EXCEPT ![w].at = IF rows = {} THEN "publish" ELSE "pool", ![w].rows = rows]
     /\ UNCHANGED <<on, head, rowVars, storeVars, m, hyd, faults, crashes, scans>>

\* Newest rows first: its tokens, pair and pool.
WritePool(w) ==
  /\ Promoting(w, "pool")
  /\ \E s \in prom[w].rows :
       /\ \A t \in prom[w].rows : t.block <= s.block
       /\ registry' = registry \cup {s.pool}
       /\ prom' = [prom EXCEPT ![w].at = "mark", ![w].row = s, ![w].rows = @ \ {s}]
  /\ UNCHANGED <<on, head, obs, model, storeVars, m, hyd, faults, crashes, scans>>

\* The row in hand is done; the next one, or the publication.
NextRow(w) ==
  prom' = [prom EXCEPT ![w].row = NoState, ![w].done = @ \cup {prom[w].row},
                       ![w].at = IF prom[w].rows = {} THEN "publish" ELSE "pool"]

\* Mutant of MarkImported: the record is enqueued before the publication.
MarkImported_Records(w) ==
  LET s == prom[w].row
  IN /\ Promoting(w, "mark")
     /\ obs' = [obs EXCEPT ![s.pool].status = "imported"]
     /\ queue' = queue \cup {<<w, s.pool, s.block>>}
     /\ NextRow(w)
     /\ UNCHANGED <<on, head, model, registry, redis, recorded, watermark, m, hyd,
                    faults, crashes, scans>>

MarkImported(w) ==
  /\ Promoting(w, "mark")
  /\ obs' = [obs EXCEPT ![prom[w].row.pool].status = "imported"]
  /\ NextRow(w)
  /\ UNCHANGED <<on, head, model, registry, storeVars, m, hyd, faults, crashes, scans>>

\* PoolStateRecordQueue::enqueue: a batch that finds the queue full is dropped.
Enqueued(w, done, dropped) == queue \cup (IF dropped THEN {} ELSE {<<w, t.pool, t.block>> : t \in done})

\* publish_pool_states at the newest block of the promoted states, and enqueue
\* of their records.
PublishPromoted(w, dropped) ==
  LET done == prom[w].done
  IN /\ Promoting(w, "publish")
     /\ dropped \in BOOLEAN /\ (dropped => done # {}) /\ Fault(dropped)
     /\ redis' = [p \in Pools |-> IF \E s \in done : s.pool = p
                                  THEN CHOOSE s \in done : s.pool = p ELSE redis[p]]
     /\ watermark' = Max({watermark} \cup {s.block : s \in done})
     /\ queue' = Enqueued(w, done, dropped)
     /\ AfterKind(w)
     /\ UNCHANGED <<on, head, rowVars, recorded, m, hyd, crashes, scans>>

\* A statement of the promotion fails; pool-discovery starts again.
PromotionFails ==
  /\ Promoting("discovery", "pool") \/ Promoting("discovery", "mark")
  /\ Fault(TRUE)
  /\ prom' = [prom EXCEPT !["discovery"] = NoPromotion]
  /\ queue' = {r \in queue : r[1] # "discovery"}
  /\ UNCHANGED <<on, head, rowVars, redis, recorded, watermark, m, hyd, crashes, scans>>

\* record_pool_states_with_source: a row for each record, so the newest block
\* of each pool
Inserted(batch) == [p \in Pools |-> Max({recorded[p]} \cup {r[3] : r \in {q \in batch : q[2] = p}})]

\* What a flush may have taken from the queue: records of one process and source.
Batches ==
  {batch \in SUBSET queue : /\ batch # {}
                            /\ \A r, q \in batch : r[1] = q[1] /\ (r[2] \in V4 <=> q[2] \in V4)}

\* flush_pool_state_records: a batch that fails is logged and lost.
Flush(batch, failed) ==
  /\ Fault(failed)
  /\ recorded' = IF failed THEN recorded ELSE Inserted(batch)
  /\ queue' = queue \ batch
  /\ UNCHANGED <<on, head, rowVars, redis, watermark, m, prom, hyd, crashes, scans>>

Record == \E batch \in Batches : Flush(batch, FALSE)
RecordFails == \E batch \in Batches : Flush(batch, TRUE)

Promote(w) ==
  \/ SelectRows(w) \/ WritePool(w) \/ MarkImported(w)
  \/ \E dropped \in BOOLEAN : PublishPromoted(w, dropped)

DiscoveryTick ==
  /\ "discovery" \in on /\ prom["discovery"].kind = "idle"
  /\ Selected("v4", 0) \cup Selected("balancer", 0) # {}
  /\ prom' = [prom EXCEPT !["discovery"] = Begin("v4", 0)]
  /\ UNCHANGED <<on, head, rowVars, storeVars, m, hyd, faults, crashes, scans>>

-----------------------------------------------------------------------------
(* market-data: one turn of run, as far as the protocol logs go.             *)

\* A failed getLogs counts as no logs.
MarketPoll(failed) ==
  /\ "market" \in on /\ m.at = "poll" /\ m.seen < head
  /\ LET upto == Min({head, m.seen + Span})
         logs == IF failed THEN {} ELSE LogsIn(m.seen + 1, upto)
     IN m' = [m EXCEPT !.at = "logs", !.upto = upto, !.inbox = logs, !.observed = (logs # {})]
  /\ Fault(failed)
  /\ UNCHANGED <<on, head, rowVars, storeVars, prom, hyd, crashes, scans>>

MarketLog ==
  /\ m.at = "logs"
  /\ \E l \in Earliest(m.inbox) : Upsert(l) /\ m' = [m EXCEPT !.inbox = @ \ {l}]
  /\ UNCHANGED <<on, head, model, registry, storeVars, prom, hyd, faults, crashes, scans>>

MarketPromote ==
  /\ m.at = "logs" /\ m.inbox = {}
  /\ m' = [m EXCEPT !.at = "promote"]
  /\ prom' = [prom EXCEPT !["market"] =
               IF m.observed THEN Begin("v4", m.seen + 1) ELSE NoPromotion]
  /\ UNCHANGED <<on, head, rowVars, storeVars, hyd, faults, crashes, scans>>

\* The watermark, once the monitored pools are published (PoolStateCache)
MarketAdvance ==
  /\ m.at = "promote" /\ prom["market"].kind = "idle"
  /\ m' = [m EXCEPT !.at = "poll", !.seen = m.upto]
  /\ watermark' = Max({watermark, m.upto})
  /\ UNCHANGED <<on, head, rowVars, redis, recorded, queue, prom, hyd, faults, crashes,
                 scans>>

\* The process dies and goes on after chain:current_block.
MarketRestart ==
  /\ "market" \in on /\ crashes + faults < Failures /\ crashes' = crashes + 1
  /\ m' = Polling(watermark)
  /\ prom' = [prom EXCEPT !["market"] = NoPromotion]
  /\ queue' = {r \in queue : r[1] # "market"}
  /\ UNCHANGED <<on, head, rowVars, redis, recorded, watermark, hyd, faults, scans>>

Market ==
  \/ MarketLog \/ MarketPromote \/ MarketAdvance
  \/ \E failed \in BOOLEAN : MarketPoll(failed)
  \/ Promote("market")

-----------------------------------------------------------------------------
(* hydrate_uniswap_v4_observations and classify_balancer_v3_models.          *)

\* fetch_missing_observations
Missing ==
  {p \in V4 : /\ obs[p] # NoRow /\ ~obs[p].meta /\ obs[p].status # "not found"
              /\ obs[p].first >= head - MaxAge}

\* Its LIMIT: the rows with the most logs, whichever these are.
WantedRows == {S \in SUBSET Missing : Cardinality(S) = Min({Limit, Cardinality(Missing)})}

\* The Initialize logs of a scan: it begins before the rows it looks for.
InitializesFrom(from, wanted) ==
  {l \in LogsIn(from, head) : l.kind = "initialize" /\ l.pool \in wanted}

\* One pass of the loop, when there is something to look for; a chunk that cannot
\* be fetched ends it, and nothing is left to be marked.
HydratePass ==
  /\ "hydrator" \in on /\ hyd = NoScan /\ Missing # {}
  /\ \E wanted \in WantedRows :
       LET from == Min({head - Lookback} \cup {obs[p].first - 1 : p \in wanted})
           logs == InitializesFrom(from, wanted)
       IN \E got \in Prefixes(logs) :
            /\ Fault(got # logs)
            /\ hyd' = [pending |-> IF got # logs THEN {} ELSE wanted, logs |-> got]
  /\ UNCHANGED <<on, head, rowVars, storeVars, m, prom, crashes, scans>>

\* --manager-scan, by hand: every pool is hydrated, also complete ones.
HydrateManager ==
  /\ "hydrator" \in on /\ hyd = NoScan /\ scans < Scans[on] /\ scans' = scans + 1
  /\ hyd' = [pending |-> {}, logs |-> InitializesFrom(head - Lookback, V4)]
  /\ UNCHANGED <<on, head, rowVars, storeVars, m, prom, faults, crashes>>

HydrateLog ==
  /\ \E l \in Earliest(hyd.logs) :
       /\ Upsert(l)
       /\ hyd' = [pending |-> hyd.pending \ {l.pool}, logs |-> hyd.logs \ {l}]
  /\ UNCHANGED <<on, head, model, registry, storeVars, m, prom, faults, crashes, scans>>

\* With --mark-not-found, by hand, what is left is not looked for again.
HydrateEnd(mark) ==
  /\ hyd # NoScan /\ hyd.logs = {}
  /\ mark => hyd.pending # {} /\ scans < Scans[on]
  /\ scans' = scans + (IF mark THEN 1 ELSE 0)
  /\ obs' = [p \in Pools |-> IF mark /\ p \in hyd.pending /\ obs[p] # NoRow
                             THEN [obs[p] EXCEPT !.status = "not found"] ELSE obs[p]]
  /\ hyd' = NoScan
  /\ UNCHANGED <<on, head, model, registry, storeVars, m, prom, faults, crashes>>

Hydrate == HydratePass \/ HydrateLog \/ HydrateEnd(FALSE)

\* classify_pool of a pool that the registry has, at the head
Classify(p) ==
  /\ "classifier" \in on /\ scans < Scans[on] /\ scans' = scans + 1
  /\ p \in registry \cap Balancer
  /\ model' = [model EXCEPT ![p] = IF p \in Weighted THEN Stamp(head, 0) ELSE 0]
  /\ UNCHANGED <<on, head, obs, registry, storeVars, m, prom, hyd, faults, crashes>>

-----------------------------------------------------------------------------
Next ==
  \/ NewBlock \/ Market \/ MarketRestart
  \/ DiscoveryTick \/ Promote("discovery") \/ PromotionFails
  \/ Record \/ RecordFails
  \/ Hydrate \/ HydrateManager \/ HydrateEnd(TRUE)
  \/ \E p \in Balancer : Classify(p)

Spec == Init /\ [][Next]_vars

\* Every process is a polling loop that its container restarts.
FairSpec ==
  /\ Spec
  /\ WF_vars(Market) /\ WF_vars(DiscoveryTick \/ Promote("discovery"))
  /\ WF_vars(Record) /\ WF_vars(Hydrate)

-----------------------------------------------------------------------------
Row == [status : {"none", "observed", "imported", "not found"}, meta : BOOLEAN,
        price : Nat, liquidity : Nat, first : Nat, latest : Nat]

Promotion == [kind : {"idle", "v4", "balancer"}, min : Nat,
              at : {"select", "pool", "mark", "publish"},
              rows : SUBSET State, row : State \cup {NoState}, done : SUBSET State]

TypeOK ==
  /\ on \in Scenarios /\ head \in 0..Len(LogsAt)
  /\ obs \in [Pools -> Row] /\ model \in [Balancer -> Nat] /\ registry \subseteq Pools
  /\ redis \in [Pools -> State \cup {NoState}]
  /\ recorded \in [Pools -> Nat]
  /\ \A p \in Pools : /\ obs[p].first <= obs[p].latest /\ obs[p].latest <= head
                      /\ recorded[p] <= obs[p].latest
  /\ queue \subseteq Promoters \X Pools \X Blocks /\ watermark \in 0..head
  /\ m \in [at : {"poll", "logs", "promote"}, seen : 0..head, upto : 0..head,
            inbox : SUBSET Logs, observed : BOOLEAN]
  /\ prom \in [Promoters -> Promotion]
  /\ hyd \in [pending : SUBSET V4, logs : SUBSET Logs]
  /\ faults \in Nat /\ crashes \in Nat /\ faults + crashes <= Failures
  /\ scans \in 0..Scans[on]

\* The state of a V4 pool says the price of its block, or one within the block when
\* pool-discovery promotes the row between two of its upserts; while no log is lost,
\* replayed or hydrated over a newer one (upsert_protocol_pool_observation, both promoters).
PriceWithinBlock ==
  "hydrator" \notin on /\ crashes = 0 /\ faults = 0 =>
    \A p \in V4 : redis[p] # NoState =>
      /\ Prices[p][redis[p].block - 1] <= redis[p].price
      /\ redis[p].price <= Prices[p][redis[p].block]

\* A row that says imported has its pool in the registry, whichever statement fails
\* and whoever writes the row meanwhile (promote_quoteable_uniswap_v4_pools).
ImportedInRegistry == \A p \in Pools : obs[p].status = "imported" => p \in registry

\* What pool_states knows, by which rows are selected, is in Redis: a pool is not
\* taken for promoted when it is not, also after a restart (publish before enqueue).
RecordedIsPublished == \A p \in Pools : recorded[p] > 0 => redis[p] # NoState

\* Both hold of every state, and every variable has its type.
ProtocolSound == TypeOK /\ ImportedInRegistry /\ RecordedIsPublished

\* market-data alone brings every V4 pool to its last price, when no call fails
\* (the block bound and the comparison with pool_states lose no row).
CatchesUp ==
  on = {"market"} =>
    <>[](crashes + faults > 0 \/ \A p \in V4 : Quoteable(p) =>
           redis[p] # NoState /\ redis[p].price = Prices[p][head])

\* V4 pools whose row is complete and that are not searched yet.
Unpromoted == {p \in V4 : Quoteable(p) /\ (p \notin registry \/ redis[p] = NoState)}

\* A V4 pool whose row is complete gets into the registry and into Redis, also when
\* market-data dies or a record is dropped or lost (the promotion of pool-discovery).
QuoteableGetsPromoted == "discovery" \in on => []<>(Unpromoted = {})

\* Pools whose Initialize log the next pass of the hydrator has in its range.
Findable ==
  {p \in Missing : \E l \in Logs :
     l.kind = "initialize" /\ l.pool = p /\ l.block \in (head - Lookback)..head}

\* The hydrator finds the metadata of a young pool that was first seen after its
\* Initialize log, unless the chain outruns it (hydrate_batch begins before the lookback)
\* or rows whose Initialize log is out of its range fill the limit of every pass.
MetadataArrives ==
  "hydrator" \in on => []<>(Findable = {} \/ Cardinality(Missing \ Findable) >= Limit)


=============================================================================

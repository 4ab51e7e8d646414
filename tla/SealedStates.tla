----------------------------- MODULE SealedStates -----------------------------
(***************************************************************************)
(* What the sealed loop of market-data knows of a pool                     *)
(* (crates/market-data/src/listener.rs, run), word by word: the two words  *)
(* of its price (reserves, or square-root price and liquidity) and its     *)
(* fee.  The words come from Sync and Swap logs and, after a Mint or Burn, *)
(* from calls at the log's block; the fee from a call at the block of the  *)
(* pool's last Sync or Swap (crates/chain/src/provider.rs).  Two blocks    *)
(* later a copy of every state is compared with the chain and the verdict  *)
(* recorded.  A pool whose startup read fails is skipped: its logs are not *)
(* fetched and Redis keeps its old state until a reload can read it.       *)
(*                                                                         *)
(* PoolStateCache models the loop against Flashblocks and the searcher,    *)
(* with a version in place of the words; here the loop is alone and its    *)
(* reads, their failures, the crashes and a reorganization are apart.      *)
(* Logs that move neither a word nor a tick are left out, ticks are in     *)
(* TickStore, changes of the registry in PoolRegistry.                     *)
(***************************************************************************)
EXTENDS Integers, Sequences, FiniteSets

CONSTANTS
  Classic,     \* Aerodrome Classic pools (AerodromeVolatile)
  Slipstream,  \* Aerodrome Slipstream pools, whose fee moves
  UniswapV3,   \* Uniswap and Pancake V3 pools, whose fee is the registry's
  Words, Word0,\* what a word may be, and is at first
  Fees, Fee0,  \* the same of a fee
  Span,        \* SEALED_EVENT_MAX_BLOCK_SPAN
  Delay,       \* VALIDATION_DELAY_BLOCKS
  None,        \* "nothing"
  Registries,  \* the sets of pools to consider
  MaxBlock, MaxLogs, MaxFaults, MaxCrashes, MaxReorgs   \* bounds

Aerodrome == Classic \cup Slipstream
V3Style   == Slipstream \cup UniswapV3
SealedPools     == Aerodrome \cup UniswapV3

\* PoolState
State == [price : Words, depth : Words, fee : Fees, block : Nat]

VARIABLES
  head,      \* the latest sealed block
  log,       \* what has moved a word or a fee; block head + 1 is being built
  current,   \* Redis chain:current_block
  redis,     \* Redis pool:<chain>:<address>
  pc,        \* where the loop is
  states,    \* its monitored_states
  todo, half,\* pools it has still to load, the one it has half loaded
  seen,      \* its last_seen_block
  upto,      \* the last block of its chunk
  changed,   \* changed_pools of the chunk
  snaps,     \* validation_snapshots of the chunk
  jobs,      \* the block to read each pool's fee at, 0 for none
  recent,    \* recent_logs
  pending,   \* pending_validations
  verdict,   \* the validation it has recorded last
  missed,    \* history: logs the loop fetched and did not apply
  feeLost,   \* history: pools whose last fee call failed
  unread,    \* history: pools whose last read at startup or reload failed
  orphans,   \* history: blocks that were replaced
  enabled,   \* the pools of the registry, chosen once
  faults, crashes

chainVars == <<head, log, orphans, enabled>>
redisVars == <<current, redis>>
loadVars  == <<todo, half>>
chunkVars == <<upto, changed, snaps, jobs>>
pastVars  == <<missed, feeLost, unread>>
vars == <<chainVars, redisVars, pc, states, loadVars, seen, chunkVars, recent,
          pending, verdict, pastVars, faults, crashes>>

------------------------------------------------------------------------------
(* The chain, as the provider's calls return it *)

\* The last entry of p of these kinds among the first n; 0 for none.
LastOf(p, kinds, n) ==
  LET S == {i \in 1..n : log[i].pool = p /\ log[i].kind \in kinds}
  IN IF S = {} THEN 0 ELSE CHOOSE i \in S : \A j \in S : j <= i

Value(i, first) == IF i = 0 THEN first ELSE log[i].value

PriceAfter(p, n) == Value(LastOf(p, {"sync", "swap"}, n), Word0)
DepthAfter(p, n) == Value(LastOf(p, {"mint"}, n), Word0)
FeeAfter(p, n)   == Value(LastOf(p, {"fee"}, n), Fee0)

\* How much of the log the blocks up to b hold.
Through(b) == Cardinality({i \in DOMAIN log : log[i].block <= b})

\* fetch_aerodrome_reserves_at_block_hash: it fails on a V3-style pool.
ReservesAt(p, b) ==
  IF p \in Classic
  THEN [price |-> PriceAfter(p, Through(b)), depth |-> DepthAfter(p, Through(b))]
  ELSE None

\* slot0() and liquidity()
Slot0At(p, b) ==
  [price |-> PriceAfter(p, Through(b)), depth |-> DepthAfter(p, Through(b))]

\* fetch_aerodrome_pool_state_at_block_hash
AerodromeStateAt(p, b) ==
  IF ReservesAt(p, b) # None THEN ReservesAt(p, b) ELSE Slot0At(p, b)

\* fetch_aerodrome_classic_fee_bps_at_block_hash: the factory's answer, or the
\* pool's own.  down: neither answers.
ClassicFeeAt(p, b, down) == IF down THEN None ELSE FeeAfter(p, Through(b))

\* fetch_aerodrome_slipstream_fee_pips_at_block_hash
SlipstreamFeeAt(p, b, down) == IF down THEN None ELSE FeeAfter(p, Through(b))

\* fetch_aerodrome_classic_fee_bps_for_entry_at_block_hash: the fee the caller
\* already has stands in for one that cannot be read.
ClassicFeeForEntry(p, b, own, down) ==
  IF ClassicFeeAt(p, b, down) # None THEN ClassicFeeAt(p, b, down)
  ELSE IF own > 0 THEN own ELSE None

Joined(words, fee, b) ==
  IF words = None \/ fee = None THEN None
  ELSE [price |-> words.price, depth |-> words.depth, fee |-> fee, block |-> b]

\* fetch_pool_state_from_registry_at_block_hash, of an entry with fee own
PoolStateAt(p, b, own, feeDown) ==
  IF p \in UniswapV3 THEN Joined(Slot0At(p, b), own, b)
  ELSE Joined(AerodromeStateAt(p, b),
              IF p \in Slipstream THEN SlipstreamFeeAt(p, b, feeDown)
              ELSE ClassicFeeForEntry(p, b, own, feeDown), b)

------------------------------------------------------------------------------
Init ==
  /\ head = 1 /\ log = <<>> /\ orphans = {}
  /\ enabled \in Registries
  /\ current = 1
  /\ redis = [p \in SealedPools |-> None]
  /\ pc = "load" /\ states = [p \in SealedPools |-> None]
  /\ todo = enabled /\ half = None
  /\ seen = 0 /\ upto = 0 /\ changed = {} /\ snaps = {}
  /\ jobs = [p \in SealedPools |-> 0]
  /\ recent = {} /\ pending = {} /\ verdict = None
  /\ missed = {} /\ feeLost = {} /\ unread = {}
  /\ faults = 0 /\ crashes = 0

------------------------------------------------------------------------------
(* Base chain *)

\* decode_event_type: the logs of each kind of pool; a fee leaves no log.
Kinds(p) ==
  CASE p \in Classic    -> {"sync", "fee"}
    [] p \in Slipstream -> {"swap", "mint", "fee"}
    [] p \in UniswapV3  -> {"swap", "mint"}

\* What a transaction of this kind may change the pool's value to.
NewValues(p, kind) ==
  CASE kind = "fee"  -> Fees \ {FeeAfter(p, Len(log))}
    [] kind = "mint" -> Words \ {DepthAfter(p, Len(log))}
    [] OTHER         -> Words \ {PriceAfter(p, Len(log))}

Emit(p, kind) ==
  /\ Len(log) < MaxLogs /\ head < MaxBlock
  /\ \E v \in NewValues(p, kind) :
       log' = Append(log, [pool |-> p, kind |-> kind, value |-> v, block |-> head + 1])
  /\ UNCHANGED <<head, orphans, enabled, redisVars, pc, states, loadVars, seen, chunkVars,
                 recent, pending, verdict, pastVars, faults, crashes>>

Seal ==
  /\ head < MaxBlock
  /\ head' = head + 1
  /\ UNCHANGED <<log, orphans, enabled, redisVars, pc, states, loadVars, seen, chunkVars,
                 recent, pending, verdict, pastVars, faults, crashes>>

\* The latest block is replaced by an empty one of the same number; its
\* transactions are in the block being built.
Reorg ==
  /\ Cardinality(orphans) < MaxReorgs /\ head < MaxBlock
  /\ \E i \in DOMAIN log : log[i].block = head
  /\ log' = [i \in DOMAIN log |->
               IF log[i].block = head THEN [log[i] EXCEPT !.block = head + 1] ELSE log[i]]
  /\ orphans' = orphans \cup {head}
  /\ UNCHANGED <<head, enabled, redisVars, pc, states, loadVars, seen, chunkVars, recent,
                 pending, verdict, pastVars, faults, crashes>>

------------------------------------------------------------------------------
(* Startup and reload: load_monitored_states, reload_if_changed, both at the *)
(* latest block                                                              *)

\* The words of an Aerodrome pool are read at a block, its fee later; a V3
\* pool's square-root price comes first, its liquidity and block later
\* (fetch_pool_state_from_registry_at_block without a block).  A pool that
\* cannot be read is skipped.
LoadWords(down) ==
  /\ pc \in {"load", "reload"} /\ half = None /\ todo # {}
  /\ down => faults < MaxFaults
  /\ faults' = IF down THEN faults + 1 ELSE faults
  /\ LET p == CHOOSE q \in todo : TRUE
     IN \/ /\ ~down
           /\ half' = p
           /\ states' = [states EXCEPT ![p] = Joined(Slot0At(p, head), Fee0, head)]
           /\ UNCHANGED <<todo, unread>>
        \/ /\ down
           /\ todo' = todo \ {p} /\ unread' = unread \cup {p}
           /\ UNCHANGED <<half, states>>
  /\ UNCHANGED <<chainVars, redisVars, pc, seen, chunkVars, recent, pending, verdict,
                 missed, feeLost, crashes>>

\* What the second call makes of the pool; without its fee a Classic pool has the
\* registry's, a Slipstream pool is not loaded.
LoadedFee(p, down) ==
  IF p \in Slipstream THEN SlipstreamFeeAt(p, head, down)
  ELSE ClassicFeeForEntry(p, head, Fee0, down)

Rest(p, down) ==
  IF p \in Aerodrome
  THEN Joined(states[p], LoadedFee(p, down), states[p].block)
  ELSE IF down THEN None ELSE [states[p] EXCEPT !.depth = Slot0At(p, head).depth,
                                                !.block = head]

LoadRest(down) ==
  /\ pc \in {"load", "reload"} /\ half # None
  /\ down => faults < MaxFaults
  /\ faults' = IF down THEN faults + 1 ELSE faults
  /\ LET rest == Rest(half, down)
     IN /\ states' = [states EXCEPT ![half] = rest]
        /\ unread' = IF rest = None THEN unread \cup {half} ELSE unread \ {half}
        /\ feeLost' = IF down /\ rest # None THEN feeLost \cup {half} ELSE feeLost
        /\ changed' = IF pc = "reload" /\ rest # None THEN changed \cup {half} ELSE changed
  /\ todo' = todo \ {half} /\ half' = None
  /\ UNCHANGED <<chainVars, redisVars, pc, seen, upto, snaps, jobs, recent, pending,
                 verdict, missed, crashes>>

\* publish_pool_states
Published(S) == [p \in SealedPools |-> IF p \in S THEN states[p] ELSE redis[p]]

\* Where the loop starts, from the stored block
StartBlock == IF current <= head THEN current ELSE head

\* last_seen_block; publish_monitored_states_at_block, of the pools that were
\* loaded.  SET_CURRENT_BLOCK_IF_NEWER never lowers the stored block.
Synchronize ==
  /\ pc = "load" /\ todo = {}
  /\ seen' = StartBlock
  /\ redis' = Published({p \in enabled : states[p] # None})
  /\ pc' = "poll"
  /\ UNCHANGED <<chainVars, current, states, loadVars, chunkVars, recent, pending,
                 verdict, pastVars, faults, crashes>>

\* The last block of the next chunk; 0: the head is not newer than last_seen_block.
LatestBlock ==
  IF head <= seen THEN 0 ELSE IF head < seen + Span THEN head ELSE seen + Span

\* reload_if_changed, when the interval is over: pools of the registry that are
\* not monitored are read again, after latest_block was computed.
Reload ==
  /\ pc = "poll" /\ upto = 0
  /\ todo' = {p \in enabled : states[p] = None} /\ todo' # {}
  /\ upto' = LatestBlock /\ pc' = "reload"
  /\ UNCHANGED <<chainVars, redisVars, states, half, seen, changed, snaps, jobs, recent,
                 pending, verdict, pastVars, faults, crashes>>

\* publish_selected_states: the newest block of what is published counts.
Newest == {states[p].block : p \in changed}

Publish ==
  /\ redis' = Published(changed)
  /\ current' = CHOOSE b \in Newest \cup {current} : \A o \in Newest \cup {current} : o <= b

EndReload ==
  /\ pc = "reload" /\ todo = {}
  /\ Publish
  /\ changed' = {} /\ pc' = "poll"
  /\ UNCHANGED <<chainVars, states, loadVars, seen, upto, snaps, jobs, recent, pending,
                 verdict, pastVars, faults, crashes>>

------------------------------------------------------------------------------
(* One chunk of sealed blocks *)

\* fetch_relevant_events_for_pools: the positions of the logs of monitored pools.
Events(lo, hi) ==
  {i \in DOMAIN log : /\ log[i].block \in lo..hi /\ log[i].kind # "fee"
                      /\ states[log[i].pool] # None}

IsLiquidity(i) == log[i].pool \in V3Style /\ log[i].kind = "mint"

\* Mutant of Snapshots: the first of a block wins.
X_Snapshots_First(S, new) ==
  S \cup {n \in new : \A s \in S : s.pool # n.pool \/ s.state.block # n.state.block}

\* validation_snapshots.insert: one for each block and pool, the last wins.
Snapshots(S, new) ==
  {s \in S : \A n \in new : s.pool # n.pool \/ s.state.block # n.state.block} \cup new

\* The effect of log i on what the loop has so far.  A liquidity log seen
\* before ends the loop over the chunk.
Touched(acc, p, state) ==
  [acc EXCEPT !.states = [@ EXCEPT ![p] = state],
              !.changed = @ \cup {p},
              !.snaps = Snapshots(@, {[pool |-> p, state |-> state]})]

\* apply_event_to_pool_state
FromLog(state, i) ==
  [state EXCEPT !.price = PriceAfter(log[i].pool, i),
                !.depth = IF log[i].kind = "swap" THEN DepthAfter(log[i].pool, i) ELSE @,
                !.block = log[i].block]

\* Mutant of Due: the block of its first one.
X_Due_First(js, p, b) ==
  IF p \in Aerodrome /\ js[p] = 0 THEN [js EXCEPT ![p] = b] ELSE js

\* A fee is due at the block of the pool's last Sync or Swap.
Due(js, p, b) == IF p \in Aerodrome THEN [js EXCEPT ![p] = b] ELSE js

\* refresh_v3_state_at_block
Refreshed(state, p, b) == PoolStateAt(p, b, state.fee, FALSE)

ApplyLog(acc, i, down) ==
  LET p == log[i].pool
  IN IF acc.stopped THEN [acc EXCEPT !.missed = @ \cup {i}]
     ELSE IF IsLiquidity(i)
     THEN IF i \in recent THEN [acc EXCEPT !.stopped = TRUE, !.missed = @ \cup {i}]
          ELSE IF i \in down THEN [acc EXCEPT !.missed = @ \cup {i}]
          ELSE Touched(acc, p, Refreshed(acc.states[p], p, log[i].block))
     ELSE [Touched(acc, p, FromLog(acc.states[p], i)) EXCEPT
             !.jobs = Due(@, p, log[i].block)]

\* What the loop has after the logs of es, in their order.
Begun == [states |-> states, changed |-> {}, snaps |-> {}, missed |-> {},
          jobs |-> [p \in SealedPools |-> 0], stopped |-> FALSE]

Applied(es, down) ==
  LET after[n \in 0..Len(log)] ==
        IF n = 0 THEN Begun
        ELSE IF n \in es THEN ApplyLog(after[n - 1], n, down) ELSE after[n - 1]
  IN after[Len(log)]

\* The logs of down are the ones whose refresh fails.
Chunk ==
  /\ pc = "poll" /\ (upto > 0 \/ head > seen)
  /\ upto' = IF upto > 0 THEN upto ELSE LatestBlock
  /\ LET es == Events(seen + 1, upto')
     IN \E down \in SUBSET {i \in es : IsLiquidity(i) /\ i \notin recent} :
          LET acc == Applied(es, down)
          IN /\ faults + Cardinality(down) <= MaxFaults
             /\ faults' = faults + Cardinality(down)
             /\ states' = acc.states /\ changed' = acc.changed
             /\ snaps' = acc.snaps /\ jobs' = acc.jobs
             /\ missed' = (missed \ es) \cup acc.missed
             /\ recent' = recent \cup es
  /\ pc' = "fees"
  /\ UNCHANGED <<chainVars, redisVars, loadVars, seen, pending, verdict, feeLost,
                 unread, crashes>>

\* The fee jobs, each at the hash of its block; a failed one retains the fee.
FeeRead(p, down) ==
  IF p \in Classic THEN ClassicFeeAt(p, jobs[p], p \in down)
  ELSE SlipstreamFeeAt(p, jobs[p], p \in down)

WithFee(state, fee) == IF fee = None THEN state ELSE [state EXCEPT !.fee = fee]

RefreshFees ==
  /\ pc = "fees"
  /\ LET asked == {p \in SealedPools : jobs[p] > 0}
     IN \E down \in SUBSET asked :
          /\ faults + Cardinality(down) <= MaxFaults
          /\ faults' = faults + Cardinality(down)
          /\ states' = [p \in SealedPools |->
               IF p \in asked THEN WithFee(states[p], FeeRead(p, down)) ELSE states[p]]
          /\ snaps' = Snapshots(snaps, {[pool |-> p, state |-> states'[p]] : p \in asked \ down})
          /\ feeLost' = (feeLost \ asked) \cup down
  /\ pc' = "publish"
  /\ UNCHANGED <<chainVars, redisVars, loadVars, seen, upto, changed, jobs, recent,
                 pending, verdict, missed, unread, crashes>>

\* publish_selected_states; enqueue_validation_snapshots
PublishStates ==
  /\ pc = "publish"
  /\ Publish
  /\ pending' = pending \cup snaps
  /\ snaps' = {} /\ pc' = "advance"
  /\ UNCHANGED <<chainVars, states, loadVars, seen, upto, changed, jobs, recent,
                 verdict, pastVars, faults, crashes>>

Advance ==
  /\ pc = "advance"
  /\ seen' = upto
  /\ current' = IF upto > current THEN upto ELSE current
  /\ changed' = {} /\ jobs' = [p \in SealedPools |-> 0] /\ upto' = 0 /\ pc' = "poll"
  /\ UNCHANGED <<chainVars, redis, states, loadVars, snaps, recent, pending, verdict,
                 pastVars, faults, crashes>>

------------------------------------------------------------------------------
(* Delayed validation *)

Gap(a, b) == IF a > b THEN a - b ELSE b - a

Infinite == 2^30

\* value_drift_bps
ValueDrift(local, onchain) ==
  IF local = onchain THEN 0
  ELSE IF onchain = 0 THEN Infinite
  ELSE (Gap(local, onchain) * 10000) \div onchain

\* A tick spans a basis point of the price.
Tick(price) == price \div 4

\* tick_drift
TickDrift(local, onchain) == Gap(Tick(local), Tick(onchain))

\* aerodrome_fee_drift_bps: in basis points, of pips for a Slipstream pool.
FeeDrift(p, local, onchain) ==
  IF p \in Slipstream
  THEN (Gap(local, onchain) + 99) \div 100
  ELSE Gap(local, onchain)

Largest(S) == CHOOSE m \in S : \A n \in S : n <= m

WordDrift(p, local, onchain) ==
  Largest({ValueDrift(local.price, onchain.price), ValueDrift(local.depth, onchain.depth)}
          \cup (IF p \in V3Style THEN {TickDrift(local.price, onchain.price)} ELSE {}))

\* state_drift_bps
Drift(p, local, onchain) ==
  Largest({WordDrift(p, local, onchain)}
          \cup (IF p \in Aerodrome THEN {FeeDrift(p, local.fee, onchain.fee)} ELSE {}))

\* The front of the queue, when it is old enough.
Oldest == {s \in pending : /\ \A o \in pending : s.state.block <= o.state.block
                           /\ s.state.block + Delay <= head}

\* validate_due_snapshots, one item; record_pool_state_validation
Verdict(s, onchain, feeDown) ==
  [pool |-> s.pool, local |-> s.state, onchain |-> onchain,
   passed |-> Drift(s.pool, s.state, onchain) = 0,
   feeRead |-> ~feeDown]

Validate(s, feeDown) ==
  /\ pc = "poll" /\ upto = 0 /\ head <= seen /\ s \in Oldest
  /\ feeDown => s.pool \in Aerodrome /\ faults < MaxFaults
  /\ faults' = IF feeDown THEN faults + 1 ELSE faults
  /\ pending' = pending \ {s}
  /\ LET onchain == PoolStateAt(s.pool, s.state.block, s.state.fee, feeDown)
     IN verdict' = IF onchain = None THEN verdict ELSE Verdict(s, onchain, feeDown)
  /\ UNCHANGED <<chainVars, redisVars, pc, states, loadVars, seen, chunkVars, recent,
                 pastVars, crashes>>

------------------------------------------------------------------------------
\* The process ends (a failed poll or log fetch, a stall, a crash) and is started
\* again; what it held in memory is lost.
Crash ==
  /\ crashes < MaxCrashes
  /\ crashes' = crashes + 1
  /\ pc' = "load" /\ states' = [p \in SealedPools |-> None] /\ todo' = enabled /\ half' = None
  /\ seen' = 0 /\ upto' = 0 /\ changed' = {} /\ snaps' = {}
  /\ jobs' = [p \in SealedPools |-> 0] /\ recent' = {} /\ pending' = {}
  /\ verdict' = None /\ missed' = {} /\ feeLost' = {} /\ unread' = {}
  /\ UNCHANGED <<chainVars, redisVars, faults>>

Chain == Seal \/ Reorg \/ \E p \in enabled : \E kind \in Kinds(p) : Emit(p, kind)

Service ==
  \/ Synchronize \/ Reload \/ EndReload
  \/ \E down \in BOOLEAN : LoadWords(down) \/ LoadRest(down)
  \/ Chunk \/ RefreshFees \/ PublishStates \/ Advance
  \/ \E s \in pending, feeDown \in BOOLEAN : Validate(s, feeDown)

Next == Chain \/ Service \/ Crash

Spec == Init /\ [][Next]_vars

------------------------------------------------------------------------------
(* Properties *)

TypeOK ==
  /\ head \in 1..MaxBlock /\ current \in 1..MaxBlock /\ enabled \subseteq SealedPools
  /\ {redis, states} \subseteq [SealedPools -> State \cup {None}]
  /\ pc \in {"load", "poll", "reload", "fees", "publish", "advance"}
  /\ todo \subseteq SealedPools /\ half \in SealedPools \cup {None}
  /\ seen \in 0..MaxBlock /\ upto \in 0..MaxBlock
  /\ {changed, feeLost, unread} \subseteq SUBSET SealedPools
  /\ {s.pool : s \in snaps \cup pending} \subseteq SealedPools
  /\ {s.state : s \in snaps \cup pending} \subseteq State
  /\ jobs \in [SealedPools -> 0..MaxBlock]
  /\ missed \cup recent \subseteq DOMAIN log

CaughtUp == pc = "poll" /\ seen = head

LastSealed(p, kinds) == LastOf(p, kinds, Through(head))

\* A log of p that was fetched and not applied is its last one, or a replaced
\* block has put one back into the block being built.
Excused(p) ==
  \/ LastSealed(p, {"sync", "swap", "mint"}) \in missed
  \/ orphans # {} /\ \E i \in DOMAIN log : log[i].pool = p /\ log[i].block > head

\* When the loop has seen every sealed block, its words of a pool and the ones
\* in Redis are the chain's, whatever was replayed after a crash, read in the
\* middle of a startup or a reload, or taken twice from a replaced block (run
\* 567-628).  A pool whose last read failed is not monitored, and Redis keeps
\* what an earlier process published of it.
WordsExact ==
  CaughtUp => \A p \in enabled \ unread : ~Excused(p) =>
    /\ redis[p] = states[p]
    /\ states[p].price = PriceAfter(p, Through(head))
    /\ states[p].depth = DepthAfter(p, Through(head))

\* Then its fee is one the pool had at its last Sync or Swap or since, unless
\* the call for it failed (run 630-763).
FeeFromLastEvent ==
  CaughtUp => \A p \in (Aerodrome \cap enabled) \ (feeLost \cup unread) : ~Excused(p) =>
    states[p].fee \in {FeeAfter(p, n) :
      n \in Through(LET i == LastSealed(p, {"sync", "swap"})
                    IN IF i = 0 THEN 1 ELSE log[i].block)..Through(head)}

\* What market-data publishes of a pool is what the chain says (run).
StatesExact == TypeOK /\ WordsExact /\ FeeFromLastEvent

\* Equal, or less than a basis point apart.
Near(local, onchain) == local = onchain \/ Gap(local, onchain) * 10000 < onchain

\* A recorded mismatch of the words means that the loop left out a log of that
\* pool and block, or that the block was replaced; a recorded match means that
\* the words were within a basis point and that the fee, when it could be read,
\* was the chain's (validate_due_snapshots).
VerdictsRight ==
  verdict # None =>
    LET p == verdict.pool  b == verdict.local.block  true == verdict.onchain
    IN /\ WordDrift(p, verdict.local, true) > 0 =>
            \/ b \in orphans
            \/ \E i \in missed : log[i].pool = p /\ log[i].block = b
       /\ verdict.passed =>
            /\ Near(verdict.local.price, true.price)
            /\ Near(verdict.local.depth, true.depth)
            /\ verdict.feeRead /\ p \in Aerodrome => verdict.local.fee = true.fee
==============================================================================

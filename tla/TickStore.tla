------------------------------- MODULE TickStore -------------------------------
(***************************************************************************)
(* The initialized ticks of one concentrated-liquidity pool: on the chain, *)
(* in Redis (crates/storage/src/redis.rs), in Postgres (pool_ticks_current *)
(* and pool_tick_coverage) and in the searcher's cache, and everyone who   *)
(* reads, changes and replaces them without a lock:                        *)
(*   listener  apply_tick_deltas of the sealed loop, for the events of a   *)
(*             V3-style pool and the protocol logs of a Uniswap V4 pool    *)
(*   warmup    the initialized tick warm-up that market-data spawns        *)
(*   repair    recorder's repair_v3_ticks --loop --apply --gaps-only       *)
(*   hydrator  recorder's hydrate_uniswap_v4_ticks --loop --manager-scan   *)
(*             --apply --refresh-existing                                  *)
(*   sync      recorder's sync_ticks_current_to_redis --apply              *)
(*   search    load_tick_states_for_pools, which fills Redis from Postgres *)
(*                                                                         *)
(* A set of ticks is a function from tick to gross liquidity; the net is   *)
(* kept where the hydrator tests it.  A block has at most one Mint, Burn   *)
(* or ModifyLiquidity of the pool, of one unit.  Other pools show only as  *)
(* cycles of the searcher in which this pool is not selected.  A fetch of  *)
(* the ticks around the price sees one block, although the code sends one  *)
(* eth_call for each word and tick.  A Redis pipeline arrives whole, and   *)
(* commands of other clients may run between its commands.                 *)
(***************************************************************************)
EXTENDS Integers, Sequences, FiniteSets

CONSTANTS
  Tick,        \* ticks that positions use
  Near,        \* those within the configured word radius of the price
  Wide,        \* those within the word radius of a queued pool
  Scenarios,   \* pools, the processes that run, positions and bounds
  None,
  MaxSpan,     \* blocks in a chunk of the listener
  QueueCap,    \* TICK_RECORD_QUEUE_CAPACITY
  ChunkBlocks, Lookback, Overlap  \* options of the hydrator

Clients == {"listener", "warmup", "repair", "hydrator", "sync", "search"}
Recorders == {"listener", "warmup"}
Positions == {S \in SUBSET Tick : Cardinality(S) = 2}

\* Ticks are numbers, and the searched radius holds some of them; None is no
\* event of the pool; an interval has at least one block.
ASSUME TickAssumption ==
  /\ Tick \subseteq Int /\ IsFiniteSet(Tick)
  /\ Near \subseteq Wide /\ Wide \subseteq Tick
  /\ \A s \in Scenarios : s.positions \subseteq Positions
  /\ None \notin [keys : Positions, d : {1, -1}]
  /\ {MaxSpan, ChunkBlocks} \subseteq Nat \ {0} /\ {QueueCap, Lookback, Overlap} \subseteq Nat

VARIABLES
  scenario,    \* [kind, running, positions, blocks, faults]: never changes
  log,         \* the block's event of the pool, or None
  idx, val,    \* Redis: the pool's index of ticks, and the tick keys
  marked,      \* is the pool in ticks:changed?
  repairq,     \* is it in ticks:repair?
  current,     \* chain:current_block
  pg, cov,     \* Postgres: pool_ticks_current and pool_tick_coverage
  call,        \* the read or replace_pool_ticks each client has under way
  lpc, lpos, lto, lnext,         \* listener
  wpc, wticks,                   \* warm-up
  chan, pend, flush,             \* the TickRecordQueue of each service
  dpc, dforce, drow,             \* repair daemon
  ypc,                           \* sync tool
  spc, sgot, cache, expired,     \* searcher
  hpc, hlast, hfrom, hto, hcur, hacc, hfailed, \* hydrator
  missed,      \* a drained mark was not acted on since the cache was loaded
  clean,       \* Redis has been exact and written by the listener only
  faults

redisVars  == <<idx, val, marked, repairq, current>>
pgVars     == <<pg, cov>>
listenVars == <<lpc, lpos, lto, lnext>>
warmVars   == <<wpc, wticks>>
queueVars  == <<chan, pend, flush>>
repairVars == <<dpc, dforce, drow>>
searchVars == <<spc, sgot, cache, expired, missed>>
hydrVars   == <<hpc, hlast, hfrom, hto, hcur, hacc, hfailed>>
vars == <<scenario, log, redisVars, pgVars, call, listenVars, warmVars, queueVars,
          repairVars, ypc, searchVars, hydrVars, clean, faults>>

------------------------------------------------------------------------------
kind == scenario.kind  \* "v3" or "v4"
running == scenario.running
Fault == faults < scenario.faults /\ faults' = faults + 1

(* The chain *)

Smaller(a, b) == IF a <= b THEN a ELSE b
Larger(a, b) == IF a >= b THEN a ELSE b
head == Len(log)

\* Events d of position or tick in blocks 1 .. n.
EventsAt(t, d, n) == {b \in 1..n : log[b] # None /\ t \in log[b].keys /\ log[b].d = d}
OpenAt(P, n) == Cardinality({b \in 1..n : log[b] = [keys |-> P, d |-> 1]})
              - Cardinality({b \in 1..n : log[b] = [keys |-> P, d |-> -1]})

Gross(t, n) == Cardinality(EventsAt(t, 1, n)) - Cardinality(EventsAt(t, -1, n))

\* The initialized ticks at block n: what ticks(int24) tells of each.
ChainTicks(n) == [t \in {u \in Tick : Gross(u, n) > 0} |-> Gross(t, n)]

NoTicks == [t \in {} |-> 0]
Only(ticks, S) == [t \in DOMAIN ticks \cap S |-> ticks[t]]
Empty(ticks) == DOMAIN ticks = {}
Count(ticks) == Cardinality(DOMAIN ticks)

------------------------------------------------------------------------------
(* Redis *)

\* get_pool_ticks: SMEMBERS, then MGET of what it returned.
RedisTicks == Only(val, idx)
StartRead(c) == call' = [call EXCEPT ![c] = [at |-> "values", keys |-> idx, ticks |-> NoTicks]]
Reading(c) == call[c].at = "values"
Read(c) == Only(val, call[c].keys)
Returned(c) == [call EXCEPT ![c] = [at |-> "idle", keys |-> {}, ticks |-> NoTicks]]

\* replace_pool_ticks is called; it has returned.
Replacing(c, ticks) == [call EXCEPT ![c] = [at |-> "members", keys |-> {}, ticks |-> ticks]]
Replaced(c) == call[c].at = "replaced"
Sent(c) == call[c].at \in {"del", "set", "mark"}

Step(c, at) == call' = [call EXCEPT ![c] = [call[c] EXCEPT !.at = at]]

\* SMEMBERS, before the pipeline is built.
Members(c) ==
  /\ call[c].at = "members"
  /\ call' = [call EXCEPT ![c] = [at |-> "del", keys |-> idx, ticks |-> call[c].ticks]]
  /\ UNCHANGED <<redisVars, clean>>

\* DEL of the keys found, and of the index.
Delete(c) ==
  /\ call[c].at = "del"
  /\ val' = Only(val, Tick \ call[c].keys) /\ idx' = {}
  /\ Step(c, "set")
  /\ clean' = (clean /\ c = "listener")
  /\ UNCHANGED <<marked, repairq, current>>

\* MSET of the ticks and SADD to the index.
Write(c) ==
  /\ call[c].at = "set"
  /\ LET ticks == call[c].ticks
     IN  /\ val' = [t \in DOMAIN val \cup DOMAIN ticks |->
                      IF t \in DOMAIN ticks THEN ticks[t] ELSE val[t]]
         /\ idx' = idx \cup DOMAIN ticks
  /\ Step(c, "mark")
  /\ UNCHANGED <<marked, repairq, current, clean>>

\* SADD to ticks:changed, in the same pipeline.
Mark(c) ==
  /\ call[c].at = "mark"
  /\ marked' = TRUE
  /\ Step(c, "replaced")
  /\ UNCHANGED <<idx, val, repairq, current, clean>>

Replace(c) ==
  /\ Members(c) \/ Delete(c) \/ Write(c) \/ Mark(c)
  /\ UNCHANGED <<scenario, log, pgVars, listenVars, warmVars, queueVars, repairVars,
                 ypc, searchVars, hydrVars, faults>>

------------------------------------------------------------------------------
Status(ticks) == IF Empty(ticks) THEN "zero_ticks" ELSE "ready"

\* TickRecordQueue::record: try_send, the record is dropped when it is full.
Recorded(q, ticks, status) ==
  IF Len(chan[q]) < QueueCap
    THEN [chan EXCEPT ![q] = Append(chan[q], [ticks |-> ticks, status |-> status])]
    ELSE chan

\* Redis and Postgres have nothing, what a narrow fetch found, or everything.
Init ==
  /\ scenario \in Scenarios
  /\ \E P \in scenario.positions : log = <<[keys |-> P, d |-> 1]>>
  /\ \E S \in {{}, Near, Tick} :
       LET ticks == Only(ChainTicks(1), S)
       IN  /\ idx = DOMAIN ticks /\ val = ticks
           /\ clean = (ticks = ChainTicks(1))
           /\ cov = IF Empty(ticks) THEN None ELSE [status |-> "ready", count |-> Count(ticks)]
  /\ pg = val
  /\ marked = FALSE /\ repairq = FALSE /\ current = 1
  /\ call = [c \in Clients |-> [at |-> "idle", keys |-> {}, ticks |-> NoTicks]]
  /\ lpc = "idle" /\ lpos = 1 /\ lto = 1 /\ lnext = 2
  /\ wpc = (IF "warmup" \in running THEN "fetch" ELSE "off") /\ wticks = NoTicks
  /\ chan = [q \in Recorders |-> <<>>]
  /\ pend = [q \in Recorders |-> None] /\ flush = [q \in Recorders |-> None]
  /\ dpc = "idle" /\ dforce = FALSE /\ drow = None
  /\ ypc = "select"
  /\ spc = "idle" /\ sgot = FALSE /\ cache = None /\ expired = FALSE /\ missed = FALSE
  /\ hpc = "idle" /\ hlast = None /\ hfrom = 0 /\ hto = 0 /\ hcur = 0 /\ hfailed = FALSE
  /\ hacc = [t \in Tick |-> [gross |-> 0, net |-> 0]]
  /\ faults = 0

\* A block, with a Mint, a Burn of what is open, or nothing of the pool.
Seal ==
  /\ head < scenario.blocks
  /\ \/ \E P \in scenario.positions, d \in {1, -1} :
          /\ d = -1 => OpenAt(P, head) > 0
          /\ log' = Append(log, [keys |-> P, d |-> d])
     \/ log' = Append(log, None)
  /\ UNCHANGED <<scenario, redisVars, pgVars, call, listenVars, warmVars, queueVars,
                 repairVars, ypc, searchVars, hydrVars, clean, faults>>

------------------------------------------------------------------------------
(* listener *)

ListenerFrame == UNCHANGED <<scenario, log, idx, val, repairq, pgVars, warmVars,
                             pend, flush, repairVars, ypc, searchVars, hydrVars>>

\* A chunk of blocks is fetched.
Poll ==
  /\ lpc = "idle" /\ head > lpos
  /\ lto' = Smaller(head, lpos + MaxSpan) /\ lnext' = lpos + 1 /\ lpc' = "events"
  /\ UNCHANGED <<lpos, marked, current, call, chan, clean, faults>>
  /\ ListenerFrame

\* discover_protocol_pool_logs: a failed getLogs is Ok(0), and the blocks pass.
LogsLost ==
  /\ kind = "v4" /\ lpc = "idle" /\ head > lpos /\ Fault
  /\ lpos' = Smaller(head, lpos + MaxSpan) /\ current' = lpos' /\ clean' = FALSE
  /\ UNCHANGED <<lpc, lto, lnext, marked, call, chan>>
  /\ ListenerFrame

NextEvent ==
  /\ lpc = "events" /\ lnext <= lto
  /\ IF log[lnext] = None
       THEN lnext' = lnext + 1 /\ UNCHANGED <<lpc, call>>
       ELSE StartRead("listener") /\ lpc' = "read" /\ UNCHANGED lnext
  /\ UNCHANGED <<lpos, lto, marked, current, chan, clean, faults>>
  /\ ListenerFrame

\* apply_signed_u256_delta: a negative delta saturates at 0.
NewGross(ticks, t, d) == Larger(0, (IF t \in DOMAIN ticks THEN ticks[t] ELSE 0) + d)

\* Mutant of WithDeltas: a tick whose liquidity is gone is kept.
WithDeltas_KeepsEmpty(ticks, e) ==
  [t \in DOMAIN ticks \cup e.keys |->
     IF t \in e.keys THEN NewGross(ticks, t, e.d) ELSE ticks[t]]

\* apply_tick_deltas: a tick without gross liquidity is removed.
WithDeltas(ticks, e) ==
  LET gone == {t \in e.keys : NewGross(ticks, t, e.d) = 0}
  IN  [t \in (DOMAIN ticks \cup e.keys) \ gone |->
         IF t \in e.keys THEN NewGross(ticks, t, e.d) ELSE ticks[t]]

ApplyDeltas ==
  /\ lpc = "read"
  /\ call' = Replacing("listener", WithDeltas(Read("listener"), log[lnext]))
  /\ lpc' = "mark"
  /\ UNCHANGED <<lpos, lto, lnext, marked, current, chan, clean, faults>>
  /\ ListenerFrame

\* mark_tick_changed_pools, and the record for Postgres.
RecordDeltas ==
  /\ lpc = "mark" /\ Replaced("listener")
  /\ marked' = TRUE
  /\ LET ticks == call["listener"].ticks
     IN  chan' = Recorded("listener", ticks, Status(ticks))
  /\ call' = Returned("listener")
  /\ lpc' = "events" /\ lnext' = lnext + 1
  /\ UNCHANGED <<lpos, lto, current, clean, faults>>
  /\ ListenerFrame

\* The chunk is done; the sealed loop sets the current block.
EndChunk ==
  /\ lpc = "events" /\ lnext > lto
  /\ lpos' = lto /\ current' = lto /\ lpc' = "idle"
  /\ UNCHANGED <<lto, lnext, marked, call, chan, clean, faults>>
  /\ ListenerFrame

\* market-data dies, what its record queues hold with it, and starts again
\* from the current block: what it had applied since is applied once more.
ListenerRestart ==
  /\ Fault /\ ~Sent("listener") /\ ~Sent("warmup")
  /\ lpc' = "idle" /\ lpos' = current
  /\ clean' = FALSE
  /\ wpc' = IF "warmup" \in running THEN "fetch" ELSE "off"
  /\ call' = [c \in Clients |-> IF c \in {"listener", "warmup"} THEN Returned(c)[c] ELSE call[c]]
  /\ chan' = [q \in Recorders |-> <<>>]
  /\ pend' = [q \in Recorders |-> None] /\ flush' = [q \in Recorders |-> None]
  /\ UNCHANGED <<scenario, log, redisVars, pgVars, lto, lnext, wticks, repairVars, ypc,
                 searchVars, hydrVars>>

Listener == Poll \/ NextEvent \/ ApplyDeltas \/ RecordDeltas \/ EndChunk \/ Replace("listener")

------------------------------------------------------------------------------
(* warm-up: publish_initialized_ticks *)

WarmFrame == UNCHANGED <<scenario, log, idx, val, repairq, current, pgVars, listenVars,
                         pend, flush, repairVars, ypc, searchVars, hydrVars, clean>>

WarmFetch ==
  /\ wpc = "fetch"
  /\ wticks' = Only(ChainTicks(head), Near) /\ wpc' = "index"
  /\ UNCHANGED <<marked, call, chan, faults>>
  /\ WarmFrame

\* The record of a failed refresh has no ticks: the flush deletes the rows.
WarmFetchFails ==
  /\ wpc = "fetch" /\ Fault
  /\ chan' = Recorded("warmup", NoTicks, "refresh_failed") /\ wpc' = "off"
  /\ UNCHANGED <<marked, call, wticks>>
  /\ WarmFrame

WarmRead ==
  /\ wpc = "index"
  /\ StartRead("warmup") /\ wpc' = "decide"
  /\ UNCHANGED <<marked, chan, wticks, faults>>
  /\ WarmFrame

\* refresh_is_narrower
Narrower(existing, ticks) == ~Empty(existing) /\ Count(ticks) < Count(existing)

WarmDecide ==
  /\ wpc = "decide"
  /\ LET existing == Read("warmup")
     IN  \/ /\ wticks # existing /\ ~Empty(wticks) /\ ~Narrower(existing, wticks)
            /\ call' = Replacing("warmup", wticks) /\ wpc' = "mark" /\ UNCHANGED chan
         \/ /\ wticks # existing /\ (Empty(wticks) \/ Narrower(existing, wticks))
            /\ call' = Returned("warmup") /\ wpc' = "off" /\ UNCHANGED chan
         \/ /\ wticks = existing
            /\ chan' = Recorded("warmup", wticks, Status(wticks))
            /\ call' = Returned("warmup") /\ wpc' = "off"
  /\ UNCHANGED <<marked, wticks, faults>>
  /\ WarmFrame

WarmRecord ==
  /\ wpc = "mark" /\ Replaced("warmup")
  /\ marked' = TRUE
  /\ chan' = Recorded("warmup", wticks, "ready")
  /\ call' = Returned("warmup") /\ wpc' = "off"
  /\ UNCHANGED <<wticks, faults>>
  /\ WarmFrame

Warmup == WarmFetch \/ WarmRead \/ WarmDecide \/ WarmRecord \/ Replace("warmup")

------------------------------------------------------------------------------
(* record queues: the task of TickRecordQueue::spawn, flush_tick_records *)

RecordFrame == UNCHANGED <<scenario, log, redisVars, call, listenVars, warmVars,
                           repairVars, ypc, searchVars, hydrVars, clean>>

\* pending is keyed by pool: the last record wins.
Receive(q) ==
  /\ chan[q] # <<>> /\ flush[q] = None
  /\ pend' = [pend EXCEPT ![q] = Head(chan[q])]
  /\ chan' = [chan EXCEPT ![q] = Tail(chan[q])]
  /\ UNCHANGED <<flush, pgVars, faults>>
  /\ RecordFrame

\* replace_pool_ticks_current: one transaction.
FlushRows(q) ==
  /\ pend[q] # None /\ flush[q] = None
  /\ pend' = [pend EXCEPT ![q] = None]
  /\ \/ /\ pg' = pend[q].ticks /\ flush' = [flush EXCEPT ![q] = pend[q]]
        /\ UNCHANGED faults
     \/ Fault /\ UNCHANGED <<pg, flush>>
  /\ UNCHANGED <<chan, cov>>
  /\ RecordFrame

Coverage(r) == [status |-> r.status, count |-> Count(r.ticks)]

\* upsert_pool_tick_coverage
FlushCoverage(q) ==
  /\ flush[q] # None
  /\ flush' = [flush EXCEPT ![q] = None]
  /\ \/ cov' = Coverage(flush[q]) /\ UNCHANGED faults
     \/ Fault /\ UNCHANGED cov
  /\ UNCHANGED <<chan, pend, pg>>
  /\ RecordFrame

Recorder == \E q \in Recorders : Receive(q) \/ FlushRows(q) \/ FlushCoverage(q)

------------------------------------------------------------------------------
(* repair daemon: run_repair_once *)

RepairFrame == UNCHANGED <<scenario, log, idx, val, current, listenVars, warmVars,
                           queueVars, ypc, searchVars, hydrVars, clean>>

\* The selection of --gaps-only goes by the coverage, not by the rows.
IsGap(c) == /\ c # None
            /\ c.status \in {"refresh_failed", "zero_ticks"} \/ c.count = 0

\* The repair queue is drained; a V4 pool in it is not selected.  What is
\* queued for other pools keeps a gap from being looked at.
Drain ==
  /\ dpc = "idle"
  /\ repairq \/ IsGap(cov)
  /\ repairq' = FALSE /\ dforce' = repairq
  /\ dpc' = IF kind = "v3" THEN "index" ELSE "idle"
  /\ UNCHANGED <<marked, pgVars, call, drow, faults>>
  /\ RepairFrame

RepairRead ==
  /\ dpc = "index"
  /\ StartRead("repair") /\ dpc' = "decide"
  /\ UNCHANGED <<marked, repairq, pgVars, dforce, drow, faults>>
  /\ RepairFrame

\* What Redis has is persisted, unless a refresh is forced.
RepairDecide ==
  /\ dpc = "decide"
  /\ LET existing == Read("repair")
     IN  IF ~dforce /\ ~Empty(existing)
           THEN dpc' = "rows" /\ drow' = [ticks |-> existing, status |-> "ready", push |-> FALSE]
           ELSE dpc' = "fetch" /\ UNCHANGED drow
  /\ call' = Returned("repair")
  /\ UNCHANGED <<marked, repairq, pgVars, dforce, faults>>
  /\ RepairFrame

\* Mutant of RepairFetch: every pool with the configured radius.
RepairFetch_Narrow ==
  /\ dpc = "fetch"
  /\ LET ticks == Only(ChainTicks(head), Near)
     IN  drow' = [ticks |-> ticks, status |-> Status(ticks), push |-> ~Empty(ticks)]
  /\ dpc' = "rows"
  /\ UNCHANGED <<marked, repairq, pgVars, call, dforce, faults>>
  /\ RepairFrame

\* A queued pool is fetched with the wide radius, which is not every tick.
RepairFetch ==
  /\ dpc = "fetch"
  /\ LET ticks == Only(ChainTicks(head), IF dforce THEN Wide ELSE Near)
     IN  drow' = [ticks |-> ticks, status |-> Status(ticks), push |-> ~Empty(ticks)]
  /\ dpc' = "rows"
  /\ UNCHANGED <<marked, repairq, pgVars, call, dforce, faults>>
  /\ RepairFrame

RepairFetchFails ==
  /\ dpc = "fetch" /\ Fault
  /\ drow' = [ticks |-> NoTicks, status |-> "refresh_failed", push |-> FALSE]
  /\ dpc' = "coverage"
  /\ UNCHANGED <<marked, repairq, pgVars, call, dforce>>
  /\ RepairFrame

RepairRows ==
  /\ dpc = "rows"
  /\ pg' = drow.ticks /\ dpc' = "coverage"
  /\ UNCHANGED <<marked, repairq, cov, call, dforce, drow, faults>>
  /\ RepairFrame

RepairCoverage ==
  /\ dpc = "coverage"
  /\ cov' = Coverage(drow)
  /\ IF drow.push THEN call' = Replacing("repair", drow.ticks) /\ dpc' = "mark"
                  ELSE dpc' = "idle" /\ UNCHANGED call
  /\ UNCHANGED <<marked, repairq, pg, dforce, drow, faults>>
  /\ RepairFrame

RepairMark ==
  /\ dpc = "mark" /\ Replaced("repair")
  /\ marked' = TRUE /\ call' = Returned("repair") /\ dpc' = "idle"
  /\ UNCHANGED <<repairq, pgVars, dforce, drow, faults>>
  /\ RepairFrame

\* A store fails and ends the pass, or the process dies: what was drained
\* from the repair queue is forgotten.
RepairAborts ==
  /\ dpc # "idle" /\ ~Sent("repair") /\ Fault
  /\ dpc' = "idle" /\ call' = Returned("repair")
  /\ UNCHANGED <<marked, repairq, pgVars, dforce, drow>>
  /\ RepairFrame

Repair == \/ Drain \/ RepairRead \/ RepairDecide \/ RepairFetch \/ RepairRows
          \/ RepairCoverage \/ RepairMark \/ Replace("repair")

------------------------------------------------------------------------------
(* sync tool *)

SyncFrame == UNCHANGED <<scenario, log, idx, val, repairq, current, pgVars, listenVars,
                         warmVars, queueVars, repairVars, searchVars, hydrVars, clean, faults>>

\* select_pools and get_pool_ticks_current_many; empty pools are skipped.
SyncSelect ==
  /\ ypc = "select"
  /\ IF Empty(pg) THEN ypc' = "done" /\ UNCHANGED call
                  ELSE ypc' = "mark" /\ call' = Replacing("sync", pg)
  /\ UNCHANGED marked
  /\ SyncFrame

SyncMark ==
  /\ ypc = "mark" /\ Replaced("sync")
  /\ marked' = TRUE /\ call' = Returned("sync") /\ ypc' = "done"
  /\ SyncFrame

Sync == SyncSelect \/ SyncMark \/ Replace("sync")

------------------------------------------------------------------------------
(* searcher *)

SearchFrame == UNCHANGED <<scenario, log, idx, val, current, pgVars, listenVars, warmVars,
                           queueVars, repairVars, ypc, hydrVars, clean>>

\* drain_tick_changed_pools.  A cycle needs a changed pool, this or another.
BeginCycle ==
  /\ spc = "idle"
  /\ sgot' = marked /\ marked' = FALSE /\ spc' = "select"
  /\ UNCHANGED <<repairq, call, cache, expired, missed, faults>>
  /\ SearchFrame

\* No selected path has the pool, or the cycle ends early.
NotSelected ==
  /\ spc = "select"
  /\ spc' = "idle" /\ missed' = (missed \/ sgot)
  /\ UNCHANGED <<marked, repairq, call, sgot, cache, expired, faults>>
  /\ SearchFrame

\* Mutant of MustLoad: tick_changed_pools is not looked at.
MustLoad_Cached == cache = None \/ expired

\* should_refresh
MustLoad == cache = None \/ expired \/ sgot

Selected ==
  /\ spc = "select"
  /\ IF MustLoad THEN StartRead("search") /\ spc' = "load"
                 ELSE spc' = "quote" /\ UNCHANGED call
  /\ UNCHANGED <<marked, repairq, sgot, cache, expired, missed, faults>>
  /\ SearchFrame

Loaded(ticks) == cache' = ticks /\ expired' = FALSE /\ missed' = FALSE /\ spc' = "quote"

Load ==
  /\ spc = "load"
  /\ IF Empty(Read("search"))
       THEN spc' = "fallback" /\ UNCHANGED <<cache, expired, missed>>
       ELSE Loaded(Read("search"))
  /\ call' = Returned("search")
  /\ UNCHANGED <<marked, repairq, sgot, faults>>
  /\ SearchFrame

\* get_pool_ticks_current_many
Fallback ==
  /\ spc = "fallback"
  /\ IF Empty(pg)
       THEN Loaded(NoTicks) /\ UNCHANGED call
       ELSE /\ call' = Replacing("search", pg) /\ spc' = "fill"
            /\ UNCHANGED <<cache, expired, missed>>
  /\ UNCHANGED <<marked, repairq, sgot, faults>>
  /\ SearchFrame

Filled ==
  /\ spc = "fill" /\ Replaced("search")
  /\ Loaded(call["search"].ticks)
  /\ call' = Returned("search")
  /\ UNCHANGED <<marked, repairq, sgot, faults>>
  /\ SearchFrame

\* Paths of a pool without ticks are filtered.  A quote that runs out of
\* known ticks queues the pool for repair.
Quote(exhausted) ==
  /\ spc = "quote"
  /\ exhausted => ~Empty(cache)
  /\ repairq' = (repairq \/ exhausted) /\ spc' = "idle"
  /\ UNCHANGED <<marked, call, sgot, cache, expired, missed, faults>>
  /\ SearchFrame

\* TICK_CACHE_MAX_AGE_MS
Expire ==
  /\ spc = "idle" /\ cache # None /\ ~expired
  /\ expired' = TRUE
  /\ UNCHANGED <<marked, repairq, call, spc, sgot, cache, missed, faults>>
  /\ SearchFrame

\* A store fails, which ends the process, or it dies: the cache is lost.
SearcherRestart ==
  /\ spc # "idle" /\ ~Sent("search") /\ Fault
  /\ spc' = "idle" /\ cache' = None /\ expired' = FALSE /\ missed' = FALSE
  /\ call' = Returned("search")
  /\ UNCHANGED <<marked, repairq, sgot>>
  /\ SearchFrame

Search == \/ BeginCycle \/ NotSelected \/ Selected \/ Load \/ Fallback \/ Filled
          \/ (\E e \in BOOLEAN : Quote(e)) \/ Replace("search")

------------------------------------------------------------------------------
(* hydrator: the passes of hydrate_uniswap_v4_ticks *)

HydrateFrame == UNCHANGED <<scenario, log, idx, val, repairq, current, listenVars,
                            warmVars, queueVars, repairVars, ypc, searchVars, clean>>

FirstBlock == 1
NoDeltas == [t \in Tick |-> [gross |-> 0, net |-> 0]]

\* Block b's delta: the lower tick's net grows with the liquidity, the upper
\* one's shrinks (apply_delta).
Accumulated(acc, b) ==
  IF log[b] = None THEN acc
  ELSE LET e == log[b]
           lower(t) == \A u \in e.keys : t <= u
       IN  [t \in Tick |->
              IF t \notin e.keys THEN acc[t]
              ELSE [gross |-> acc[t].gross + e.d,
                    net |-> acc[t].net + (IF lower(t) THEN e.d ELSE -e.d)]]

\* The deltas of blocks b .. n; n - b is less than ChunkBlocks.
AccumulatedTo(acc, b, n) ==
  LET f[m \in (b - 1)..n] == IF m = b - 1 THEN acc ELSE Accumulated(f[m - 1], m)
  IN  f[n]

\* nonnegative_liquidity_gross
Hydrated(acc) == [t \in {u \in Tick : acc[u].gross > 0 \/ acc[u].net # 0} |->
                    Larger(0, acc[t].gross)]

\* A pool older than the lookback is skipped in the first pass, and in no
\* later one: those scan from the block the last pass ended with.
BeginPass ==
  /\ hpc = "idle"
  /\ hto' = head
  /\ LET min == Larger(0, head - Lookback)
         from == IF hlast = None THEN min ELSE Larger(0, hlast - Overlap)
     IN  IF hlast = None /\ FirstBlock < min
           THEN hlast' = head /\ UNCHANGED <<hpc, hfrom, hcur, hacc, hfailed>>
           ELSE /\ hfrom' = from /\ hcur' = from /\ hpc' = "scan"
                /\ hacc' = NoDeltas /\ hfailed' = FALSE /\ UNCHANGED hlast
  /\ UNCHANGED <<marked, pgVars, call, faults>>
  /\ HydrateFrame

\* Mutant of ScanChunk: the next chunk begins with the last block of this one.
ScanChunk_Overlaps ==
  /\ hpc = "scan" /\ hcur <= hto
  /\ LET to == Smaller(hto, hcur + ChunkBlocks)
     IN  hacc' = AccumulatedTo(hacc, Larger(hcur, FirstBlock), to) /\ hcur' = hcur + ChunkBlocks
  /\ UNCHANGED <<marked, pgVars, call, hpc, hlast, hfrom, hto, hfailed, faults>>
  /\ HydrateFrame

ScanChunk ==
  /\ hpc = "scan" /\ hcur <= hto
  /\ LET to == Smaller(hto, hcur + ChunkBlocks - 1)
     IN  hacc' = AccumulatedTo(hacc, Larger(hcur, FirstBlock), to) /\ hcur' = to + 1
  /\ UNCHANGED <<marked, pgVars, call, hpc, hlast, hfrom, hto, hfailed, faults>>
  /\ HydrateFrame

\* A chunk fails: the scan ends there, and what it has so far is flushed.
ChunkFails ==
  /\ hpc = "scan" /\ hcur <= hto /\ Fault
  /\ hpc' = "rows" /\ hfailed' = TRUE
  /\ UNCHANGED <<marked, pgVars, call, hlast, hfrom, hto, hcur, hacc>>
  /\ HydrateFrame

EndScan ==
  /\ hpc = "scan" /\ hcur > hto /\ hpc' = "rows"
  /\ UNCHANGED <<marked, pgVars, call, hlast, hfrom, hto, hcur, hacc, hfailed, faults>>
  /\ HydrateFrame

\* flush_manager_scan_batch
HydrateRows ==
  /\ hpc = "rows"
  /\ pg' = Hydrated(hacc) /\ call' = Replacing("hydrator", Hydrated(hacc))
  /\ hpc' = "redis"
  /\ UNCHANGED <<marked, cov, hlast, hfrom, hto, hcur, hacc, hfailed, faults>>
  /\ HydrateFrame

HydrateCoverage ==
  /\ hpc = "redis" /\ Replaced("hydrator")
  /\ cov' = [status |-> Status(Hydrated(hacc)), count |-> Count(Hydrated(hacc))]
  /\ call' = Returned("hydrator") /\ hpc' = "mark"
  /\ UNCHANGED <<marked, pg, hlast, hfrom, hto, hcur, hacc, hfailed, faults>>
  /\ HydrateFrame

\* The pass ends, failed chunks or not.
EndPass ==
  /\ hpc = "mark"
  /\ marked' = (marked \/ ~Empty(Hydrated(hacc)))
  /\ hlast' = hto /\ hpc' = "idle"
  /\ UNCHANGED <<pgVars, call, hfrom, hto, hcur, hacc, hfailed, faults>>
  /\ HydrateFrame

\* A store fails and ends the pass (dies = FALSE), or the process dies.
HydratorAborts(dies) ==
  /\ hpc # "idle" /\ ~Sent("hydrator") /\ Fault
  /\ hpc' = "idle" /\ call' = Returned("hydrator")
  /\ hlast' = IF dies THEN None ELSE hlast
  /\ UNCHANGED <<marked, pgVars, hfrom, hto, hcur, hacc, hfailed>>
  /\ HydrateFrame

Hydrator == \/ BeginPass \/ ScanChunk \/ EndScan \/ HydrateRows \/ HydrateCoverage
            \/ EndPass \/ Replace("hydrator")

------------------------------------------------------------------------------
Runs(c) == c \in running

Next ==
  \/ Seal
  \/ Runs("listener") /\ (Listener \/ LogsLost \/ ListenerRestart)
  \/ Runs("warmup") /\ (Warmup \/ WarmFetchFails)
  \/ Runs("recorder") /\ Recorder
  \/ Runs("repair") /\ (Repair \/ RepairFetchFails \/ RepairAborts)
  \/ Runs("sync") /\ Sync
  \/ Runs("search") /\ (Search \/ Expire \/ SearcherRestart)
  \/ Runs("hydrator") /\ (Hydrator \/ ChunkFails \/ \E dies \in BOOLEAN : HydratorAborts(dies))

Spec == Init /\ [][Next]_vars

\* Every process keeps going.  While other pools change, a cycle begins again
\* and again; the cache of a pool expires; a pool with liquidity is selected
\* again and again.
FairSpec ==
  /\ Spec
  /\ WF_vars(Runs("listener") /\ Listener) /\ WF_vars(Runs("warmup") /\ Warmup)
  /\ WF_vars(Recorder) /\ WF_vars(Runs("repair") /\ Repair)
  /\ WF_vars(Runs("hydrator") /\ Hydrator)
  /\ WF_vars(Runs("search") /\ Search)
  /\ SF_vars(Runs("search") /\ Selected)
  /\ SF_vars(Runs("search") /\ Expire)

------------------------------------------------------------------------------
(* Properties *)

IsTicks(f) == DOMAIN f \subseteq Tick /\ \A t \in DOMAIN f : f[t] \in Nat
Statuses == {"ready", "zero_ticks", "refresh_failed"}

\* The values the variables range over.
TypeOK ==
  /\ \A b \in 1..head : log[b] # None => log[b].keys \in Positions /\ log[b].d \in {1, -1}
  /\ idx \subseteq Tick /\ IsTicks(val) /\ IsTicks(pg)
  /\ {marked, repairq, dforce, sgot, expired, missed, clean, hfailed} \subseteq BOOLEAN
  /\ cov # None => cov.status \in Statuses /\ cov.count \in Nat
  /\ \A c \in Clients : /\ call[c].keys \subseteq Tick /\ IsTicks(call[c].ticks)
                        /\ call[c].at \in {"idle", "values", "members", "del", "set", "mark", "replaced"}
  /\ \A q \in Recorders :
       /\ Len(chan[q]) <= QueueCap
       /\ \A r \in {pend[q], flush[q]} \ {None} : IsTicks(r.ticks) /\ r.status \in Statuses
  /\ cache # None => IsTicks(cache)

\* load_tick_states_for_pools: between two cycles, what the searcher has of
\* the ticks is what Redis has, unless someone will still be heard of: the
\* pool is marked, a pipeline that will mark it is being executed, or a mark
\* was drained by a cycle that did not look at the pool, or the cache is old.
\* The drain comes before the read and the mark after the writes.
ChangeNoticed ==
  (spc = "idle" /\ cache # None) =>
    \/ cache = RedisTicks
    \/ marked \/ expired \/ missed
    \/ \E c \in Clients : call[c].at \in {"set", "mark"}

\* No reader is left with old ticks, and every variable has its type.
TicksNoticed == TypeOK /\ ChangeNoticed

\* apply_tick_deltas: when nobody else has written and no log was lost, the
\* ticks in Redis are those of the chain at the block the listener has
\* applied, although it only ever sees deltas.
DeltasExact ==
  /\ clean /\ lpc = "events" => RedisTicks = ChainTicks(lnext - 1)
  /\ clean /\ lpc = "idle" => RedisTicks = ChainTicks(lpos)

\* hydrate_ticks_by_manager_scan: a pass that began no later than the pool's
\* first block and lost no chunk has the ticks of the chain.
FullScanExact ==
  (hpc = "rows" /\ hfrom <= FirstBlock /\ ~hfailed) =>
    Hydrated(hacc) = ChainTicks(hto)

\* repair_v3_ticks: while the searcher keeps running out of known ticks, it
\* does not keep a set of ticks that lacks one of the chain in the wide radius.
Lacking ==
  cache # None /\ ~Empty(cache) /\ ~(DOMAIN ChainTicks(head) \cap Wide \subseteq DOMAIN cache)
RangeNotStuck ==
  (kind = "v3" /\ "repair" \in running /\ []<>repairq) => ~ <>[] Lacking
==============================================================================

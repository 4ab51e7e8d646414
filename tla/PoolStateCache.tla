---------------------------- MODULE PoolStateCache ----------------------------
(***************************************************************************)
(* The hot path of pool states: the chain's logs, market-data's two        *)
(* readers of them (the sealed-block loop and the Flashblocks session,     *)
(* crates/market-data/src/listener.rs), the keys they write in Redis       *)
(* (crates/storage/src/redis.rs), and the searcher's cache of those keys   *)
(* (crates/searcher/src/main.rs).                                          *)
(*                                                                         *)
(* What a pool's state says is the position in the log of the event it     *)
(* includes last: a Sync or Swap event carries the whole price state, and  *)
(* a refresh after a Mint or Burn reads it from the chain.  Fees, the      *)
(* token fields and valid_through_block are not told apart, nor are the    *)
(* records sent to Postgres.  Pools of singleton contracts (Uniswap V4,    *)
(* Balancer V3) are not monitored by these loops.                          *)
(*                                                                         *)
(* A Redis pipeline is not a transaction: commands of other clients may    *)
(* run between its commands.  It does arrive as a whole.                   *)
(***************************************************************************)
EXTENDS Integers, Sequences, FiniteSets

CONSTANTS
  Pools,       \* monitored pools
  TickPools,   \* the V3-style ones, which have Mint and Burn events
  NoState,     \* "none": no key in Redis, nothing cached
  MaxSpan,     \* SEALED_EVENT_MAX_BLOCK_SPAN
  Flash,       \* is a Flashblocks websocket configured?
  LateLogs,    \* may a pending log arrive after its block was sealed?
  RefreshFails,\* may the refresh after a Mint or Burn fail?
  FirstStart,  \* is chain:current_block unset at first?
  MaxBlock, MaxEvents, MaxCrashes   \* bounds

ASSUME CacheConstants ==
  /\ TickPools \subseteq Pools
  /\ {Flash, LateLogs, RefreshFails, FirstStart} \subseteq BOOLEAN
  /\ {MaxSpan, MaxBlock, MaxEvents, MaxCrashes} \subseteq Nat
  /\ MaxSpan > 0 /\ MaxBlock > 0

Event == [pool : Pools, kind : {"swap", "mint"}, block : Nat]

State == [ver : Nat, block : Nat]

ASSUME NoStateIsNone == NoState \notin State

Writers == {"sealed", "flash"}

\* The states of a pipeline are NoState for the pools it leaves alone.
Pipe == [at : {"idle", "block", "states", "marks"}, block : Nat,
         states : [Pools -> State \cup {NoState}], marks : SUBSET Pools]

VARIABLES
  head,        \* the latest sealed block
  log,         \* every event so far; the ones of block head + 1 are pending
  current,     \* Redis chain:current_block, 0 when unset
  redis,       \* Redis pool:<chain>:<address>
  changed,     \* Redis set of changed pools
  tickChanged, \* Redis set of pools with changed ticks
  pipe,        \* the publish_pool_states pipeline each writer has under way
  mpc,         \* where the sealed loop is
  mem,         \* its monitored_states
  lastSeen,    \* its last_seen_block
  polled,      \* the chain head it polled last
  upto,        \* the last block of its chunk
  sel,         \* pools it is about to publish
  fpc,         \* where the Flashblocks session is
  fpos,        \* how much of the log the session has received
  qpc,         \* where the search cycle is
  cache,       \* its pool_states
  got, gotTicks, \* pools it has drained from the two sets
  crashes

chainVars  == <<head, log>>
redisVars  == <<current, redis, changed, tickChanged>>
sealedVars == <<mpc, mem, lastSeen, polled, upto, sel>>
flashVars  == <<fpc, fpos>>
searchVars == <<qpc, cache, got, gotTicks>>
vars == <<chainVars, redisVars, pipe, sealedVars, flashVars, searchVars, crashes>>

------------------------------------------------------------------------------
(* Helpers *)

Larger(a, b) == IF a >= b THEN a ELSE b

\* The last of a set of positions, 0 if there is none.
Last(S) == IF S = {} THEN 0 ELSE CHOOSE i \in S : \A j \in S : j <= i

\* Events of p in the blocks above lo and up to hi.
EventsOf(p, lo, hi) ==
  {i \in DOMAIN log : log[i].pool = p /\ lo < log[i].block /\ log[i].block <= hi}

\* The state of p that a read of the chain at block b returns.
OnChain(p, b) == Last(EventsOf(p, 0, b))

\* SET_CURRENT_BLOCK_IF_NEWER_SCRIPT
Newer(b) == Larger(current, b)

NoPipe == [at |-> "idle", block |-> 0, states |-> [p \in Pools |-> NoState],
           marks |-> {}]

\* publish_pool_states is called.
Publish(w, block, states, marks) ==
  pipe' = [pipe EXCEPT ![w] = [at |-> "block", block |-> block,
                               states |-> states, marks |-> marks]]

\* The next command of a pipeline is at.
Step(w, at) == pipe' = [pipe EXCEPT ![w] = [pipe[w] EXCEPT !.at = at]]

\* The Flashblocks session has received and published everything.
FlashCaughtUp ==
  /\ pipe["flash"].at = "idle"
  /\ fpc \in {"off", "connect"} \/ (fpc = "receive" /\ fpos = Len(log))

------------------------------------------------------------------------------
Init ==
  /\ head = 1 /\ log = <<>>
  /\ current = IF FirstStart THEN 0 ELSE 1
  /\ redis = [p \in Pools |-> NoState] /\ changed = {} /\ tickChanged = {}
  /\ pipe = [w \in Writers |-> NoPipe]
  /\ mpc = "load" /\ mem = [p \in Pools |-> [ver |-> 0, block |-> 0]]
  /\ lastSeen = 0 /\ polled = 0 /\ upto = 0 /\ sel = {}
  /\ fpc = "off" /\ fpos = 0
  /\ qpc = "bootstrap" /\ cache = [p \in Pools |-> NoState]
  /\ got = {} /\ gotTicks = {}
  /\ crashes = 0

------------------------------------------------------------------------------
(* The chain *)

\* A transaction in the block being built touches p.
Emit(p, kind) ==
  /\ Len(log) < MaxEvents /\ head < MaxBlock
  /\ kind = "mint" => p \in TickPools
  /\ log' = Append(log, [pool |-> p, kind |-> kind, block |-> head + 1])
  /\ UNCHANGED <<head, redisVars, pipe, sealedVars, flashVars, searchVars, crashes>>

\* Unless LateLogs, the session has dealt with a block's logs by then.
Seal ==
  /\ head < MaxBlock
  /\ LateLogs \/ FlashCaughtUp
  /\ head' = head + 1
  /\ UNCHANGED <<log, redisVars, pipe, sealedVars, flashVars, searchVars, crashes>>

------------------------------------------------------------------------------
(* publish_pool_states: one pipeline, command by command *)

PipeBlock(w) ==
  /\ pipe[w].at = "block"
  /\ current' = Newer(pipe[w].block)
  /\ Step(w, "states")
  /\ UNCHANGED <<chainVars, redis, changed, tickChanged, sealedVars, flashVars,
                 searchVars, crashes>>

PipeStates(w) ==
  /\ pipe[w].at = "states"
  /\ redis' = [p \in Pools |-> IF pipe[w].states[p] # NoState
                               THEN pipe[w].states[p] ELSE redis[p]]
  /\ Step(w, "marks")
  /\ UNCHANGED <<chainVars, current, changed, tickChanged, sealedVars, flashVars,
                 searchVars, crashes>>

PipeMarks(w) ==
  /\ pipe[w].at = "marks"
  /\ changed' = changed \cup pipe[w].marks
  /\ pipe' = [pipe EXCEPT ![w] = NoPipe]
  /\ UNCHANGED <<chainVars, current, redis, tickChanged, sealedVars, flashVars,
                 searchVars, crashes>>

------------------------------------------------------------------------------
(* The sealed-block loop of market-data *)

\* load_monitored_states: every pool is read from the chain.
Load ==
  /\ mpc = "load"
  /\ mem' = [p \in Pools |-> [ver |-> OnChain(p, head), block |-> head]]
  /\ mpc' = "sync"
  /\ UNCHANGED <<chainVars, redisVars, pipe, lastSeen, polled, upto, sel,
                 flashVars, searchVars, crashes>>

\* Mutant of StartBlock: the stored watermark is ignored.
StartBlock_Head(stored) == head

\* The block the loop resumes from.
StartBlock(stored) == IF stored > 0 /\ stored <= head THEN stored ELSE head

\* The head is polled, the watermark read; all pools are to be published.
Sync ==
  /\ mpc = "sync"
  /\ lastSeen' = StartBlock(current)
  /\ upto' = lastSeen' /\ polled' = head
  /\ current' = IF current = 0 THEN lastSeen' ELSE current
  /\ sel' = Pools
  /\ mpc' = "previous"
  /\ UNCHANGED <<chainVars, redis, changed, tickChanged, pipe, mem, flashVars,
                 searchVars, crashes>>

\* What an event leaves in monitored_states: a Sync or Swap its own state, a
\* Mint or Burn the chain's at the end of its block.
Applied(p, i) ==
  [ver   |-> IF log[i].kind = "swap" THEN i ELSE OnChain(p, log[i].block),
   block |-> log[i].block]

\* One iteration with new blocks, up to the publication: fetch a chunk, apply
\* its events, mark the pools whose ticks changed.  A refresh that fails
\* (failed) leaves the state alone.
Chunk(failed) ==
  /\ mpc = "poll" /\ head > lastSeen
  /\ polled' = head
  /\ upto' = IF head <= lastSeen + MaxSpan THEN head ELSE lastSeen + MaxSpan
  /\ failed \subseteq {i \in DOMAIN log : log[i].kind = "mint"
                                          /\ lastSeen < log[i].block
                                          /\ log[i].block <= upto'}
  /\ LET done(p) == EventsOf(p, lastSeen, upto') \ failed
     IN  /\ sel' = {p \in Pools : done(p) # {}}
         /\ mem' = [p \in Pools |-> IF done(p) = {} THEN mem[p]
                                    ELSE Applied(p, Last(done(p)))]
  /\ tickChanged' = tickChanged \cup
       {p \in Pools : \E i \in EventsOf(p, lastSeen, upto') : log[i].kind = "mint"}
  /\ mpc' = "previous"
  /\ UNCHANGED <<chainVars, current, redis, changed, pipe, lastSeen, flashVars,
                 searchVars, crashes>>

\* spawn_initialized_tick_warmup, or a tick repair: the ticks of p are replaced
\* and p is marked.
Warmup(p) ==
  /\ tickChanged' = tickChanged \cup {p}
  /\ UNCHANGED <<chainVars, current, redis, changed, pipe, sealedVars, flashVars,
                 searchVars, crashes>>

\* publish_selected_states_with_block: a pool is marked when its state differs
\* from the one read here.
ReadPrevious ==
  /\ mpc = "previous" /\ sel # {} /\ pipe["sealed"].at = "idle"
  /\ LET startup == upto = lastSeen
         newest  == CHOOSE b \in {mem[p].block : p \in sel} :
                      \A p \in sel : mem[p].block <= b
     IN  Publish("sealed", IF startup THEN lastSeen ELSE newest,
                 [p \in Pools |-> IF p \in sel THEN mem[p] ELSE NoState],
                 {p \in sel : redis[p] = NoState \/ redis[p].ver # mem[p].ver})
  /\ mpc' = "publish"
  /\ UNCHANGED <<chainVars, redisVars, mem, lastSeen, polled, upto, sel, flashVars,
                 searchVars, crashes>>

\* The chunk is published, or there was nothing to publish: the watermark moves,
\* and the Flashblocks session is spawned once the loop has caught up.
Advance ==
  /\ \/ mpc = "publish" /\ pipe["sealed"].at = "idle"
     \/ mpc = "previous" /\ sel = {}
  /\ lastSeen' = upto
  /\ current' = Newer(upto)
  /\ fpc' = IF fpc = "off" /\ Flash /\ upto >= polled THEN "connect" ELSE fpc
  /\ mpc' = "poll" /\ sel' = {}
  /\ UNCHANGED <<chainVars, redis, changed, tickChanged, pipe, mem, polled, upto,
                 fpos, searchVars, crashes>>

\* An error or a stalled feed ends main; docker starts it again.  What was
\* sent to Redis still arrives, before the new process publishes.
MarketDataCrash ==
  /\ crashes < MaxCrashes /\ mpc # "load"
  /\ crashes' = crashes + 1
  /\ mpc' = "load" /\ sel' = {} /\ fpc' = "off"
  /\ UNCHANGED <<chainVars, redisVars, pipe, mem, lastSeen, polled, upto, fpos,
                 searchVars>>

------------------------------------------------------------------------------
(* The Flashblocks session *)

\* A session receives the logs emitted after its subscription.
Connect ==
  /\ fpc = "connect"
  /\ fpos' = Len(log) /\ fpc' = "receive"
  /\ UNCHANGED <<chainVars, redisVars, pipe, sealedVars, searchVars, crashes>>

\* process_flashblock_event: a Sync or Swap is published at once, a Mint or
\* Burn only moves the watermark.
Receive ==
  /\ fpc = "receive" /\ fpos < Len(log) /\ pipe["flash"].at = "idle"
  /\ fpos' = fpos + 1
  /\ LET e == log[fpos + 1] IN
     \/ /\ e.kind = "swap"
        /\ Publish("flash", e.block,
                   [p \in Pools |-> IF p = e.pool
                                    THEN [ver |-> fpos + 1, block |-> e.block]
                                    ELSE NoState],
                   {e.pool})
        /\ fpc' = "publish" /\ UNCHANGED current
     \/ /\ e.kind = "mint"
        /\ current' = Newer(e.block)
        /\ UNCHANGED <<pipe, fpc>>
  /\ UNCHANGED <<chainVars, redis, changed, tickChanged, sealedVars, searchVars,
                 crashes>>

Published ==
  /\ fpc = "publish" /\ pipe["flash"].at = "idle"
  /\ fpc' = "receive"
  /\ UNCHANGED <<chainVars, redisVars, pipe, sealedVars, fpos, searchVars, crashes>>

\* The websocket closes, or the set of pools changes: a new session.
Disconnect ==
  /\ fpc = "receive"
  /\ fpc' = "connect"
  /\ UNCHANGED <<chainVars, redisVars, pipe, sealedVars, fpos, searchVars, crashes>>

------------------------------------------------------------------------------
(* run_search_cycle, as far as its cache goes *)

\* The first cycle reads every pool state there is.
Bootstrap ==
  /\ qpc = "bootstrap"
  /\ cache' = redis
  /\ qpc' = "drain"
  /\ UNCHANGED <<chainVars, redisVars, pipe, sealedVars, flashVars, got, gotTicks,
                 crashes>>

DrainChanged ==
  /\ qpc = "drain"
  /\ got' = changed /\ changed' = {}
  /\ qpc' = "drain_ticks"
  /\ UNCHANGED <<chainVars, current, redis, tickChanged, pipe, sealedVars,
                 flashVars, cache, gotTicks, crashes>>

DrainTicks ==
  /\ qpc = "drain_ticks"
  /\ gotTicks' = tickChanged /\ tickChanged' = {}
  /\ qpc' = "load"
  /\ UNCHANGED <<chainVars, current, redis, changed, pipe, sealedVars, flashVars,
                 cache, got, crashes>>

\* state_load_addresses: a pool whose ticks changed is read only if it is not
\* cached yet.
ToLoad == {p \in got \cup gotTicks : p \notin gotTicks \/ cache[p] = NoState}

\* Mutant of LoadStates: the set of marks is deleted when the states have been
\* read.
LoadStates_ClearsMarks ==
  /\ qpc = "load"
  /\ cache' = [p \in Pools |-> IF p \in ToLoad THEN redis[p] ELSE cache[p]]
  /\ got' = {} /\ gotTicks' = {} /\ changed' = {}
  /\ qpc' = "drain"
  /\ UNCHANGED <<chainVars, current, redis, tickChanged, pipe, sealedVars,
                 flashVars, crashes>>

LoadStates ==
  /\ qpc = "load"
  /\ cache' = [p \in Pools |-> IF p \in ToLoad THEN redis[p] ELSE cache[p]]
  /\ got' = {} /\ gotTicks' = {}
  /\ qpc' = "drain"
  /\ UNCHANGED <<chainVars, redisVars, pipe, sealedVars, flashVars, crashes>>

\* Mutant of SearcherCrash: the cache is not read again at the start.
SearcherCrash_NoBootstrap ==
  /\ crashes < MaxCrashes /\ qpc # "bootstrap"
  /\ crashes' = crashes + 1
  /\ qpc' = "drain" /\ got' = {} /\ gotTicks' = {}
  /\ cache' = [p \in Pools |-> NoState]
  /\ UNCHANGED <<chainVars, redisVars, pipe, sealedVars, flashVars>>

\* An error of a cycle ends main; the restarted searcher begins with an empty
\* cache.
SearcherCrash ==
  /\ crashes < MaxCrashes /\ qpc # "bootstrap"
  /\ crashes' = crashes + 1
  /\ qpc' = "bootstrap" /\ got' = {} /\ gotTicks' = {}
  /\ cache' = [p \in Pools |-> NoState]
  /\ UNCHANGED <<chainVars, redisVars, pipe, sealedVars, flashVars>>

------------------------------------------------------------------------------
Chain == Seal \/ \E p \in Pools, k \in {"swap", "mint"} : Emit(p, k)

Pipeline(w) == PipeBlock(w) \/ PipeStates(w) \/ PipeMarks(w)

Sealed ==
  \/ Load \/ Sync \/ ReadPrevious \/ Advance
  \/ \E F \in IF RefreshFails THEN SUBSET DOMAIN log ELSE {{}} : Chunk(F)

FlashSession == Connect \/ Receive \/ Published

Searcher == Bootstrap \/ DrainChanged \/ DrainTicks \/ LoadStates

Next ==
  \/ Chain
  \/ \E w \in Writers : Pipeline(w)
  \/ Sealed \/ MarketDataCrash
  \/ \E p \in TickPools : Warmup(p)
  \/ FlashSession \/ Disconnect
  \/ Searcher \/ SearcherCrash

Spec == Init /\ [][Next]_vars

\* Each service keeps running (its loop polls, its container restarts), and
\* Redis answers.
Fairness ==
  /\ \A w \in Writers : WF_vars(Pipeline(w))
  /\ WF_vars(Sealed) /\ WF_vars(FlashSession) /\ WF_vars(Searcher)

FairSpec == Spec /\ Fairness

------------------------------------------------------------------------------
(* Properties *)

TypeOK ==
  /\ head \in 1..MaxBlock /\ log \in Seq(Event)
  /\ current \in Nat
  /\ redis \in [Pools -> State \cup {NoState}]
  /\ changed \subseteq Pools /\ tickChanged \subseteq TickPools
  /\ pipe \in [Writers -> Pipe]
  /\ mpc \in {"load", "sync", "previous", "publish", "poll"}
  /\ mem \in [Pools -> State]
  /\ {lastSeen, polled, upto, fpos, crashes} \subseteq Nat
  /\ sel \subseteq Pools
  /\ fpc \in {"off", "connect", "receive", "publish"}
  /\ qpc \in {"bootstrap", "drain", "drain_ticks", "load"}
  /\ cache \in [Pools -> State \cup {NoState}]
  /\ got \subseteq Pools /\ gotTicks \subseteq TickPools

\* The cached state of p includes less than the one in Redis.
Behind(p) == redis[p] # NoState /\ (cache[p] = NoState \/ cache[p].ver < redis[p].ver)

\* The searcher is told of p, or about to be.
Announced(p) ==
  \/ p \in changed \cup got
  \/ \E w \in Writers : pipe[w].at = "marks" /\ p \in pipe[w].marks

\* "Uses changed pools to restrict path exploration": while the searcher runs, a
\* pool without ticks is never behind Redis without a mark on its way, whichever
\* of the two writers published last, and whatever crashed.  It needs LateLogs
\* to be FALSE: the sealed loop marks a pool by comparing with a state it read
\* before.
NoChangeMissed ==
  qpc # "bootstrap" => \A p \in Pools \ TickPools : Behind(p) => Announced(p)

\* "Writes current pool state to Redis", and the searcher "reads hot pool state":
\* once the chain is quiet, Redis holds every pool as of the last sealed block, and
\* so does the searcher's cache, but for the pools with ticks (run_search_cycle
\* leaves them out when they are in both of its sets).
StatesCatchUp ==
  \A p \in Pools :
    <>[](/\ redis[p] # NoState /\ redis[p].ver >= OnChain(p, head)
         /\ p \notin TickPools =>
              cache[p] # NoState /\ cache[p].ver >= OnChain(p, head))

==============================================================================

---------------------------- MODULE PoolRegistry ----------------------------
(* The registry of pools in Postgres (factory_registry, token_pairs, pools,  *)
(* observed_pools) and the processes that write it statement by statement:   *)
(* pool-discovery (its scan of creation and swap logs, and the scan of the   *)
(* competitor's receipts), the batch tools of the recorder and the registry  *)
(* page of monitor-web; and market-data, which monitors what is enabled.     *)
EXTENDS Integers, Sequences, FiniteSets, SequencesExt

CONSTANTS
  Pools, Factories, Pairs, NoPool,
  NoFactory,     \* factory() is not answered
  FactoryOf,     \* [Pools -> Factories \cup {NoFactory}]
  PairOf,        \* [Pools -> Pairs]
  TopicOf,       \* [Pools -> {"v3", "v2", "aero"}], the event of its swaps
  Canonical,     \* pools their factory returns for their tokens
  V2Factories,   \* factories whose getPair is asked
  Defaults,      \* factories seeded as trusted
  ClassicFactory,\* AERODROME_CLASSIC_FACTORY, one of them
  Configured,    \* pools of the environment, for an empty registry
  LogsAt,        \* the chain: for each block, its logs <<kind, pool>>
  Span,          \* POOL_DISCOVERY_MAX_BLOCK_SPAN
  Lookback,      \* competitor_pool_discovery_lookback_blocks
  Scenarios,     \* the sets of processes that run together
  Faults,        \* bound on failed calls
  Restarts,      \* [Scenarios -> bound on restarts of pool-discovery]
  Jobs           \* [Scenarios -> bound on batch runs and requests]

Scanners == {"live", "collector"}
Writers == Scanners \cup {"batch", "admin"}
Processes == Writers \cup {"market"}
Blocks == 1..Len(LogsAt)

\* A default factory returns the pools it has created.
ASSUME CreatedIsCanonical ==
  \A b \in Blocks : \A i \in 1..Len(LogsAt[b]) :
    LogsAt[b][i][1] = "created" /\ FactoryOf[LogsAt[b][i][2]] \in Defaults \cap V2Factories =>
      LogsAt[b][i][2] \in Canonical

ASSUME RegistryAssumption ==
  /\ FactoryOf \in [Pools -> Factories \cup {NoFactory}]
  /\ PairOf \in [Pools -> Pairs]
  /\ TopicOf \in [Pools -> {"v3", "v2", "aero"}]
  /\ Canonical \subseteq Pools /\ Configured \subseteq Pools
  /\ V2Factories \subseteq Factories /\ Defaults \subseteq Factories
  /\ NoPool \notin Pools /\ NoFactory \notin Factories
  /\ ClassicFactory \in Defaults /\ Lookback \in Nat
  /\ IsFiniteSet(Pools) /\ IsFiniteSet(Defaults)
  /\ LogsAt \in Seq(Seq({"swap", "created"} \X Pools))
  /\ Span \in Nat \ {0} /\ Faults \in Nat
  /\ Scenarios \subseteq SUBSET Processes
  /\ Restarts \in [Scenarios -> Nat] /\ Jobs \in [Scenarios -> Nat]

VARIABLES
  on,          \* the processes of this behaviour
  tip,         \* the head of the chain
  factories,   \* [Factories -> status of its row]
  pairs,       \* [Pairs -> status of its row]
  pools,       \* [Pools -> status of its row]
  observed,    \* [Pools -> import_status and topic0 of its row]
  published,   \* pools that have a state in Redis
  cursor,      \* [Scanners -> last_scanned_block]
  seen,        \* globally_observed_pools of this run of pool-discovery
  job,         \* [Writers -> what it is doing]
  monitored,   \* the pools market-data listens to
  reload,      \* the enabled pools its reload has read, {} for none
  faults, restarts, jobs,
  since,       \* where this run of the scan began
  missed,      \* pools of which a log was lost to a failed call
  withdrawn,   \* pools the operator disabled or removed
  raced,       \* pairs disabled between the two writes of an import
  meddled      \* the operator wrote a factory

vars == <<on, tip, factories, pairs, pools, observed, published, cursor, seen, job,
          monitored, reload, faults, restarts, jobs, since, missed, withdrawn, raced,
          meddled>>

dbVars == <<factories, pairs, pools, observed, published>>
marketVars == <<monitored, reload>>
scanVars == <<cursor, seen, since>>
noteVars == <<missed, withdrawn, raced, meddled>>

-----------------------------------------------------------------------------
(* Jobs and their statements.                                               *)

Topics == {"v3", "v2", "aero", "created"}

Unseen == [status |-> "none", topic |-> "none"]

Idle == [task |-> "idle", inbox |-> {}, todo |-> <<>>, trusted |-> {},
         pool |-> NoPool, linked |-> FALSE, to |-> 0]

Stmt(table, key, status) == [table |-> table, key |-> key, status |-> status, topic |-> "none"]

Trusted == {f \in Factories : factories[f] = "trusted"}

Enabled == {p \in Pools : pools[p] = "enabled"}

Seeds == [i \in DOMAIN SetToSeq(Defaults) |-> Stmt("factory", SetToSeq(Defaults)[i], "trusted")]

FactoryIs(f, status) == IF f = NoFactory THEN <<>> ELSE <<Stmt("factory", f, status)>>

Observe(item, status) ==
  <<[Stmt("observed", item.pool, status) EXCEPT !.topic = item.topic]>>

\* what every import begins with
Register(p) == <<Stmt("pair", PairOf[p], "enabled"), Stmt("pool", p, "enabled")>>

\* Mutant of Import: the observed row is written before the pool.
ImportObservedFirst(item) == Observe(item, "imported") \o Register(item.pool)

Import(item) == Register(item.pool) \o Observe(item, "imported")

Publish(p) == <<Stmt("redis", p, "published")>>

-----------------------------------------------------------------------------
(* What a process decides about a pool.  fault names the call that fails:   *)
(* "metadata" (resolve_observed_pool_metadata), "factory" (its factory()    *)
(* only), "resolve" (the resolver), or "none".                              *)

TrustedResolves(p, f) == f \in V2Factories => p \in Canonical

\* only CLASSIC_SWAP_TOPIC takes the classic branch; the other one reads slot0
RegistryResolves(p, topic) == topic = "v2" \/ TopicOf[p] = "v3"

CreationTopic(p) == IF TopicOf[p] = "v3" THEN "v3" ELSE "v2"

Known(p, fault) == IF fault = "factory" THEN NoFactory ELSE FactoryOf[p]

\* the factory of what resolve_observed_pool_for_registry returns
Discovered(p, topic, fault) ==
  IF Known(p, fault) = NoFactory /\ topic = "v2" THEN ClassicFactory ELSE Known(p, fault)

\* import_discovered_pool of the listener
LiveImport(item, f) ==
  Import(item) \o FactoryIs(f, "trusted") \o Publish(item.pool)

\* process_observed_swap_pool
SwapOutcome(item, trusted, fault) ==
  LET p == item.pool
      f == Known(p, fault)
  IN CASE fault = "metadata" -> <<>>
       [] fault # "metadata" /\ f = NoFactory -> Observe(item, "observed_only")
       [] fault # "metadata" /\ f \in trusted ->
            IF fault # "resolve" /\ TrustedResolves(p, f)
            THEN LiveImport(item, f) ELSE Observe(item, "observed_only")
       [] OTHER ->
            IF fault # "resolve" /\ RegistryResolves(p, item.topic)
            THEN LiveImport(item, f)
            ELSE Observe(item, "classified_observed_only") \o FactoryIs(f, "untrusted")

\* find_created_pool_address: the pool must name the factory of the log as its own
IsCreated(p, fault) == Known(p, fault) # NoFactory

\* record_observed_only_pool: the factory of the log loses its trust
ObservedOnly(item, status) ==
  Observe(item, status) \o FactoryIs(FactoryOf[item.pool], "untrusted")

\* process_pool_creation_log
CreationOutcome(item, trusted, fault) ==
  LET p == item.pool
      f == FactoryOf[p]
  IN CASE ~IsCreated(p, fault) -> <<>>
       [] fault = "metadata" /\ f # NoFactory -> FactoryIs(f, "untrusted")
       [] fault \in {"none", "resolve"} /\ f \in trusted ->
            IF fault = "none" /\ TrustedResolves(p, f)
            THEN Import(item) \o FactoryIs(f, "trusted")
            ELSE ObservedOnly(item, "observed_only")
       [] OTHER ->
            IF fault = "none" /\ RegistryResolves(p, CreationTopic(p))
            THEN LiveImport(item, f)
            ELSE ObservedOnly(item, "classified_observed_only")

\* classify_row
ClassifyOutcome(item, fault) ==
  CASE fault = "metadata" -> Observe(item, "unresolved")
    [] fault \in {"none", "factory"} /\ RegistryResolves(item.pool, item.topic) ->
         Import(item) \o FactoryIs(Discovered(item.pool, item.topic, fault), "trusted")
    [] OTHER -> Observe(item, "classified_observed_only")
                \o FactoryIs(Known(item.pool, fault), "untrusted")

\* process_creation_log of backfill_factory_pools
BackfillFactoryOutcome(item, trusted, fault) ==
  LET p == item.pool
  IN IF fault \in {"metadata", "factory"} \/ FactoryOf[p] \notin trusted THEN <<>>
     ELSE IF fault = "none" /\ TrustedResolves(p, FactoryOf[p])
          THEN Import(item) ELSE Observe(item, "observed_only")

\* process_observed_pool of backfill_swap_pools
BackfillSwapOutcome(item, trusted, fault) ==
  LET p == item.pool
      f == Known(p, fault)
  IN CASE fault = "metadata" -> <<>>
       [] fault # "metadata" /\ f = NoFactory -> Observe(item, "observed_only")
       [] fault # "metadata" /\ f \in trusted ->
            IF fault # "resolve" /\ TrustedResolves(p, f)
            THEN Import(item) \o FactoryIs(f, "trusted")
            ELSE Observe(item, "observed_only")
       [] OTHER -> Observe(item, "observed_only") \o FactoryIs(f, "untrusted")

\* import_observed_pools, the tool: it leaves the factories alone
ImportToolOutcome(item, fault) ==
  IF fault \in {"none", "factory"} /\ RegistryResolves(item.pool, item.topic)
  THEN Import(item) ELSE Observe(item, "observed_only")

\* import_observed_pools of monitor-web
ImportPageOutcome(item, fault) ==
  IF fault \in {"none", "factory"} /\ RegistryResolves(item.pool, item.topic)
  THEN Import(item) \o FactoryIs(Discovered(item.pool, item.topic, fault), "trusted")
  ELSE Observe(item, "observed_only")
       \o (IF fault = "metadata" THEN <<>>
           ELSE FactoryIs(Known(item.pool, fault), "untrusted"))

Outcome(task, item, trusted, fault) ==
  CASE task = "creations" -> CreationOutcome(item, trusted, fault)
    [] task = "swaps" -> SwapOutcome(item, trusted, fault)
    [] task = "classify" -> ClassifyOutcome(item, fault)
    [] task = "backfill_factory" -> BackfillFactoryOutcome(item, trusted, fault)
    [] task = "backfill_swap" -> BackfillSwapOutcome(item, trusted, fault)
    [] task = "import" -> ImportToolOutcome(item, fault)
    [] task = "import_page" -> ImportPageOutcome(item, fault)

-----------------------------------------------------------------------------
(* The logs a process asks for.                                             *)

\* An item has a place among the logs it comes from.
ItemsIn(b, kind, topics) ==
  {[pool |-> LogsAt[b][i][2], topic |-> topics[LogsAt[b][i][2]], at |-> <<b, i>>] :
     i \in {k \in 1..Len(LogsAt[b]) : LogsAt[b][k][1] = kind}}

SwapsOf == [b \in Blocks |-> ItemsIn(b, "swap", TopicOf)]
CreationsOf == [b \in Blocks |-> ItemsIn(b, "created", [p \in Pools |-> "created"])]

Swaps(from, to) == UNION {SwapsOf[b] : b \in (from..to) \cap Blocks}
Creations(from, to) == UNION {CreationsOf[b] : b \in (from..to) \cap Blocks}

PoolsIn(items) == {item.pool : item \in items}

\* The items of a query, in any order.
Items(ps, topics) == {[pool |-> p, topic |-> topics[p], at |-> <<0, 0>>] : p \in ps}

Before(x, y) == x[1] < y[1] \/ (x[1] = y[1] /\ x[2] < y[2])

\* The items a loop over the inbox may come to first.
Firsts(inbox) == {item \in inbox : \A other \in inbox : ~Before(other.at, item.at)}

Reached(last) == IF tip < last + Span THEN tip ELSE last + Span

-----------------------------------------------------------------------------
Init ==
  /\ on \in Scenarios
  /\ tip = 0
  /\ factories = [f \in Factories |-> IF f \in Defaults THEN "trusted" ELSE "none"]
  /\ \E old \in {{}, Configured} :
       /\ pools = [p \in Pools |-> IF p \in old THEN "enabled" ELSE "none"]
       /\ pairs = [a \in Pairs |-> IF \E p \in old : PairOf[p] = a THEN "enabled" ELSE "none"]
  /\ observed = [p \in Pools |-> Unseen]
  /\ published = Configured /\ monitored = Configured /\ reload = {}
  /\ cursor = [w \in Scanners |-> 0] /\ seen = {} /\ since = 0
  /\ job = [w \in Writers |-> Idle]
  /\ faults = Faults /\ restarts = Restarts[on] /\ jobs = Jobs[on]
  /\ missed = {} /\ withdrawn = {} /\ raced = {} /\ meddled = FALSE

NewBlock ==
  /\ tip < Len(LogsAt)
  /\ tip' = tip + 1
  /\ UNCHANGED <<on, dbVars, scanVars, job, marketVars, faults, restarts, jobs, noteVars>>

\* a call fails, within the bound
Fault(failed) == (failed => faults > 0) /\ faults' = faults - (IF failed THEN 1 ELSE 0)

LivePoll(failed) ==
  LET from == cursor["live"] + 1
      logs == Creations(from, Reached(cursor["live"]))
  IN /\ "live" \in on /\ job["live"] = Idle /\ cursor["live"] < tip
     /\ Fault(failed)
     /\ job' = [job EXCEPT !["live"] =
                 [Idle EXCEPT !.task = "creations", !.trusted = Trusted,
                              !.inbox = IF failed THEN {} ELSE logs,
                              !.to = Reached(cursor["live"])]]
     /\ missed' = missed \cup (IF failed THEN PoolsIn(logs) ELSE {})
     /\ UNCHANGED <<on, tip, dbVars, scanVars, marketVars, restarts, jobs,
                    withdrawn, raced, meddled>>

LiveSwaps(failed) ==
  LET j == job["live"]
      logs == Swaps(cursor["live"] + 1, j.to)
  IN /\ j.task = "creations" /\ j.inbox = {} /\ j.todo = <<>>
     /\ Fault(failed)
     /\ job' = [job EXCEPT !["live"] =
                 [j EXCEPT !.task = "swaps", !.trusted = Trusted,
                           !.inbox = IF failed THEN {} ELSE logs]]
     /\ missed' = missed \cup (IF failed THEN PoolsIn(logs) ELSE {})
     /\ UNCHANGED <<on, tip, dbVars, scanVars, marketVars, restarts, jobs,
                    withdrawn, raced, meddled>>

\* Mutant of LiveScanned: the scan goes on at the head.
LiveScannedToTheHead ==
  LET j == job["live"]
  IN /\ j.task = "swaps" /\ j.inbox = {} /\ j.todo = <<>>
     /\ cursor' = [cursor EXCEPT !["live"] = tip]
     /\ job' = [job EXCEPT !["live"] = Idle]
     /\ UNCHANGED <<on, tip, dbVars, seen, since, marketVars, faults, restarts, jobs, noteVars>>

LiveScanned ==
  LET j == job["live"]
  IN /\ j.task = "swaps" /\ j.inbox = {} /\ j.todo = <<>>
     /\ cursor' = [cursor EXCEPT !["live"] = j.to]
     /\ job' = [job EXCEPT !["live"] = Idle]
     /\ UNCHANGED <<on, tip, dbVars, seen, since, marketVars, faults, restarts, jobs, noteVars>>

\* pool-discovery begins again; it seeds the factories before it looks at the head
Restart ==
  /\ "live" \in on /\ restarts > 0
  /\ restarts' = restarts - 1
  /\ job' = [w \in Writers |->
              CASE w = "live" -> [Idle EXCEPT !.task = "seed", !.todo = Seeds]
                [] w = "collector" -> Idle
                [] OTHER -> job[w]]
  /\ cursor' = [cursor EXCEPT !["collector"] = IF tip > Lookback THEN tip - Lookback ELSE 0]
  /\ seen' = {}
  /\ UNCHANGED <<on, tip, dbVars, since, marketVars, faults, jobs, noteVars>>

Seeded ==
  /\ job["live"].task = "seed" /\ job["live"].todo = <<>>
  /\ job' = [job EXCEPT !["live"] = Idle]
  /\ cursor' = [cursor EXCEPT !["live"] = tip]
  /\ since' = tip
  /\ UNCHANGED <<on, tip, dbVars, seen, marketVars, faults, restarts, jobs, noteVars>>

\* the receipts of the transactions that pay the collector hold some of the swaps
CollectorPoll(ps) ==
  LET to == Reached(cursor["collector"])
  IN /\ "collector" \in on /\ job["collector"] = Idle /\ cursor["collector"] < tip
     /\ ps \subseteq PoolsIn(Swaps(cursor["collector"] + 1, to))
     /\ job' = [job EXCEPT !["collector"] =
                 [Idle EXCEPT !.task = "swaps", !.trusted = Trusted,
                              !.inbox = Items(ps, TopicOf), !.to = to]]
     /\ UNCHANGED <<on, tip, dbVars, scanVars, marketVars, faults, restarts, jobs, noteVars>>

\* the block range is left behind, also when a receipt could not be read
CollectorScanned(failed) ==
  LET j == job["collector"]
  IN /\ j.task = "swaps" /\ j.todo = <<>> /\ (failed \/ j.inbox = {})
     /\ Fault(failed)
     /\ cursor' = [cursor EXCEPT !["collector"] = j.to]
     /\ job' = [job EXCEPT !["collector"] = Idle]
     /\ UNCHANGED <<on, tip, dbVars, seen, since, marketVars, restarts, jobs, noteVars>>

-----------------------------------------------------------------------------
(* One pool after another, and one statement after another.                 *)

Failures == {"none", "metadata", "factory", "resolve"}

\* a scanner counts the pool as seen before it knows what becomes of it
TakeItem(w, item, fault) ==
  LET j == job[w]
      again == w = "live" /\ j.task = "swaps" /\ item.pool \in seen
  IN /\ j.todo = <<>> /\ item \in Firsts(j.inbox)
     /\ Fault(fault # "none") /\ (again => fault = "none")
     /\ job' = [job EXCEPT ![w] =
                 [j EXCEPT !.inbox = j.inbox \ {item}, !.pool = item.pool, !.linked = FALSE,
                           !.todo = IF again THEN <<>>
                                    ELSE Outcome(j.task, item, j.trusted, fault)]]
     /\ seen' = IF w = "live" /\ j.task = "swaps" THEN seen \cup {item.pool} ELSE seen
     /\ missed' = missed \cup (IF w = "live" /\ fault # "none" THEN {item.pool} ELSE {})
     /\ UNCHANGED <<on, tip, dbVars, cursor, since, marketVars, restarts, jobs,
                    withdrawn, raced, meddled>>

Done(w) == [job EXCEPT ![w].todo = Tail(job[w].todo)]

Frame == UNCHANGED <<on, tip, scanVars, marketVars, faults, restarts, jobs>>

At(w, table) == job[w].todo # <<>> /\ Head(job[w].todo).table = table

WritePair(w) ==
  LET s == Head(job[w].todo)
  IN /\ At(w, "pair")
     /\ pairs' = [pairs EXCEPT ![s.key] = "enabled"]
     /\ job' = [Done(w) EXCEPT ![w].linked = TRUE]
     /\ UNCHANGED <<factories, pools, observed, published, noteVars>> /\ Frame

WritePool(w) ==
  LET s == Head(job[w].todo)
  IN /\ At(w, "pool") /\ job[w].linked
     /\ pools' = [pools EXCEPT ![s.key] = "enabled"]
     /\ withdrawn' = withdrawn \ {s.key}
     /\ job' = Done(w)
     /\ UNCHANGED <<factories, pairs, observed, published, missed, raced, meddled>> /\ Frame

WriteObserved(w) ==
  LET s == Head(job[w].todo)
  IN /\ At(w, "observed")
     /\ observed' = [observed EXCEPT ![s.key] = [status |-> s.status, topic |-> s.topic]]
     /\ job' = Done(w)
     /\ UNCHANGED <<factories, pairs, pools, published, noteVars>> /\ Frame

WriteFactory(w) ==
  LET s == Head(job[w].todo)
  IN /\ At(w, "factory")
     /\ factories' = [factories EXCEPT ![s.key] = s.status]
     /\ job' = Done(w)
     /\ UNCHANGED <<pairs, pools, observed, published, noteVars>> /\ Frame

WriteRedis(w) ==
  /\ At(w, "redis")
  /\ published' = published \cup {Head(job[w].todo).key}
  /\ job' = Done(w)
  /\ UNCHANGED <<factories, pairs, pools, observed, noteVars>> /\ Frame

\* Err: the scanners and most tools go on with the next pool, the import tool
\* and the request end there, and a failed seed ends pool-discovery
AfterError(w) ==
  LET j == job[w]
  IN IF j.task \in {"import", "import_page", "rediscover"} THEN Idle
     ELSE IF j.task = "seed" THEN [j EXCEPT !.todo = Seeds]
     ELSE [j EXCEPT !.todo = <<>>]

\* the pair's row is gone (a foreign key), or the statement fails; the pools of
\* a pair stay enabled when the second statement of disable_token_pair fails
StatementFails(w) ==
  LET s == Head(job[w].todo)
      unlinked == s.table = "pool" /\ ~job[w].linked
  IN /\ job[w].todo # <<>>
     /\ Fault(~unlinked)
     /\ job' = [job EXCEPT ![w] = AfterError(w)]
     /\ missed' = missed \cup (IF w = "live" /\ job[w].pool \in Pools THEN {job[w].pool} ELSE {})
     /\ raced' = raced \cup (IF s.table = "disable" THEN {s.key} ELSE {})
     /\ UNCHANGED <<on, tip, dbVars, scanVars, marketVars, restarts, jobs, withdrawn, meddled>>

-----------------------------------------------------------------------------
(* The tools of the recorder.                                               *)

BatchItems(task, ps) ==
  CASE task = "classify" ->
         Items({p \in Pools : observed[p].status \in {"observed_only", "unresolved"}},
               [p \in Pools |-> observed[p].topic])
    [] task = "backfill_factory" -> {item \in Creations(1, tip) : FactoryOf[item.pool] \in Trusted}
    [] task = "backfill_swap" -> Items(PoolsIn(Swaps(1, tip)), TopicOf)
    [] task = "import" -> Items(ps, TopicOf)

\* Mutant of RunBatch: the tool works without the trusted factories.
RunBatchUntrusting(task, ps) ==
  /\ "batch" \in on /\ jobs > 0 /\ jobs' = jobs - 1
  /\ ps \subseteq PoolsIn(Swaps(1, tip)) /\ (task # "import" => ps = {})
  /\ BatchItems(task, ps) # {}
  /\ job["batch"].todo = <<>> /\ job["batch"].inbox = {}
  /\ job' = [job EXCEPT !["batch"] =
              [Idle EXCEPT !.task = task, !.inbox = BatchItems(task, ps)]]
  /\ UNCHANGED <<on, tip, dbVars, scanVars, marketVars, faults, restarts, noteVars>>

RunBatch(task, ps) ==
  /\ "batch" \in on /\ jobs > 0 /\ jobs' = jobs - 1
  /\ ps \subseteq PoolsIn(Swaps(1, tip)) /\ (task # "import" => ps = {})
  /\ BatchItems(task, ps) # {}
  /\ job["batch"].todo = <<>> /\ job["batch"].inbox = {}
  /\ job' = [job EXCEPT !["batch"] =
              [Idle EXCEPT !.task = task, !.inbox = BatchItems(task, ps), !.trusted = Trusted,
                           !.todo = IF task = "backfill_factory" THEN Seeds ELSE <<>>]]
  /\ UNCHANGED <<on, tip, dbVars, scanVars, marketVars, faults, restarts, noteVars>>

-----------------------------------------------------------------------------
(* The registry page.                                                       *)

Asks == /\ "admin" \in on /\ jobs > 0 /\ jobs' = jobs - 1
        /\ job["admin"].todo = <<>> /\ job["admin"].inbox = {}

Request(j) == job' = [job EXCEPT !["admin"] = j]

\* its query leaves the other classic swap event out
ImportObserved(ps) ==
  /\ Asks
  /\ ps # {} /\ ps \subseteq {p \in PoolsIn(Swaps(1, tip)) : TopicOf[p] # "aero"}
  /\ Request([Idle EXCEPT !.task = "import_page", !.inbox = Items(ps, TopicOf)])
  /\ UNCHANGED <<on, tip, dbVars, scanVars, marketVars, faults, restarts, noteVars>>

\* A factory is asked for the pool of a pair, for each tick spacing, fee or kind of
\* curve; then the pool for its state: a call that fails leaves the pool out.
Probed(a, topics, answered) ==
  {p \in Canonical \cap answered :
     FactoryOf[p] \in Defaults /\ PairOf[p] = a /\ TopicOf[p] \in topics}

ProbedClassic(a, answered) == Probed(a, {"v2", "aero"}, answered)
ProbedV3(a, answered) == Probed(a, {"v3"}, answered)

\* discover_pools_for_pair: one kind after another
Found(a, answered) ==
  SetToSeq(ProbedClassic(a, answered)) \o SetToSeq(ProbedV3(a, answered))

\* discover_and_upsert_pair_addresses: nothing is written when nothing is found
Rediscover(a, answered) ==
  LET found == Found(a, answered)
  IN /\ Asks /\ found # <<>>
     /\ Request([Idle EXCEPT !.task = "rediscover", !.pool = Head(found),
                             !.todo = <<Stmt("pair", a, "enabled")>>
                                      \o [i \in DOMAIN found |-> Stmt("pool", found[i], "enabled")]])
     /\ UNCHANGED <<on, tip, dbVars, scanVars, marketVars, faults, restarts, noteVars>>

UpdateFactory(f, status) ==
  /\ Asks /\ UNCHANGED job
  /\ factories' = [factories EXCEPT ![f] = status]
  /\ meddled' = TRUE
  /\ UNCHANGED <<on, tip, pairs, pools, observed, published, scanVars, marketVars, faults,
                 restarts, missed, withdrawn, raced>>

PoolsOf(a) == {p \in Pools : PairOf[p] = a /\ pools[p] # "none"}

\* a job has written the pair and not yet the pools
Between(a) == \E w \in Writers : /\ job[w].linked /\ job[w].pool \in Pools
                                 /\ PairOf[job[w].pool] = a
                                 /\ \E i \in DOMAIN job[w].todo : job[w].todo[i].table = "pool"

\* disable_token_pair: the pair, and in a second statement its pools
DisablePair(a) ==
  /\ Asks /\ pairs[a] # "none"
  /\ Request([Idle EXCEPT !.task = "disable", !.todo = <<Stmt("disable", a, "disabled")>>])
  /\ pairs' = [pairs EXCEPT ![a] = "disabled"]
  /\ raced' = raced \cup (IF Between(a) THEN {a} ELSE {})
  /\ UNCHANGED <<on, tip, factories, pools, observed, published, scanVars, marketVars, faults,
                 restarts, missed, withdrawn, meddled>>

DisablePools ==
  LET a == Head(job["admin"].todo).key
  IN /\ At("admin", "disable")
     /\ pools' = [p \in Pools |-> IF p \in PoolsOf(a) THEN "disabled" ELSE pools[p]]
     /\ withdrawn' = withdrawn \cup PoolsOf(a)
     /\ job' = Done("admin")
     /\ UNCHANGED <<factories, pairs, observed, published, missed, raced, meddled>> /\ Frame

\* delete_token_pair, a transaction: who holds the id of the pair has it no more
RemovePair(a) ==
  /\ pairs[a] # "none" /\ Asks
  /\ job' = [w \in Writers |->
              IF job[w].pool \in Pools /\ PairOf[job[w].pool] = a
              THEN [job[w] EXCEPT !.linked = FALSE] ELSE job[w]]
  /\ pairs' = [pairs EXCEPT ![a] = "none"]
  /\ pools' = [p \in Pools |-> IF PairOf[p] = a THEN "none" ELSE pools[p]]
  /\ withdrawn' = withdrawn \cup PoolsOf(a)
  /\ UNCHANGED <<on, tip, factories, observed, published, scanVars, marketVars, faults,
                 restarts, missed, raced, meddled>>

-----------------------------------------------------------------------------
(* market-data.                                                             *)

\* bootstrap_configured_pools: all of them; a start that cannot read one is made again
Bootstrapped == Configured

\* load_monitored_states, and the states it publishes
MarketStart(failed) ==
  LET wanted == IF Enabled = {} THEN Bootstrapped ELSE Enabled \ failed
  IN /\ "market" \in on /\ restarts > 0 /\ restarts' = restarts - 1
     /\ failed \subseteq Enabled /\ Fault(failed # {})
     /\ monitored' = wanted /\ published' = published \cup wanted /\ reload' = {}
     /\ UNCHANGED <<on, tip, factories, pairs, pools, observed, scanVars, job, jobs, noteVars>>

\* Mutant of ReloadRead: only the number of pools is compared.
ReloadReadByCount ==
  /\ "market" \in on /\ reload = {}
  /\ Enabled # {} /\ Cardinality(Enabled) # Cardinality(monitored)
  /\ reload' = Enabled
  /\ UNCHANGED <<on, tip, dbVars, scanVars, job, monitored, faults, restarts, jobs, noteVars>>

\* reload_if_changed; an empty registry changes nothing
ReloadRead ==
  /\ "market" \in on /\ reload = {}
  /\ Enabled # {} /\ Enabled # monitored
  /\ reload' = Enabled
  /\ UNCHANGED <<on, tip, dbVars, scanVars, job, monitored, faults, restarts, jobs, noteVars>>

ReloadApply(failed) ==
  LET added == (reload \ monitored) \ failed
  IN /\ reload # {}
     /\ failed \subseteq reload \ monitored /\ Fault(failed # {})
     /\ monitored' = (monitored \cap reload) \cup added
     /\ published' = published \cup added
     /\ reload' = {}
     /\ UNCHANGED <<on, tip, factories, pairs, pools, observed, scanVars, job, restarts, jobs,
                    noteVars>>

-----------------------------------------------------------------------------
Write(w) == WritePair(w) \/ WritePool(w) \/ WriteObserved(w) \/ WriteFactory(w) \/ WriteRedis(w)

Live ==
  \/ \E failed \in BOOLEAN : LivePoll(failed) \/ LiveSwaps(failed)
  \/ LiveScanned \/ Seeded

Collector ==
  \/ \E ps \in SUBSET Pools : CollectorPoll(ps)
  \/ \E failed \in BOOLEAN : CollectorScanned(failed)

Operator ==
  \/ \E ps \in SUBSET Pools : ImportObserved(ps)
  \/ \E a \in Pairs, answered \in SUBSET Pools : Rediscover(a, answered)
  \/ \E f \in Factories, status \in {"trusted", "untrusted", "off"} : UpdateFactory(f, status)
  \/ \E a \in Pairs : DisablePair(a) \/ RemovePair(a)

Tools == \E task \in {"classify", "backfill_factory", "backfill_swap", "import"},
            ps \in SUBSET Pools : RunBatch(task, ps)

Reload == ReloadRead \/ \E failed \in SUBSET Pools : ReloadApply(failed)

Next ==
  \/ NewBlock \/ Live \/ Collector \/ Operator \/ Tools \/ DisablePools
  \/ Restart \/ Reload \/ \E failed \in SUBSET Pools : MarketStart(failed)
  \/ \E w \in Writers : \/ \E item \in job[w].inbox, fault \in Failures : TakeItem(w, item, fault)
                        \/ Write(w) \/ StatementFails(w)

Spec == Init /\ [][Next]_vars

FairSpec == Spec /\ WF_vars(Reload)

-----------------------------------------------------------------------------
Observation == [status : {"none", "observed_only", "unresolved", "classified_observed_only", "imported"},
                topic : Topics \cup {"none"}]

Item == [pool : Pools, topic : Topics \cup {"none"}, at : Nat \X Nat]

Statement ==
  {s \in [table : {"pair", "pool", "observed", "factory", "redis", "disable"},
          key : Pairs \cup Pools \cup Factories,
          status : {"enabled", "disabled", "trusted", "untrusted", "published", "observed_only",
                    "unresolved", "classified_observed_only", "imported"},
          topic : Topics \cup {"none"}] :
     /\ s.table \in {"pair", "disable"} => s.key \in Pairs
     /\ s.table \in {"pool", "observed", "redis"} => s.key \in Pools
     /\ s.table = "factory" => s.key \in Factories /\ s.status \in {"trusted", "untrusted"}
     /\ s.table = "observed" => s.status \in {"observed_only", "unresolved",
                                              "classified_observed_only", "imported"}}

Job == [task : {"idle", "seed", "creations", "swaps", "classify", "backfill_factory",
                "backfill_swap", "import", "import_page", "rediscover", "disable"},
        inbox : SUBSET Item, todo : Seq(Statement), trusted : SUBSET Factories,
        pool : Pools \cup {NoPool}, linked : BOOLEAN, to : Nat]

TypeOK ==
  /\ on \in Scenarios /\ tip \in 0..Len(LogsAt)
  /\ factories \in [Factories -> {"none", "trusted", "untrusted", "off"}]
  /\ pairs \in [Pairs -> {"none", "enabled", "disabled"}]
  /\ pools \in [Pools -> {"none", "enabled", "disabled"}]
  /\ observed \in [Pools -> Observation]
  /\ cursor \in [Scanners -> 0..tip] /\ since \in 0..tip
  /\ job \in [Writers -> Job]
  /\ published \cup monitored \cup reload \cup seen \cup missed \cup withdrawn \subseteq Pools
  /\ raced \subseteq Pairs /\ meddled \in BOOLEAN
  /\ faults \in 0..Faults /\ restarts \in 0..Restarts[on] /\ jobs \in 0..Jobs[on]

\* Every pool that swapped, or was created, in the blocks pool-discovery has
\* scanned since its start has a row in observed_pools, unless a call about it failed
\* (run_pool_discovery; it counts a pool as seen before it processes it).
NothingSkipped ==
  "live" \in on =>
    \A p \in PoolsIn(Swaps(since + 1, cursor["live"])) \cup
             {q \in PoolsIn(Creations(since + 1, cursor["live"])) : FactoryOf[q] # NoFactory} :
      p \notin missed => observed[p] # Unseen

\* A pool that is traded belongs to a pair that is searched, unless the operator
\* disabled the pair between the two writes of an import (disable_token_pair).
PairOfEnabledPool ==
  \A p \in Enabled : \/ pairs[PairOf[p]] = "enabled" \/ PairOf[p] \in raced
                     \/ At("admin", "disable")

\* A row that says imported has its pool in the registry, unless the operator took
\* it out (the statements of an import, in their order).
ImportedInRegistry ==
  \A p \in Pools : observed[p].status = "imported" => pools[p] = "enabled" \/ p \in withdrawn

\* Both hold of every state, and every variable has its type.
RegistrySound == TypeOK /\ PairOfEnabledPool /\ ImportedInRegistry

\* Factories of pools that are not V3: unless its row says CLASSIC_SWAP_TOPIC, the
\* classifier reads slot0 of such a pool, fails, and writes the factory off.
Unreadable == {FactoryOf[p] : p \in {q \in Pools : TopicOf[q] # "v3"}}

\* While every call answers and the operator leaves the factories alone, a default
\* factory stays trusted, but for what the classifier does to those of classic pools
\* (upsert_factory_registry overwrites the trust of its row).
TrustKept ==
  faults = Faults /\ ~meddled =>
    \A f \in Defaults : f \in Trusted \/ ("batch" \in on /\ f \in Unreadable)

\* A pool that is enabled is monitored in the end, also when its first fetch fails
\* (reload_if_changed).
EnabledGetsMonitored ==
  "market" \in on =>
    \A p \in Pools : [](p \in Enabled => <>(p \in monitored \/ p \notin Enabled))

\* A pool the operator takes out is left in the end, unless it was the last one:
\* an empty registry keeps the pools it has (reload_if_changed).
DisabledLeaves ==
  "market" \in on =>
    \A p \in Pools : [](p \in monitored \ Enabled =>
                        <>(p \notin monitored \/ p \in Enabled \/ Enabled = {}))

\* The monitored set follows the registry both ways.
MonitoredFollows == EnabledGetsMonitored /\ DisabledLeaves

=============================================================================

-------------------------- MODULE PathSearchProofs --------------------------
(***************************************************************************)
(* Proofs about PathSearch, for any market, any configuration and forms,   *)
(* any caps and any number of cycles: what the index is built from, what   *)
(* the quotes publish, what the forms leave in the configuration.          *)
(***************************************************************************)
EXTENDS PathSearch, FiniteSetTheorems, TLAPS

-----------------------------------------------------------------------------
(* The registers of a cycle *)

LoadFields == {"pc", "changed", "ticked"}
QuoteFields ==
  {"pc", "changed", "ticked", "seen", "capped", "selected", "two", "dyn", "quoted",
   "pushed", "repairs"}

ScanInv ==
  /\ "pc" \in DOMAIN scan
  /\ scan.pc \in {"idle", "drain", "load", "expand", "ticks", "quote"}
  /\ scan.pc \in {"load", "expand"} => DOMAIN scan = LoadFields
  /\ scan.pc \in {"ticks", "quote"} => DOMAIN scan = QuoteFields

LEMMA FormLeaves == SubmitForm => UNCHANGED <<scen, redis, aged, rticks, known, marks, tmarks, run, scan>>
  BY Zenon DEF SubmitForm

LEMMA AroundLeaves == Around => UNCHANGED <<scen, run, scan>> /\ (known => known')
  <1> SUFFICES ASSUME Around PROVE UNCHANGED <<scen, run, scan>> /\ (known => known')
    OBVIOUS
  <1>1. CASE \E p \in Pools : Publish(p) \/ PublishTicks(p) \/ Age(p)
    BY <1>1 DEF Publish, PublishTicks, Age
  <1>2. CASE SubmitForm
    BY <1>2, FormLeaves
  <1>3. ASSUME NEW i, DiscoveryStep(i) \/ DefaultsStep(i)
        PROVE  UNCHANGED <<scen, run, scan, known>>
    BY <1>3, Zenon DEF DiscoveryStep, DefaultsStep
  <1> QED
    BY <1>1, <1>2, <1>3 DEF Around, Operator

\* One batch: first of the two-hop paths, next of the dynamic ones.
BatchStep(first, next, kept, repairs) ==
  scan' = [scan EXCEPT !.two = @ \ first, !.dyn = @ \ next,
                       !.quoted = @ \cup (first \cup Dynamic(next)),
                       !.repairs = @ \cup repairs,
                       !.pushed = @ \cup {c \in kept : RiskAccepts(c, run.active)}]

CandidatesFrom(paths) ==
  UNION {CandidatesOf(States, Books, path) : path \in paths}

LEMMA BatchFacts ==
  ASSUME QuoteBatch
  PROVE  \E first \in SUBSET scan.two, next \in SUBSET scan.dyn : \E repairs :
           \E kept \in Coalesced(CandidatesFrom(first \cup Dynamic(next))) :
             BatchStep(first, next, kept, repairs)
  <1> DEFINE size == Min({BatchSize, Cardinality(scan.two)})
             next == {i \in scan.dyn : Cardinality({j \in scan.dyn : j <= i}) <= BatchSize - size}
             repairs(first) ==
               UNION {RepairsOf(States, Books, path) : path \in first \cup Dynamic(next)}
  <1>1. PICK first \in kSubset(size, scan.two) :
          \E kept \in Coalesced(UNION {CandidatesOf(States, Books, path) :
                                         path \in first \cup Dynamic(next)}) :
            scan' = [scan EXCEPT !.two = @ \ first,
                                 !.dyn = @ \ next,
                                 !.quoted = @ \cup (first \cup Dynamic(next)),
                                 !.repairs = @ \cup repairs(first),
                                 !.pushed = @ \cup {c \in kept : RiskAccepts(c, run.active)}]
    BY DEF QuoteBatch
  <1>2. first \in SUBSET scan.two
    BY DEF kSubset
  <1>3. next \in SUBSET scan.dyn
    OBVIOUS
  <1> HIDE DEF next, repairs, size
  <1> QED
    BY <1>1, <1>2, <1>3 DEF BatchStep, CandidatesFrom

LEMMA ScanInvariant == Spec => []ScanInv
  <1>1. Init => ScanInv
    BY DEF Init, Idle, ScanInv
  <1>2. ScanInv /\ [Next]_vars => ScanInv'
    <2> SUFFICES ASSUME ScanInv, [Next]_vars PROVE ScanInv'
      OBVIOUS
    <2>1. CASE UNCHANGED vars \/ Around
      BY <2>1, AroundLeaves DEF vars, ScanInv
    <2>2. CASE DrainPools
      BY <2>2 DEF DrainPools, ScanInv
    <2>3. CASE DrainTicks
      BY <2>3 DEF DrainTicks, Rest, Idle, ScanInv, LoadFields
    <2>4. CASE LoadStates
      <3>1. scan' = Idle \/ scan' = [scan EXCEPT !.pc = "expand"]
        BY <2>4 DEF LoadStates, Rest
      <3>2. scan.pc = "load"
        BY <2>4 DEF LoadStates
      <3> QED
        BY <3>1, <3>2 DEF ScanInv, Idle, LoadFields
    <2>5. CASE Expand
      BY <2>5 DEF Expand, ScanInv, QuoteFields
    <2>6. CASE LoadTicks
      <3>1. \E two, dyn : scan' = [scan EXCEPT !.pc = "quote", !.two = two, !.dyn = dyn]
        BY <2>6 DEF LoadTicks
      <3>2. scan.pc = "ticks"
        BY <2>6 DEF LoadTicks
      <3> QED
        BY <3>1, <3>2 DEF ScanInv, QuoteFields
    <2>7. CASE QuoteBatch
      <3>1. scan.pc = "quote"
        BY <2>7 DEF QuoteBatch
      <3> QED
        BY <2>7, <3>1, BatchFacts DEF BatchStep, ScanInv, QuoteFields
    <2>8. CASE Finish \/ Die
      BY <2>8 DEF Finish, Die, Rest, Idle, ScanInv
    <2> QED
      BY <2>1, <2>2, <2>3, <2>4, <2>5, <2>6, <2>7, <2>8 DEF Next, Cycle
  <1> QED
    BY <1>1, <1>2, PTL DEF Spec

-----------------------------------------------------------------------------
(* The index and the graph *)

RunFields ==
  {"booted", "cached", "ticks", "active", "engine", "trusted", "index", "graph", "sweep"}

\* Index and graph of a runtime are those of its active pools.
Built(r) ==
  /\ DOMAIN r.index.states = r.active /\ r.graph.states = r.index.states
  /\ r.index.engine = r.engine
  /\ \A p \in r.active :
       Topology(StateOf(p, r.index.states[p])) = Topology(StateOf(p, r.cached[p]))

\* They may be out of date while no pool is active, and while there is none; the
\* active pools may not be ready before a sweep that is due.
IndexInv ==
  /\ DOMAIN run = RunFields
  /\ run.active \subseteq DOMAIN run.cached
  /\ run.index # None => run.index.engine = run.engine
  /\ run.index # None /\ run.active # {} => Built(run)
  /\ ~known => run.index = None
  /\ run.sweep \in BOOLEAN
  /\ ~run.sweep => \A p \in run.active : Ready(p, run.cached[p])
  /\ ~run.booted => run.active = {} /\ scan.pc = "idle"
  /\ scan.pc = "expand" => Built(run) /\ ~run.sweep

\* Steps that leave what the invariant looks at.
LEMMA IndexKept ==
  ASSUME IndexInv, UNCHANGED <<scen, run>>, known => known',
         scan'.pc \in {scan.pc, "idle"} \/ (run.booted /\ scan'.pc # "expand")
  PROVE  IndexInv'
  BY DEF IndexInv, Built, Ready, StateOf

LEMMA DrainPoolsIndex == IndexInv /\ DrainPools => IndexInv'
  <1> SUFFICES ASSUME IndexInv, DrainPools PROVE IndexInv'
    OBVIOUS
  <1>1. UNCHANGED <<scen, known>> /\ scan'.pc = "drain"
    BY DEF DrainPools
  <1>2. CASE run.booted
    BY <1>1, <1>2, IndexKept DEF DrainPools
  <1>3. CASE ~ run.booted
    <2> DEFINE first == [p \in {q \in Pools : redis[q] # 0} |-> redis[p]]
    <2>1. run' = [run EXCEPT !.booted = TRUE, !.cached = first]
      BY <1>3 DEF DrainPools
    <2> HIDE DEF first
    <2>2. DOMAIN run' = RunFields /\ run'.active = run.active /\ run'.booted
          /\ run'.index = run.index /\ run'.engine = run.engine /\ run'.sweep = run.sweep
      BY <2>1 DEF IndexInv, RunFields
    <2>3. run'.active = {}
      BY <1>3, <2>2 DEF IndexInv
    <2> QED
      BY <1>1, <2>2, <2>3 DEF IndexInv
  <1> QED
    BY <1>2, <1>3

\* A new engine or other trusted factories take index and graph away, and with the
\* latter a sweep is due.
LEMMA RefreshedFacts ==
  ASSUME IndexInv, NEW due \in BOOLEAN, NEW r, r = Refreshed(due)
  PROVE  /\ DOMAIN r = RunFields /\ r.active = run.active /\ r.cached = run.cached
         /\ r.booted = run.booted /\ r.sweep \in BOOLEAN
         /\ r.index # None => r.index = run.index /\ r.graph = run.graph /\ r.engine = run.engine
         /\ run.index = None => r.index = None
         /\ ~ r.sweep => ~ run.sweep /\ r.trusted = run.trusted
  <1> DEFINE read == run.engine = None \/ due
             trusted == TrustedFactories(Cases[scen].builtin, conf.registry)
             engine == PairConfigs(conf)
             retrust == read /\ run.trusted # trusted
             retune == read /\ run.engine # engine
  <1>1. r = [run EXCEPT !.trusted = IF retrust THEN trusted ELSE @,
                        !.engine = IF retune THEN engine ELSE @,
                        !.sweep = @ \/ retrust,
                        !.index = IF retrust \/ retune THEN None ELSE @,
                        !.graph = IF retrust \/ retune THEN None ELSE @]
    BY DEF Refreshed
  <1>2. retrust \in BOOLEAN /\ retune \in BOOLEAN
    OBVIOUS
  <1> HIDE DEF read, trusted, engine, retrust, retune
  <1>3. DOMAIN run = RunFields /\ run.sweep \in BOOLEAN
    BY DEF IndexInv
  <1>4. /\ DOMAIN r = RunFields /\ r.active = run.active /\ r.cached = run.cached
        /\ r.booted = run.booted /\ r.sweep = (run.sweep \/ retrust)
        /\ r.index = (IF retrust \/ retune THEN None ELSE run.index)
        /\ r.graph = (IF retrust \/ retune THEN None ELSE run.graph)
        /\ r.engine = (IF retune THEN engine ELSE run.engine)
        /\ r.trusted = (IF retrust THEN trusted ELSE run.trusted)
    BY <1>1, <1>3 DEF RunFields
  <1> QED
    BY <1>2, <1>3, <1>4

LEMMA DrainTicksIndex == IndexInv /\ DrainTicks => IndexInv'
  <1> SUFFICES ASSUME IndexInv, DrainTicks PROVE IndexInv'
    OBVIOUS
  <1>1. UNCHANGED <<scen, known, redis>> /\ scan.pc = "drain"
    BY DEF DrainTicks
  <1>2. CASE scan.changed \cup tmarks = {}
    BY <1>1, <1>2, IndexKept DEF DrainTicks, Rest, Idle
  <1>3. CASE scan.changed \cup tmarks # {}
    <2>1. PICK due \in BOOLEAN : run' = Refreshed(due)
      BY <1>3 DEF DrainTicks
    <2>2. scan'.pc = "load"
      BY <1>3 DEF DrainTicks
    <2>3. run.booted
      BY <1>1 DEF IndexInv
    <2>4. /\ DOMAIN run' = RunFields /\ run'.active = run.active /\ run'.cached = run.cached
          /\ run'.booted = run.booted /\ run'.sweep \in BOOLEAN
          /\ run'.index # None =>
               run'.index = run.index /\ run'.graph = run.graph /\ run'.engine = run.engine
          /\ run.index = None => run'.index = None
          /\ ~ run'.sweep => ~ run.sweep /\ run'.trusted = run.trusted
      BY <2>1, RefreshedFacts
    <2>5. \A p, v : StateOf(p, v)' = StateOf(p, v)
      BY <1>1 DEF StateOf
    <2>6. run'.index # None /\ run'.active # {} => Built(run)'
      BY <2>4, <2>5 DEF IndexInv, Built
    <2>7. ~ run'.sweep => \A p \in run'.active : Ready(p, run.cached[p])'
      BY <2>4, <2>5 DEF IndexInv, Ready
    <2> QED
      BY <1>1, <2>2, <2>3, <2>4, <2>6, <2>7 DEF IndexInv
  <1> QED
    BY <1>2, <1>3

LEMMA DieIndex == IndexInv /\ Die => IndexInv'
  BY DEF Die, Fresh, Rest, Idle, IndexInv, RunFields, feed

LEMMA ExpandIndex == IndexInv /\ Expand => IndexInv'
  <1> SUFFICES ASSUME IndexInv, Expand PROVE IndexInv'
    OBVIOUS
  <1>1. UNCHANGED <<scen, known, run>> /\ scan.pc = "expand" /\ scan'.pc = "ticks"
    BY DEF Expand, feed
  <1> QED
    BY <1>1, IndexKept DEF IndexInv

\* What a load leaves in the cache and who may be active then.
LEMMA LoadFacts ==
  ASSUME IndexInv, NEW cached, cached = Loaded, NEW loaded, loaded = Reactivated(cached)
  PROVE  /\ DOMAIN cached = (DOMAIN run.cached \ ToLoad) \cup {p \in ToLoad : redis[p] # 0}
         /\ \A p \in DOMAIN cached \ ToLoad : p \in DOMAIN run.cached /\ cached[p] = run.cached[p]
         /\ loaded \subseteq DOMAIN cached
         /\ ~ run.sweep => \A p \in loaded : Ready(p, cached[p])
  <1>1. DOMAIN cached = (DOMAIN run.cached \ ToLoad) \cup {p \in ToLoad : redis[p] # 0}
    BY DEF Loaded
  <1>2. \A p \in DOMAIN cached \ ToLoad : p \in DOMAIN run.cached /\ cached[p] = run.cached[p]
    BY DEF Loaded
  <1>3. loaded = (run.active \ ToLoad) \cup {p \in ToLoad \cap DOMAIN cached : Ready(p, cached[p])}
    BY DEF Reactivated
  <1>4. loaded \subseteq DOMAIN cached
    BY <1>1, <1>3 DEF IndexInv
  <1>5. ~ run.sweep => \A p \in loaded : Ready(p, cached[p])
    BY <1>2, <1>3, <1>4 DEF IndexInv
  <1> QED
    BY <1>1, <1>2, <1>4, <1>5

\* The pools a cycle leaves active when it expands are cached, and ready if a due
\* sweep has been made.
LEMMA ActiveFacts ==
  ASSUME IndexInv, NEW cached, cached = Loaded, NEW sweep \in BOOLEAN, run.sweep => sweep,
         NEW active,
         active = (IF sweep THEN Swept(cached) ELSE Reactivated(cached)) \cup Forced(cached)
  PROVE  active \subseteq DOMAIN cached /\ \A p \in active : Ready(p, cached[p])
  BY LoadFacts DEF Swept, Forced

LEMMA RebuiltFacts ==
  ASSUME NEW before, DOMAIN before = RunFields, NEW cached, NEW active,
         NEW r \in Rebuilt(before, cached, active)
  PROVE  /\ DOMAIN r = RunFields /\ r.booted = before.booted /\ r.active = before.active
         /\ r.cached = before.cached /\ r.sweep = before.sweep /\ r.engine = before.engine
         /\ r.trusted = before.trusted
         /\ r.index = [states |-> [p \in active |-> cached[p]], engine |-> run.engine]
         /\ r.graph.states = [p \in active |-> cached[p]]
  <1> DEFINE states == [p \in active |-> cached[p]]
             index == [states |-> states, engine |-> run.engine]
  <1>1. PICK tie \in Permutations(Tied(states)) :
          r = [before EXCEPT !.index = index, !.graph = GraphSnapshot(states, tie)]
    BY DEF Rebuilt
  <1> DEFINE graph == GraphSnapshot(states, tie)
  <1>2. graph.states = states
    BY DEF GraphSnapshot
  <1>3. r = [before EXCEPT !.index = index, !.graph = graph]
    BY <1>1
  <1> HIDE DEF states, index, graph
  <1>4. DOMAIN r = RunFields /\ r.booted = before.booted /\ r.active = before.active
        /\ r.cached = before.cached /\ r.sweep = before.sweep /\ r.engine = before.engine
        /\ r.trusted = before.trusted /\ r.index = index /\ r.graph = graph
    BY <1>3 DEF RunFields
  <1> QED
    BY <1>2, <1>4 DEF index, states

\* Outside a topology that moved, what is loaded again has the shape it had.
LEMMA UnmovedTopology ==
  ASSUME IndexInv, NEW cached, cached = Loaded, ~ TopologyMoved(cached),
         NEW p \in run.active \cap DOMAIN cached
  PROVE  Topology(StateOf(p, cached[p])) = Topology(StateOf(p, run.cached[p]))
  <1>1. CASE p \in ToLoad
    BY <1>1 DEF TopologyMoved, IndexInv
  <1>2. CASE p \notin ToLoad
    BY <1>2, LoadFacts
  <1> QED
    BY <1>1, <1>2

LEMMA LoadStatesIndex == IndexInv /\ LoadStates => IndexInv'
  <1> SUFFICES ASSUME IndexInv, LoadStates PROVE IndexInv'
    OBVIOUS
  <1> DEFINE cached == Loaded
             loaded == Reactivated(cached)
             stopped == DOMAIN cached = {} \/ ~known
             ticks == [p \in DOMAIN run.ticks \ (ToLoad \ DOMAIN cached) |-> run.ticks[p]]
  <1>1. UNCHANGED <<scen, known>> /\ scan.pc = "load" /\ run.booted
    BY DEF LoadStates, feed, IndexInv
  <1>2. DOMAIN run = RunFields /\ run.sweep \in BOOLEAN
    BY DEF IndexInv
  <1>3. \A p, v : StateOf(p, v)' = StateOf(p, v)
    BY <1>1 DEF StateOf
  <1>4. PICK sweep \in IF run.sweep THEN {TRUE} ELSE BOOLEAN :
          LET active == (IF sweep THEN Swept(cached) ELSE loaded) \cup Forced(cached)
              dirty == \/ run.index = None \/ TopologyMoved(cached)
                       \/ loaded # run.active \/ active # loaded
              after == [run EXCEPT !.cached = cached, !.ticks = ticks, !.active = active,
                                   !.sweep = FALSE]
          IN  IF stopped THEN /\ run' = [run EXCEPT !.cached = cached, !.ticks = ticks, !.active = loaded]
                              /\ Rest
              ELSE IF active = {} THEN run' = after /\ Rest
              ELSE /\ run' \in IF dirty THEN Rebuilt(after, cached, active) ELSE {after}
                   /\ scan' = [scan EXCEPT !.pc = "expand"]
    BY DEF LoadStates
  <1> DEFINE active == (IF sweep THEN Swept(cached) ELSE loaded) \cup Forced(cached)
             dirty == \/ run.index = None \/ TopologyMoved(cached)
                      \/ loaded # run.active \/ active # loaded
             after == [run EXCEPT !.cached = cached, !.ticks = ticks, !.active = active,
                                  !.sweep = FALSE]
             paused == [run EXCEPT !.cached = cached, !.ticks = ticks, !.active = loaded]
  <1>5. \/ stopped /\ run' = paused /\ Rest
        \/ ~stopped /\ active = {} /\ run' = after /\ Rest
        \/ ~stopped /\ active # {} /\ dirty /\ run' \in Rebuilt(after, cached, active)
           /\ scan' = [scan EXCEPT !.pc = "expand"]
        \/ ~stopped /\ active # {} /\ ~dirty /\ run' = after
           /\ scan' = [scan EXCEPT !.pc = "expand"]
    BY <1>4
  <1>6. /\ DOMAIN cached = (DOMAIN run.cached \ ToLoad) \cup {p \in ToLoad : redis[p] # 0}
        /\ loaded \subseteq DOMAIN cached
        /\ ~ run.sweep => \A p \in loaded : Ready(p, cached[p])
    BY LoadFacts
  <1>7. active \subseteq DOMAIN cached /\ \A p \in active : Ready(p, cached[p])
    BY <1>2, ActiveFacts
  <1>8. ~ TopologyMoved(cached) => \A p \in run.active \cap DOMAIN cached :
          Topology(StateOf(p, cached[p])) = Topology(StateOf(p, run.cached[p]))
    BY UnmovedTopology
  <1> HIDE DEF cached, loaded, ticks, active, stopped, dirty
  <1>9. /\ DOMAIN after = RunFields /\ after.cached = cached /\ after.active = active
        /\ after.sweep = FALSE /\ after.booted = run.booted /\ after.index = run.index
        /\ after.graph = run.graph /\ after.engine = run.engine /\ after.trusted = run.trusted
    BY <1>2 DEF RunFields
  <1>10. /\ DOMAIN paused = RunFields /\ paused.cached = cached /\ paused.active = loaded
         /\ paused.sweep = run.sweep /\ paused.booted = run.booted /\ paused.index = run.index
         /\ paused.graph = run.graph /\ paused.engine = run.engine /\ paused.trusted = run.trusted
    BY <1>2 DEF RunFields
  <1> HIDE DEF after, paused
  <1>11. CASE stopped /\ run' = paused /\ Rest
    <2>1. scan'.pc = "idle"
      BY <1>11 DEF Rest, Idle
    <2>2. known => loaded = {}
      BY <1>6, <1>11 DEF stopped
    <2>3. run'.index = None \/ run'.active = {}
      BY <1>10, <1>11, <2>2 DEF IndexInv
    <2>4. ~ run'.sweep => \A p \in run'.active : Ready(p, run.cached[p])'
      BY <1>3, <1>6, <1>10, <1>11 DEF Ready
    <2> QED
      BY <1>1, <1>2, <1>6, <1>10, <1>11, <2>1, <2>3, <2>4 DEF IndexInv
  <1>12. CASE ~stopped /\ active = {} /\ run' = after /\ Rest
    <2>1. scan'.pc = "idle"
      BY <1>12 DEF Rest, Idle
    <2> QED
      BY <1>1, <1>9, <1>12, <2>1 DEF IndexInv
  <1>13. CASE ~stopped /\ active # {} /\ dirty /\ run' \in Rebuilt(after, cached, active)
              /\ scan' = [scan EXCEPT !.pc = "expand"]
    <2>1. /\ DOMAIN run' = RunFields /\ run'.booted = run.booted /\ run'.active = active
          /\ run'.cached = cached /\ run'.sweep = FALSE /\ run'.engine = run.engine
          /\ run'.trusted = run.trusted
          /\ run'.index = [states |-> [p \in active |-> cached[p]], engine |-> run.engine]
          /\ run'.graph.states = [p \in active |-> cached[p]]
      BY <1>9, <1>13, RebuiltFacts
    <2>2. Built(run)'
      BY <2>1 DEF Built
    <2>3. \A p \in run'.active : Ready(p, run.cached[p])'
      BY <1>3, <1>7, <2>1 DEF Ready
    <2>4. known'
      BY <1>1, <1>13 DEF stopped
    <2> QED
      BY <1>1, <1>7, <2>1, <2>2, <2>3, <2>4 DEF IndexInv, Built
  <1>14. CASE ~stopped /\ active # {} /\ ~dirty /\ run' = after
              /\ scan' = [scan EXCEPT !.pc = "expand"]
    <2>1. run.index # None /\ ~ TopologyMoved(cached) /\ active = run.active
      BY <1>14 DEF dirty
    <2>2. Built(run)
      BY <1>14, <2>1 DEF IndexInv
    <2>3. Built(run)'
      BY <1>3, <1>7, <1>8, <1>9, <1>14, <2>1, <2>2 DEF Built
    <2>4. \A p \in run'.active : Ready(p, run.cached[p])'
      BY <1>3, <1>7, <1>9, <1>14 DEF Ready
    <2>5. known'
      BY <1>1, <1>14 DEF stopped
    <2> QED
      BY <1>1, <1>7, <1>9, <1>14, <2>3, <2>4, <2>5 DEF IndexInv, Built
  <1> QED
    BY <1>5, <1>11, <1>12, <1>13, <1>14

LEMMA LoadTicksIndex == IndexInv /\ LoadTicks => IndexInv'
  <1> SUFFICES ASSUME IndexInv, LoadTicks PROVE IndexInv'
    OBVIOUS
  <1>1. UNCHANGED <<scen, known>> /\ scan.pc = "ticks"
    BY DEF LoadTicks
  <1>2. PICK ticks : run' = [run EXCEPT !.ticks = ticks]
    BY DEF LoadTicks
  <1>3. \E two, dyn : scan' = [scan EXCEPT !.pc = "quote", !.two = two, !.dyn = dyn]
    BY DEF LoadTicks
  <1>4. scan'.pc \in {"ticks", "quote"}
    BY <1>1, <1>3
  <1>5. /\ DOMAIN run' = RunFields /\ run'.booted = run.booted /\ run'.active = run.active
        /\ run'.cached = run.cached /\ run'.sweep = run.sweep /\ run'.engine = run.engine
        /\ run'.trusted = run.trusted /\ run'.index = run.index /\ run'.graph = run.graph
    BY <1>2 DEF IndexInv, RunFields
  <1> QED
    BY <1>1, <1>4, <1>5 DEF IndexInv, Built, Ready, StateOf

LEMMA QuoteIndex == ScanInv /\ IndexInv /\ (QuoteBatch \/ Finish) => IndexInv'
  <1> SUFFICES ASSUME ScanInv, IndexInv, QuoteBatch \/ Finish PROVE IndexInv'
    OBVIOUS
  <1>1. UNCHANGED <<scen, known, run>> /\ scan.pc = "quote"
    BY DEF QuoteBatch, Finish, feed
  <1>2. CASE QuoteBatch
    <2>1. scan'.pc = scan.pc
      BY <1>2, BatchFacts DEF BatchStep, ScanInv
    <2> QED
      BY <1>1, <2>1, IndexKept
  <1>3. CASE Finish
    BY <1>1, <1>3, IndexKept DEF Finish, Rest, Idle
  <1> QED
    BY <1>2, <1>3

LEMMA IndexInvariant == Spec => []IndexInv
  <1>1. Init => IndexInv
    BY DEF Init, Fresh, Idle, IndexInv, RunFields
  <1>2. ScanInv /\ IndexInv /\ [Next]_vars => IndexInv'
    <2> SUFFICES ASSUME ScanInv, IndexInv, [Next]_vars PROVE IndexInv'
      OBVIOUS
    <2>1. CASE UNCHANGED vars
      BY <2>1, IndexKept DEF vars
    <2>2. CASE Around
      BY <2>2, AroundLeaves, IndexKept
    <2> QED
      BY <2>1, <2>2, DrainPoolsIndex, DrainTicksIndex, LoadStatesIndex, ExpandIndex,
         LoadTicksIndex, QuoteIndex, DieIndex DEF Next, Cycle
  <1> QED
    BY <1>1, <1>2, ScanInvariant, PTL DEF Spec

\* When a cycle expands, the path index and the graph are those of the pools active
\* now, under the present engine and with their present topology
\* (run_search_cycle, rebuild_path_index).
THEOREM IndexStaysCurrent == Spec => []IndexCurrent
  <1>1. IndexInv => IndexCurrent
    BY DEF IndexInv, Built, IndexCurrent
  <1> QED
    BY <1>1, IndexInvariant, PTL

-----------------------------------------------------------------------------
(* What the quotes publish *)

Beats(d, c) == CoalesceKey(d) = CoalesceKey(c) /\ d.profit >= c.profit

\* The paths still to quote have active pools only; what passed so far is published
\* or beaten.
QuoteInv ==
  /\ scan.pc \in {"ticks", "quote"} =>
       \A path \in scan.two \cup Dynamic(scan.dyn) : PathPools(path) \subseteq run.active
  /\ scan.pc = "ticks" => scan.quoted = {}
  /\ scan.pc = "quote" =>
       \A path \in scan.quoted : \A c \in CandidatesFrom({path}) : \E d \in scan.pushed : Beats(d, c)

\* A candidate has passed the gates of the quote, and they are the risk gate's.
LEMMA CandidatePasses ==
  ASSUME NEW states, NEW books, NEW path, NEW c \in CandidatesOf(states, books, path)
  PROVE  c.steps = path.steps /\ c.profit >= RequiredProfit(c.min) /\ c.impact <= MaxImpact
  <1> DEFINE of(a, q) ==
               IF ~Passes(q, a, path.min) THEN {}
               ELSE {[steps |-> path.steps, amount |-> a, token |-> path.steps[1].in,
                      min |-> path.min, profit |-> Sub(q.amount, a), impact |-> q.impact]}
  <1>1. PICK a \in Range(path.amounts) : c \in of(a, QuotePath(states, books, path.steps, a))
    BY DEF CandidatesOf
  <1> DEFINE q == QuotePath(states, books, path.steps, a)
  <1>2. Passes(q, a, path.min)
    BY <1>1
  <1>3. c = [steps |-> path.steps, amount |-> a, token |-> path.steps[1].in,
             min |-> path.min, profit |-> Sub(q.amount, a), impact |-> q.impact]
    BY <1>1
  <1>4. Sub(q.amount, a) >= RequiredProfit(path.min) /\ q.impact <= MaxImpact
    BY <1>2 DEF Passes
  <1> HIDE DEF q
  <1> QED
    BY <1>3, <1>4

\* A candidate over active pools is accepted, whatever the coalescing left of its key.
LEMMA KeyPublished ==
  ASSUME NEW paths, \A path \in paths : PathPools(path) \subseteq run.active,
         NEW kept \in Coalesced(CandidatesFrom(paths)), NEW c \in CandidatesFrom(paths)
  PROVE  \E d \in kept : RiskAccepts(d, run.active) /\ Beats(d, c)
  <1> DEFINE cands == CandidatesFrom(paths)
             S == {d \in kept : CoalesceKey(d) = CoalesceKey(c)}
  <1>1. kept \subseteq cands /\ Cardinality(S) = 1
        /\ \A e \in kept, d \in cands : CoalesceKey(e) = CoalesceKey(d) => e.profit >= d.profit
    BY DEF Coalesced
  <1>2. S # {}
    <2> HIDE DEF S
    <2> QED
      BY <1>1, FS_EmptySet
  <1>3. PICK d \in S : TRUE
    BY <1>2
  <1>4. d \in cands /\ Beats(d, c)
    BY <1>1, <1>3 DEF Beats
  <1>5. PICK path \in paths : d \in CandidatesOf(States, Books, path)
    BY <1>4 DEF CandidatesFrom
  <1>6. d.steps = path.steps /\ d.profit >= RequiredProfit(d.min) /\ d.impact <= MaxImpact
    BY <1>5, CandidatePasses
  <1>7. \A i \in DOMAIN d.steps : d.steps[i].pool \in run.active
    BY <1>6 DEF PathPools
  <1> QED
    BY <1>3, <1>4, <1>6, <1>7 DEF RiskAccepts

LEMMA CandidatesKept ==
  ASSUME UNCHANGED <<scen, run>> PROVE \A paths : CandidatesFrom(paths)' = CandidatesFrom(paths)
  <1>1. States' = States /\ Books' = Books
    BY DEF States, Books, StateOf, TicksOf, Pools
  <1> QED
    BY <1>1 DEF CandidatesFrom

LEMMA QuoteKept ==
  ASSUME QuoteInv, UNCHANGED <<scen, run, scan>> PROVE QuoteInv'
  BY CandidatesKept DEF QuoteInv, Dynamic

LEMMA LoadTicksQuote == ScanInv /\ QuoteInv /\ IndexInv /\ LoadTicks => QuoteInv'
  <1> SUFFICES ASSUME ScanInv, QuoteInv, IndexInv, LoadTicks PROVE QuoteInv'
    OBVIOUS
  <1> DEFINE pools == {p \in UNION {PathPools(path) : path \in scan.two \cup Dynamic(scan.dyn)} :
                        StateOf(p, run.cached[p]).variant \in V3Style}
             reload(expired) == {p \in pools : p \notin DOMAIN run.ticks \ expired \/ p \in scan.ticked}
             stored(e, p) == IF p \in reload(e) /\ rticks[p] = 0 THEN Cases[scen].saved[p] ELSE rticks[p]
             loaded(e) == [p \in DOMAIN run.ticks \cup reload(e) |->
                             IF p \in reload(e) THEN stored(e, p) ELSE run.ticks[p]]
             lost(e) == {p \in pools : DOMAIN TicksOf(p, loaded(e)[p]) = {}}
  <1>0. PICK expired \in {{}, DOMAIN run.ticks} :
          /\ run' = [run EXCEPT !.ticks = loaded(expired)]
          /\ scan' = [scan EXCEPT !.pc = "quote",
                        !.two = {path \in @ : PathPools(path) \cap lost(expired) = {}},
                        !.dyn = {i \in @ : PathPools(scan.selected[i]) \cap lost(expired) = {}}]
    BY Zenon DEF LoadTicks
  <1> DEFINE missing == lost(expired)
             ticks == loaded(expired)
  <1> HIDE DEF lost, loaded
  <1>1. /\ run' = [run EXCEPT !.ticks = ticks]
        /\ scan' = [scan EXCEPT !.pc = "quote",
                                !.two = {path \in @ : PathPools(path) \cap missing = {}},
                                !.dyn = {i \in @ : PathPools(scan.selected[i]) \cap missing = {}}]
    BY <1>0
  <1> HIDE DEF missing, ticks
  <1> DEFINE two == {path \in scan.two : PathPools(path) \cap missing = {}}
             dyn == {i \in scan.dyn : PathPools(scan.selected[i]) \cap missing = {}}
  <1>2. scan.pc = "ticks" /\ scan.quoted = {}
    BY DEF LoadTicks, QuoteInv
  <1>3. scan'.pc = "quote" /\ scan'.two = two /\ scan'.dyn = dyn
        /\ scan'.selected = scan.selected /\ scan'.quoted = {}
    BY <1>1, <1>2 DEF ScanInv, QuoteFields
  <1>4. run'.active = run.active
    BY <1>1 DEF IndexInv, RunFields
  <1>5. \A path \in scan'.two \cup Dynamic(scan.dyn)' : path \in scan.two \cup Dynamic(scan.dyn)
    BY <1>3 DEF Dynamic
  <1> QED
    BY <1>2, <1>3, <1>4, <1>5 DEF QuoteInv, PathPools

LEMMA BatchQuote == ScanInv /\ QuoteInv /\ QuoteBatch => QuoteInv'
  <1> SUFFICES ASSUME ScanInv, QuoteInv, QuoteBatch PROVE QuoteInv'
    OBVIOUS
  <1>1. PICK first \in SUBSET scan.two, next \in SUBSET scan.dyn :
          \E repairs : \E kept \in Coalesced(CandidatesFrom(first \cup Dynamic(next))) :
            BatchStep(first, next, kept, repairs)
    BY BatchFacts
  <1> DEFINE batch == first \cup Dynamic(next)
  <1>2. PICK repairs : \E kept \in Coalesced(CandidatesFrom(batch)) :
          BatchStep(first, next, kept, repairs)
    BY <1>1
  <1>3. PICK kept \in Coalesced(CandidatesFrom(batch)) : BatchStep(first, next, kept, repairs)
    BY <1>2
  <1>4. UNCHANGED <<scen, run>> /\ scan.pc = "quote"
    BY DEF QuoteBatch, feed
  <1> DEFINE accepted == {c \in kept : RiskAccepts(c, run.active)}
  <1>5. /\ scan'.pc = "quote" /\ scan'.two = scan.two \ first /\ scan'.dyn = scan.dyn \ next
        /\ scan'.selected = scan.selected /\ scan'.quoted = scan.quoted \cup batch
        /\ scan'.pushed = scan.pushed \cup accepted
    BY <1>3, <1>4 DEF BatchStep, ScanInv, QuoteFields
  <1>6. batch \subseteq scan.two \cup Dynamic(scan.dyn)
    BY DEF Dynamic
  <1>7. \A path \in batch : PathPools(path) \subseteq run.active
    BY <1>4, <1>6 DEF QuoteInv
  <1>8. \A path \in batch : CandidatesFrom({path}) \subseteq CandidatesFrom(batch)
    BY DEF CandidatesFrom
  <1> HIDE DEF batch
  <1>9. \A path \in scan'.quoted : \A c \in CandidatesFrom({path}) : \E d \in scan'.pushed : Beats(d, c)
    <2> TAKE path \in scan'.quoted
    <2> TAKE c \in CandidatesFrom({path})
    <2>1. CASE path \in batch
      <3>1. PICK d \in kept : RiskAccepts(d, run.active) /\ Beats(d, c)
        BY <1>3, <1>7, <1>8, <2>1, KeyPublished
      <3> QED
        BY <1>5, <3>1
    <2>2. CASE path \in scan.quoted
      BY <1>4, <1>5, <2>2 DEF QuoteInv
    <2> QED
      BY <1>5, <2>1, <2>2
  <1>10. \A path \in scan'.two \cup Dynamic(scan.dyn)' : path \in scan.two \cup Dynamic(scan.dyn)
    BY <1>5 DEF Dynamic
  <1> QED
    BY <1>4, <1>5, <1>9, <1>10, CandidatesKept DEF QuoteInv

LEMMA QuoteInvariant == Spec => []QuoteInv
  <1>1. Init => QuoteInv
    BY DEF Init, Idle, QuoteInv
  <1>2. ScanInv /\ IndexInv /\ QuoteInv /\ [Next]_vars => QuoteInv'
    <2> SUFFICES ASSUME ScanInv, IndexInv, QuoteInv, [Next]_vars PROVE QuoteInv'
      OBVIOUS
    <2>1. CASE UNCHANGED vars \/ Around
      BY <2>1, AroundLeaves, QuoteKept DEF vars
    <2>2. CASE DrainPools \/ DrainTicks \/ Finish \/ Die
      BY <2>2 DEF DrainPools, DrainTicks, Finish, Die, Rest, Idle, QuoteInv
    <2>3. CASE LoadStates
      <3>1. scan' = Idle \/ scan' = [scan EXCEPT !.pc = "expand"]
        BY <2>3 DEF LoadStates, Rest
      <3> QED
        BY <3>1 DEF ScanInv, QuoteInv, Idle
    <2>4. CASE Expand
      <3>1. PICK anchors, pools, found :
              LET dynamic == SelectPaths(found.cands)
              IN  scan' = [pc |-> "ticks", changed |-> scan.changed, ticked |-> scan.ticked,
                           seen |-> found.seen, capped |-> found.stop, selected |-> dynamic,
                           two |-> IndexPaths,
                           dyn |-> {i \in DOMAIN dynamic : PathPools(dynamic[i]) \subseteq run.active},
                           quoted |-> {}, pushed |-> {}, repairs |-> {}]
        BY <2>4 DEF Expand
      <3> DEFINE dynamic == SelectPaths(found.cands)
      <3> HIDE DEF dynamic
      <3>2. /\ scan'.pc = "ticks" /\ scan'.quoted = {} /\ scan'.two = IndexPaths
            /\ scan'.selected = dynamic
            /\ scan'.dyn = {i \in DOMAIN dynamic : PathPools(dynamic[i]) \subseteq run.active}
        BY <3>1 DEF dynamic
      <3>3. run' = run
        BY <2>4 DEF Expand
      <3>4. \A path \in IndexPaths : PathPools(path) \subseteq run.active
        BY DEF IndexPaths
      <3>5. \A path \in Dynamic(scan.dyn)' : PathPools(path) \subseteq run.active
        BY <3>2 DEF Dynamic
      <3> QED
        BY <3>2, <3>3, <3>4, <3>5 DEF QuoteInv
    <2> QED
      BY <2>1, <2>2, <2>3, <2>4, LoadTicksQuote, BatchQuote DEF Next, Cycle
  <1> QED
    BY <1>1, <1>2, ScanInvariant, IndexInvariant, PTL DEF Spec

\* When all paths of a cycle are quoted, every candidate that passed is published or
\* lost to one of the same token, amount and executor that earns no less
\* (coalesce_candidates_for_publish, validate_candidate).
THEOREM EveryWinnerPublished == Spec => []WinnersPublished
  <1>1. QuoteInv => WinnersPublished
    BY DEF QuoteInv, WinnersPublished, CandidatesFrom, Beats
  <1> QED
    BY <1>1, QuoteInvariant, PTL

-----------------------------------------------------------------------------
(* The configuration *)

PairedRow(r, tokens) ==
  /\ DOMAIN r = {"token0", "token1", "own0", "min0", "own1", "min1", "enabled"}
  /\ r.token0 \in tokens /\ r.token1 \in tokens
  /\ (r.own0 # {} => r.min0 # None) /\ (r.own1 # {} => r.min1 # None)

PairedDefault(d) == d = None \/ (d.amounts # {} => d.min # None)

PairedDefaults(defaults, tokens) ==
  /\ DOMAIN defaults = tokens
  /\ \A t \in tokens :
       /\ DOMAIN defaults[t] = {"all", "two", "multi"}
       /\ \A scope \in {"all", "two", "multi"} : PairedDefault(defaults[t][scope])

ConfFields == {"rows", "defaults", "tokens", "registry"}

LEMMA WellPairedParts ==
  ASSUME NEW c, NEW tokens
  PROVE  WellPaired(c, tokens) <=>
           /\ DOMAIN c = ConfFields
           /\ \A r \in c.rows : PairedRow(r, tokens)
           /\ PairedDefaults(c.defaults, tokens)
  BY DEF WellPaired, ConfFields, PairedRow, PairedDefaults, PairedDefault

\* Other rows: each is one that was there, or a row with its amounts paired.
LEMMA RowsChange ==
  ASSUME NEW c, NEW tokens, WellPaired(c, tokens), NEW rows,
         \A r \in rows : PairedRow(r, tokens)
  PROVE  WellPaired([c EXCEPT !.rows = rows], tokens)
  <1> DEFINE n == [c EXCEPT !.rows = rows]
  <1>1. DOMAIN c = ConfFields
    BY WellPairedParts
  <1>2. DOMAIN n = ConfFields /\ n.rows = rows /\ n.defaults = c.defaults
    BY <1>1 DEF ConfFields
  <1> HIDE DEF n
  <1>3. WellPaired(n, tokens)
    BY <1>2, WellPairedParts
  <1> QED
    BY <1>3 DEF n

LEMMA TokensChange ==
  ASSUME NEW c, NEW tokens, WellPaired(c, tokens), NEW new
  PROVE  /\ WellPaired([c EXCEPT !.tokens = new], tokens)
         /\ WellPaired([c EXCEPT !.registry = new], tokens)
  <1>1. DOMAIN c = ConfFields
    BY WellPairedParts
  <1>2. ASSUME NEW n, n = [c EXCEPT !.tokens = new] \/ n = [c EXCEPT !.registry = new]
        PROVE  WellPaired(n, tokens)
    <2>1. DOMAIN n = ConfFields /\ n.rows = c.rows /\ n.defaults = c.defaults
      BY <1>1, <1>2 DEF ConfFields
    <2> QED
      BY <2>1, WellPairedParts
  <1> QED
    BY <1>2

LEMMA PutDefaultPaired ==
  ASSUME NEW c, NEW tokens, WellPaired(c, tokens), NEW t, NEW scope, NEW v, ~ HalfSet(v)
  PROVE  WellPaired(PutDefault(c, t, scope, v), tokens)
  <1> DEFINE d == IF v = Unset THEN None ELSE v
             defaults == [c.defaults EXCEPT ![t][scope] = d]
             n == [c EXCEPT !.defaults = defaults]
  <1>1. PairedDefault(d)
    BY DEF HalfSet, PairedDefault
  <1>2. DOMAIN c = ConfFields /\ PairedDefaults(c.defaults, tokens)
    BY WellPairedParts
  <1> HIDE DEF d
  <1>3. PairedDefaults(defaults, tokens)
    <2>1. DOMAIN defaults = tokens
      BY <1>2 DEF PairedDefaults
    <2>2. ASSUME NEW u \in tokens
          PROVE  DOMAIN defaults[u] = {"all", "two", "multi"}
                 /\ \A s \in {"all", "two", "multi"} : PairedDefault(defaults[u][s])
      <3>1. CASE u = t
        <4>1. defaults[u] = [c.defaults[u] EXCEPT ![scope] = d]
          BY <1>2, <3>1 DEF PairedDefaults
        <4> QED
          BY <1>1, <1>2, <4>1 DEF PairedDefaults
      <3>2. CASE u # t
        <4>1. defaults[u] = c.defaults[u]
          BY <1>2, <3>2 DEF PairedDefaults
        <4> QED
          BY <1>2, <4>1 DEF PairedDefaults
      <3> QED
        BY <3>1, <3>2
    <2> QED
      BY <2>1, <2>2 DEF PairedDefaults
  <1> HIDE DEF defaults
  <1>4. DOMAIN n = ConfFields /\ n.rows = c.rows /\ n.defaults = defaults
    BY <1>2 DEF ConfFields
  <1> HIDE DEF n
  <1>5. WellPaired(n, tokens)
    BY <1>3, <1>4, WellPairedParts
  <1> QED
    BY <1>5 DEF n, defaults, d, PutDefault

LEMMA TokenFormPaired ==
  ASSUME NEW c, NEW tokens, WellPaired(c, tokens), NEW form
  PROVE  WellPaired(UpdateTokenSearchDefault(c, form), tokens)
  BY PutDefaultPaired DEF UpdateTokenSearchDefault

\* A form that is taken has a least profit with all its amounts.
LEMMA PairFormPaired ==
  ASSUME NEW c, NEW tokens, WellPaired(c, tokens), NEW form
  PROVE  WellPaired(UpdatePairSearchConfig(c, form), tokens)
  <1> DEFINE lacksMin(v) == v.amounts # {} /\ v.min = None
             set(row) == [row EXCEPT !.own0 = form.first.amounts, !.min0 = form.first.min,
                                     !.own1 = form.second.amounts, !.min1 = form.second.min]
             rows == {IF SamePair(r, form.a, form.b) THEN set(r) ELSE r : r \in c.rows}
  <1>1. CASE \E v \in {form.first, form.second} : Malformed(v) \/ lacksMin(v)
    BY <1>1 DEF UpdatePairSearchConfig
  <1>2. CASE ~ \E v \in {form.first, form.second} : Malformed(v) \/ lacksMin(v)
    <2>1. UpdatePairSearchConfig(c, form) = [c EXCEPT !.rows = rows]
      BY <1>2 DEF UpdatePairSearchConfig
    <2>2. ~ lacksMin(form.first) /\ ~ lacksMin(form.second)
      BY <1>2
    <2>3. ASSUME NEW r \in c.rows PROVE PairedRow(set(r), tokens)
      <3>1. PairedRow(r, tokens)
        BY WellPairedParts
      <3> QED
        BY <2>2, <3>1 DEF PairedRow
    <2> HIDE DEF set, lacksMin
    <2>4. \A r \in rows : PairedRow(r, tokens)
      BY <2>3, WellPairedParts
    <2> HIDE DEF rows
    <2> QED
      BY <2>1, <2>4, RowsChange
  <1> QED
    BY <1>1, <1>2

LEMMA EnabledKept ==
  ASSUME NEW r, NEW tokens, PairedRow(r, tokens), NEW on PROVE PairedRow([r EXCEPT !.enabled = on], tokens)
  BY DEF PairedRow

LEMMA DisablePaired ==
  ASSUME NEW c, NEW tokens, WellPaired(c, tokens), NEW a, NEW b
  PROVE  /\ WellPaired(DisablePair(c, a, b), tokens)
         /\ WellPaired(DeletePair(c, a, b), tokens)
  <1> DEFINE off == {IF SamePair(r, a, b) THEN [r EXCEPT !.enabled = FALSE] ELSE r : r \in c.rows}
             left == {r \in c.rows : ~SamePair(r, a, b)}
  <1>1. \A r \in c.rows : PairedRow(r, tokens)
    BY WellPairedParts
  <1>2. \A r \in off : PairedRow(r, tokens)
    BY <1>1, EnabledKept
  <1>3. \A r \in left : PairedRow(r, tokens)
    BY <1>1
  <1>4. WellPaired([c EXCEPT !.rows = off], tokens) /\ WellPaired([c EXCEPT !.rows = left], tokens)
    BY <1>2, <1>3, RowsChange
  <1> QED
    BY <1>4 DEF DisablePair, DeletePair

LEMMA TwoFields ==
  ASSUME NEW c, NEW all, NEW rows
  PROVE  [c EXCEPT !.tokens = all, !.rows = rows] = [[c EXCEPT !.rows = rows] EXCEPT !.tokens = all]
  OBVIOUS

\* A discovered pair has no amounts of its own, or those it had.
LEMMA UpsertPaired ==
  ASSUME NEW c, NEW tokens \in SUBSET Nat, WellPaired(c, tokens), NEW a \in tokens, NEW b \in tokens
  PROVE  WellPaired(UpsertPair(c, a, b), tokens)
  <1> DEFINE new == [token0 |-> Min({a, b}), token1 |-> Max({a, b}), own0 |-> {}, min0 |-> None,
                     own1 |-> {}, min1 |-> None, enabled |-> TRUE]
             old == {r \in c.rows : SamePair(r, a, b)}
             added == IF old = {} THEN {new} ELSE {[r EXCEPT !.enabled = TRUE] : r \in old}
             rows == (c.rows \ old) \cup added
             all == c.tokens \cup {a, b}
             n == [c EXCEPT !.rows = rows]
  <1>1. Min({a, b}) \in {a, b} /\ Max({a, b}) \in {a, b}
    <2>1. a \in Nat /\ b \in Nat
      OBVIOUS
    <2>2. \E x \in {a, b} : \A y \in {a, b} : x <= y
      BY <2>1
    <2>3. \E x \in {a, b} : \A y \in {a, b} : x >= y
      BY <2>1
    <2> QED
      BY <2>2, <2>3 DEF Min, Max
  <1>2. PairedRow(new, tokens)
    BY <1>1 DEF PairedRow
  <1>3. \A r \in c.rows : PairedRow(r, tokens)
    BY WellPairedParts
  <1> HIDE DEF new
  <1>4. \A r \in added : PairedRow(r, tokens)
    <2>1. CASE old = {}
      BY <1>2, <2>1
    <2>2. CASE old # {}
      <3>1. \A r \in old : PairedRow([r EXCEPT !.enabled = TRUE], tokens)
        BY <1>3, EnabledKept
      <3>2. added = {[r EXCEPT !.enabled = TRUE] : r \in old}
        BY <2>2
      <3> HIDE DEF old, added
      <3> QED
        BY <3>1, <3>2
    <2> QED
      BY <2>1, <2>2
  <1> HIDE DEF old, added
  <1>10. \A r \in rows : PairedRow(r, tokens)
    BY <1>3, <1>4
  <1> HIDE DEF rows, all
  <1>5. WellPaired(n, tokens)
    BY <1>10, RowsChange
  <1>6. DOMAIN c = ConfFields
    BY WellPairedParts
  <1>7. UpsertPair(c, a, b) = [c EXCEPT !.tokens = all, !.rows = rows]
    BY DEF UpsertPair, all, rows, new, old, added
  <1>8. UpsertPair(c, a, b) = [n EXCEPT !.tokens = all]
    BY <1>7, TwoFields
  <1> HIDE DEF n
  <1>9. WellPaired([n EXCEPT !.tokens = all], tokens)
    BY <1>5, TokensChange, Zenon
  <1> QED
    BY <1>8, <1>9

LEMMA DefaultsWritePaired ==
  ASSUME NEW c, NEW tokens, WellPaired(c, tokens), NEW job, ~ DefaultsRefused(job)
  PROVE  WellPaired(DefaultsWrite(c, job), tokens)
  <1>1. ~ HalfSet(DefaultsValue(job))
    BY DEF DefaultsRefused
  <1> DEFINE n == PutDefault(c, Head(job.left)[1], Head(job.left)[2], DefaultsValue(job))
  <1>2. WellPaired(n, tokens)
    BY <1>1, PutDefaultPaired
  <1> DEFINE all == n.tokens \cup {Head(job.left)[1]}
  <1>3. DefaultsWrite(c, job) = [n EXCEPT !.tokens = all]
    BY DEF DefaultsWrite
  <1> HIDE DEF n, all
  <1>4. WellPaired([n EXCEPT !.tokens = all], tokens)
    BY <1>2, TokensChange, Zenon
  <1> QED
    BY <1>3, <1>4

\* The tokens of a scenario.
Tokens == DOMAIN Cases[scen].config.defaults

\* What the forms and their jobs leave in the configuration.
FormInv ==
  /\ scen \in DOMAIN Cases
  /\ WellPaired(conf, Tokens)
  /\ DOMAIN web = {"done", "jobs"} /\ web.done \in 0..Len(Cases[scen].forms)

LEMMA TokensOfPools ==
  ASSUME scen \in DOMAIN Cases
  PROVE  /\ Tokens \in SUBSET Nat
         /\ \A pair : PairOnChain(pair) => pair[1] \in Tokens /\ pair[2] \in Tokens
  BY CasesAssumption DEF Tokens, PairOnChain, Pools

LEMMA FormPaired == FormInv /\ SubmitForm => FormInv'
  <1> SUFFICES ASSUME FormInv, SubmitForm PROVE FormInv'
    OBVIOUS
  <1> DEFINE form == Cases[scen].forms[web.done + 1]
  <1>1. /\ conf' = CASE form.kind = "default" -> UpdateTokenSearchDefault(conf, form)
                     [] form.kind = "pair" -> UpdatePairSearchConfig(conf, form)
                     [] form.kind = "disable" -> DisablePair(conf, form.a, form.b)
                     [] form.kind = "delete" -> DeletePair(conf, form.a, form.b)
                     [] form.kind = "factories" -> [conf EXCEPT !.registry = form.registry]
                     [] form.kind = "token" -> [conf EXCEPT !.tokens = @ \cup {form.token}]
                     [] OTHER -> conf
    BY Zenon DEF SubmitForm
  <1> DEFINE others == [conf EXCEPT !.registry = form.registry]
             joined == [conf EXCEPT !.tokens = @ \cup {form.token}]
  <1>2. conf' \in {UpdateTokenSearchDefault(conf, form), UpdatePairSearchConfig(conf, form),
                   DisablePair(conf, form.a, form.b), DeletePair(conf, form.a, form.b),
                   others, joined, conf}
    <2> HIDE DEF form, others, joined
    <2> QED
      BY <1>1 DEF others, joined
  <1>3. web.done < Len(Cases[scen].forms) /\ UNCHANGED scen
        /\ \E jobs : web' = [done |-> web.done + 1, jobs |-> jobs]
    BY Zenon DEF SubmitForm
  <1>4. Tokens' = Tokens
    BY <1>3 DEF Tokens
  <1>5. WellPaired(others, Tokens) /\ WellPaired(joined, Tokens)
    BY TokensChange DEF FormInv
  <1> HIDE DEF form, others, joined
  <1>6. WellPaired(conf', Tokens)
    BY <1>2, <1>5, TokenFormPaired, PairFormPaired, DisablePaired DEF FormInv
  <1>7. Len(Cases[scen].forms) \in Nat
    BY CasesAssumption DEF FormInv
  <1>8. DOMAIN web' = {"done", "jobs"} /\ web'.done \in 0..Len(Cases[scen].forms)
    BY <1>3, <1>7 DEF FormInv
  <1> QED
    BY <1>3, <1>4, <1>6, <1>8 DEF FormInv

LEMMA JobPaired == ASSUME FormInv, NEW i, DiscoveryStep(i) \/ DefaultsStep(i) PROVE FormInv'
  <1> DEFINE job == web.jobs[i]
             pair == Head(job.pairs)
  <1>1. UNCHANGED scen /\ \E jobs : web' = [web EXCEPT !.jobs = jobs]
    BY DEF DiscoveryStep, DefaultsStep, JobIs, JobEnds
  <1>2. DOMAIN web' = {"done", "jobs"} /\ web'.done = web.done /\ Tokens' = Tokens
    BY <1>1 DEF FormInv, Tokens
  <1>3. \/ conf' = conf
        \/ \E reached \in BOOLEAN : conf' = DiscoverPair(conf, pair, reached /\ PairOnChain(pair))
        \/ ~ DefaultsRefused(job) /\ conf' = DefaultsWrite(conf, job)
    BY DEF DiscoveryStep, DefaultsStep
  <1> HIDE DEF job, pair
  <1>4. WellPaired(conf', Tokens)
    <2>1. ASSUME NEW found, conf' = DiscoverPair(conf, pair, found), found => PairOnChain(pair)
          PROVE  WellPaired(conf', Tokens)
      <3>1. CASE found
        <4>1. pair[1] \in Tokens /\ pair[2] \in Tokens /\ Tokens \in SUBSET Nat
          BY <2>1, <3>1, TokensOfPools DEF FormInv
        <4>2. conf' = UpsertPair(conf, pair[1], pair[2])
          BY <2>1, <3>1 DEF DiscoverPair
        <4>3. WellPaired(UpsertPair(conf, pair[1], pair[2]), Tokens)
          BY <4>1, UpsertPaired DEF FormInv
        <4> QED
          BY <4>2, <4>3
      <3>2. CASE ~ found
        BY <2>1, <3>2 DEF DiscoverPair, FormInv
      <3> QED
        BY <3>1, <3>2
    <2>2. CASE ~ DefaultsRefused(job) /\ conf' = DefaultsWrite(conf, job)
      BY <2>2, DefaultsWritePaired DEF FormInv
    <2> QED
      BY <1>3, <2>1, <2>2 DEF FormInv
  <1> QED
    BY <1>1, <1>2, <1>4 DEF FormInv

LEMMA FormInvariant == Spec => []FormInv
  <1>1. Init => FormInv
    <2> SUFFICES ASSUME Init PROVE FormInv
      OBVIOUS
    <2>1. scen \in DOMAIN Cases /\ conf = Cases[scen].config /\ web = [done |-> 0, jobs |-> << >>]
      BY DEF Init
    <2>2. WellPaired(Cases[scen].config, Tokens) /\ Len(Cases[scen].forms) \in Nat
      BY <2>1, CasesAssumption DEF Tokens
    <2> QED
      BY <2>1, <2>2 DEF FormInv
  <1>2. FormInv /\ [Next]_vars => FormInv'
    <2> SUFFICES ASSUME FormInv, [Next]_vars PROVE FormInv'
      OBVIOUS
    <2>1. ASSUME UNCHANGED <<scen, conf, web>> PROVE FormInv'
      BY <2>1 DEF FormInv, Tokens
    <2>2. CASE UNCHANGED vars \/ Cycle \/ Die \/ \E p \in Pools : Publish(p) \/ PublishTicks(p) \/ Age(p)
      <3>1. UNCHANGED <<scen, conf, web>>
        BY <2>2 DEF vars, feed, Cycle, DrainPools, DrainTicks, LoadStates, Expand, LoadTicks,
                    QuoteBatch, Finish, Die, Publish, PublishTicks, Age
      <3> QED
        BY <2>1, <3>1
    <2> QED
      BY <2>2, FormPaired, JobPaired DEF Next, Around, Operator
  <1> QED
    BY <1>1, <1>2, PTL DEF Spec

-----------------------------------------------------------------------------
(* The registers *)

\* Redis has versions the pools have, old ones may be aged; marks name pools.
StoreInv ==
  /\ scen \in DOMAIN Cases
  /\ DOMAIN redis = Pools /\ DOMAIN aged = Pools /\ DOMAIN rticks = Pools
  /\ \A p \in Pools : redis[p] \in 0..Len(Cases[scen].states[p]) /\ aged[p] \in 0..redis[p]
                      /\ rticks[p] \in 0..Len(Cases[scen].ticks[p])
  /\ known \in BOOLEAN /\ marks \subseteq Pools /\ tmarks \subseteq Pools
  /\ DOMAIN run.cached \subseteq Pools
  /\ scan.pc \in {"drain", "load"} => scan.changed \subseteq Pools

LEMMA VersionsFinite ==
  ASSUME scen \in DOMAIN Cases
  PROVE  \A p \in Pools : /\ Len(Cases[scen].states[p]) \in Nat /\ Len(Cases[scen].ticks[p]) \in Nat
                          /\ Cases[scen].start[p] \in 0..Len(Cases[scen].states[p])
                          /\ Cases[scen].saved[p] \in 0..Len(Cases[scen].ticks[p])
  BY CasesAssumption DEF Pools

\* Steps that leave the stores.
LEMMA StoreKept ==
  ASSUME StoreInv, UNCHANGED <<scen, redis, aged, rticks, known, marks, tmarks>>,
         DOMAIN run'.cached \subseteq Pools,
         scan'.pc \in {"drain", "load"} => scan'.changed \subseteq Pools
  PROVE  StoreInv'
  BY DEF StoreInv, Pools

LEMMA AroundStore == StoreInv /\ Around => StoreInv'
  <1> SUFFICES ASSUME StoreInv, Around PROVE StoreInv'
    OBVIOUS
  <1>1. UNCHANGED <<scen, run, scan>> /\ Pools' = Pools
    BY AroundLeaves DEF Pools
  <1>2. ASSUME NEW p \in Pools, Publish(p) PROVE StoreInv'
    <2>1. redis' = [redis EXCEPT ![p] = redis[p] + 1] /\ redis[p] < Len(Cases[scen].states[p])
          /\ marks' = marks \cup {p} /\ known' = TRUE /\ UNCHANGED <<aged, rticks, tmarks>>
      BY <1>2 DEF Publish
    <2>2. \A q \in Pools : redis'[q] = IF q = p THEN redis[q] + 1 ELSE redis[q]
      BY <2>1 DEF StoreInv
    <2>3. \A q \in Pools : redis'[q] \in 0..Len(Cases[scen].states[q]) /\ aged[q] \in 0..redis'[q]
      BY <2>1, <2>2, VersionsFinite DEF StoreInv
    <2> QED
      BY <1>1, <2>1, <2>3 DEF StoreInv
  <1>3. ASSUME NEW p \in Pools, PublishTicks(p) PROVE StoreInv'
    <2>1. rticks' = [rticks EXCEPT ![p] = rticks[p] + 1] /\ rticks[p] < Len(Cases[scen].ticks[p])
          /\ tmarks' = tmarks \cup {p} /\ UNCHANGED <<redis, aged, known, marks>>
      BY <1>3 DEF PublishTicks
    <2>2. \A q \in Pools : rticks'[q] = IF q = p THEN rticks[q] + 1 ELSE rticks[q]
      BY <2>1 DEF StoreInv
    <2>3. \A q \in Pools : rticks'[q] \in 0..Len(Cases[scen].ticks[q])
      BY <2>1, <2>2, VersionsFinite DEF StoreInv
    <2> QED
      BY <1>1, <2>1, <2>3 DEF StoreInv
  <1>4. ASSUME NEW p \in Pools, Age(p) PROVE StoreInv'
    <2>1. aged' = [aged EXCEPT ![p] = redis[p]] /\ UNCHANGED <<redis, rticks, known, marks, tmarks>>
      BY <1>4 DEF Age
    <2>2. \A q \in Pools : aged'[q] = IF q = p THEN redis[q] ELSE aged[q]
      BY <2>1 DEF StoreInv
    <2>3. \A q \in Pools : aged'[q] \in 0..redis[q]
      BY <2>1, <2>2, VersionsFinite DEF StoreInv
    <2> QED
      BY <1>1, <2>1, <2>3 DEF StoreInv
  <1>5. CASE Operator
    <2>1. UNCHANGED <<redis, aged, rticks, known, marks, tmarks>>
      BY <1>5, FormLeaves DEF Operator, DiscoveryStep, DefaultsStep
    <2> QED
      BY <1>1, <2>1, StoreKept DEF StoreInv
  <1> QED
    BY <1>2, <1>3, <1>4, <1>5 DEF Around

LEMMA DrainStore == ScanInv /\ IndexInv /\ StoreInv /\ (DrainPools \/ DrainTicks) => StoreInv'
  <1> SUFFICES ASSUME ScanInv, IndexInv, StoreInv, DrainPools \/ DrainTicks PROVE StoreInv'
    OBVIOUS
  <1>1. CASE DrainPools
    <2>1. UNCHANGED <<scen, redis, aged, rticks, known, tmarks>> /\ marks' = {}
          /\ scan' = [pc |-> "drain", changed |-> marks]
      BY <1>1 DEF DrainPools
    <2>2. DOMAIN run'.cached \subseteq Pools
      <3> DEFINE first == [p \in {q \in Pools : redis[q] # 0} |-> redis[p]]
      <3>1. run' = run \/ run' = [run EXCEPT !.booted = TRUE, !.cached = first]
        BY <1>1 DEF DrainPools
      <3>2. DOMAIN first \subseteq Pools
        OBVIOUS
      <3> HIDE DEF first
      <3> QED
        BY <3>1, <3>2 DEF StoreInv, IndexInv, RunFields
    <2> QED
      BY <2>1, <2>2 DEF StoreInv, Pools
  <1>2. CASE DrainTicks
    <2>1. UNCHANGED <<scen, redis, aged, rticks, known, marks>> /\ tmarks' = {} /\ scan.pc = "drain"
      BY <1>2 DEF DrainTicks
    <2>2. \/ run' = run /\ scan' = Idle
          \/ /\ \E due \in BOOLEAN : run' = Refreshed(due)
             /\ scan' = [pc |-> "load", changed |-> scan.changed \cup tmarks, ticked |-> tmarks]
      BY <1>2, Zenon DEF DrainTicks, Rest
    <2>3. run'.cached = run.cached
      BY <2>2, RefreshedFacts
    <2>4. scan'.pc \in {"drain", "load"} => scan'.changed \subseteq Pools
      BY <2>1, <2>2 DEF StoreInv, Idle
    <2> QED
      BY <2>1, <2>3, <2>4 DEF StoreInv, Pools
  <1> QED
    BY <1>1, <1>2

LEMMA RebuiltCaches ==
  ASSUME NEW before, DOMAIN before = RunFields, NEW cached, NEW active
  PROVE  \A r \in Rebuilt(before, cached, active) : r.cached = before.cached
  <1> SUFFICES ASSUME NEW r \in Rebuilt(before, cached, active) PROVE r.cached = before.cached
    OBVIOUS
  <1>1. \E index, graph : r = [before EXCEPT !.index = index, !.graph = graph]
    BY DEF Rebuilt
  <1> QED
    BY <1>1 DEF RunFields

\* Whatever becomes of the index, a cycle caches what it loaded.
LEMMA LoadCaches == ASSUME IndexInv, LoadStates PROVE run'.cached = Loaded
  <1> DEFINE cached == Loaded
             loaded == Reactivated(cached)
             stopped == DOMAIN cached = {} \/ ~known
             ticks == [p \in DOMAIN run.ticks \ (ToLoad \ DOMAIN cached) |-> run.ticks[p]]
  <1>1. PICK sweep \in IF run.sweep THEN {TRUE} ELSE BOOLEAN :
          LET active == (IF sweep THEN Swept(cached) ELSE loaded) \cup Forced(cached)
              dirty == \/ run.index = None \/ TopologyMoved(cached)
                       \/ loaded # run.active \/ active # loaded
              after == [run EXCEPT !.cached = cached, !.ticks = ticks, !.active = active,
                                   !.sweep = FALSE]
          IN  IF stopped THEN /\ run' = [run EXCEPT !.cached = cached, !.ticks = ticks, !.active = loaded]
                              /\ Rest
              ELSE IF active = {} THEN run' = after /\ Rest
              ELSE /\ run' \in IF dirty THEN Rebuilt(after, cached, active) ELSE {after}
                   /\ scan' = [scan EXCEPT !.pc = "expand"]
    BY DEF LoadStates
  <1> DEFINE active == (IF sweep THEN Swept(cached) ELSE loaded) \cup Forced(cached)
             after == [run EXCEPT !.cached = cached, !.ticks = ticks, !.active = active,
                                  !.sweep = FALSE]
             paused == [run EXCEPT !.cached = cached, !.ticks = ticks, !.active = loaded]
  <1>2. run' \in {paused, after} \/ run' \in Rebuilt(after, cached, active)
    BY <1>1
  <1>3. DOMAIN run = RunFields
    BY DEF IndexInv
  <1> HIDE DEF cached, loaded, stopped, ticks, active
  <1>4. DOMAIN after = RunFields /\ after.cached = cached /\ paused.cached = cached
    BY <1>3 DEF RunFields
  <1> HIDE DEF after, paused
  <1>5. ASSUME run' \in Rebuilt(after, cached, active) PROVE run'.cached = cached
    <2>1. DOMAIN after = RunFields
      BY <1>4
    <2>2. \A r \in Rebuilt(after, cached, active) : r.cached = after.cached
      BY <2>1, RebuiltCaches
    <2>3. run'.cached = after.cached
      BY <1>5, <2>2
    <2> QED
      BY <1>4, <2>3
  <1>6. run'.cached = cached
    BY <1>2, <1>4, <1>5
  <1> QED
    BY <1>6 DEF cached

LEMMA LoadStatesStore == ScanInv /\ IndexInv /\ StoreInv /\ LoadStates => StoreInv'
  <1> SUFFICES ASSUME ScanInv, IndexInv, StoreInv, LoadStates PROVE StoreInv'
    OBVIOUS
  <1>1. UNCHANGED <<scen, redis, aged, rticks, known, marks, tmarks>> /\ scan.pc = "load"
    BY DEF LoadStates, feed
  <1>2. DOMAIN Loaded \subseteq Pools
    BY <1>1 DEF Loaded, ToLoad, StoreInv
  <1>3. scan' = Idle \/ scan' = [scan EXCEPT !.pc = "expand"]
    BY DEF LoadStates, Rest
  <1>4. scan'.pc \in {"idle", "expand"}
    BY <1>3 DEF Idle, ScanInv
  <1>5. run'.cached = Loaded
    BY LoadCaches
  <1> QED
    BY <1>1, <1>2, <1>4, <1>5, StoreKept

LEMMA LoadTicksStore == ScanInv /\ IndexInv /\ StoreInv /\ LoadTicks => StoreInv'
  <1> SUFFICES ASSUME ScanInv, IndexInv, StoreInv, LoadTicks PROVE StoreInv'
    OBVIOUS
  <1>1. UNCHANGED <<scen, redis, aged, known, marks, tmarks>> /\ scan.pc = "ticks"
    BY DEF LoadTicks
  <1>2. \E two, dyn : scan' = [scan EXCEPT !.pc = "quote", !.two = two, !.dyn = dyn]
    BY DEF LoadTicks
  <1>3. \E ticks : run' = [run EXCEPT !.ticks = ticks]
    BY DEF LoadTicks
  <1>4. \E reload : rticks' = [p \in Pools |->
          IF p \in reload /\ rticks[p] = 0 THEN Cases[scen].saved[p] ELSE rticks[p]]
    BY DEF LoadTicks
  <1>5. scan'.pc = "quote"
    BY <1>1, <1>2 DEF ScanInv, QuoteFields
  <1>6. run'.cached = run.cached
    BY <1>3 DEF IndexInv, RunFields
  <1>7. DOMAIN rticks' = Pools
        /\ \A p \in Pools : rticks'[p] \in {rticks[p], Cases[scen].saved[p]}
    BY <1>4
  <1>8. \A p \in Pools : rticks'[p] \in 0..Len(Cases[scen].ticks[p])
    BY <1>7, VersionsFinite DEF StoreInv
  <1> QED
    BY <1>1, <1>5, <1>6, <1>7, <1>8 DEF StoreInv, Pools

LEMMA QuoteStore == ScanInv /\ IndexInv /\ StoreInv /\ (Expand \/ QuoteBatch \/ Finish \/ Die) => StoreInv'
  <1> SUFFICES ASSUME ScanInv, IndexInv, StoreInv, Expand \/ QuoteBatch \/ Finish \/ Die
               PROVE  StoreInv'
    OBVIOUS
  <1>1. UNCHANGED <<scen, redis, aged, rticks, known, marks, tmarks>>
    BY DEF Expand, QuoteBatch, Finish, Die, feed
  <1>2. run' = run \/ run' = Fresh
    BY DEF Expand, QuoteBatch, Finish, Die
  <1>3. DOMAIN run'.cached \subseteq Pools
    BY <1>2 DEF StoreInv, Fresh
  <1>4. scan'.pc \in {"idle", "ticks", "quote"}
    <2>1. CASE Expand
      BY <2>1 DEF Expand
    <2>2. CASE QuoteBatch
      <3>1. scan.pc = "quote"
        BY <2>2 DEF QuoteBatch
      <3> QED
        BY <2>2, <3>1, BatchFacts DEF BatchStep, ScanInv, QuoteFields
    <2>3. CASE Finish \/ Die
      BY <2>3 DEF Finish, Die, Rest, Idle
    <2> QED
      BY <2>1, <2>2, <2>3
  <1> QED
    BY <1>1, <1>3, <1>4, StoreKept

LEMMA StoreInvariant == Spec => []StoreInv
  <1>1. Init => StoreInv
    <2> SUFFICES ASSUME Init PROVE StoreInv
      OBVIOUS
    <2>1. /\ scen \in DOMAIN Cases /\ redis = Cases[scen].start
          /\ rticks = [p \in Pools |-> 0] /\ aged = [p \in Pools |-> 0]
          /\ known = FALSE /\ marks = {} /\ tmarks = {} /\ run = Fresh /\ scan = Idle
      BY DEF Init
    <2>2. DOMAIN redis = Pools
      BY <2>1, CasesAssumption DEF Pools
    <2>3. DOMAIN run.cached \subseteq Pools
      BY <2>1 DEF Fresh
    <2>4. \A p \in Pools : redis[p] \in 0..Len(Cases[scen].states[p]) /\ aged[p] \in 0..redis[p]
                          /\ rticks[p] \in 0..Len(Cases[scen].ticks[p])
      BY <2>1, VersionsFinite
    <2>5. scan.pc = "idle"
      BY <2>1 DEF Idle
    <2> QED
      BY <2>1, <2>2, <2>3, <2>4, <2>5 DEF StoreInv
  <1>2. ScanInv /\ IndexInv /\ StoreInv /\ [Next]_vars => StoreInv'
    <2> SUFFICES ASSUME ScanInv, IndexInv, StoreInv, [Next]_vars PROVE StoreInv'
      OBVIOUS
    <2>1. CASE UNCHANGED vars
      BY <2>1, StoreKept DEF vars, StoreInv
    <2> QED
      BY <2>1, AroundStore, DrainStore, LoadStatesStore, LoadTicksStore, QuoteStore
         DEF Next, Cycle
  <1> QED
    BY <1>1, <1>2, ScanInvariant, IndexInvariant, PTL DEF Spec

-----------------------------------------------------------------------------
(* Every state is consistent *)

\* What a pair's row and its tokens' defaults give together has a least profit.
LEMMA SourcePaired ==
  ASSUME NEW own, NEW least, own # {} => least # None,
         NEW scoped, PairedDefault(scoped), NEW all, PairedDefault(all)
  PROVE  Source(own, least, scoped, all).amounts # {} => Source(own, least, scoped, all).min # None
  BY DEF Source, PairedDefault

LEMMA NoFallback == FormInv => NoFallbackProfit
  <1> SUFFICES ASSUME FormInv, NEW r \in conf.rows, NEW scope \in {"two", "multi"}
               PROVE  \A x \in {<<r.token0, r.own0, r.min0>>, <<r.token1, r.own1, r.min1>>} :
                        LET source == Source(x[2], x[3], conf.defaults[x[1]][scope],
                                             conf.defaults[x[1]].all)
                        IN  source.amounts # {} => source.min # None
    BY DEF NoFallbackProfit
  <1>1. PairedRow(r, Tokens) /\ PairedDefaults(conf.defaults, Tokens)
    BY WellPairedParts DEF FormInv
  <1>2. \A t \in Tokens : PairedDefault(conf.defaults[t][scope]) /\ PairedDefault(conf.defaults[t].all)
    BY <1>1 DEF PairedDefaults
  <1>3. /\ r.token0 \in Tokens /\ r.token1 \in Tokens
        /\ r.own0 # {} => r.min0 # None
        /\ r.own1 # {} => r.min1 # None
    BY <1>1 DEF PairedRow
  <1> QED
    BY <1>2, <1>3, SourcePaired

LEMMA Typed == ScanInv /\ IndexInv /\ FormInv /\ StoreInv => TypeOK
  BY DEF ScanInv, IndexInv, FormInv, StoreInv, TypeOK

\* Whatever the markets, the forms, the jobs they start and the searcher do, in any
\* order: the registers have their types, an active pool has a cached state, and no
\* amount is searched with the fallback profit of load_enabled_pair_search_configs.
THEOREM SearchConsistent == Spec => []Consistent
  <1>1. ScanInv /\ IndexInv /\ FormInv /\ StoreInv => Consistent
    BY Typed, NoFallback DEF Consistent
  <1> QED
    BY <1>1, ScanInvariant, IndexInvariant, FormInvariant, StoreInvariant, PTL

=============================================================================

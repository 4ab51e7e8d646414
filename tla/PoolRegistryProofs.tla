-------------------------- MODULE PoolRegistryProofs --------------------------
(***************************************************************************)
(* The safety of PoolRegistry for any pools, logs, processes and failures: *)
(* an inductive invariant, and what follows from it.                       *)
(***************************************************************************)
EXTENDS PoolRegistry, FiniteSetTheorems, TLAPS

------------------------------------------------------------------------------
(* The inductive invariant *)

TasksOf(w) ==
  CASE w = "live" -> {"idle", "seed", "creations", "swaps"}
    [] w = "collector" -> {"idle", "swaps"}
    [] w = "batch" -> {"idle", "classify", "backfill_factory", "backfill_swap", "import"}
    [] w = "admin" -> {"idle", "import_page", "rediscover", "disable"}

\* The tasks that look at pools.
Looking == {"creations", "swaps", "classify", "backfill_factory", "backfill_swap", "import",
            "import_page"}

\* The tasks that know which factories are trusted.
Trusting == {"creations", "swaps", "backfill_factory", "backfill_swap"}

CreatedItems == UNION {CreationsOf[b] : b \in Blocks}

Has(todo, table) == \E i \in DOMAIN todo : todo[i].table = table

\* A plan is about one pool.
About(s, pool) ==
  /\ s.table \in {"pair", "pool", "observed"} => pool \in Pools
  /\ s.table = "pair" => s.key = PairOf[pool]
  /\ s.table = "pool" => PairOf[s.key] = PairOf[pool]
  /\ s.table = "observed" => s.key = pool

Tied(todo, pool) ==
  \A i \in DOMAIN todo : /\ About(todo[i], pool)
                         /\ todo[i].table = "disable" => Len(todo) = 1

JobOk(w, j) ==
  /\ j.task \in TasksOf(w)
  /\ j.inbox # {} => j.task \in Looking
  /\ w # "admin" \/ j.task \in Looking => ~Has(j.todo, "disable")
  /\ j.task = "creations" => j.inbox \subseteq CreatedItems
  /\ j.task = "import_page" =>
       \A item \in j.inbox : item.topic \in {"v2", "v3"} /\ item.topic = TopicOf[item.pool]
  /\ w = "batch" /\ j.task # "idle" => "batch" \in on
  /\ w \in Scanners => j.to <= tip
  /\ Tied(j.todo, j.pool)

JobInv == \A w \in Writers : JobOk(w, job[w])

\* Who writes pools under the id of a pair knows that the pair is searched.
Searched(a) == pairs[a] = "enabled" \/ a \in raced
LinkOk(j) == j.linked /\ Has(j.todo, "pool") => Searched(PairOf[j.pool])
PairOk(p) == Searched(PairOf[p]) \/ (At("admin", "disable") /\ Head(job["admin"].todo).key = PairOf[p])

PairInv ==
  /\ \A w \in Writers : LinkOk(job[w])
  /\ \A p \in Enabled : PairOk(p)

\* Before a plan marks a pool as imported it registers it.
Registers(todo, i, p) == \E k \in DOMAIN todo : k < i /\ todo[k].table = "pool" /\ todo[k].key = p
Listed(p) == pools[p] = "enabled" \/ p \in withdrawn
Marks(s) == s.table = "observed" /\ s.status = "imported"
MarkOk(todo) ==
  \A i \in DOMAIN todo : Marks(todo[i]) => Registers(todo, i, todo[i].key) \/ Listed(todo[i].key)

MarkInv == \A w \in Writers : MarkOk(job[w].todo)

\* What has been seen has a row, or will have one.
Settled(p) == p \in missed \/ observed[p] # Unseen
Observes(todo, p) == \E i \in DOMAIN todo : todo[i].table = "observed" /\ todo[i].key = p
Awaited(p) == Observes(job["live"].todo, p)
InHand(p) == Settled(p) \/ p \in PoolsIn(job["live"].inbox) \/ Awaited(p)
Swapped(from, to) == PoolsIn(Swaps(from, to))
Created(from, to) == {p \in PoolsIn(Creations(from, to)) : FactoryOf[p] # NoFactory}

SkipInv ==
  /\ since <= cursor["live"]
  /\ job["live"].task \in {"creations", "swaps"} => cursor["live"] <= job["live"].to
  /\ \A p \in Swapped(since + 1, cursor["live"]) \cup Created(since + 1, cursor["live"]) : Settled(p)
  /\ job["live"].task = "creations" =>
       \A p \in Created(cursor["live"] + 1, job["live"].to) : InHand(p)
  /\ job["live"].task = "swaps" =>
       /\ \A p \in Created(cursor["live"] + 1, job["live"].to) : Settled(p)
       /\ \A p \in Swapped(cursor["live"] + 1, job["live"].to) : InHand(p)
  /\ \A p \in seen : Settled(p) \/ Awaited(p)

\* Nobody distrusts a default factory.
Exempt(f) == f \notin Defaults \/ ("batch" \in on /\ f \in Unreadable)
Distrusts(todo) ==
  {todo[i].key : i \in {k \in DOMAIN todo : todo[k].table = "factory" /\ todo[k].status = "untrusted"}}

TrustOk(j) ==
  /\ j.task \in Trusting => \A f \in Factories : f \in j.trusted \/ Exempt(f)
  /\ \A f \in Distrusts(j.todo) : Exempt(f)

TrustInv ==
  faults = Faults /\ ~meddled =>
    /\ \A f \in Factories : f \in Trusted \/ Exempt(f)
    /\ \A w \in Writers : TrustOk(job[w])

IInv ==
  /\ TypeOK /\ JobInv /\ PairInv /\ MarkInv /\ ImportedInRegistry /\ SkipInv /\ TrustInv

------------------------------------------------------------------------------
(* Sequences of statements *)

LEMMA SetToSeqFacts ==
  ASSUME NEW S, IsFiniteSet(S)
  PROVE  /\ Cardinality(S) \in Nat /\ SetToSeq(S) \in [1..Cardinality(S) -> S]
         /\ SetToSeq(S) \in Seq(S)
<1>1. Cardinality(S) \in Nat /\ ExistsBijection(1..Cardinality(S), S)
  BY FS_CardinalityType
<1>2. \E g \in [1..Cardinality(S) -> S] : IsInjective(g)
  BY <1>1 DEF ExistsBijection, Bijection, Injection
<1>3. SetToSeq(S) \in [1..Cardinality(S) -> S]
  BY <1>2, Zenon DEF SetToSeq
<1> QED BY <1>1, <1>3

LEMMA Join ==
  ASSUME NEW S, NEW s \in Seq(S), NEW t \in Seq(S)
  PROVE  /\ s \o t \in Seq(S)
         /\ \A i \in DOMAIN (s \o t) :
              \/ i \in DOMAIN s /\ (s \o t)[i] = s[i]
              \/ i - Len(s) \in DOMAIN t /\ (s \o t)[i] = t[i - Len(s)] /\ Len(s) < i
         /\ \A i \in DOMAIN s : i \in DOMAIN (s \o t) /\ (s \o t)[i] = s[i]
         /\ \A i \in DOMAIN t : i + Len(s) \in DOMAIN (s \o t) /\ (s \o t)[i + Len(s)] = t[i]
OBVIOUS

LEMMA Rest ==
  ASSUME NEW S, NEW s \in Seq(S), s # <<>>
  PROVE  /\ Tail(s) \in Seq(S) /\ Head(s) = s[1] /\ 1 \in DOMAIN s /\ Head(s) \in S
         /\ Len(Tail(s)) = Len(s) - 1
         /\ \A i \in DOMAIN Tail(s) : i + 1 \in DOMAIN s /\ Tail(s)[i] = s[i + 1] /\ i \in Nat /\ i >= 1
         /\ \A i \in DOMAIN s : i = 1 \/ (i - 1 \in DOMAIN Tail(s) /\ Tail(s)[i - 1] = s[i])
OBVIOUS

\* A plan for a pool: it registers before it marks.
Fit(todo, p) ==
  /\ todo \in Seq(Statement) /\ Tied(todo, p)
  /\ ~Has(todo, "disable")
  /\ \A i \in DOMAIN todo :
       Marks(todo[i]) => Registers(todo, i, todo[i].key)

LEMMA FitJoin ==
  ASSUME NEW p, NEW s, NEW t, Fit(s, p), Fit(t, p)
  PROVE  /\ Fit(s \o t, p)
         /\ Distrusts(s \o t) \subseteq Distrusts(s) \cup Distrusts(t)
         /\ Observes(s, p) \/ Observes(t, p) => Observes(s \o t, p)
<1> DEFINE u == s \o t
<1>1. s \in Seq(Statement) /\ t \in Seq(Statement) /\ Len(s) \in Nat
  BY DEF Fit
<1>2. /\ u \in Seq(Statement)
      /\ \A i \in DOMAIN u : \/ i \in DOMAIN s /\ u[i] = s[i]
                             \/ i - Len(s) \in DOMAIN t /\ u[i] = t[i - Len(s)] /\ Len(s) < i
      /\ \A i \in DOMAIN s : i \in DOMAIN u /\ u[i] = s[i]
      /\ \A i \in DOMAIN t : i + Len(s) \in DOMAIN u /\ u[i + Len(s)] = t[i]
  BY <1>1, Join
<1> HIDE DEF u
<1>3. DOMAIN s \subseteq Nat /\ DOMAIN t \subseteq Nat /\ DOMAIN u \subseteq Nat
  BY <1>1, <1>2
<1>4. ASSUME NEW i \in DOMAIN u
      PROVE  u[i].table # "disable" /\ About(u[i], p)
  BY <1>2 DEF Fit, Tied, Has
<1>5. ASSUME NEW i \in DOMAIN u, Marks(u[i]) PROVE Registers(u, i, u[i].key)
  <2>1. CASE i \in DOMAIN s /\ u[i] = s[i]
    <3>1. PICK k \in DOMAIN s : k < i /\ s[k].table = "pool" /\ s[k].key = s[i].key
      BY <1>5, <2>1 DEF Fit, Registers
    <3> QED BY <1>2, <2>1, <3>1 DEF Registers
  <2>2. CASE i - Len(s) \in DOMAIN t /\ u[i] = t[i - Len(s)]
    <3>1. PICK k \in DOMAIN t : k < i - Len(s) /\ t[k].table = "pool" /\ t[k].key = t[i - Len(s)].key
      BY <1>5, <2>2 DEF Fit, Registers
    <3>2. k + Len(s) \in DOMAIN u /\ u[k + Len(s)] = t[k]
      BY <1>2, <3>1
    <3>3. k + Len(s) < i
      BY <1>1, <1>3, <3>1
    <3> QED BY <2>2, <3>1, <3>2, <3>3 DEF Registers
  <2> QED BY <1>2, <2>1, <2>2
<1>6. Fit(u, p)
  BY <1>2, <1>4, <1>5 DEF Fit, Tied, Has
<1>7. Distrusts(u) \subseteq Distrusts(s) \cup Distrusts(t)
  BY <1>2 DEF Distrusts
<1>8. Observes(s, p) \/ Observes(t, p) => Observes(u, p)
  BY <1>2 DEF Observes
<1> QED BY <1>6, <1>7, <1>8 DEF u

\* The pieces of plans.
LEMMA Pieces ==
  /\ \A p : Fit(<<>>, p) /\ Distrusts(<<>>) = {}
  /\ \A item \in Item, status \in {"observed_only", "unresolved", "classified_observed_only"} :
       /\ Fit(Observe(item, status), item.pool) /\ Distrusts(Observe(item, status)) = {}
       /\ Observes(Observe(item, status), item.pool)
  /\ \A item \in Item :
       /\ Fit(Import(item), item.pool) /\ Distrusts(Import(item)) = {}
       /\ Observes(Import(item), item.pool)
  /\ \A p \in Pools : Fit(Publish(p), p) /\ Distrusts(Publish(p)) = {}
  /\ \A f \in Factories \cup {NoFactory}, status \in {"trusted", "untrusted"}, p \in Pools :
       /\ Fit(FactoryIs(f, status), p)
       /\ Distrusts(FactoryIs(f, status)) =
            IF f \in Factories /\ status = "untrusted" THEN {f} ELSE {}
<1> USE DEF Stmt
<1>1. ASSUME NEW p PROVE Fit(<<>>, p) /\ Distrusts(<<>>) = {}
  BY DEF Fit, Tied, Distrusts, Has
<1>2. ASSUME NEW item \in Item,
             NEW status \in {"observed_only", "unresolved", "classified_observed_only"}
      PROVE  /\ Fit(Observe(item, status), item.pool) /\ Distrusts(Observe(item, status)) = {}
             /\ Observes(Observe(item, status), item.pool)
  <2> DEFINE s == [Stmt("observed", item.pool, status) EXCEPT !.topic = item.topic]
  <2>1. s \in Statement /\ s.table = "observed" /\ s.key = item.pool /\ s.status = status
        /\ item.pool \in Pools
    BY DEF Statement, Item
  <2>2. Observe(item, status) = <<s>>
    BY DEF Observe
  <2> HIDE DEF s
  <2>3. <<s>> \in Seq(Statement) /\ Len(<<s>>) = 1 /\ DOMAIN <<s>> = {1} /\ <<s>>[1] = s
    BY <2>1
  <2> QED BY <2>1, <2>2, <2>3 DEF Fit, Tied, About, Distrusts, Observes, Marks, Has
<1>3. ASSUME NEW item \in Item
      PROVE  /\ Fit(Import(item), item.pool) /\ Distrusts(Import(item)) = {}
             /\ Observes(Import(item), item.pool)
  <2> DEFINE a == Stmt("pair", PairOf[item.pool], "enabled")
             b == Stmt("pool", item.pool, "enabled")
             c == [Stmt("observed", item.pool, "imported") EXCEPT !.topic = item.topic]
  <2>1. /\ item.pool \in Pools /\ PairOf[item.pool] \in Pairs
        /\ a \in Statement /\ a.table = "pair" /\ a.key = PairOf[item.pool]
        /\ b \in Statement /\ b.table = "pool" /\ b.key = item.pool
        /\ c \in Statement /\ c.table = "observed" /\ c.key = item.pool
    BY RegistryAssumption DEF Statement, Item
  <2>2. Import(item) = <<a, b>> \o <<c>>
    BY DEF Import, Register, Observe
  <2> HIDE DEF a, b, c
  <2> DEFINE u == <<a, b>> \o <<c>>
  <2>3. u \in Seq(Statement) /\ Len(u) = 3 /\ DOMAIN u = {1, 2, 3} /\ u[1] = a /\ u[2] = b /\ u[3] = c
    <3>1. <<a, b>> \in Seq(Statement) /\ <<c>> \in Seq(Statement) /\ Len(<<a, b>>) = 2 /\ Len(<<c>>) = 1
      BY <2>1
    <3>2. u \in Seq(Statement) /\ Len(u) = 3 /\ u[1] = <<a, b>>[1] /\ u[2] = <<a, b>>[2] /\ u[3] = <<c>>[1]
      BY <3>1
    <3> QED BY <3>2
  <2>4. Import(item) = u
    BY <2>2
  <2> HIDE DEF u
  <2>5. Tied(u, item.pool)
    BY <2>1, <2>3 DEF Tied, About
  <2>6. Registers(u, 3, item.pool)
    BY <2>1, <2>3 DEF Registers
  <2>7. Fit(u, item.pool)
    BY <2>1, <2>3, <2>5, <2>6 DEF Fit, Marks, Has
  <2> QED BY <2>1, <2>3, <2>4, <2>7 DEF Distrusts, Observes
<1>4. ASSUME NEW p \in Pools PROVE Fit(Publish(p), p) /\ Distrusts(Publish(p)) = {}
  <2> DEFINE s == Stmt("redis", p, "published")
  <2>1. s \in Statement /\ s.table = "redis"
    BY DEF Statement
  <2>2. Publish(p) = <<s>>
    BY DEF Publish
  <2> HIDE DEF s
  <2>3. <<s>> \in Seq(Statement) /\ Len(<<s>>) = 1 /\ DOMAIN <<s>> = {1} /\ <<s>>[1] = s
    BY <2>1
  <2> QED BY <2>1, <2>2, <2>3 DEF Fit, Tied, About, Distrusts, Marks, Has
<1>5. ASSUME NEW f \in Factories \cup {NoFactory}, NEW status \in {"trusted", "untrusted"}, NEW p \in Pools
      PROVE  /\ Fit(FactoryIs(f, status), p)
             /\ Distrusts(FactoryIs(f, status)) =
                  IF f \in Factories /\ status = "untrusted" THEN {f} ELSE {}
  <2>1. CASE f = NoFactory
    BY <1>1, <2>1, RegistryAssumption DEF FactoryIs
  <2>2. CASE f # NoFactory
    <3> DEFINE s == Stmt("factory", f, status)
    <3>1. s \in Statement /\ s.table = "factory" /\ s.status = status /\ s.key = f /\ f \in Factories
      BY <2>2 DEF Statement
    <3>2. FactoryIs(f, status) = <<s>>
      BY <2>2 DEF FactoryIs
    <3> HIDE DEF s
    <3>3. <<s>> \in Seq(Statement) /\ Len(<<s>>) = 1 /\ DOMAIN <<s>> = {1} /\ <<s>>[1] = s
      BY <3>1
    <3>4. Fit(<<s>>, p)
      BY <3>1, <3>3 DEF Fit, Tied, About, Marks, Has
    <3> QED BY <3>1, <3>2, <3>3, <3>4 DEF Distrusts
  <2> QED BY <2>1, <2>2
<1> QED BY <1>1, <1>2, <1>3, <1>4, <1>5

\* The plans they make up.
LEMMA Plans ==
  ASSUME NEW item \in Item, NEW f \in Factories \cup {NoFactory},
         NEW status \in {"observed_only", "unresolved", "classified_observed_only"}
  PROVE  /\ Fit(Import(item) \o FactoryIs(f, "trusted"), item.pool)
         /\ Distrusts(Import(item) \o FactoryIs(f, "trusted")) = {}
         /\ Observes(Import(item) \o FactoryIs(f, "trusted"), item.pool)
         /\ Fit(LiveImport(item, f), item.pool) /\ Distrusts(LiveImport(item, f)) = {}
         /\ Observes(LiveImport(item, f), item.pool)
         /\ Fit(Observe(item, status) \o FactoryIs(f, "untrusted"), item.pool)
         /\ Distrusts(Observe(item, status) \o FactoryIs(f, "untrusted")) \subseteq {f} \cap Factories
         /\ Observes(Observe(item, status) \o FactoryIs(f, "untrusted"), item.pool)
<1>1. item.pool \in Pools
  BY DEF Item
<1>2. Fit(Import(item), item.pool) /\ Distrusts(Import(item)) = {} /\ Observes(Import(item), item.pool)
  BY Pieces
<1>3. Fit(FactoryIs(f, "trusted"), item.pool) /\ Distrusts(FactoryIs(f, "trusted")) = {}
  BY <1>1, Pieces
<1>4. Fit(FactoryIs(f, "untrusted"), item.pool) /\ Distrusts(FactoryIs(f, "untrusted")) \subseteq {f} \cap Factories
  BY <1>1, Pieces
<1>5. /\ Fit(Observe(item, status), item.pool) /\ Distrusts(Observe(item, status)) = {}
      /\ Observes(Observe(item, status), item.pool)
  BY Pieces
<1>6. Fit(Publish(item.pool), item.pool) /\ Distrusts(Publish(item.pool)) = {}
  BY <1>1, Pieces
<1> DEFINE u == Import(item) \o FactoryIs(f, "trusted")
<1>7. Fit(u, item.pool) /\ Distrusts(u) = {} /\ Observes(u, item.pool)
  <2>1. /\ Fit(u, item.pool) /\ Observes(u, item.pool)
        /\ Distrusts(u) \subseteq Distrusts(Import(item)) \cup Distrusts(FactoryIs(f, "trusted"))
    BY <1>2, <1>3, FitJoin
  <2> QED BY <1>2, <1>3, <2>1
<1>8. LiveImport(item, f) = u \o Publish(item.pool)
  <2>1. Import(item) \in Seq(Statement) /\ FactoryIs(f, "trusted") \in Seq(Statement)
        /\ Publish(item.pool) \in Seq(Statement)
    BY <1>2, <1>3, <1>6 DEF Fit
  <2> QED BY <2>1 DEF LiveImport
<1>9. /\ Fit(u \o Publish(item.pool), item.pool) /\ Distrusts(u \o Publish(item.pool)) = {}
      /\ Observes(u \o Publish(item.pool), item.pool)
  <2> HIDE DEF u
  <2>1. /\ Fit(u \o Publish(item.pool), item.pool) /\ Observes(u \o Publish(item.pool), item.pool)
        /\ Distrusts(u \o Publish(item.pool)) \subseteq Distrusts(u) \cup Distrusts(Publish(item.pool))
    BY <1>6, <1>7, FitJoin
  <2> QED BY <1>6, <1>7, <2>1
<1> DEFINE v == Observe(item, status) \o FactoryIs(f, "untrusted")
<1>10. Fit(v, item.pool) /\ Distrusts(v) \subseteq {f} \cap Factories /\ Observes(v, item.pool)
  <2>1. /\ Fit(v, item.pool) /\ Observes(v, item.pool)
        /\ Distrusts(v) \subseteq Distrusts(Observe(item, status)) \cup Distrusts(FactoryIs(f, "untrusted"))
    BY <1>4, <1>5, FitJoin
  <2> QED BY <1>4, <1>5, <2>1
<1> QED BY <1>7, <1>8, <1>9, <1>10

\* What a plan may be, whatever decides: it fits its pool, and it distrusts at most f.
Sound(plan, p, ds) == Fit(plan, p) /\ Distrusts(plan) \subseteq ds

LEMMA KnownType ==
  ASSUME NEW item \in Item, NEW fault
  PROVE  /\ item.pool \in Pools /\ item.topic \in Topics \cup {"none"}
         /\ FactoryOf[item.pool] \in Factories \cup {NoFactory}
         /\ Known(item.pool, fault) \in Factories \cup {NoFactory}
         /\ Discovered(item.pool, item.topic, fault) \in Factories \cup {NoFactory}
         /\ fault = "none" => Known(item.pool, fault) = FactoryOf[item.pool]
BY RegistryAssumption DEF Item, Known, Discovered

\* process_observed_swap_pool and process_pool_creation_log.
LEMMA ScanPlans ==
  ASSUME NEW item \in Item, NEW trusted \in SUBSET Factories, NEW fault \in Failures
  PROVE  /\ Fit(SwapOutcome(item, trusted, fault), item.pool)
         /\ Distrusts(SwapOutcome(item, trusted, fault)) \subseteq Factories \ trusted
         /\ fault = "none" => Observes(SwapOutcome(item, trusted, fault), item.pool)
         /\ Fit(CreationOutcome(item, trusted, fault), item.pool)
         /\ fault = "none" /\ (TrustedResolves(item.pool, FactoryOf[item.pool]) \/ FactoryOf[item.pool] \notin trusted) =>
              Distrusts(CreationOutcome(item, trusted, fault)) \subseteq Factories \ trusted
         /\ fault = "none" => Distrusts(CreationOutcome(item, trusted, fault)) \subseteq {FactoryOf[item.pool]}
         /\ fault = "none" /\ FactoryOf[item.pool] # NoFactory =>
              Observes(CreationOutcome(item, trusted, fault), item.pool)
<1> DEFINE p == item.pool  f == Known(p, fault)  g == FactoryOf[p]
<1>0. /\ p \in Pools /\ g \in Factories \cup {NoFactory} /\ f \in Factories \cup {NoFactory}
      /\ fault = "none" => f = g
      /\ Fit(<<>>, p) /\ Distrusts(<<>>) = {}
      /\ NoFactory \notin Factories
  BY KnownType, Pieces, RegistryAssumption
<1> DEFINE oo == Observe(item, "observed_only")
           li == LiveImport(item, f)
           cf == Observe(item, "classified_observed_only") \o FactoryIs(f, "untrusted")
           lg == LiveImport(item, g)
           it == Import(item) \o FactoryIs(g, "trusted")
           og == Observe(item, "observed_only") \o FactoryIs(g, "untrusted")
           cg == Observe(item, "classified_observed_only") \o FactoryIs(g, "untrusted")
           ug == FactoryIs(g, "untrusted")
<1>1. /\ Fit(oo, p) /\ Distrusts(oo) = {} /\ Observes(oo, p)
      /\ Fit(li, p) /\ Distrusts(li) = {} /\ Observes(li, p)
      /\ Fit(cf, p) /\ Distrusts(cf) \subseteq {f} \cap Factories /\ Observes(cf, p)
      /\ Fit(lg, p) /\ Distrusts(lg) = {} /\ Observes(lg, p)
  BY <1>0, Plans, Pieces
<1>2. /\ Fit(it, p) /\ Distrusts(it) = {} /\ Observes(it, p)
      /\ Fit(og, p) /\ Distrusts(og) \subseteq {g} \cap Factories /\ Observes(og, p)
      /\ Fit(cg, p) /\ Distrusts(cg) \subseteq {g} \cap Factories /\ Observes(cg, p)
  BY <1>0, Plans
<1>3. Fit(ug, p) /\ Distrusts(ug) \subseteq {g} \cap Factories
  <2>1. Fit(ug, p) /\ Distrusts(ug) = IF g \in Factories THEN {g} ELSE {}
    BY <1>0, Pieces
  <2> QED BY <2>1
<1> DEFINE so == SwapOutcome(item, trusted, fault)  co == CreationOutcome(item, trusted, fault)
<1> HIDE DEF p, f, g
<1>4. \/ so = <<>> /\ fault = "metadata"
      \/ so = oo \/ so = li
      \/ so = cf /\ f \notin trusted
  <2>1. CASE fault = "metadata"
    BY <2>1 DEF SwapOutcome
  <2>2. CASE fault # "metadata" /\ f = NoFactory
    BY <2>2 DEF p, f, SwapOutcome
  <2>3. CASE fault # "metadata" /\ f # NoFactory /\ f \in trusted
    <3>1. CASE fault # "resolve" /\ TrustedResolves(p, f)
      BY <2>3, <3>1 DEF p, f, SwapOutcome
    <3>2. CASE ~(fault # "resolve" /\ TrustedResolves(p, f))
      BY <2>3, <3>2 DEF p, f, SwapOutcome
    <3> QED BY <3>1, <3>2
  <2>4. CASE fault # "metadata" /\ f # NoFactory /\ f \notin trusted
    <3>1. CASE fault # "resolve" /\ RegistryResolves(p, item.topic)
      BY <2>4, <3>1 DEF p, f, SwapOutcome
    <3>2. CASE ~(fault # "resolve" /\ RegistryResolves(p, item.topic))
      BY <2>4, <3>2 DEF p, f, SwapOutcome
    <3> QED BY <3>1, <3>2
  <2> QED BY <2>1, <2>2, <2>3, <2>4
<1>5. \/ co = <<>> /\ (fault = "none" => g = NoFactory)
      \/ co = ug /\ fault # "none"
      \/ co = it \/ co = lg
      \/ co = og /\ g \in trusted /\ (fault = "none" => ~TrustedResolves(p, g))
      \/ co = cg /\ (fault = "none" => g \notin trusted)
  <2>1. CASE ~IsCreated(p, fault)
    <3>1. co = <<>>
      BY <2>1, <1>0 DEF p, g, CreationOutcome, IsCreated, Known
    <3>2. fault = "none" => g = NoFactory
      BY <2>1 DEF p, g, IsCreated, Known
    <3> QED BY <3>1, <3>2
  <2>2. CASE IsCreated(p, fault) /\ fault = "metadata"
    <3>1. g # NoFactory
      BY <2>2 DEF p, g, IsCreated, Known
    <3>2. co = ug
      BY <2>2, <3>1 DEF p, g, CreationOutcome
    <3> QED BY <2>2, <3>2
  <2>3. CASE IsCreated(p, fault) /\ fault \in {"none", "resolve"} /\ g \in trusted
    <3>1. CASE fault = "none" /\ TrustedResolves(p, g)
      BY <2>3, <3>1 DEF p, g, CreationOutcome
    <3>2. CASE ~(fault = "none" /\ TrustedResolves(p, g))
      BY <2>3, <3>2 DEF p, g, CreationOutcome, ObservedOnly
    <3> QED BY <3>1, <3>2
  <2>4. CASE IsCreated(p, fault) /\ fault # "metadata" /\ ~(fault \in {"none", "resolve"} /\ g \in trusted)
    <3>1. CASE fault = "none" /\ RegistryResolves(p, CreationTopic(p))
      BY <2>4, <3>1 DEF p, g, CreationOutcome
    <3>2. CASE ~(fault = "none" /\ RegistryResolves(p, CreationTopic(p)))
      BY <2>4, <3>2 DEF p, g, CreationOutcome, ObservedOnly
    <3> QED BY <2>4, <3>1, <3>2
  <2> QED BY <2>1, <2>2, <2>3, <2>4
<1> HIDE DEF so, co, oo, li, cf, lg, it, og, cg, ug
<1>6. Fit(so, p) /\ Distrusts(so) \subseteq Factories \ trusted /\ (fault = "none" => Observes(so, p))
  BY <1>0, <1>1, <1>4
<1>7. /\ Fit(co, p)
      /\ fault = "none" => Distrusts(co) \subseteq {g}
      /\ fault = "none" /\ (TrustedResolves(p, g) \/ g \notin trusted) => Distrusts(co) \subseteq Factories \ trusted
      /\ fault = "none" /\ g # NoFactory => Observes(co, p)
  <2>1. Fit(co, p) /\ (fault = "none" => Distrusts(co) \subseteq {g})
    BY <1>0, <1>1, <1>2, <1>3, <1>5
  <2>2. fault = "none" /\ g # NoFactory => Observes(co, p)
    BY <1>1, <1>2, <1>5
  <2>3. ASSUME fault = "none", TrustedResolves(p, g) \/ g \notin trusted
        PROVE  Distrusts(co) \subseteq Factories \ trusted
    <3>1. \/ Distrusts(co) = {}
          \/ Distrusts(co) \subseteq {g} \cap Factories /\ g \notin trusted
      BY <1>0, <1>1, <1>2, <1>5, <2>3
    <3> QED BY <3>1
  <2> QED BY <2>1, <2>2, <2>3
<1> QED BY <1>6, <1>7 DEF so, co, p, g

\* classify_row, the backfills, and the imports of the tool and of the page.
LEMMA ToolPlans ==
  ASSUME NEW item \in Item, NEW trusted \in SUBSET Factories, NEW fault \in Failures
  PROVE  /\ Fit(ClassifyOutcome(item, fault), item.pool)
         /\ fault = "none" => Distrusts(ClassifyOutcome(item, fault)) \subseteq Unreadable
         /\ Fit(BackfillFactoryOutcome(item, trusted, fault), item.pool)
         /\ Distrusts(BackfillFactoryOutcome(item, trusted, fault)) = {}
         /\ Fit(BackfillSwapOutcome(item, trusted, fault), item.pool)
         /\ Distrusts(BackfillSwapOutcome(item, trusted, fault)) \subseteq Factories \ trusted
         /\ Fit(ImportToolOutcome(item, fault), item.pool)
         /\ Distrusts(ImportToolOutcome(item, fault)) = {}
         /\ Fit(ImportPageOutcome(item, fault), item.pool)
         /\ fault = "none" /\ item.topic \in {"v2", "v3"} /\ item.topic = TopicOf[item.pool] =>
              Distrusts(ImportPageOutcome(item, fault)) = {}
<1> DEFINE p == item.pool  f == Known(p, fault)  d == Discovered(p, item.topic, fault)
<1>0. /\ p \in Pools /\ f \in Factories \cup {NoFactory} /\ d \in Factories \cup {NoFactory}
      /\ fault = "none" => f = FactoryOf[p]
      /\ Fit(<<>>, p) /\ Distrusts(<<>>) = {}
  BY KnownType, Pieces
<1> DEFINE im == Import(item)
           oo == Observe(item, "observed_only")
           ou == Observe(item, "unresolved")
           id == Import(item) \o FactoryIs(d, "trusted")
           of == Observe(item, "observed_only") \o FactoryIs(f, "untrusted")
           cf == Observe(item, "classified_observed_only") \o FactoryIs(f, "untrusted")
           on0 == Observe(item, "observed_only") \o <<>>
           if == Import(item) \o FactoryIs(f, "trusted")
<1>1. /\ Fit(im, p) /\ Distrusts(im) = {} /\ Fit(oo, p) /\ Distrusts(oo) = {}
      /\ Fit(ou, p) /\ Distrusts(ou) = {}
  BY Pieces
<1>2. /\ Fit(id, p) /\ Distrusts(id) = {} /\ Fit(if, p) /\ Distrusts(if) = {}
      /\ Fit(of, p) /\ Distrusts(of) \subseteq {f} \cap Factories
      /\ Fit(cf, p) /\ Distrusts(cf) \subseteq {f} \cap Factories
  BY <1>0, Plans
<1>3. Fit(on0, p)
  BY <1>0, <1>1, FitJoin
<1> DEFINE cl == ClassifyOutcome(item, fault)
           bf == BackfillFactoryOutcome(item, trusted, fault)
           bs == BackfillSwapOutcome(item, trusted, fault)
           it == ImportToolOutcome(item, fault)
           ip == ImportPageOutcome(item, fault)
<1> HIDE DEF p, f, d
<1>4. cl = ou \/ cl = id \/ (cl = cf /\ (fault = "none" => ~RegistryResolves(p, item.topic)))
  <2>1. CASE fault = "metadata"
    BY <2>1 DEF ClassifyOutcome
  <2>2. CASE fault \in {"none", "factory"} /\ RegistryResolves(p, item.topic)
    BY <2>2 DEF p, d, ClassifyOutcome
  <2>3. CASE fault # "metadata" /\ ~(fault \in {"none", "factory"} /\ RegistryResolves(p, item.topic))
    BY <2>3 DEF p, f, ClassifyOutcome
  <2> QED BY <2>1, <2>2, <2>3
<1>5. bf = <<>> \/ bf = im \/ bf = oo
  BY DEF BackfillFactoryOutcome
<1>6. bs = <<>> \/ bs = oo \/ bs = if \/ (bs = of /\ f \notin trusted)
  <2>1. CASE fault = "metadata"
    BY <2>1 DEF BackfillSwapOutcome
  <2>2. CASE fault # "metadata" /\ f = NoFactory
    BY <2>2 DEF p, f, BackfillSwapOutcome
  <2>3. CASE fault # "metadata" /\ f # NoFactory /\ f \in trusted
    <3>1. CASE fault # "resolve" /\ TrustedResolves(p, f)
      BY <2>3, <3>1 DEF p, f, BackfillSwapOutcome
    <3>2. CASE ~(fault # "resolve" /\ TrustedResolves(p, f))
      BY <2>3, <3>2 DEF p, f, BackfillSwapOutcome
    <3> QED BY <3>1, <3>2
  <2>4. CASE fault # "metadata" /\ f # NoFactory /\ f \notin trusted
    BY <2>4 DEF p, f, BackfillSwapOutcome
  <2> QED BY <2>1, <2>2, <2>3, <2>4
<1>7. it = im \/ it = oo
  BY DEF ImportToolOutcome
<1>8. \/ ip = id \/ ip = on0
      \/ ip = of /\ (fault = "none" => ~RegistryResolves(p, item.topic))
      \/ ip = of /\ fault = "factory"
  <2>1. CASE fault \in {"none", "factory"} /\ RegistryResolves(p, item.topic)
    BY <2>1 DEF p, d, ImportPageOutcome
  <2>2. CASE ~(fault \in {"none", "factory"} /\ RegistryResolves(p, item.topic)) /\ fault = "metadata"
    BY <2>2 DEF p, ImportPageOutcome
  <2>3. CASE ~(fault \in {"none", "factory"} /\ RegistryResolves(p, item.topic)) /\ fault # "metadata"
    BY <2>3 DEF p, f, ImportPageOutcome
  <2> QED BY <2>1, <2>2, <2>3
<1>9. on0 = oo
  <2>1. oo \in Seq(Statement)
    BY <1>1 DEF Fit
  <2> QED BY <2>1
<1>10. ~RegistryResolves(p, item.topic) => /\ {FactoryOf[p]} \subseteq Unreadable
                                          /\ ~(item.topic \in {"v2", "v3"} /\ item.topic = TopicOf[p])
  BY <1>0, RegistryAssumption DEF RegistryResolves, Unreadable
<1> HIDE DEF cl, bf, bs, it, ip, im, oo, ou, id, of, cf, on0, if
<1>11. Fit(cl, p) /\ (fault = "none" => Distrusts(cl) \subseteq Unreadable)
  BY <1>0, <1>1, <1>2, <1>4, <1>10
<1>12. Fit(bf, p) /\ Distrusts(bf) = {}
  BY <1>0, <1>1, <1>5
<1>13. Fit(bs, p) /\ Distrusts(bs) \subseteq Factories \ trusted
  BY <1>0, <1>1, <1>2, <1>6
<1>14. Fit(it, p) /\ Distrusts(it) = {}
  BY <1>1, <1>7
<1>15. /\ Fit(ip, p)
       /\ fault = "none" /\ item.topic \in {"v2", "v3"} /\ item.topic = TopicOf[p] => Distrusts(ip) = {}
  BY <1>1, <1>2, <1>3, <1>8, <1>9, <1>10
<1> QED BY <1>11, <1>12, <1>13, <1>14, <1>15 DEF cl, bf, bs, it, ip, p

\* Every decision makes a plan for its pool, and a scanner writes a row for it.
LEMMA OutcomeFit ==
  ASSUME NEW task \in Looking, NEW item \in Item, NEW trusted \in SUBSET Factories, NEW fault \in Failures
  PROVE  /\ Fit(Outcome(task, item, trusted, fault), item.pool)
         /\ fault = "none" /\ (task = "swaps" \/ (task = "creations" /\ FactoryOf[item.pool] # NoFactory)) =>
              Observes(Outcome(task, item, trusted, fault), item.pool)
<1> DEFINE o == Outcome(task, item, trusted, fault)
           co == CreationOutcome(item, trusted, fault)
           so == SwapOutcome(item, trusted, fault)
<1>8. /\ Fit(so, item.pool) /\ (fault = "none" => Observes(so, item.pool))
      /\ Fit(co, item.pool)
      /\ fault = "none" /\ FactoryOf[item.pool] # NoFactory => Observes(co, item.pool)
  BY ScanPlans
<1>9. /\ Fit(ClassifyOutcome(item, fault), item.pool)
      /\ Fit(BackfillFactoryOutcome(item, trusted, fault), item.pool)
      /\ Fit(BackfillSwapOutcome(item, trusted, fault), item.pool)
      /\ Fit(ImportToolOutcome(item, fault), item.pool)
      /\ Fit(ImportPageOutcome(item, fault), item.pool)
  BY ToolPlans
<1> HIDE DEF o, co, so
<1>1. CASE task = "creations"
  <2>1. o = co
    BY <1>1 DEF o, co, Outcome
  <2> QED BY <1>1, <2>1, <1>8 DEF o
<1>2. CASE task = "swaps"
  <2>1. o = so
    BY <1>2 DEF o, so, Outcome
  <2> QED BY <1>2, <2>1, <1>8 DEF o
<1>3. CASE task = "classify"
  <2>1. o = ClassifyOutcome(item, fault)
    BY <1>3 DEF o, Outcome
  <2> QED BY <1>3, <2>1, <1>9 DEF o
<1>4. CASE task = "backfill_factory"
  <2>1. o = BackfillFactoryOutcome(item, trusted, fault)
    BY <1>4 DEF o, Outcome
  <2> QED BY <1>4, <2>1, <1>9 DEF o
<1>5. CASE task = "backfill_swap"
  <2>1. o = BackfillSwapOutcome(item, trusted, fault)
    BY <1>5 DEF o, Outcome
  <2> QED BY <1>5, <2>1, <1>9 DEF o
<1>6. CASE task = "import"
  <2>1. o = ImportToolOutcome(item, fault)
    BY <1>6 DEF o, Outcome
  <2> QED BY <1>6, <2>1, <1>9 DEF o
<1>7. CASE task = "import_page"
  <2>1. o = ImportPageOutcome(item, fault)
    BY <1>7 DEF o, Outcome
  <2> QED BY <1>7, <2>1, <1>9 DEF o
<1> QED BY <1>1, <1>2, <1>3, <1>4, <1>5, <1>6, <1>7 DEF Looking

\* What an item of a creation log says.
LEMMA CreatedItem ==
  ASSUME NEW item \in CreatedItems
  PROVE  /\ FactoryOf[item.pool] \in Defaults \cap V2Factories => item.pool \in Canonical
         /\ item \in Item
<1>1. PICK b \in Blocks : item \in CreationsOf[b]
  BY DEF CreatedItems
<1>2. item \in ItemsIn(b, "created", [p \in Pools |-> "created"])
  BY <1>1 DEF CreationsOf
<1>3. PICK i \in 1..Len(LogsAt[b]) :
        /\ LogsAt[b][i][1] = "created"
        /\ item = [pool |-> LogsAt[b][i][2], topic |-> [p \in Pools |-> "created"][LogsAt[b][i][2]], at |-> <<b, i>>]
  BY <1>2 DEF ItemsIn
<1>4. b \in Nat /\ i \in Nat /\ LogsAt[b][i] \in {"swap", "created"} \X Pools
  <2>1. b \in 1..Len(LogsAt) /\ LogsAt \in Seq(Seq({"swap", "created"} \X Pools))
    BY <1>1, RegistryAssumption DEF Blocks
  <2>2. LogsAt[b] \in Seq({"swap", "created"} \X Pools) /\ b \in Nat
    BY <2>1
  <2> HIDE DEF Blocks
  <2> QED BY <1>3, <2>2
<1>5. LogsAt[b][i][2] \in Pools
  BY <1>4
<1>6. item.pool = LogsAt[b][i][2] /\ item.topic = "created" /\ item.at = <<b, i>>
  BY <1>3, <1>5
<1>7. item \in Item
  BY <1>3, <1>4, <1>5, <1>6 DEF Item, Topics
<1>8. FactoryOf[item.pool] \in Defaults \cap V2Factories => item.pool \in Canonical
  BY <1>1, <1>3, <1>6, CreatedIsCanonical
<1> QED BY <1>7, <1>8

\* While every call answers, nobody distrusts a default factory but the classifier.
LEMMA OutcomeTrusts ==
  ASSUME NEW task \in Looking, NEW item \in Item, NEW trusted \in SUBSET Factories,
         task \in Trusting => \A f \in Factories : f \in trusted \/ Exempt(f),
         task = "creations" => item \in CreatedItems,
         task = "import_page" => item.topic \in {"v2", "v3"} /\ item.topic = TopicOf[item.pool],
         task = "classify" => "batch" \in on,
         NEW f \in Distrusts(Outcome(task, item, trusted, "none"))
  PROVE  Exempt(f)
<1> DEFINE o == Outcome(task, item, trusted, "none")
<1>0. "none" \in Failures
  BY DEF Failures
<1>1. CASE task = "creations"
  <2>1. o = CreationOutcome(item, trusted, "none")
    BY <1>1 DEF Outcome
  <2>2. CASE TrustedResolves(item.pool, FactoryOf[item.pool]) \/ FactoryOf[item.pool] \notin trusted
    BY <1>0, <1>1, <2>1, <2>2, ScanPlans DEF Trusting
  <2>3. CASE ~TrustedResolves(item.pool, FactoryOf[item.pool]) /\ FactoryOf[item.pool] \in trusted
    <3>1. f = FactoryOf[item.pool]
      BY <1>0, <2>1, ScanPlans
    <3>2. f \notin Defaults
      BY <1>1, <2>3, <3>1, CreatedItem DEF TrustedResolves
    <3> QED BY <3>2 DEF Exempt
  <2> QED BY <2>2, <2>3
<1>2. CASE task = "swaps"
  <2>1. o = SwapOutcome(item, trusted, "none")
    BY <1>2 DEF Outcome
  <2> QED BY <1>0, <1>2, <2>1, ScanPlans DEF Trusting
<1>3. CASE task = "classify"
  <2>1. o = ClassifyOutcome(item, "none")
    BY <1>3 DEF Outcome
  <2>2. f \in Unreadable
    BY <1>0, <2>1, ToolPlans
  <2> QED BY <1>3, <2>2 DEF Exempt
<1>4. CASE task = "backfill_factory"
  <2>1. o = BackfillFactoryOutcome(item, trusted, "none")
    BY <1>4 DEF Outcome
  <2> QED BY <1>0, <2>1, ToolPlans
<1>5. CASE task = "backfill_swap"
  <2>1. o = BackfillSwapOutcome(item, trusted, "none")
    BY <1>5 DEF Outcome
  <2> QED BY <1>0, <1>5, <2>1, ToolPlans DEF Trusting
<1>6. CASE task = "import"
  <2>1. o = ImportToolOutcome(item, "none")
    BY <1>6 DEF Outcome
  <2> QED BY <1>0, <2>1, ToolPlans
<1>7. CASE task = "import_page"
  <2>1. o = ImportPageOutcome(item, "none")
    BY <1>7 DEF Outcome
  <2> QED BY <1>0, <1>7, <2>1, ToolPlans
<1> QED BY <1>1, <1>2, <1>3, <1>4, <1>5, <1>6, <1>7 DEF Looking

------------------------------------------------------------------------------
(* The logs that are asked for *)

LEMMA LogItems ==
  /\ \A from, to : Swaps(from, to) \subseteq Item /\ PoolsIn(Swaps(from, to)) \subseteq Pools
  /\ \A from, to : /\ Creations(from, to) \subseteq CreatedItems /\ Creations(from, to) \subseteq Item
                   /\ PoolsIn(Creations(from, to)) \subseteq Pools
<1>1. ASSUME NEW b \in Blocks PROVE SwapsOf[b] \subseteq Item
  <2>1. SUFFICES ASSUME NEW item \in ItemsIn(b, "swap", TopicOf) PROVE item \in Item
    BY DEF SwapsOf
  <2>2. PICK i \in 1..Len(LogsAt[b]) :
          item = [pool |-> LogsAt[b][i][2], topic |-> TopicOf[LogsAt[b][i][2]], at |-> <<b, i>>]
    BY DEF ItemsIn
  <2>3. b \in Nat /\ i \in Nat /\ LogsAt[b][i] \in {"swap", "created"} \X Pools
    <3>1. b \in 1..Len(LogsAt) /\ LogsAt \in Seq(Seq({"swap", "created"} \X Pools))
      BY <1>1, RegistryAssumption DEF Blocks
    <3>2. LogsAt[b] \in Seq({"swap", "created"} \X Pools) /\ b \in Nat
      BY <3>1
    <3> QED BY <2>2, <3>2
  <2>4. LogsAt[b][i][2] \in Pools
    BY <2>3
  <2>5. TopicOf[LogsAt[b][i][2]] \in Topics
    BY <2>4, RegistryAssumption DEF Topics
  <2> QED BY <2>2, <2>3, <2>4, <2>5 DEF Item
<1>2. \A from, to : Swaps(from, to) \subseteq Item
  BY <1>1 DEF Swaps
<1>3. \A from, to : Creations(from, to) \subseteq CreatedItems /\ Creations(from, to) \subseteq Item
  <2>1. \A from, to : Creations(from, to) \subseteq CreatedItems
    BY DEF Creations, CreatedItems
  <2> QED BY <2>1, CreatedItem
<1>4. ASSUME NEW S \in SUBSET Item PROVE PoolsIn(S) \subseteq Pools
  BY DEF PoolsIn, Item
<1> QED BY <1>2, <1>3, <1>4

LEMMA ItemsType ==
  ASSUME NEW ps \in SUBSET Pools, NEW topics \in [Pools -> Topics \cup {"none"}]
  PROVE  /\ Items(ps, topics) \subseteq Item
         /\ \A item \in Items(ps, topics) : item.pool \in ps /\ item.topic = topics[item.pool]
BY DEF Items, Item

LEMMA TopicOfType == TopicOf \in [Pools -> Topics \cup {"none"}]
BY RegistryAssumption DEF Topics

------------------------------------------------------------------------------
(* What a step does to the jobs *)

\* A job whose plan marks nothing, distrusts nobody, and writes no pool under an id it has.
Fresh(j) ==
  \A i \in DOMAIN j.todo : /\ ~Marks(j.todo[i]) /\ j.todo[i].status # "untrusted"
                           /\ j.linked => j.todo[i].table # "pool"

\* The trusted factories a job works with are those of the registry, or those it had.
TrustsFrom(w) ==
  job[w].task' \in Trusting => \/ job[w].trusted' = Trusted
                               \/ job[w].task \in Trusting /\ job[w].trusted' = job[w].trusted

SameWork(w) ==
  /\ job[w].task' = job[w].task /\ job[w].inbox' = job[w].inbox
  /\ job[w].trusted' = job[w].trusted /\ job[w].pool' = job[w].pool /\ job[w].to' = job[w].to

Steady(w) ==
  SameWork(w) /\ job[w].todo' = job[w].todo /\ (job[w].linked' => job[w].linked)

Advances(w) ==
  /\ SameWork(w) /\ job[w].todo # <<>> /\ job[w].todo' = Tail(job[w].todo)
  /\ job[w].linked' => job[w].linked \/ Head(job[w].todo).table = "pair"
  /\ Write(w) \/ (w = "admin" /\ DisablePools)

Takes(w) == \E item \in job[w].inbox, fault \in Failures : TakeItem(w, item, fault)

Moved(w) == (Fresh(job[w])' /\ TrustsFrom(w)) \/ Steady(w) \/ Advances(w) \/ Takes(w)

JobsMove == job' \in [Writers -> Job] /\ JobInv' /\ \A w \in Writers : Moved(w)

LEMMA NoPlan ==
  /\ <<>> \in Seq(Statement)
  /\ \A p : Tied(<<>>, p)
  /\ \A table : ~Has(<<>>, table)
  /\ \A j : j.todo = <<>> => Fresh(j)
BY DEF Tied, Has, Fresh

LEMMA IdleJob ==
  ASSUME TypeOK
  PROVE
  /\ Idle \in Job /\ Idle.task = "idle" /\ Idle.inbox = {} /\ Idle.todo = <<>> /\ Idle.trusted = {}
  /\ Idle.pool = NoPool /\ Idle.linked = FALSE /\ Idle.to = 0
  /\ \A w \in Writers : JobOk(w, Idle)
  /\ Fresh(Idle)
<1>1. /\ Idle.task = "idle" /\ Idle.inbox = {} /\ Idle.todo = <<>> /\ Idle.trusted = {}
      /\ Idle.pool = NoPool /\ Idle.linked = FALSE /\ Idle.to = 0
  BY DEF Idle
<1>2. Idle \in Job
  BY NoPlan DEF Idle, Job
<1>3. \A w \in Writers : Idle.task \in TasksOf(w)
  BY <1>1 DEF Writers, Scanners, TasksOf
<1>4. tip \in Nat
  BY RegistryAssumption DEF TypeOK
<1> QED BY <1>1, <1>2, <1>3, <1>4, NoPlan DEF JobOk, Looking

\* One job is replaced.
LEMMA JobSet ==
  ASSUME TypeOK, JobInv, NEW w \in Writers, NEW j \in Job, JobOk(w, j),
         job' = [job EXCEPT ![w] = j], on' = on /\ tip' = tip,
         \/ Fresh(j) /\ (j.task \in Trusting => j.trusted = Trusted \/ (job[w].task \in Trusting /\ j.trusted = job[w].trusted))
         \/ /\ j.task = job[w].task /\ j.inbox = job[w].inbox /\ j.trusted = job[w].trusted
            /\ j.pool = job[w].pool /\ j.to = job[w].to /\ job[w].todo # <<>> /\ j.todo = Tail(job[w].todo)
            /\ j.linked => job[w].linked \/ Head(job[w].todo).table = "pair"
            /\ Write(w) \/ (w = "admin" /\ DisablePools)
         \/ Takes(w)
  PROVE  JobsMove
<1>1. job \in [Writers -> Job]
  BY DEF TypeOK
<1>2. /\ job' \in [Writers -> Job] /\ job'[w] = j
      /\ \A v \in Writers : v # w => job'[v] = job[v]
  BY <1>1
<1>3. ASSUME NEW v \in Writers PROVE JobOk(v, job[v])'
  <2>1. JobOk(v, job'[v])
    BY <1>2 DEF JobInv
  <2> QED BY <2>1 DEF JobOk
<1>4. ASSUME NEW v \in Writers PROVE Moved(v)
  <2>1. CASE v # w
    BY <1>2, <2>1 DEF Moved, Steady, SameWork
  <2>2. CASE v = w
    BY <1>2, <2>2 DEF Moved, Fresh, TrustsFrom, Advances, SameWork
  <2> QED BY <2>1, <2>2
<1> QED BY <1>2, <1>3, <1>4 DEF JobsMove, JobInv

LEMMA JobsKept ==
  ASSUME TypeOK, JobInv, job' = job, on' = on, tip' \in Nat, tip' >= tip
  PROVE  JobsMove
BY DEF TypeOK, Job, JobInv, JobOk, JobsMove, Moved, Steady, SameWork

\* The job that is replaced, in an action of a writer.
LEMMA JobNow ==
  ASSUME TypeOK, JobInv, NEW w \in Writers
  PROVE  /\ job[w] \in Job /\ job[w].task \in TasksOf(w) /\ job[w].inbox \subseteq Item
         /\ job[w].todo \in Seq(Statement) /\ job[w].trusted \subseteq Factories
         /\ job[w].pool \in Pools \cup {NoPool} /\ job[w].linked \in BOOLEAN /\ job[w].to \in Nat
         /\ JobOk(w, job[w]) /\ Tied(job[w].todo, job[w].pool)
<1>1. job[w] \in Job
  BY DEF TypeOK
<1> QED BY <1>1 DEF JobInv, JobOk, Job

LEMMA LivePollJob ==
  ASSUME TypeOK, JobInv, NEW failed \in BOOLEAN, LivePoll(failed)
  PROVE  JobsMove
<1> DEFINE logs == Creations(cursor["live"] + 1, Reached(cursor["live"]))
           inbox == IF failed THEN {} ELSE logs
           to == Reached(cursor["live"])
           j == [Idle EXCEPT !.task = "creations", !.trusted = Trusted, !.inbox = inbox, !.to = to]
<1>1. job' = [job EXCEPT !["live"] = j] /\ on' = on /\ tip' = tip
  BY DEF LivePoll
<1>2. inbox \subseteq CreatedItems /\ inbox \subseteq Item
  BY LogItems
<1>3. to \in Nat /\ to <= tip
  BY RegistryAssumption DEF TypeOK, Reached, Scanners
<1>4. Trusted \subseteq Factories
  BY DEF Trusted
<1> HIDE DEF inbox, to
<1>5. /\ j \in Job /\ j.task = "creations" /\ j.inbox = inbox /\ j.todo = <<>> /\ j.trusted = Trusted
      /\ j.linked = FALSE /\ j.to = to
  BY <1>2, <1>3, <1>4, IdleJob DEF Job
<1> HIDE DEF j
<1>6. JobOk("live", j)
  BY <1>2, <1>3, <1>5, NoPlan DEF JobOk, TasksOf, Looking
<1> QED BY <1>1, <1>5, <1>6, NoPlan, JobSet DEF Writers, Scanners

LEMMA LiveSwapsJob ==
  ASSUME TypeOK, JobInv, NEW failed \in BOOLEAN, LiveSwaps(failed)
  PROVE  JobsMove
<1> DEFINE old == job["live"]
           inbox == IF failed THEN {} ELSE Swaps(cursor["live"] + 1, old.to)
           j == [old EXCEPT !.task = "swaps", !.trusted = Trusted, !.inbox = inbox]
<1>1. job' = [job EXCEPT !["live"] = j] /\ on' = on /\ tip' = tip /\ old.todo = <<>>
  BY DEF LiveSwaps
<1>2. inbox \subseteq Item
  BY LogItems
<1>3. Trusted \subseteq Factories
  BY DEF Trusted
<1>4. old \in Job
  BY JobNow DEF Writers, Scanners
<1> HIDE DEF inbox, old
<1>5. /\ j \in Job /\ j.task = "swaps" /\ j.inbox = inbox /\ j.todo = <<>> /\ j.trusted = Trusted
      /\ j.to = old.to
  BY <1>1, <1>2, <1>3, <1>4 DEF Job
<1>6. old.to <= tip
  BY JobNow DEF JobOk, Writers, Scanners, old
<1> HIDE DEF j
<1>7. JobOk("live", j)
  BY <1>5, <1>6, NoPlan DEF JobOk, TasksOf, Looking
<1> QED BY <1>1, <1>5, <1>7, NoPlan, JobSet DEF Writers, Scanners

\* A job is over.
LEMMA IdleSet ==
  ASSUME TypeOK, JobInv, NEW w \in Writers, job' = [job EXCEPT ![w] = Idle], on' = on /\ tip' = tip
  PROVE  JobsMove
BY IdleJob, JobSet DEF Trusting

LEMMA SeedsPlan ==
  /\ Seeds \in Seq(Statement)
  /\ \A i \in DOMAIN Seeds : /\ Seeds[i].table = "factory" /\ Seeds[i].status = "trusted"
  /\ \A p : Tied(Seeds, p)
  /\ ~Has(Seeds, "disable") /\ ~Has(Seeds, "pool")
<1> DEFINE s == SetToSeq(Defaults)  n == Cardinality(Defaults)
<1>1. n \in Nat /\ s \in [1..n -> Defaults] /\ Defaults \subseteq Factories
  BY SetToSeqFacts, RegistryAssumption
<1> HIDE DEF s, n
<1>2. Seeds = [i \in 1..n |-> Stmt("factory", s[i], "trusted")]
  BY <1>1 DEF Seeds, s
<1>3. \A f \in Factories : /\ Stmt("factory", f, "trusted") \in Statement
                           /\ Stmt("factory", f, "trusted").table = "factory"
                           /\ Stmt("factory", f, "trusted").status = "trusted"
  BY DEF Stmt, Statement
<1>4. DOMAIN Seeds = 1..n
  BY <1>2
<1>5. \A i \in 1..n : Seeds[i] \in Statement /\ Seeds[i].table = "factory" /\ Seeds[i].status = "trusted"
  BY <1>1, <1>2, <1>3
<1>6. Seeds \in Seq(Statement)
  BY <1>1, <1>2, <1>4, <1>5
<1> QED BY <1>4, <1>5, <1>6 DEF Tied, About, Has

LEMMA RestartJob ==
  ASSUME TypeOK, JobInv, Restart
  PROVE  JobsMove
<1> DEFINE j == [Idle EXCEPT !.task = "seed", !.todo = Seeds]
<1>1. /\ job' = [w \in Writers |-> CASE w = "live" -> j [] w = "collector" -> Idle [] OTHER -> job[w]]
      /\ on' = on /\ tip' = tip
  BY DEF Restart
<1>2. /\ j \in Job /\ j.task = "seed" /\ j.inbox = {} /\ j.todo = Seeds /\ j.to = 0
  BY SeedsPlan, IdleJob DEF Job
<1> HIDE DEF j
<1>3. JobOk("live", j) /\ Fresh(j)
  BY <1>2, SeedsPlan, RegistryAssumption DEF TypeOK, JobOk, TasksOf, Looking, Fresh, Marks
<1>4. /\ job'["live"] = j /\ job'["collector"] = Idle
      /\ \A w \in Writers \ Scanners : job'[w] = job[w]
      /\ job' \in [Writers -> Job]
  BY <1>1, <1>2, IdleJob DEF TypeOK, Writers, Scanners
<1>5. ASSUME NEW w \in Writers PROVE JobOk(w, job[w])' /\ Moved(w)
  <2>1. CASE w = "live"
    BY <1>1, <1>2, <1>3, <1>4, <2>1 DEF JobOk, Moved, Fresh, TrustsFrom, Trusting
  <2>2. CASE w = "collector"
    <3>1. JobOk("collector", Idle) /\ Fresh(Idle) /\ Idle.task = "idle"
      BY IdleJob DEF Writers, Scanners
    <3> QED BY <1>1, <1>4, <2>2, <3>1 DEF JobOk, Moved, Fresh, TrustsFrom, Trusting
  <2>3. CASE w \in Writers \ Scanners
    BY <1>1, <1>4, <2>3 DEF JobInv, JobOk, Moved, Steady, SameWork
  <2> QED BY <2>1, <2>2, <2>3 DEF Scanners
<1> QED BY <1>4, <1>5 DEF JobsMove, JobInv

LEMMA CollectorPollJob ==
  ASSUME TypeOK, JobInv, NEW ps \in SUBSET Pools, CollectorPoll(ps)
  PROVE  JobsMove
<1> DEFINE inbox == Items(ps, TopicOf)
           to == Reached(cursor["collector"])
           j == [Idle EXCEPT !.task = "swaps", !.trusted = Trusted, !.inbox = inbox, !.to = to]
<1>1. job' = [job EXCEPT !["collector"] = j] /\ on' = on /\ tip' = tip
  BY DEF CollectorPoll
<1>2. inbox \subseteq Item
  BY ItemsType, TopicOfType
<1>3. to \in Nat /\ to <= tip
  BY RegistryAssumption DEF TypeOK, Reached, Scanners
<1>4. Trusted \subseteq Factories
  BY DEF Trusted
<1> HIDE DEF inbox, to
<1>5. /\ j \in Job /\ j.task = "swaps" /\ j.inbox = inbox /\ j.todo = <<>> /\ j.trusted = Trusted
      /\ j.to = to
  BY <1>2, <1>3, <1>4, IdleJob DEF Job
<1> HIDE DEF j
<1>6. JobOk("collector", j)
  BY <1>3, <1>5, NoPlan DEF JobOk, TasksOf, Looking
<1> QED BY <1>1, <1>5, <1>6, NoPlan, JobSet DEF Writers, Scanners

\* The job after an item is taken.
LEMMA Taken ==
  ASSUME TypeOK, JobInv, NEW w \in Writers, NEW item \in job[w].inbox, NEW fault \in Failures,
         TakeItem(w, item, fault)
  PROVE  /\ item \in Item /\ job[w].task \in Looking /\ job[w].todo = <<>> /\ on' = on /\ tip' = tip
         /\ \E j \in Job :
              /\ job' = [job EXCEPT ![w] = j]
              /\ j.task = job[w].task /\ j.inbox = job[w].inbox \ {item} /\ j.trusted = job[w].trusted
              /\ j.pool = item.pool /\ j.linked = FALSE /\ j.to = job[w].to
              /\ \/ j.todo = <<>> /\ w = "live" /\ job[w].task = "swaps" /\ item.pool \in seen
                 \/ j.todo = Outcome(job[w].task, item, job[w].trusted, fault)
              /\ Fit(j.todo, item.pool)
<1> DEFINE old == job[w]
           again == w = "live" /\ old.task = "swaps" /\ item.pool \in seen
           todo == IF again THEN <<>> ELSE Outcome(old.task, item, old.trusted, fault)
           j == [old EXCEPT !.inbox = old.inbox \ {item}, !.pool = item.pool, !.linked = FALSE,
                            !.todo = todo]
<1>1. job' = [job EXCEPT ![w] = j] /\ old.todo = <<>> /\ on' = on /\ tip' = tip
  BY DEF TakeItem
<1>2. old \in Job /\ item \in Item /\ old.task \in Looking /\ old.trusted \in SUBSET Factories /\ item.pool \in Pools
  BY JobNow DEF JobOk, Item
<1>3. Fit(<<>>, item.pool) /\ Fit(Outcome(old.task, item, old.trusted, fault), item.pool)
  BY <1>2, OutcomeFit, Pieces
<1>4. Fit(todo, item.pool) /\ todo \in Seq(Statement)
  BY <1>3 DEF Fit
<1>5. \/ todo = <<>> /\ w = "live" /\ old.task = "swaps" /\ item.pool \in seen
      \/ todo = Outcome(old.task, item, old.trusted, fault)
  OBVIOUS
<1> HIDE DEF old, todo
<1>6. /\ j \in Job /\ j.task = old.task /\ j.inbox = old.inbox \ {item} /\ j.trusted = old.trusted
      /\ j.pool = item.pool /\ j.linked = FALSE /\ j.to = old.to /\ j.todo = todo
  BY <1>2, <1>4 DEF Job
<1> HIDE DEF j
<1> QED BY <1>1, <1>2, <1>4, <1>5, <1>6 DEF old

LEMMA TakeItemJob ==
  ASSUME TypeOK, JobInv, NEW w \in Writers, NEW item \in job[w].inbox, NEW fault \in Failures,
         TakeItem(w, item, fault)
  PROVE  JobsMove
<1>1. PICK j \in Job :
        /\ job' = [job EXCEPT ![w] = j]
        /\ j.task = job[w].task /\ j.inbox = job[w].inbox \ {item} /\ j.trusted = job[w].trusted
        /\ j.pool = item.pool /\ j.linked = FALSE /\ j.to = job[w].to
        /\ \/ j.todo = <<>> /\ w = "live" /\ job[w].task = "swaps" /\ item.pool \in seen
           \/ j.todo = Outcome(job[w].task, item, job[w].trusted, fault)
        /\ Fit(j.todo, item.pool)
  BY Taken
<1>2. job[w].task \in Looking /\ on' = on /\ tip' = tip
  BY Taken
<1>3. JobOk(w, job[w])
  BY JobNow
<1>4. JobOk(w, j)
  BY <1>1, <1>2, <1>3 DEF JobOk, Fit
<1>5. Takes(w)
  BY DEF Takes
<1> QED BY <1>1, <1>2, <1>4, <1>5, JobSet

\* What is left of a plan.
LEMMA Tails ==
  ASSUME NEW todo \in Seq(Statement), todo # <<>>, NEW p
  PROVE  /\ Tail(todo) \in Seq(Statement) /\ Head(todo) \in Statement /\ Head(todo) = todo[1] /\ 1 \in DOMAIN todo
         /\ Tied(todo, p) => Tied(Tail(todo), p) /\ About(Head(todo), p)
         /\ \A table : Has(Tail(todo), table) => Has(todo, table)
         /\ Distrusts(Tail(todo)) \subseteq Distrusts(todo)
         /\ Tied(todo, p) /\ Head(todo).table = "disable" => Tail(todo) = <<>>
         /\ Tied(todo, p) /\ Head(todo).table # "disable" => ~Has(Tail(todo), "disable")
<1> DEFINE u == Tail(todo)
<1>1. /\ u \in Seq(Statement) /\ Head(todo) = todo[1] /\ 1 \in DOMAIN todo /\ Head(todo) \in Statement
      /\ Len(u) = Len(todo) - 1 /\ Len(todo) \in Nat
      /\ \A i \in DOMAIN u : i + 1 \in DOMAIN todo /\ u[i] = todo[i + 1] /\ i \in Nat /\ i >= 1
  BY Rest
<1>2. DOMAIN u = 1..Len(u) /\ DOMAIN todo = 1..Len(todo)
  BY <1>1
<1> HIDE DEF u
<1>3. Len(u) = 0 => u = <<>>
  BY <1>1
<1>4. ASSUME Tied(todo, p) PROVE Tied(u, p) /\ About(Head(todo), p)
  <2>1. ASSUME NEW i \in DOMAIN u PROVE About(u[i], p) /\ u[i].table # "disable"
    BY <1>1, <1>2, <1>4, <2>1 DEF Tied
  <2> QED BY <1>1, <1>4, <2>1 DEF Tied
<1>5. \A table : Has(u, table) => Has(todo, table)
  BY <1>1 DEF Has
<1>6. Distrusts(u) \subseteq Distrusts(todo)
  BY <1>1 DEF Distrusts
<1>7. Tied(todo, p) /\ Head(todo).table = "disable" => u = <<>>
  BY <1>1, <1>3 DEF Tied
<1>8. Tied(todo, p) /\ Head(todo).table # "disable" => ~Has(u, "disable")
  BY <1>1, <1>2 DEF Tied, Has
<1> QED BY <1>1, <1>4, <1>5, <1>6, <1>7, <1>8 DEF u

\* A statement is done: the steps of Write and DisablePools.
LEMMA DoneJob ==
  ASSUME TypeOK, JobInv, NEW w \in Writers, NEW linked \in BOOLEAN, job[w].todo # <<>>,
         Write(w) \/ (w = "admin" /\ DisablePools),
         job' = [Done(w) EXCEPT ![w].linked = linked], on' = on /\ tip' = tip,
         linked => job[w].linked \/ Head(job[w].todo).table = "pair"
  PROVE  JobsMove
<1> DEFINE old == job[w]
           j == [old EXCEPT !.todo = Tail(old.todo), !.linked = linked]
<1>1. /\ old \in Job /\ old.todo \in Seq(Statement) /\ Tied(old.todo, old.pool) /\ JobOk(w, old)
      /\ job \in [Writers -> Job]
  BY JobNow DEF TypeOK
<1>2. job' = [job EXCEPT ![w] = j]
  BY <1>1 DEF Done, Job
<1>3. /\ Tail(old.todo) \in Seq(Statement) /\ Tied(Tail(old.todo), old.pool)
      /\ \A table : Has(Tail(old.todo), table) => Has(old.todo, table)
  BY <1>1, Tails
<1> HIDE DEF old
<1>4. /\ j \in Job /\ j.task = old.task /\ j.inbox = old.inbox /\ j.trusted = old.trusted
      /\ j.pool = old.pool /\ j.to = old.to /\ j.todo = Tail(old.todo) /\ j.linked = linked
  BY <1>1, <1>3 DEF Job
<1> HIDE DEF j
<1>5. JobOk(w, j)
  BY <1>1, <1>3, <1>4 DEF JobOk
<1> QED BY <1>2, <1>4, <1>5, JobSet DEF old

LEMMA WriteJob ==
  ASSUME TypeOK, JobInv, NEW w \in Writers, Write(w) \/ (w = "admin" /\ DisablePools)
  PROVE  JobsMove
<1>1. job[w] \in Job /\ job[w].linked \in BOOLEAN /\ job \in [Writers -> Job]
  BY JobNow DEF TypeOK
<1>2. CASE WritePair(w)
  <2>1. job' = [Done(w) EXCEPT ![w].linked = TRUE] /\ on' = on /\ tip' = tip /\ At(w, "pair")
    BY <1>2 DEF WritePair, Frame
  <2> QED BY <2>1, DoneJob DEF At
<1>3. ASSUME job' = Done(w), on' = on /\ tip' = tip, job[w].todo # <<>> PROVE JobsMove
  <2>1. job' = [Done(w) EXCEPT ![w].linked = job[w].linked]
    BY <1>1, <1>3 DEF Done, Job
  <2> QED BY <1>1, <1>3, <2>1, DoneJob
<1>4. CASE WritePool(w) \/ WriteObserved(w) \/ WriteFactory(w) \/ WriteRedis(w)
  BY <1>3, <1>4 DEF WritePool, WriteObserved, WriteFactory, WriteRedis, Frame, At
<1>5. CASE w = "admin" /\ DisablePools
  BY <1>3, <1>5 DEF DisablePools, Frame, At
<1> QED BY <1>2, <1>4, <1>5 DEF Write

LEMMA StatementFailsJob ==
  ASSUME TypeOK, JobInv, NEW w \in Writers, StatementFails(w)
  PROVE  JobsMove
<1> DEFINE old == job[w]
<1>1. job' = [job EXCEPT ![w] = AfterError(w)] /\ on' = on /\ tip' = tip
  BY DEF StatementFails
<1>2. old \in Job /\ JobOk(w, old)
  BY JobNow
<1>3. CASE old.task \in {"import", "import_page", "rediscover"}
  <2>1. AfterError(w) = Idle
    BY <1>3 DEF AfterError
  <2> QED BY <1>1, <2>1, IdleSet
<1>4. ASSUME NEW todo \in {<<>>, Seeds}, AfterError(w) = [old EXCEPT !.todo = todo]
      PROVE  JobsMove
  <2> DEFINE j == [old EXCEPT !.todo = todo]
  <2>1. /\ todo \in Seq(Statement) /\ Tied(todo, old.pool) /\ ~Has(todo, "disable")
    BY SeedsPlan, NoPlan
  <2>2. \A i \in DOMAIN todo : ~Marks(todo[i]) /\ todo[i].status # "untrusted" /\ todo[i].table # "pool"
    BY SeedsPlan DEF Marks
  <2> HIDE DEF old
  <2>3. /\ j \in Job /\ j.task = old.task /\ j.inbox = old.inbox /\ j.trusted = old.trusted
        /\ j.pool = old.pool /\ j.to = old.to /\ j.todo = todo
    BY <1>2, <2>1 DEF Job
  <2>4. job' = [job EXCEPT ![w] = j]
    BY <1>1, <1>4 DEF old
  <2> HIDE DEF j
  <2>5. JobOk(w, j)
    BY <1>2, <2>1, <2>3 DEF JobOk
  <2>6. Fresh(j)
    BY <2>2, <2>3 DEF Fresh
  <2> QED BY <1>1, <2>3, <2>4, <2>5, <2>6, JobSet DEF old
<1> QED BY <1>3, <1>4 DEF AfterError

LEMMA BatchType ==
  ASSUME TypeOK, NEW task \in {"classify", "backfill_factory", "backfill_swap", "import"},
         NEW ps \in SUBSET Pools
  PROVE  BatchItems(task, ps) \subseteq Item
<1>1. CASE task = "classify"
  <2> DEFINE topics == [p \in Pools |-> observed[p].topic]
             some == {p \in Pools : observed[p].status \in {"observed_only", "unresolved"}}
  <2>1. topics \in [Pools -> Topics \cup {"none"}]
    BY DEF TypeOK, Observation
  <2>2. some \in SUBSET Pools
    OBVIOUS
  <2>3. BatchItems(task, ps) = Items(some, topics)
    BY <1>1 DEF BatchItems
  <2> HIDE DEF topics, some
  <2> QED BY <2>1, <2>2, <2>3, ItemsType
<1>2. CASE task = "backfill_factory"
  <2>1. BatchItems(task, ps) = {item \in Creations(1, tip) : FactoryOf[item.pool] \in Trusted}
    BY <1>2 DEF BatchItems
  <2> QED BY <2>1, LogItems
<1>3. CASE task = "backfill_swap"
  <2>1. BatchItems(task, ps) = Items(PoolsIn(Swaps(1, tip)), TopicOf)
    BY <1>3 DEF BatchItems
  <2>2. PoolsIn(Swaps(1, tip)) \in SUBSET Pools
    BY LogItems
  <2> QED BY <2>1, <2>2, ItemsType, TopicOfType
<1>4. CASE task = "import"
  <2>1. BatchItems(task, ps) = Items(ps, TopicOf)
    BY <1>4 DEF BatchItems
  <2> QED BY <2>1, ItemsType, TopicOfType
<1> QED BY <1>1, <1>2, <1>3, <1>4

LEMMA RunBatchJob ==
  ASSUME TypeOK, JobInv, NEW task \in {"classify", "backfill_factory", "backfill_swap", "import"},
         NEW ps \in SUBSET Pools, RunBatch(task, ps)
  PROVE  JobsMove
<1> DEFINE inbox == BatchItems(task, ps)
           todo == IF task = "backfill_factory" THEN Seeds ELSE <<>>
           j == [Idle EXCEPT !.task = task, !.inbox = inbox, !.trusted = Trusted, !.todo = todo]
<1>1. job' = [job EXCEPT !["batch"] = j] /\ on' = on /\ tip' = tip /\ "batch" \in on
  BY DEF RunBatch
<1>2. inbox \subseteq Item /\ Trusted \subseteq Factories
  BY BatchType DEF Trusted
<1>3. /\ todo \in Seq(Statement) /\ \A p : Tied(todo, p)
      /\ ~Has(todo, "disable")
      /\ \A i \in DOMAIN todo : ~Marks(todo[i]) /\ todo[i].status # "untrusted" /\ todo[i].table # "pool"
  BY SeedsPlan, NoPlan DEF Marks
<1> HIDE DEF inbox, todo
<1>4. /\ j \in Job /\ j.task = task /\ j.inbox = inbox /\ j.todo = todo /\ j.trusted = Trusted
  BY <1>2, <1>3, IdleJob DEF Job
<1> HIDE DEF j
<1>5. JobOk("batch", j)
  BY <1>1, <1>3, <1>4 DEF JobOk, TasksOf, Looking, Scanners
<1>6. Fresh(j)
  BY <1>3, <1>4 DEF Fresh
<1> QED BY <1>1, <1>4, <1>5, <1>6, JobSet DEF Writers

LEMMA ImportObservedJob ==
  ASSUME TypeOK, JobInv, NEW ps \in SUBSET Pools, ImportObserved(ps)
  PROVE  JobsMove
<1> DEFINE inbox == Items(ps, TopicOf)
           j == [Idle EXCEPT !.task = "import_page", !.inbox = inbox]
<1>1. /\ job' = [job EXCEPT !["admin"] = j] /\ on' = on /\ tip' = tip
      /\ \A p \in ps : p \in Pools /\ TopicOf[p] # "aero"
  BY DEF ImportObserved, Request
<1>2. inbox \subseteq Item /\ \A item \in inbox : item.pool \in ps /\ item.topic = TopicOf[item.pool]
  BY ItemsType, TopicOfType
<1> HIDE DEF inbox
<1>3. /\ j \in Job /\ j.task = "import_page" /\ j.inbox = inbox /\ j.todo = <<>>
  BY <1>2, IdleJob DEF Job
<1> HIDE DEF j
<1>4. \A item \in inbox : item.topic \in {"v2", "v3"}
  BY <1>1, <1>2, RegistryAssumption
<1>5. JobOk("admin", j)
  BY <1>2, <1>3, <1>4, NoPlan DEF JobOk, TasksOf, Looking, Scanners
<1> QED BY <1>1, <1>3, <1>5, NoPlan, JobSet DEF Writers, Trusting

LEMMA ProbedPools ==
  ASSUME NEW a \in Pairs, NEW answered \in SUBSET Pools
  PROVE  Found(a, answered) \in Seq({p \in Pools : PairOf[p] = a})
<1> DEFINE S == {p \in Pools : PairOf[p] = a}
           c == ProbedClassic(a, answered)  v == ProbedV3(a, answered)
<1>1. c \subseteq S /\ v \subseteq S
  BY DEF ProbedClassic, ProbedV3, Probed
<1>2. IsFiniteSet(c) /\ IsFiniteSet(v)
  BY <1>1, FS_Subset, RegistryAssumption
<1> HIDE DEF c, v
<1>3. SetToSeq(c) \in Seq(c) /\ SetToSeq(v) \in Seq(v)
  BY <1>2, SetToSeqFacts
<1> HIDE DEF S
<1>4. SetToSeq(c) \in Seq(S) /\ SetToSeq(v) \in Seq(S)
  BY <1>1, <1>3
<1> QED BY <1>4, Join DEF Found, c, v, S

LEMMA RediscoverJob ==
  ASSUME TypeOK, JobInv, NEW a \in Pairs, NEW answered \in SUBSET Pools, Rediscover(a, answered)
  PROVE  JobsMove
<1> DEFINE found == Found(a, answered)
           first == Stmt("pair", a, "enabled")
           rest == [i \in DOMAIN found |-> Stmt("pool", found[i], "enabled")]
           todo == <<first>> \o rest
           j == [Idle EXCEPT !.task = "rediscover", !.pool = Head(found), !.todo = todo]
<1>1. job' = [job EXCEPT !["admin"] = j] /\ on' = on /\ tip' = tip /\ found # <<>>
  BY DEF Rediscover, Request
<1>2. /\ Head(found) \in Pools /\ PairOf[Head(found)] = a
      /\ DOMAIN found = 1..Len(found) /\ Len(found) \in Nat
      /\ \A i \in DOMAIN found : found[i] \in Pools /\ PairOf[found[i]] = a
  <2>1. found \in Seq({p \in Pools : PairOf[p] = a})
    BY ProbedPools
  <2> HIDE DEF found
  <2> QED BY <1>1, <2>1
<1>3. \A p \in Pools : /\ Stmt("pool", p, "enabled") \in Statement
                       /\ Stmt("pool", p, "enabled").table = "pool"
                       /\ Stmt("pool", p, "enabled").key = p
                       /\ Stmt("pool", p, "enabled").status = "enabled"
  BY DEF Stmt, Statement
<1>4. first \in Statement /\ first.table = "pair" /\ first.key = a /\ first.status = "enabled"
  BY DEF Stmt, Statement
<1> HIDE DEF found, first
<1>5. /\ rest \in Seq(Statement)
      /\ \A i \in DOMAIN rest : /\ rest[i].table = "pool" /\ rest[i].status = "enabled"
                                /\ PairOf[rest[i].key] = a
  BY <1>2, <1>3
<1> HIDE DEF rest
<1>6. <<first>> \in Seq(Statement) /\ Len(<<first>>) = 1 /\ DOMAIN <<first>> = {1} /\ <<first>>[1] = first
  BY <1>4
<1>7. /\ todo \in Seq(Statement)
      /\ \A i \in DOMAIN todo : todo[i] = first \/ \E k \in DOMAIN rest : todo[i] = rest[k]
  BY <1>5, <1>6, Join
<1> HIDE DEF todo
<1>8. \A i \in DOMAIN todo : /\ todo[i].table \in {"pair", "pool"} /\ todo[i].status = "enabled"
                             /\ About(todo[i], Head(found))
  BY <1>2, <1>4, <1>5, <1>7 DEF About
<1>9. Tied(todo, Head(found)) /\ ~Has(todo, "disable")
  BY <1>8 DEF Tied, Has
<1>10. /\ j \in Job /\ j.task = "rediscover" /\ j.inbox = {} /\ j.todo = todo /\ j.pool = Head(found)
       /\ j.linked = FALSE
  BY <1>2, <1>7, IdleJob DEF Job
<1> HIDE DEF j
<1>11. JobOk("admin", j)
  BY <1>9, <1>10 DEF JobOk, TasksOf, Looking, Scanners
<1>12. Fresh(j)
  BY <1>8, <1>10 DEF Fresh, Marks
<1> QED BY <1>1, <1>10, <1>11, <1>12, JobSet DEF Writers, Trusting

LEMMA DisablePairJob ==
  ASSUME TypeOK, JobInv, NEW a \in Pairs, DisablePair(a)
  PROVE  JobsMove
<1> DEFINE s == Stmt("disable", a, "disabled")
           j == [Idle EXCEPT !.task = "disable", !.todo = <<s>>]
<1>1. job' = [job EXCEPT !["admin"] = j] /\ on' = on /\ tip' = tip
  BY DEF DisablePair, Request
<1>2. s \in Statement /\ s.table = "disable" /\ s.key = a /\ s.status = "disabled"
  BY DEF Stmt, Statement
<1> HIDE DEF s
<1>3. <<s>> \in Seq(Statement) /\ Len(<<s>>) = 1 /\ DOMAIN <<s>> = {1} /\ <<s>>[1] = s
  BY <1>2
<1>4. /\ j \in Job /\ j.task = "disable" /\ j.inbox = {} /\ j.todo = <<s>> /\ j.linked = FALSE
  BY <1>3, IdleJob DEF Job
<1> HIDE DEF j
<1>5. Tied(<<s>>, j.pool)
  BY <1>2, <1>3 DEF Tied, About
<1>6. JobOk("admin", j)
  BY <1>4, <1>5 DEF JobOk, TasksOf, Looking, Scanners
<1>7. Fresh(j)
  BY <1>2, <1>3, <1>4 DEF Fresh, Marks
<1> QED BY <1>1, <1>4, <1>6, <1>7, JobSet DEF Writers, Trusting

LEMMA RemovePairJob ==
  ASSUME TypeOK, JobInv, NEW a \in Pairs, RemovePair(a)
  PROVE  /\ JobsMove
         /\ \A w \in Writers : job[w].pool' \in Pools /\ PairOf[job[w].pool'] = a => ~job[w].linked'
<1>1. /\ job' = [w \in Writers |->
                   IF job[w].pool \in Pools /\ PairOf[job[w].pool] = a
                   THEN [job[w] EXCEPT !.linked = FALSE] ELSE job[w]]
      /\ on' = on /\ tip' = tip
  BY DEF RemovePair
<1>2. ASSUME NEW w \in Writers
      PROVE  /\ job'[w] \in Job /\ Steady(w) /\ JobOk(w, job[w])'
             /\ job[w].pool' \in Pools /\ PairOf[job[w].pool'] = a => ~job[w].linked'
  <2> DEFINE old == job[w]  j == [old EXCEPT !.linked = FALSE]
  <2>1. old \in Job /\ JobOk(w, old)
    BY JobNow
  <2>2. /\ j \in Job /\ j.task = old.task /\ j.inbox = old.inbox /\ j.trusted = old.trusted
        /\ j.pool = old.pool /\ j.to = old.to /\ j.todo = old.todo /\ j.linked = FALSE
    <3> HIDE DEF old
    <3> QED BY <2>1 DEF Job
  <2>3. CASE old.pool \in Pools /\ PairOf[old.pool] = a
    <3>1. job'[w] = j
      BY <1>1, <2>3
    <3> HIDE DEF j
    <3> QED BY <1>1, <2>1, <2>2, <3>1 DEF Steady, SameWork, JobOk
  <2>4. CASE ~(old.pool \in Pools /\ PairOf[old.pool] = a)
    <3>1. job'[w] = old
      BY <1>1, <2>4
    <3> QED BY <1>1, <2>1, <2>4, <3>1 DEF Steady, SameWork, JobOk
  <2> QED BY <2>3, <2>4
<1> QED BY <1>1, <1>2 DEF JobsMove, JobInv, Moved

LEMMA JobStep ==
  ASSUME TypeOK, JobInv, [Next]_vars
  PROVE  JobsMove
<1> USE DEF Writers, Scanners
<1>0. tip \in Nat
  BY RegistryAssumption DEF TypeOK
<1>1. CASE NewBlock
  BY <1>0, <1>1, JobsKept DEF NewBlock
<1>2. CASE Live
  <2>1. CASE \E failed \in BOOLEAN : LivePoll(failed) \/ LiveSwaps(failed)
    BY <2>1, LivePollJob, LiveSwapsJob
  <2>2. CASE LiveScanned
    BY <2>2, IdleSet DEF LiveScanned
  <2>3. CASE Seeded
    BY <2>3, IdleSet DEF Seeded
  <2> QED BY <1>2, <2>1, <2>2, <2>3 DEF Live
<1>3. CASE Collector
  <2>1. CASE \E ps \in SUBSET Pools : CollectorPoll(ps)
    BY <2>1, CollectorPollJob
  <2>2. CASE \E failed \in BOOLEAN : CollectorScanned(failed)
    BY <2>2, IdleSet DEF CollectorScanned
  <2> QED BY <1>3, <2>1, <2>2 DEF Collector
<1>4. CASE Operator
  <2>1. CASE \E f \in Factories, status \in {"trusted", "untrusted", "off"} : UpdateFactory(f, status)
    BY <1>0, <2>1, JobsKept DEF UpdateFactory
  <2> QED BY <1>4, <2>1, ImportObservedJob, RediscoverJob, DisablePairJob, RemovePairJob DEF Operator
<1>5. CASE Tools
  BY <1>5, RunBatchJob DEF Tools
<1>6. CASE DisablePools
  BY <1>6, WriteJob
<1>7. CASE Restart
  BY <1>7, RestartJob
<1>8. CASE Reload \/ \E failed \in SUBSET Pools : MarketStart(failed)
  BY <1>0, <1>8, JobsKept DEF Reload, ReloadRead, ReloadApply, MarketStart
<1>9. ASSUME NEW w \in Writers,
             \/ \E item \in job[w].inbox, fault \in Failures : TakeItem(w, item, fault)
             \/ Write(w) \/ StatementFails(w)
      PROVE  JobsMove
  <2> USE DEF Writers
  <2> QED BY <1>9, TakeItemJob, WriteJob, StatementFailsJob
<1>10. CASE UNCHANGED vars
  BY <1>0, <1>10, JobsKept DEF vars
<1> QED
  BY <1>1, <1>2, <1>3, <1>4, <1>5, <1>6, <1>7, <1>8, <1>9, <1>10 DEF Next

------------------------------------------------------------------------------
(* Types *)

LEMMA HeadType ==
  ASSUME TypeOK, JobInv, NEW w \in Writers, job[w].todo # <<>>
  PROVE  /\ Head(job[w].todo) \in Statement /\ About(Head(job[w].todo), job[w].pool)
         /\ Head(job[w].todo).table \in {"pair", "disable"} => Head(job[w].todo).key \in Pairs
         /\ Head(job[w].todo).table \in {"pool", "observed", "redis"} => Head(job[w].todo).key \in Pools
         /\ Head(job[w].todo).table = "factory" =>
              Head(job[w].todo).key \in Factories /\ Head(job[w].todo).status \in {"trusted", "untrusted"}
         /\ Head(job[w].todo).table = "observed" =>
              [status |-> Head(job[w].todo).status, topic |-> Head(job[w].todo).topic] \in Observation
<1>1. job[w].todo \in Seq(Statement) /\ Tied(job[w].todo, job[w].pool)
  BY JobNow
<1>2. Head(job[w].todo) \in Statement /\ About(Head(job[w].todo), job[w].pool)
  BY <1>1, Tails
<1> QED BY <1>2 DEF Statement, Observation

\* The variables but the jobs.
RestOK ==
  /\ on \in Scenarios /\ tip \in 0..Len(LogsAt)
  /\ factories \in [Factories -> {"none", "trusted", "untrusted", "off"}]
  /\ pairs \in [Pairs -> {"none", "enabled", "disabled"}]
  /\ pools \in [Pools -> {"none", "enabled", "disabled"}]
  /\ observed \in [Pools -> Observation]
  /\ cursor \in [Scanners -> 0..tip] /\ since \in 0..tip
  /\ published \cup monitored \cup reload \cup seen \cup missed \cup withdrawn \subseteq Pools
  /\ raced \subseteq Pairs /\ meddled \in BOOLEAN
  /\ faults \in 0..Faults /\ restarts \in 0..Restarts[on] /\ jobs \in 0..Jobs[on]

LEMMA Counters ==
  ASSUME TypeOK
  PROVE  /\ tip \in Nat /\ faults \in Nat /\ restarts \in Nat /\ jobs \in Nat /\ Len(LogsAt) \in Nat
         /\ Faults \in Nat /\ Restarts[on] \in Nat /\ Jobs[on] \in Nat /\ Lookback \in Nat
         /\ cursor["live"] \in 0..tip /\ cursor["collector"] \in 0..tip
         /\ \A failed \in BOOLEAN : Fault(failed) => faults' \in 0..Faults /\ faults' <= faults
                                                     /\ (failed => faults' < faults /\ faults' < Faults)
                                                     /\ (~failed => faults' = faults)
BY RegistryAssumption DEF TypeOK, Scanners, Fault

LEMMA TypeStep ==
  ASSUME TypeOK, JobInv, [Next]_vars
  PROVE  TypeOK'
<1> USE DEF dbVars, scanVars, marketVars, noteVars
<1>0. job' \in [Writers -> Job]
  BY JobStep DEF JobsMove
<1>a. RestOK /\ RegistryAssumption
  BY RegistryAssumption DEF RestOK, TypeOK, RegistryAssumption
<1>b. SUFFICES RestOK'
  BY <1>0 DEF RestOK, TypeOK
<1>1. CASE NewBlock
  BY <1>1, <1>a, Counters DEF NewBlock, RestOK
<1>2. ASSUME NEW failed \in BOOLEAN, LivePoll(failed) \/ LiveSwaps(failed) PROVE RestOK'
  <2>1. /\ UNCHANGED <<on, tip, dbVars, scanVars, marketVars, restarts, jobs, withdrawn, raced, meddled>>
        /\ Fault(failed) /\ missed' \subseteq Pools
    BY <1>2, <1>a, LogItems DEF LivePoll, LiveSwaps, RestOK
  <2> QED BY <1>a, <2>1, Counters DEF RestOK
<1>3. CASE LiveScanned
  <2>1. job["live"].to \in 0..tip
    BY JobNow, Counters DEF JobOk, Writers, Scanners
  <2> QED BY <1>3, <1>a, <2>1 DEF LiveScanned, RestOK
<1>4. CASE Seeded
  <2>1. tip \in 0..tip
    BY Counters
  <2>2. cursor' \in [Scanners -> 0..tip] /\ since' \in 0..tip
    BY <1>4, <1>a, <2>1 DEF Seeded, RestOK
  <2> QED BY <1>4, <1>a, <2>2 DEF Seeded, RestOK
<1>5. ASSUME NEW ps \in SUBSET Pools, CollectorPoll(ps) PROVE RestOK'
  BY <1>5, <1>a DEF CollectorPoll, RestOK
<1>6. ASSUME NEW failed \in BOOLEAN, CollectorScanned(failed) PROVE RestOK'
  <2>1. job["collector"].to \in 0..tip
    BY SMTT(20), JobNow, Counters DEF JobOk, Writers, Scanners
  <2>2. Fault(failed)
    BY <1>6 DEF CollectorScanned
  <2> QED BY <1>6, <1>a, <2>1, <2>2, Counters DEF CollectorScanned, RestOK
<1>7. CASE Restart
  <2>1. (IF tip > Lookback THEN tip - Lookback ELSE 0) \in 0..tip
    BY Counters
  <2>2. cursor' \in [Scanners -> 0..tip]
    BY <1>7, <1>a, <2>1 DEF Restart, RestOK
  <2>3. restarts' \in 0..Restarts[on]
    BY SMTT(20), <1>7, <1>a, Counters DEF Restart, RestOK
  <2> QED BY <1>7, <1>a, <2>2, <2>3 DEF Restart, RestOK
<1>8. CASE Operator
  <2>1. ASSUME Asks PROVE jobs' \in 0..Jobs[on]
    BY <2>1, <1>a, Counters DEF Asks, RestOK
  <2>2. ASSUME NEW ps \in SUBSET Pools, ImportObserved(ps) PROVE RestOK'
    BY <2>1, <2>2, <1>a DEF ImportObserved, RestOK
  <2>3. ASSUME NEW a \in Pairs, NEW answered \in SUBSET Pools, Rediscover(a, answered) PROVE RestOK'
    BY <2>1, <2>3, <1>a DEF Rediscover, RestOK
  <2>4. ASSUME NEW f \in Factories, NEW status \in {"trusted", "untrusted", "off"}, UpdateFactory(f, status)
        PROVE  RestOK'
    BY <2>1, <2>4, <1>a DEF UpdateFactory, RestOK
  <2>5. ASSUME NEW a \in Pairs, DisablePair(a) PROVE RestOK'
    BY <2>1, <2>5, <1>a DEF DisablePair, RestOK
  <2>6. ASSUME NEW a \in Pairs, RemovePair(a) PROVE RestOK'
    <3>1. PoolsOf(a) \subseteq Pools
      BY DEF PoolsOf
    <3> QED BY <2>1, <2>6, <1>a, <3>1 DEF RemovePair, RestOK
  <2> QED BY <1>8, <2>2, <2>3, <2>4, <2>5, <2>6 DEF Operator
<1>9. CASE Tools
  <2>1. PICK task \in {"classify", "backfill_factory", "backfill_swap", "import"}, ps \in SUBSET Pools : RunBatch(task, ps)
    BY <1>9 DEF Tools
  <2>2. jobs' \in 0..Jobs[on]
    BY <2>1, <1>a, Counters DEF RunBatch, RestOK
  <2> QED BY <2>1, <2>2, <1>a DEF RunBatch, RestOK
<1>10. CASE DisablePools
  <2>1. PoolsOf(Head(job["admin"].todo).key) \subseteq Pools
    BY DEF PoolsOf
  <2> QED BY <1>10, <1>a, <2>1 DEF DisablePools, Frame, RestOK
<1>11. CASE Reload
  BY <1>11, <1>a, Counters DEF Reload, ReloadRead, ReloadApply, Enabled, RestOK
<1>12. ASSUME NEW failed \in SUBSET Pools, MarketStart(failed) PROVE RestOK'
  <2>1. Fault(failed # {}) /\ restarts' \in 0..Restarts[on]
    BY <1>12, <1>a, Counters DEF MarketStart, RestOK
  <2>2. (IF Enabled = {} THEN Bootstrapped ELSE Enabled \ failed) \subseteq Pools
    BY RegistryAssumption DEF Bootstrapped, Enabled
  <2> QED BY <1>12, <1>a, <2>1, <2>2, Counters DEF MarketStart, RestOK
<1>13. ASSUME NEW w \in Writers, NEW item \in job[w].inbox, NEW fault \in Failures, TakeItem(w, item, fault)
       PROVE  RestOK'
  <2>1. item.pool \in Pools /\ Fault(fault # "none")
    BY <1>13, JobNow DEF TakeItem, Item
  <2> QED BY ZenonT(40), <1>13, <1>a, <2>1, Counters DEF TakeItem, RestOK
<1>14. ASSUME NEW w \in Writers, Write(w) PROVE RestOK'
  <2> DEFINE s == Head(job[w].todo)
  <2>1. job[w].todo # <<>>
    BY <1>14 DEF Write, WritePair, WritePool, WriteObserved, WriteFactory, WriteRedis, At
  <2>2. /\ s.table = "pair" => s.key \in Pairs
        /\ s.table \in {"pool", "observed", "redis"} => s.key \in Pools
        /\ s.table = "factory" => s.key \in Factories /\ s.status \in {"trusted", "untrusted"}
        /\ s.table = "observed" => [status |-> s.status, topic |-> s.topic] \in Observation
    BY <2>1, HeadType
  <2>3. CASE WritePair(w)
    BY <2>2, <2>3, <1>a DEF WritePair, At, Frame, RestOK
  <2>4. CASE WritePool(w)
    BY <2>2, <2>4, <1>a DEF WritePool, At, Frame, RestOK
  <2>5. CASE WriteObserved(w)
    BY <2>2, <2>5, <1>a DEF WriteObserved, At, Frame, RestOK
  <2>6. CASE WriteFactory(w)
    BY <2>2, <2>6, <1>a DEF WriteFactory, At, Frame, RestOK
  <2>7. CASE WriteRedis(w)
    BY <2>2, <2>7, <1>a DEF WriteRedis, At, Frame, RestOK
  <2> QED BY <1>14, <2>3, <2>4, <2>5, <2>6, <2>7 DEF Write
<1>15. ASSUME NEW w \in Writers, StatementFails(w) PROVE RestOK'
  <2>1. job[w].todo # <<>> /\ Fault(~(Head(job[w].todo).table = "pool" /\ ~job[w].linked))
    BY <1>15 DEF StatementFails
  <2>2. Head(job[w].todo).table = "disable" => Head(job[w].todo).key \in Pairs
    BY <2>1, HeadType
  <2> QED BY <1>15, <1>a, <2>1, <2>2, Counters DEF StatementFails, RestOK
<1>16. CASE UNCHANGED vars
  BY <1>16, <1>a DEF vars, RestOK
<1> QED BY <1>1, <1>2, <1>3, <1>4, <1>5, <1>6, <1>7, <1>8, <1>9, <1>10, <1>11, <1>12, <1>13, <1>14, <1>15,
           <1>16 DEF Next, Live, Collector

------------------------------------------------------------------------------
(* What is imported is in the registry *)

\* The steps that change the rows of pairs and pools, and the notes about them.
LEMMA RowSteps ==
  ASSUME [Next]_vars
  PROVE  \/ UNCHANGED <<pairs, pools, observed, withdrawn, raced>>
         \/ \E w \in Writers : WritePair(w) \/ WritePool(w) \/ WriteObserved(w) \/ StatementFails(w)
         \/ \E a \in Pairs : DisablePair(a) \/ RemovePair(a)
         \/ DisablePools
<1> USE DEF dbVars, noteVars
<1>1. CASE NewBlock \/ Restart \/ Tools \/ UNCHANGED vars
  BY <1>1 DEF NewBlock, Restart, Tools, RunBatch, vars
<1>2. CASE Live
  BY <1>2 DEF Live, LivePoll, LiveSwaps, LiveScanned, Seeded
<1>3. CASE Collector
  BY <1>3 DEF Collector, CollectorPoll, CollectorScanned
<1>4. CASE Operator
  BY <1>4 DEF Operator, ImportObserved, Rediscover, UpdateFactory
<1>5. CASE Reload \/ \E failed \in SUBSET Pools : MarketStart(failed)
  BY <1>5 DEF Reload, ReloadRead, ReloadApply, MarketStart
<1>6. CASE \E w \in Writers : \E item \in job[w].inbox, fault \in Failures : TakeItem(w, item, fault)
  BY <1>6 DEF TakeItem
<1>7. CASE \E w \in Writers : Write(w)
  BY <1>7 DEF Write, WriteFactory, WriteRedis
<1> QED BY <1>1, <1>2, <1>3, <1>4, <1>5, <1>6, <1>7 DEF Next

LEMMA ListedKept ==
  ASSUME TypeOK, JobInv, [Next]_vars, NEW p \in Pools, Listed(p)
  PROVE  Listed(p)'
<1> USE DEF dbVars, noteVars
<1>0. pools \in [Pools -> {"none", "enabled", "disabled"}]
  BY DEF TypeOK
<1>1. CASE UNCHANGED <<pairs, pools, observed, withdrawn, raced>>
  BY <1>1 DEF Listed
<1>2. ASSUME NEW w \in Writers, WritePair(w) \/ WriteObserved(w) \/ StatementFails(w) PROVE Listed(p)'
  BY <1>2 DEF WritePair, WriteObserved, StatementFails, Listed
<1>3. ASSUME NEW w \in Writers, WritePool(w) PROVE Listed(p)'
  BY <1>0, <1>3 DEF WritePool, Listed
<1>4. ASSUME NEW a \in Pairs, DisablePair(a) PROVE Listed(p)'
  BY <1>4 DEF DisablePair, Listed
<1>5. ASSUME NEW a \in Pairs, RemovePair(a) PROVE Listed(p)'
  BY <1>0, <1>5 DEF RemovePair, PoolsOf, Listed
<1>6. CASE DisablePools
  BY <1>0, <1>6 DEF DisablePools, PoolsOf, Listed
<1> QED BY <1>1, <1>2, <1>3, <1>4, <1>5, <1>6, RowSteps

\* Listed in the next state, of a pool named in this one.
ListedNext(p) == pools'[p] = "enabled" \/ p \in withdrawn'

LEMMA MarkStep ==
  ASSUME TypeOK, JobInv, MarkInv, [Next]_vars
  PROVE  MarkInv'
<1>0. /\ job' \in [Writers -> Job] /\ \A w \in Writers : Moved(w)
  BY JobStep DEF JobsMove
<1>1. SUFFICES ASSUME NEW w \in Writers PROVE MarkOk(job[w].todo)'
  BY DEF MarkInv
<1> DEFINE todo == job[w].todo
<1>2. todo \in Seq(Statement) /\ MarkOk(todo)
  BY JobNow DEF MarkInv
<1>3. \A i \in DOMAIN todo : Marks(todo[i]) => todo[i].key \in Pools
  BY <1>2 DEF Marks, Statement
<1>4. \A p \in Pools : Listed(p) => ListedNext(p)
  BY ListedKept DEF Listed, ListedNext
<1> HIDE DEF todo
<1>5. CASE Fresh(job[w])'
  BY <1>5 DEF Fresh, MarkOk
<1>6. CASE Steady(w)
  <2>1. job[w].todo' = todo
    BY <1>6 DEF Steady, todo
  <2> QED BY <1>2, <1>3, <1>4, <2>1 DEF MarkOk, Listed, ListedNext
<1>7. CASE Advances(w)
  <2> DEFINE u == Tail(todo)
  <2>1. todo # <<>> /\ job[w].todo' = u
    BY <1>7 DEF Advances, todo
  <2>2. /\ u \in Seq(Statement) /\ Head(todo) = todo[1]
        /\ \A i \in DOMAIN u : i + 1 \in DOMAIN todo /\ u[i] = todo[i + 1] /\ i \in Nat /\ i >= 1
        /\ \A i \in DOMAIN todo : i = 1 \/ (i - 1 \in DOMAIN u /\ u[i - 1] = todo[i])
    BY <1>2, <2>1, Rest
  <2> HIDE DEF u
  <2>3. Head(todo).table = "pool" => ListedNext(Head(todo).key)
    <3>1. Head(todo).table = "pool" => WritePool(w)
      BY <1>7 DEF Advances, Write, WritePair, WriteObserved, WriteFactory, WriteRedis, DisablePools, At, todo
    <3>2. Head(todo).table = "pool" => Head(todo).key \in Pools
      BY <2>1, HeadType DEF todo
    <3> QED BY <3>1, <3>2 DEF WritePool, ListedNext, TypeOK, todo
  <2>4. ASSUME NEW i \in DOMAIN u, Marks(u[i])
        PROVE  Registers(u, i, u[i].key) \/ ListedNext(u[i].key)
    <3>1. i + 1 \in DOMAIN todo /\ u[i] = todo[i + 1] /\ i \in Nat /\ i >= 1
      BY <2>2
    <3>2. CASE Listed(todo[i + 1].key)
      BY <1>3, <1>4, <2>4, <3>1, <3>2
    <3>3. CASE Registers(todo, i + 1, todo[i + 1].key)
      <4>1. PICK k \in DOMAIN todo : k < i + 1 /\ todo[k].table = "pool" /\ todo[k].key = u[i].key
        BY <3>1, <3>3 DEF Registers
      <4>2. CASE k = 1
        BY <2>2, <2>3, <4>1, <4>2
      <4>3. CASE k # 1
        <5>1. k - 1 \in DOMAIN u /\ u[k - 1] = todo[k] /\ k \in Nat
          BY <1>2, <2>2, <4>3
        <5>2. k - 1 < i
          BY <3>1, <4>1, <5>1
        <5> QED BY <4>1, <5>1, <5>2 DEF Registers
      <4> QED BY <4>2, <4>3
    <3> QED BY <1>2, <2>4, <3>1, <3>2, <3>3 DEF MarkOk
  <2> QED BY <2>1, <2>4 DEF MarkOk, Listed, ListedNext
<1>8. CASE Takes(w)
  <2>1. PICK item \in job[w].inbox, fault \in Failures : TakeItem(w, item, fault)
    BY <1>8 DEF Takes
  <2>2. PICK j \in Job :
          /\ job' = [job EXCEPT ![w] = j]
          /\ j.task = job[w].task /\ j.inbox = job[w].inbox \ {item} /\ j.trusted = job[w].trusted
          /\ j.pool = item.pool /\ j.linked = FALSE /\ j.to = job[w].to
          /\ \/ j.todo = <<>> /\ w = "live" /\ job[w].task = "swaps" /\ item.pool \in seen
             \/ j.todo = Outcome(job[w].task, item, job[w].trusted, fault)
          /\ Fit(j.todo, item.pool)
    BY <2>1, Taken
  <2>3. job'[w] = j
    BY <2>2 DEF TypeOK
  <2> QED BY <2>2, <2>3 DEF Fit, MarkOk
<1> QED BY <1>0, <1>5, <1>6, <1>7, <1>8 DEF Moved

LEMMA ImportedStep ==
  ASSUME TypeOK, JobInv, MarkInv, ImportedInRegistry, [Next]_vars
  PROVE  ImportedInRegistry'
<1> USE DEF dbVars, noteVars
<1>0. observed \in [Pools -> Observation]
  BY DEF TypeOK
<1>1. SUFFICES ASSUME NEW p \in Pools, (observed[p].status = "imported")' PROVE Listed(p)'
  BY DEF ImportedInRegistry, Listed
<1>2. CASE observed'[p] = observed[p]
  BY <1>1, <1>2, ListedKept DEF ImportedInRegistry, Listed
<1>3. CASE observed'[p] # observed[p]
  <2>1. PICK w \in Writers : WriteObserved(w)
    BY <1>3, RowSteps DEF WritePair, WritePool, StatementFails, DisablePair, RemovePair, DisablePools
  <2> DEFINE s == Head(job[w].todo)
  <2>2. At(w, "observed") /\ observed' = [observed EXCEPT ![s.key] = [status |-> s.status, topic |-> s.topic]]
    BY <2>1 DEF WriteObserved
  <2>3. s.key = p /\ s.status = "imported" /\ s.table = "observed"
    BY <1>0, <1>1, <1>3, <2>2 DEF At
  <2>4. job[w].todo \in Seq(Statement) /\ s = job[w].todo[1] /\ 1 \in DOMAIN job[w].todo
    BY <2>2, JobNow, Tails DEF At
  <2>5. ~Registers(job[w].todo, 1, s.key)
    BY <2>4 DEF Registers
  <2>6. Listed(p)
    BY <2>3, <2>4, <2>5 DEF MarkInv, MarkOk, Marks
  <2> QED BY <2>6, ListedKept
<1> QED BY <1>2, <1>3

------------------------------------------------------------------------------
(* What is enabled belongs to a pair that is searched *)

SearchedNext(a) == pairs'[a] = "enabled" \/ a \in raced'

LEMMA SearchedKept ==
  ASSUME TypeOK, JobInv, [Next]_vars, NEW a \in Pairs, Searched(a), ~DisablePair(a), ~RemovePair(a)
  PROVE  SearchedNext(a)
<1> USE DEF dbVars, noteVars
<1>0. pairs \in [Pairs -> {"none", "enabled", "disabled"}]
  BY DEF TypeOK
<1>1. CASE UNCHANGED <<pairs, pools, observed, withdrawn, raced>>
  BY <1>1 DEF Searched, SearchedNext
<1>2. ASSUME NEW w \in Writers, WritePair(w) PROVE SearchedNext(a)
  BY <1>0, <1>2 DEF WritePair, Searched, SearchedNext
<1>3. ASSUME NEW w \in Writers, WritePool(w) \/ WriteObserved(w) \/ StatementFails(w) PROVE SearchedNext(a)
  BY <1>3 DEF WritePool, WriteObserved, StatementFails, Searched, SearchedNext
<1>4. ASSUME NEW b \in Pairs, DisablePair(b) \/ RemovePair(b) PROVE SearchedNext(a)
  BY ZenonT(40), <1>0, <1>4 DEF DisablePair, RemovePair, Searched, SearchedNext
<1>5. CASE DisablePools
  BY <1>5 DEF DisablePools, Searched, SearchedNext
<1> QED BY <1>1, <1>2, <1>3, <1>4, <1>5, RowSteps

\* Who is between the pair and the pools has the id of the pair.
LEMMA HasPool ==
  ASSUME TypeOK, JobInv, NEW w \in Writers, Has(job[w].todo, "pool")
  PROVE  job[w].pool \in Pools /\ PairOf[job[w].pool] \in Pairs
<1>1. Tied(job[w].todo, job[w].pool)
  BY JobNow
<1>2. job[w].pool \in Pools
  BY <1>1 DEF Tied, About, Has
<1> QED BY <1>2, RegistryAssumption

\* The links of the jobs, when no pair is disabled or removed.
LEMMA LinkStep ==
  ASSUME TypeOK, JobInv, PairInv, [Next]_vars, NEW w \in Writers,
         \A a \in Pairs : ~DisablePair(a) /\ ~RemovePair(a)
  PROVE  LinkOk(job[w])'
<1>0. job' \in [Writers -> Job] /\ Moved(w)
  BY JobStep DEF JobsMove
<1>1. \A a \in Pairs : Searched(a) => SearchedNext(a)
  BY SearchedKept
<1>2. job[w].todo \in Seq(Statement) /\ LinkOk(job[w])
  BY JobNow DEF PairInv
<1>3. CASE Fresh(job[w])'
  BY <1>3 DEF Fresh, LinkOk, Has
<1>4. CASE Steady(w)
  <2>1. ASSUME job'[w].linked, Has(job[w].todo, "pool") PROVE SearchedNext(PairOf[job[w].pool])
    BY <1>1, <1>2, <1>4, <2>1, HasPool DEF Steady, LinkOk
  <2> QED BY <1>4, <2>1 DEF Steady, SameWork, LinkOk, Searched, SearchedNext
<1>5. CASE Advances(w)
  <2>1. job[w].todo # <<>> /\ job'[w].todo = Tail(job[w].todo) /\ job'[w].pool = job[w].pool
    BY <1>5 DEF Advances, SameWork
  <2>2. Has(job'[w].todo, "pool") => Has(job[w].todo, "pool")
    BY <1>2, <2>1, Tails
  <2>3. ASSUME job'[w].linked, Has(job[w].todo, "pool") PROVE SearchedNext(PairOf[job[w].pool])
    <3>1. CASE job[w].linked
      BY <1>1, <1>2, <2>3, <3>1, HasPool DEF LinkOk
    <3>2. CASE Head(job[w].todo).table = "pair"
      <4>1. WritePair(w)
        BY <1>5, <3>2 DEF Advances, Write, WritePool, WriteObserved, WriteFactory, WriteRedis, DisablePools, At
      <4>2. Head(job[w].todo).key = PairOf[job[w].pool] /\ PairOf[job[w].pool] \in Pairs
        BY <2>1, <2>3, <3>2, HeadType, HasPool DEF About
      <4> QED BY <4>1, <4>2 DEF WritePair, SearchedNext, TypeOK
    <3> QED BY <1>5, <2>3, <3>1, <3>2 DEF Advances
  <2> QED BY <2>1, <2>2, <2>3 DEF LinkOk, Searched, SearchedNext
<1>6. CASE Takes(w)
  <2>1. PICK item \in job[w].inbox, fault \in Failures : TakeItem(w, item, fault)
    BY <1>6 DEF Takes
  <2>2. \E j \in Job : job' = [job EXCEPT ![w] = j] /\ j.linked = FALSE
    BY <2>1, Taken
  <2>3. job'[w].linked = FALSE
    BY <2>2 DEF TypeOK
  <2> QED BY <2>3 DEF LinkOk
<1> QED BY <1>0, <1>3, <1>4, <1>5, <1>6 DEF Moved

\* The second statement of disable_token_pair waits until it is made or it fails.
LEMMA DisableWaits ==
  ASSUME TypeOK, JobInv, [Next]_vars, At("admin", "disable"), ~DisablePools, ~StatementFails("admin")
  PROVE  job["admin"].todo' = job["admin"].todo /\ \A a \in Pairs : ~DisablePair(a) /\ ~RemovePair(a)
<1> USE DEF Writers, Scanners
<1>0. job["admin"].todo # <<>> /\ Head(job["admin"].todo).table = "disable" /\ job \in [Writers -> Job]
  BY DEF At, TypeOK
<1>1. ~Asks
  BY <1>0 DEF Asks
<1>2. ~Operator
  BY <1>1 DEF Operator, ImportObserved, Rediscover, UpdateFactory, DisablePair, RemovePair
<1>3. \A a \in Pairs : ~DisablePair(a) /\ ~RemovePair(a)
  BY <1>1 DEF DisablePair, RemovePair
<1>4. CASE NewBlock \/ Reload \/ (\E failed \in SUBSET Pools : MarketStart(failed)) \/ UNCHANGED vars
  BY <1>3, <1>4 DEF NewBlock, Reload, ReloadRead, ReloadApply, MarketStart, vars
<1>5. CASE Live \/ Collector \/ Tools
  <2>1. \E w \in {"live", "collector", "batch"} : \E j : job' = [job EXCEPT ![w] = j]
    BY <1>5 DEF Live, LivePoll, LiveSwaps, LiveScanned, Seeded, Collector, CollectorPoll, CollectorScanned,
       Tools, RunBatch
  <2>2. job'["admin"] = job["admin"]
    BY <1>0, <2>1
  <2> QED BY <1>3, <2>2
<1>6. CASE Restart
  BY <1>0, <1>3, <1>6 DEF Restart
<1>7. ASSUME NEW w \in Writers,
             \/ \E item \in job[w].inbox, fault \in Failures : TakeItem(w, item, fault)
             \/ Write(w) \/ StatementFails(w)
      PROVE  job["admin"].todo' = job["admin"].todo
  <2>1. CASE w = "admin"
    BY <1>0, <1>7, <2>1 DEF TakeItem, Write, WritePair, WritePool, WriteObserved, WriteFactory, WriteRedis, At
  <2>2. CASE w # "admin"
    <3>1. CASE Write(w)
      BY <1>0, <2>2, <3>1 DEF Write, WritePair, WritePool, WriteObserved, WriteFactory, WriteRedis, Done
    <3>2. CASE StatementFails(w)
      BY <1>0, <2>2, <3>2 DEF StatementFails
    <3>3. CASE \E item \in job[w].inbox, fault \in Failures : TakeItem(w, item, fault)
      BY <1>0, <2>2, <3>3 DEF TakeItem
    <3> QED BY <1>7, <3>1, <3>2, <3>3
  <2> QED BY <2>1, <2>2
<1> QED BY <1>2, <1>3, <1>4, <1>5, <1>6, <1>7 DEF Next

\* An enabled pool's pair is searched, and will be.
LEMMA PoolPairStep ==
  ASSUME TypeOK, JobInv, PairInv, [Next]_vars, NEW p \in Pools, (pools[p] = "enabled")',
         \A a \in Pairs : ~DisablePair(a) /\ ~RemovePair(a)
  PROVE  PairOk(p)'
<1> DEFINE a == PairOf[p]
<1>0. a \in Pairs /\ pools \in [Pools -> {"none", "enabled", "disabled"}]
  BY RegistryAssumption DEF TypeOK
<1>1. SearchedNext(a) => PairOk(p)'
  BY DEF SearchedNext, PairOk, Searched
<1>2. Searched(a) => SearchedNext(a)
  BY <1>0, SearchedKept
<1>3. CASE pools[p] # "enabled"
  <2>1. PICK w \in Writers : WritePool(w)
    BY <1>0, <1>3, RowSteps
       DEF WritePair, WriteObserved, StatementFails, DisablePools, dbVars
  <2>2. /\ At(w, "pool") /\ job[w].linked /\ Head(job[w].todo).key = p
    BY <1>0, <1>3, <2>1 DEF WritePool
  <2>3. About(Head(job[w].todo), job[w].pool) /\ Has(job[w].todo, "pool")
    <3>1. job[w].todo \in Seq(Statement) /\ job[w].todo # <<>>
      BY <2>2, JobNow DEF At
    <3>2. Head(job[w].todo) = job[w].todo[1] /\ 1 \in DOMAIN job[w].todo
      BY <3>1, Tails
    <3> QED BY <2>2, <3>1, <3>2, HeadType DEF At, Has
  <2>4. Searched(a)
    BY <2>2, <2>3 DEF PairInv, LinkOk, About, At
  <2> QED BY <1>1, <1>2, <2>4
<1>4. CASE pools[p] = "enabled" /\ Searched(a)
  BY <1>1, <1>2, <1>4
<1>5. CASE pools[p] = "enabled" /\ ~Searched(a)
  <2>1. At("admin", "disable") /\ Head(job["admin"].todo).key = a
    BY <1>5 DEF PairInv, Enabled, PairOk
  <2>2. CASE DisablePools
    BY <1>0, <1>5, <2>1, <2>2 DEF DisablePools, PoolsOf
  <2>3. CASE StatementFails("admin")
    BY <1>1, <2>1, <2>3 DEF StatementFails, At, SearchedNext
  <2>4. CASE ~DisablePools /\ ~StatementFails("admin")
    <3>1. job["admin"].todo' = job["admin"].todo
      BY <2>1, <2>4, DisableWaits
    <3> QED BY <2>1, <3>1 DEF At, PairOk
  <2> QED BY <2>2, <2>3, <2>4
<1> QED BY <1>3, <1>4, <1>5

LEMMA PairStep ==
  ASSUME TypeOK, JobInv, PairInv, [Next]_vars
  PROVE  PairInv'
<1>0. /\ pools \in [Pools -> {"none", "enabled", "disabled"}]
      /\ pairs \in [Pairs -> {"none", "enabled", "disabled"}] /\ job \in [Writers -> Job]
  BY DEF TypeOK
<1>1. CASE \A a \in Pairs : ~DisablePair(a) /\ ~RemovePair(a)
  BY <1>1, LinkStep, PoolPairStep DEF PairInv, Enabled
<1>2. ASSUME NEW a \in Pairs, DisablePair(a) PROVE PairInv'
  <2>0. ~At("admin", "disable") /\ pools' = pools
    BY <1>2 DEF DisablePair, Asks, At
  <2> DEFINE s == Stmt("disable", a, "disabled")
             j == [Idle EXCEPT !.task = "disable", !.todo = <<s>>]
  <2>1. /\ job' = [job EXCEPT !["admin"] = j]
        /\ pairs' = [pairs EXCEPT ![a] = "disabled"]
        /\ raced' = raced \cup (IF Between(a) THEN {a} ELSE {})
    BY <1>2 DEF DisablePair, Request
  <2>2. s.table = "disable" /\ s.key = a
    BY DEF Stmt
  <2> HIDE DEF s
  <2>3. j.linked = FALSE /\ j.todo = <<s>>
    BY DEF Idle
  <2> HIDE DEF j
  <2>4. job'["admin"] = j /\ \A w \in Writers : w # "admin" => job'[w] = job[w]
    BY <1>0, <2>1 DEF Writers
  <2>5. \A b \in Pairs : b # a /\ Searched(b) => SearchedNext(b)
    BY <1>0, <2>1 DEF Searched, SearchedNext
  <2>6. ASSUME NEW w \in Writers PROVE LinkOk(job[w])'
    <3>1. CASE w = "admin"
      BY <2>3, <2>4, <3>1 DEF LinkOk
    <3>2. CASE w # "admin"
      <4>1. ASSUME job[w].linked, Has(job[w].todo, "pool") PROVE SearchedNext(PairOf[job[w].pool])
        <5>1. job[w].pool \in Pools /\ PairOf[job[w].pool] \in Pairs /\ Searched(PairOf[job[w].pool])
          BY <4>1, HasPool DEF PairInv, LinkOk
        <5>2. CASE PairOf[job[w].pool] = a
          <6>1. Between(a)
            BY <4>1, <5>1, <5>2 DEF Between, Has
          <6> QED BY <2>1, <5>2, <6>1 DEF SearchedNext
        <5> QED BY <2>5, <5>1, <5>2
      <4> QED BY <2>4, <3>2, <4>1 DEF LinkOk, Searched, SearchedNext
    <3> QED BY <3>1, <3>2
  <2>7. ASSUME NEW p \in Pools, pools[p] = "enabled" PROVE PairOk(p)'
    <3>1. PairOf[p] \in Pairs /\ Searched(PairOf[p])
      BY <2>0, <2>7, RegistryAssumption DEF PairInv, PairOk, Enabled
    <3>2. CASE PairOf[p] = a
      <4>1. job'["admin"].todo = <<s>> /\ <<s>> # <<>> /\ Head(<<s>>) = s
        BY <2>3, <2>4
      <4> QED BY <2>2, <3>2, <4>1 DEF PairOk, At
    <3>3. CASE PairOf[p] # a
      BY <2>5, <3>1, <3>3 DEF PairOk, Searched, SearchedNext
    <3> QED BY <3>2, <3>3
  <2> QED BY <2>0, <2>6, <2>7 DEF PairInv, Enabled
<1>3. ASSUME NEW a \in Pairs, RemovePair(a) PROVE PairInv'
  <2>1. /\ pairs' = [pairs EXCEPT ![a] = "none"] /\ raced' = raced
        /\ pools' = [p \in Pools |-> IF PairOf[p] = a THEN "none" ELSE pools[p]]
        /\ ~At("admin", "disable")
    BY <1>3 DEF RemovePair, Asks, At
  <2>2. ASSUME NEW w \in Writers
        PROVE  /\ job'[w].todo = job[w].todo /\ job'[w].pool = job[w].pool
               /\ job'[w].linked => job[w].linked /\ ~(job[w].pool \in Pools /\ PairOf[job[w].pool] = a)
    <3>1. job'[w] = IF job[w].pool \in Pools /\ PairOf[job[w].pool] = a
                    THEN [job[w] EXCEPT !.linked = FALSE] ELSE job[w]
      BY <1>3 DEF RemovePair
    <3> QED BY <1>0, <3>1 DEF Job
  <2>3. \A b \in Pairs : b # a /\ Searched(b) => SearchedNext(b)
    BY <1>0, <2>1 DEF Searched, SearchedNext
  <2>4. ASSUME NEW w \in Writers PROVE LinkOk(job[w])'
    <3>1. ASSUME job'[w].linked, Has(job[w].todo, "pool") PROVE SearchedNext(PairOf[job[w].pool])
      <4>1. job[w].pool \in Pools /\ PairOf[job[w].pool] \in Pairs
        BY <3>1, HasPool
      <4> QED BY <2>2, <2>3, <3>1, <4>1 DEF PairInv, LinkOk
    <3> QED BY <2>2, <3>1 DEF LinkOk, Searched, SearchedNext
  <2>5. ASSUME NEW p \in Pools, pools'[p] = "enabled" PROVE PairOk(p)'
    <3>1. PairOf[p] # a /\ pools[p] = "enabled" /\ PairOf[p] \in Pairs
      BY <2>1, <2>5, RegistryAssumption
    <3>2. Searched(PairOf[p])
      BY <2>1, <3>1 DEF PairInv, PairOk, Enabled
    <3> QED BY <2>3, <3>1, <3>2 DEF PairOk, Searched, SearchedNext
  <2> QED BY <2>4, <2>5 DEF PairInv, Enabled
<1> QED BY <1>1, <1>2, <1>3

------------------------------------------------------------------------------
(* What is scanned is not skipped *)

LEMMA Ranges ==
  /\ \A a, b, c \in Nat : a <= b /\ b <= c =>
       /\ Swapped(a + 1, c) \subseteq Swapped(a + 1, b) \cup Swapped(b + 1, c)
       /\ Created(a + 1, c) \subseteq Created(a + 1, b) \cup Created(b + 1, c)
  /\ \A a \in Nat : Swapped(a + 1, a) = {} /\ Created(a + 1, a) = {}
  /\ \A a, b : Swapped(a, b) \subseteq Pools /\ Created(a, b) \subseteq Pools
<1>1. ASSUME NEW a \in Nat, NEW b \in Nat, NEW c \in Nat, a <= b, b <= c
      PROVE  \A k \in ((a + 1)..c) \cap Blocks : k \in ((a + 1)..b) \cap Blocks \/ k \in ((b + 1)..c) \cap Blocks
  BY <1>1
<1>2. ASSUME NEW a \in Nat, NEW b \in Nat, NEW c \in Nat, a <= b, b <= c
      PROVE  /\ Swaps(a + 1, c) \subseteq Swaps(a + 1, b) \cup Swaps(b + 1, c)
             /\ Creations(a + 1, c) \subseteq Creations(a + 1, b) \cup Creations(b + 1, c)
  <2>1. Swaps(a + 1, c) \subseteq Swaps(a + 1, b) \cup Swaps(b + 1, c)
    BY <1>1, <1>2, Zenon DEF Swaps
  <2>2. Creations(a + 1, c) \subseteq Creations(a + 1, b) \cup Creations(b + 1, c)
    BY <1>1, <1>2, Zenon DEF Creations
  <2> QED BY <2>1, <2>2
<1>3. ASSUME NEW S, NEW T, NEW U, S \subseteq T \cup U PROVE PoolsIn(S) \subseteq PoolsIn(T) \cup PoolsIn(U)
  BY <1>3 DEF PoolsIn
<1>4. \A a, b, c \in Nat : a <= b /\ b <= c =>
       /\ Swapped(a + 1, c) \subseteq Swapped(a + 1, b) \cup Swapped(b + 1, c)
       /\ Created(a + 1, c) \subseteq Created(a + 1, b) \cup Created(b + 1, c)
  BY <1>2, <1>3 DEF Swapped, Created
<1>5. ASSUME NEW a \in Nat PROVE Swapped(a + 1, a) = {} /\ Created(a + 1, a) = {}
  <2>1. (a + 1)..a = {}
    OBVIOUS
  <2>2. Swaps(a + 1, a) = {} /\ Creations(a + 1, a) = {}
    BY <2>1 DEF Swaps, Creations
  <2>3. PoolsIn({}) = {}
    BY DEF PoolsIn
  <2> QED BY <2>2, <2>3 DEF Swapped, Created
<1>6. \A a, b : Swapped(a, b) \subseteq Pools /\ Created(a, b) \subseteq Pools
  BY LogItems DEF Swapped, Created
<1> QED BY <1>4, <1>5, <1>6

SettledNext(p) == p \in missed' \/ observed'[p] # Unseen

LEMMA SettledKept ==
  ASSUME TypeOK, JobInv, [Next]_vars, NEW p \in Pools, Settled(p)
  PROVE  SettledNext(p)
<1> USE DEF dbVars, noteVars
<1>0. observed \in [Pools -> Observation]
  BY DEF TypeOK
<1>1. missed \subseteq missed'
  <2>1. CASE NewBlock \/ Restart \/ Tools \/ Reload \/ (\E failed \in SUBSET Pools : MarketStart(failed)) \/ UNCHANGED vars
    BY <2>1 DEF NewBlock, Restart, Tools, RunBatch, Reload, ReloadRead, ReloadApply, MarketStart, vars
  <2>2. CASE Live \/ Collector
    BY <2>2 DEF Live, LivePoll, LiveSwaps, LiveScanned, Seeded, Collector, CollectorPoll, CollectorScanned
  <2>3. CASE Operator \/ DisablePools
    BY <2>3 DEF Operator, ImportObserved, Rediscover, UpdateFactory, DisablePair, RemovePair, DisablePools
  <2>4. CASE \E w \in Writers : \/ \E item \in job[w].inbox, fault \in Failures : TakeItem(w, item, fault)
                                \/ Write(w) \/ StatementFails(w)
    BY ZenonT(40), <2>4 DEF TakeItem, Write, WritePair, WritePool, WriteObserved, WriteFactory, WriteRedis, StatementFails
  <2> QED BY <2>1, <2>2, <2>3, <2>4 DEF Next
<1>2. CASE observed' = observed
  BY <1>1, <1>2 DEF Settled, SettledNext
<1>3. CASE observed' # observed
  <2>1. PICK w \in Writers : WriteObserved(w)
    BY <1>3, RowSteps DEF WritePair, WritePool, StatementFails, DisablePair, RemovePair, DisablePools
  <2> DEFINE s == Head(job[w].todo)  row == [status |-> s.status, topic |-> s.topic]
  <2>2. At(w, "observed") /\ observed' = [observed EXCEPT ![s.key] = row]
    BY <2>1 DEF WriteObserved
  <2>3. row # Unseen
    <3>1. s \in Statement /\ s.table = "observed"
      BY <2>2, HeadType DEF At
    <3>2. s.status # "none"
      BY <3>1 DEF Statement
    <3>3. row.status = s.status /\ Unseen.status = "none"
      BY DEF Unseen
    <3> QED BY <3>2, <3>3
  <2> HIDE DEF row
  <2>4. observed'[p] = observed[p] \/ observed'[p] = row
    BY <1>0, <2>2
  <2> QED BY <1>1, <2>3, <2>4 DEF Settled, SettledNext
<1> QED BY <1>2, <1>3

\* The steps of the scan.
LiveStill ==
  /\ job'["live"].task = job["live"].task /\ job'["live"].inbox = job["live"].inbox
  /\ job'["live"].todo = job["live"].todo /\ job'["live"].to = job["live"].to
  /\ cursor'["live"] = cursor["live"] /\ since' = since /\ seen' = seen

LEMMA LiveSteps ==
  ASSUME TypeOK, JobInv, [Next]_vars
  PROVE  \/ LiveStill \/ Live \/ Restart
         \/ \E item \in job["live"].inbox, fault \in Failures : TakeItem("live", item, fault)
         \/ Write("live") \/ StatementFails("live")
<1> USE DEF scanVars, Writers, Scanners
<1>0. job \in [Writers -> Job] /\ DOMAIN cursor = Scanners
  BY DEF TypeOK
<1>1. CASE NewBlock \/ Reload \/ (\E failed \in SUBSET Pools : MarketStart(failed)) \/ UNCHANGED vars
  BY <1>1 DEF NewBlock, Reload, ReloadRead, ReloadApply, MarketStart, vars, LiveStill
<1>2. ASSUME NEW w \in Writers, w # "live", NEW j, job' = [job EXCEPT ![w] = j],
             cursor'["live"] = cursor["live"], UNCHANGED <<since, seen>>
      PROVE  LiveStill
  BY <1>0, <1>2 DEF LiveStill
<1>3. CASE Collector
  <2>1. /\ \E j : job' = [job EXCEPT !["collector"] = j]
        /\ cursor'["live"] = cursor["live"] /\ UNCHANGED <<since, seen>>
    BY <1>0, <1>3 DEF Collector, CollectorPoll, CollectorScanned
  <2> QED BY <1>2, <2>1
<1>4. CASE Tools
  <2>1. (\E j : job' = [job EXCEPT !["batch"] = j]) /\ UNCHANGED scanVars
    BY <1>4 DEF Tools, RunBatch
  <2> QED BY <1>2, <2>1
<1>5. ASSUME NEW a \in Pairs, RemovePair(a) PROVE LiveStill
  <2>1. UNCHANGED scanVars
    BY <1>5 DEF RemovePair
  <2>2. job'["live"] = job["live"] \/ job'["live"] = [job["live"] EXCEPT !.linked = FALSE]
    BY <1>5 DEF RemovePair
  <2> QED BY <1>0, <2>1, <2>2 DEF LiveStill, Job
<1>6. CASE Operator
  <2>1. CASE \E f \in Factories, status \in {"trusted", "untrusted", "off"} : UpdateFactory(f, status)
    BY <2>1 DEF UpdateFactory, LiveStill
  <2>2. CASE \/ \E ps \in SUBSET Pools : ImportObserved(ps)
             \/ \E a \in Pairs, answered \in SUBSET Pools : Rediscover(a, answered)
             \/ \E a \in Pairs : DisablePair(a)
    <3>1. (\E j : job' = [job EXCEPT !["admin"] = j]) /\ UNCHANGED scanVars
      BY <2>2 DEF ImportObserved, Rediscover, DisablePair, Request
    <3> QED BY <1>2, <3>1
  <2> QED BY <1>5, <1>6, <2>1, <2>2 DEF Operator
<1>7. CASE DisablePools
  <2>1. (\E j : job' = [job EXCEPT !["admin"] = j]) /\ UNCHANGED scanVars
    <3>1. job' = [job EXCEPT !["admin"] = [job["admin"] EXCEPT !.todo = Tail(job["admin"].todo)]]
      BY <1>0, <1>7 DEF DisablePools, Done
    <3> QED BY <1>7, <3>1 DEF DisablePools, Frame
  <2> QED BY <1>2, <2>1
<1>8. ASSUME NEW w \in Writers, w # "live",
             \/ \E item \in job[w].inbox, fault \in Failures : TakeItem(w, item, fault)
             \/ Write(w) \/ StatementFails(w)
      PROVE  LiveStill
  <2>1. CASE \E item \in job[w].inbox, fault \in Failures : TakeItem(w, item, fault)
    <3>1. (\E j : job' = [job EXCEPT ![w] = j]) /\ UNCHANGED <<cursor, since, seen>>
      BY <1>8, <2>1 DEF TakeItem
    <3> QED BY <1>2, <1>8, <3>1
  <2>2. CASE StatementFails(w)
    <3>1. (\E j : job' = [job EXCEPT ![w] = j]) /\ UNCHANGED <<cursor, since, seen>>
      BY <2>2 DEF StatementFails
    <3> QED BY <1>2, <1>8, <3>1
  <2>3. CASE Write(w)
    <3>1. job'["live"] = job["live"]
      BY <1>0, <1>8, <2>3 DEF Write, WritePair, WritePool, WriteObserved, WriteFactory, WriteRedis, Done
    <3>2. UNCHANGED <<cursor, since, seen>>
      BY <2>3 DEF Write, WritePair, WritePool, WriteObserved, WriteFactory, WriteRedis, Frame
    <3> QED BY <3>1, <3>2 DEF LiveStill
  <2> QED BY <1>8, <2>1, <2>2, <2>3
<1> QED BY <1>1, <1>3, <1>4, <1>6, <1>7, <1>8 DEF Next

\* The invariant of the next state, of pools named in this one.
AwaitedNext(p) == Observes(job'["live"].todo, p)
InHandNext(p) == SettledNext(p) \/ p \in PoolsIn(job'["live"].inbox) \/ AwaitedNext(p)

SkipNext ==
  /\ since' <= cursor'["live"]
  /\ job'["live"].task \in {"creations", "swaps"} => cursor'["live"] <= job'["live"].to
  /\ \A p \in Swapped(since' + 1, cursor'["live"]) \cup Created(since' + 1, cursor'["live"]) : SettledNext(p)
  /\ job'["live"].task = "creations" =>
       \A p \in Created(cursor'["live"] + 1, job'["live"].to) : InHandNext(p)
  /\ job'["live"].task = "swaps" =>
       /\ \A p \in Created(cursor'["live"] + 1, job'["live"].to) : SettledNext(p)
       /\ \A p \in Swapped(cursor'["live"] + 1, job'["live"].to) : InHandNext(p)
  /\ \A p \in seen' : SettledNext(p) \/ AwaitedNext(p)

LEMMA SkipPrimed == SkipNext => SkipInv'
BY DEF SkipNext, SkipInv, SettledNext, Settled, InHandNext, InHand, AwaitedNext, Awaited, Swapped, Created,
   PoolsIn, Swaps, Creations, SwapsOf, CreationsOf, ItemsIn, Blocks, Observes

LEMMA NoneAwaited ==
  ASSUME NEW p
  PROVE  ~Observes(<<>>, p)
BY DEF Observes

\* The job of the scan goes on with its plan, or drops it: what was awaited is settled.
LEMMA PlanStep ==
  ASSUME TypeOK, JobInv, [Next]_vars, NEW p \in Pools, Awaited(p), Write("live") \/ StatementFails("live")
  PROVE  SettledNext(p) \/ (Write("live") /\ AwaitedNext(p))
<1> DEFINE todo == job["live"].todo
<1>1. todo \in Seq(Statement) /\ Tied(todo, job["live"].pool) /\ job \in [Writers -> Job] /\ "live" \in Writers
  BY JobNow DEF TypeOK, Writers, Scanners
<1>2. PICK i \in DOMAIN todo : todo[i].table = "observed" /\ todo[i].key = p
  BY DEF Awaited, Observes
<1>3. todo # <<>>
  BY <1>1, <1>2
<1>4. CASE StatementFails("live")
  <2>1. job["live"].pool = p
    BY <1>1, <1>2 DEF Tied, About
  <2> QED BY <1>4, <2>1 DEF StatementFails, SettledNext
<1>5. CASE Write("live") /\ i = 1
  <2>1. Head(todo) = todo[1] /\ Head(todo) \in Statement
    BY <1>1, <1>3, Tails
  <2>2. WriteObserved("live")
    BY <1>2, <1>5, <2>1 DEF Write, WritePair, WritePool, WriteFactory, WriteRedis, At
  <2>3. observed'[p] = [status |-> Head(todo).status, topic |-> Head(todo).topic]
    BY <1>2, <1>5, <2>1, <2>2 DEF WriteObserved, TypeOK
  <2>4. Head(todo).status # "none"
    BY <1>2, <1>5, <2>1 DEF Statement
  <2>5. Unseen.status = "none" /\ observed'[p].status = Head(todo).status
    BY <2>3 DEF Unseen
  <2> QED BY <2>4, <2>5 DEF SettledNext
<1>6. CASE Write("live") /\ i # 1
  <2>1. job'["live"].todo = Tail(todo)
    BY <1>1, <1>6 DEF Write, WritePair, WritePool, WriteObserved, WriteFactory, WriteRedis, Done, Job
  <2>2. i - 1 \in DOMAIN Tail(todo) /\ Tail(todo)[i - 1] = todo[i]
    BY <1>1, <1>3, <1>6, Rest
  <2> QED BY <1>2, <1>6, <2>1, <2>2 DEF AwaitedNext, Observes
<1> QED BY <1>4, <1>5, <1>6

\* What taking an item does to the scan.
LEMMA TakeStep ==
  ASSUME TypeOK, JobInv, SkipInv, [Next]_vars, NEW item \in job["live"].inbox, NEW fault \in Failures,
         TakeItem("live", item, fault)
  PROVE  /\ \A p \in Pools : p \in PoolsIn(job["live"].inbox) =>
              p = item.pool \/ p \in PoolsIn(job'["live"].inbox)
         /\ job["live"].task = "swaps" \/ FactoryOf[item.pool] # NoFactory =>
              SettledNext(item.pool) \/ AwaitedNext(item.pool)
         /\ job'["live"].task = job["live"].task /\ job'["live"].to = job["live"].to
         /\ UNCHANGED <<cursor, since>> /\ job["live"].todo = <<>>
         /\ seen' = IF job["live"].task = "swaps" THEN seen \cup {item.pool} ELSE seen
         /\ job["live"].task \in {"creations", "swaps"} /\ item.pool \in Pools
<1>0. "live" \in Writers
  BY DEF Writers, Scanners
<1>1. PICK j \in Job :
        /\ job' = [job EXCEPT !["live"] = j]
        /\ j.task = job["live"].task /\ j.inbox = job["live"].inbox \ {item} /\ j.trusted = job["live"].trusted
        /\ j.pool = item.pool /\ j.linked = FALSE /\ j.to = job["live"].to
        /\ \/ j.todo = <<>> /\ job["live"].task = "swaps" /\ item.pool \in seen
           \/ j.todo = Outcome(job["live"].task, item, job["live"].trusted, fault)
        /\ Fit(j.todo, item.pool)
  BY <1>0, Taken
<1>2. item \in Item /\ job["live"].task \in Looking /\ job["live"].todo = <<>> /\ item.pool \in Pools
  BY <1>0, Taken DEF Item
<1>3. job'["live"] = j /\ job["live"].task \in {"creations", "swaps"} /\ job["live"].trusted \in SUBSET Factories
  BY <1>0, <1>1, <1>2, JobNow DEF TypeOK, TasksOf, Looking
<1>4. /\ UNCHANGED <<cursor, since>>
      /\ seen' = IF job["live"].task = "swaps" THEN seen \cup {item.pool} ELSE seen
      /\ missed' = missed \cup (IF fault # "none" THEN {item.pool} ELSE {})
  BY DEF TakeItem
<1>5. \A p \in Pools : p \in PoolsIn(job["live"].inbox) => p = item.pool \/ p \in PoolsIn(j.inbox)
  BY <1>1 DEF PoolsIn
<1>6. ASSUME job["live"].task = "swaps" \/ FactoryOf[item.pool] # NoFactory
      PROVE  SettledNext(item.pool) \/ AwaitedNext(item.pool)
  <2>1. CASE fault # "none"
    BY <1>4, <2>1 DEF SettledNext
  <2>2. CASE fault = "none" /\ item.pool \in seen
    <3>1. Settled(item.pool)
      BY <1>2, <2>2, NoneAwaited DEF SkipInv, Awaited
    <3> QED BY <1>2, <3>1, SettledKept
  <2>3. CASE fault = "none" /\ item.pool \notin seen
    <3>1. j.todo = Outcome(job["live"].task, item, job["live"].trusted, fault)
      BY <1>1, <2>3
    <3>2. Observes(j.todo, item.pool)
      BY <1>2, <1>3, <1>6, <2>3, <3>1, OutcomeFit
    <3> QED BY <1>3, <3>2 DEF AwaitedNext
  <2> QED BY <2>1, <2>2, <2>3
<1> QED BY <1>1, <1>2, <1>3, <1>4, <1>5, <1>6

LEMMA SkipStep ==
  ASSUME TypeOK, JobInv, SkipInv, [Next]_vars
  PROVE  SkipInv'
<1> USE DEF Writers, Scanners
<1> DEFINE j == job["live"]  c == cursor["live"]
<1>0. SUFFICES SkipNext
  BY SkipPrimed
<1>1. /\ tip \in Nat /\ c \in 0..tip /\ since \in Nat /\ j \in Job /\ j.to \in Nat /\ j.to <= tip
      /\ job \in [Writers -> Job] /\ cursor \in [Scanners -> 0..tip] /\ seen \subseteq Pools
      /\ c \in Nat
  BY Counters, JobNow DEF TypeOK, JobOk
<1>2. \A p \in Pools : Settled(p) => SettledNext(p)
  BY SettledKept
<1>3. \A a, b : Swapped(a, b) \subseteq Pools /\ Created(a, b) \subseteq Pools
  BY Ranges
<1>4. CASE LiveStill
  <2>1. \A p \in Pools : /\ InHand(p) => InHandNext(p)
                         /\ Settled(p) \/ Awaited(p) => SettledNext(p) \/ AwaitedNext(p)
    BY <1>2, <1>4 DEF LiveStill, InHand, InHandNext, Awaited, AwaitedNext
  <2> QED BY <1>1, <1>2, <1>3, <1>4, <2>1 DEF LiveStill, SkipInv, SkipNext
<1>5. CASE Write("live") \/ StatementFails("live")
  <2>1. \A p \in Pools : Awaited(p) => SettledNext(p) \/ (Write("live") /\ AwaitedNext(p))
    BY <1>5, PlanStep
  <2>2. UNCHANGED <<cursor, since, seen>>
    BY <1>5 DEF Write, WritePair, WritePool, WriteObserved, WriteFactory, WriteRedis, Frame, StatementFails, scanVars
  <2>3. \/ job'["live"].task = j.task /\ job'["live"].inbox = j.inbox /\ job'["live"].to = j.to
    <3>1. CASE Write("live")
      BY <1>1, <3>1 DEF Write, WritePair, WritePool, WriteObserved, WriteFactory, WriteRedis, Done, Job
    <3>2. CASE StatementFails("live")
      <4>1. job'["live"] = AfterError("live") /\ j.task \in {"idle", "seed", "creations", "swaps"}
        BY <1>1, <3>2, JobNow DEF StatementFails, TasksOf
      <4>2. AfterError("live") \in {[j EXCEPT !.todo = Seeds], [j EXCEPT !.todo = <<>>]}
        BY <4>1 DEF AfterError
      <4> QED BY <1>1, <4>1, <4>2 DEF Job
    <3> QED BY <1>5, <3>1, <3>2
  <2>4. \A p \in Pools : /\ InHand(p) => InHandNext(p)
                         /\ Settled(p) \/ Awaited(p) => SettledNext(p) \/ AwaitedNext(p)
    BY <1>2, <2>1, <2>3 DEF InHand, InHandNext
  <2> QED BY <1>1, <1>2, <1>3, <2>2, <2>3, <2>4 DEF SkipInv, SkipNext
<1>6. ASSUME NEW item \in job["live"].inbox, NEW fault \in Failures, TakeItem("live", item, fault)
      PROVE  SkipNext
  <2>1. /\ \A p \in Pools : p \in PoolsIn(j.inbox) => p = item.pool \/ p \in PoolsIn(job'["live"].inbox)
        /\ j.task = "swaps" \/ FactoryOf[item.pool] # NoFactory => SettledNext(item.pool) \/ AwaitedNext(item.pool)
        /\ job'["live"].task = j.task /\ job'["live"].to = j.to
        /\ UNCHANGED <<cursor, since>> /\ j.todo = <<>>
        /\ seen' = IF j.task = "swaps" THEN seen \cup {item.pool} ELSE seen
        /\ j.task \in {"creations", "swaps"} /\ item.pool \in Pools
    BY <1>6, TakeStep
  <2>2. \A p \in Pools : ~Awaited(p)
    BY <2>1, NoneAwaited DEF Awaited
  <2>3. \A p \in Pools : InHand(p) /\ (j.task = "swaps" \/ FactoryOf[p] # NoFactory) => InHandNext(p)
    BY <1>2, <2>1, <2>2 DEF InHand, InHandNext
  <2>4. \A p \in seen' : SettledNext(p) \/ AwaitedNext(p)
    BY <1>1, <1>2, <2>1, <2>2 DEF SkipInv
  <2>5. \A p \in Created(c + 1, j.to) : FactoryOf[p] # NoFactory
    BY DEF Created
  <2> QED BY <1>1, <1>2, <1>3, <2>1, <2>3, <2>4, <2>5 DEF SkipInv, SkipNext
<1>7. ASSUME NEW failed \in BOOLEAN, LivePoll(failed) PROVE SkipNext
  <2> DEFINE to == Reached(c)
             logs == Creations(c + 1, to)
  <2>1. /\ job'["live"].task = "creations" /\ job'["live"].to = to
        /\ job'["live"].inbox = IF failed THEN {} ELSE logs
        /\ j = Idle /\ UNCHANGED <<cursor, since, seen>>
        /\ missed' = missed \cup (IF failed THEN PoolsIn(logs) ELSE {})
        /\ c < tip
    BY <1>1, <1>7 DEF LivePoll, Idle, scanVars
  <2>2. c <= to
    BY <1>1, <2>1, RegistryAssumption DEF Reached
  <2>3. \A p \in Created(c + 1, to) : InHandNext(p)
    BY <2>1 DEF Created, InHandNext, SettledNext
  <2>4. \A p \in seen : SettledNext(p)
    BY <1>1, <1>2, <2>1, NoneAwaited DEF SkipInv, Awaited, Idle
  <2> QED BY <1>1, <1>2, <1>3, <2>1, <2>2, <2>3, <2>4 DEF SkipInv, SkipNext
<1>8. ASSUME NEW failed \in BOOLEAN, LiveSwaps(failed) PROVE SkipNext
  <2> DEFINE logs == Swaps(c + 1, j.to)
  <2>1. /\ job'["live"].task = "swaps" /\ job'["live"].to = j.to
        /\ job'["live"].inbox = IF failed THEN {} ELSE logs
        /\ j.task = "creations" /\ j.inbox = {} /\ j.todo = <<>> /\ UNCHANGED <<cursor, since, seen>>
        /\ missed' = missed \cup (IF failed THEN PoolsIn(logs) ELSE {})
    BY <1>1, <1>8 DEF LiveSwaps, Job, scanVars
  <2>2. \A p \in Pools : ~Awaited(p) /\ (InHand(p) => SettledNext(p))
    BY <1>2, <2>1, NoneAwaited DEF Awaited, InHand, PoolsIn
  <2>3. \A p \in Swapped(c + 1, j.to) : InHandNext(p)
    BY <2>1 DEF Swapped, InHandNext, SettledNext
  <2> QED BY <1>1, <1>2, <1>3, <2>1, <2>2, <2>3 DEF SkipInv, SkipNext
<1>9. CASE LiveScanned
  <2>1. /\ job'["live"] = Idle /\ cursor'["live"] = j.to /\ UNCHANGED <<since, seen>>
        /\ j.task = "swaps" /\ j.inbox = {} /\ j.todo = <<>>
    BY <1>1, <1>9 DEF LiveScanned
  <2>2. \A p \in Pools : ~Awaited(p) /\ (InHand(p) => SettledNext(p))
    BY <1>2, <2>1, NoneAwaited DEF Awaited, InHand, PoolsIn
  <2>3. since <= c /\ c <= j.to
    BY <2>1 DEF SkipInv
  <2>4. /\ Swapped(since + 1, j.to) \subseteq Swapped(since + 1, c) \cup Swapped(c + 1, j.to)
        /\ Created(since + 1, j.to) \subseteq Created(since + 1, c) \cup Created(c + 1, j.to)
    BY <1>1, <2>3, Ranges
  <2>5. \A p \in Swapped(since + 1, j.to) \cup Created(since + 1, j.to) : SettledNext(p)
    BY <1>2, <1>3, <2>1, <2>2, <2>4 DEF SkipInv
  <2>6. Idle.task = "idle"
    BY DEF Idle
  <2> QED BY <1>1, <1>2, <2>1, <2>2, <2>3, <2>5, <2>6 DEF SkipInv, SkipNext
<1>10. CASE Seeded
  <2>1. /\ job'["live"] = Idle /\ cursor'["live"] = tip /\ since' = tip /\ seen' = seen /\ j.todo = <<>>
    BY <1>1, <1>10 DEF Seeded
  <2>2. \A p \in Pools : ~Awaited(p)
    BY <2>1, NoneAwaited DEF Awaited
  <2>3. Swapped(tip + 1, tip) = {} /\ Created(tip + 1, tip) = {} /\ Idle.task = "idle"
    BY <1>1, Ranges DEF Idle
  <2> QED BY <1>1, <1>2, <2>1, <2>2, <2>3 DEF SkipInv, SkipNext
<1>11. CASE Restart
  <2>1. /\ job'["live"].task = "seed" /\ cursor'["live"] = c /\ since' = since /\ seen' = {}
    BY <1>1, <1>11 DEF Restart, Idle
  <2> QED BY <1>1, <1>2, <1>3, <2>1 DEF SkipInv, SkipNext
<1> QED BY <1>4, <1>5, <1>6, <1>7, <1>8, <1>9, <1>10, <1>11, LiveSteps DEF Live

------------------------------------------------------------------------------
(* Who is trusted *)

\* While no call has failed and the operator has left the factories alone, it was so before.
LEMMA Quiet ==
  ASSUME TypeOK, JobInv, [Next]_vars, faults' = Faults, ~meddled'
  PROVE  /\ faults = Faults /\ ~meddled
         /\ \A f \in Factories, status \in {"trusted", "untrusted", "off"} : ~UpdateFactory(f, status)
         /\ \A w \in Writers : \A item \in job[w].inbox, fault \in Failures :
              TakeItem(w, item, fault) => fault = "none"
         /\ on' = on
<1> USE DEF dbVars, noteVars
<1>0. faults \in 0..Faults /\ meddled \in BOOLEAN /\ Faults \in Nat
  BY RegistryAssumption DEF TypeOK
<1>1. \A failed : Fault(failed) => ~failed /\ faults' = faults
  BY <1>0 DEF Fault
<1>2. ASSUME faults' = faults, meddled' = meddled PROVE faults = Faults /\ ~meddled
  BY <1>2
<1>3. \A f \in Factories, status \in {"trusted", "untrusted", "off"} : ~UpdateFactory(f, status)
  BY DEF UpdateFactory
<1>4. CASE NewBlock \/ Restart \/ Tools \/ Reload \/ (\E failed \in SUBSET Pools : MarketStart(failed)) \/ UNCHANGED vars
  <2>1. faults' = faults /\ meddled' = meddled
    BY <1>1, <1>4 DEF NewBlock, Restart, Tools, RunBatch, Reload, ReloadRead, ReloadApply, MarketStart, vars
  <2>2. on' = on
    BY <1>4 DEF NewBlock, Restart, Tools, RunBatch, Reload, ReloadRead, ReloadApply, MarketStart, vars
  <2> QED BY <1>2, <1>3, <2>1, <2>2, <1>1 DEF TakeItem
<1>5. CASE Live \/ Collector
  <2>1. faults' = faults /\ meddled' = meddled
    BY <1>1, <1>5 DEF Live, LivePoll, LiveSwaps, LiveScanned, Seeded, Collector, CollectorPoll, CollectorScanned
  <2>2. on' = on
    BY <1>5 DEF Live, LivePoll, LiveSwaps, LiveScanned, Seeded, Collector, CollectorPoll, CollectorScanned
  <2> QED BY <1>2, <1>3, <2>1, <2>2, <1>1 DEF TakeItem
<1>6. CASE Operator \/ DisablePools
  <2>1. faults' = faults /\ meddled' = meddled /\ on' = on
    BY <1>3, <1>6 DEF Operator, ImportObserved, Rediscover, DisablePair, RemovePair, DisablePools, Frame
  <2> QED BY ZenonT(40), <1>2, <1>3, <2>1, <1>1 DEF TakeItem
<1>7. CASE \E w \in Writers : \/ \E item \in job[w].inbox, fault \in Failures : TakeItem(w, item, fault)
                              \/ Write(w) \/ StatementFails(w)
  <2>1. faults' = faults /\ meddled' = meddled /\ on' = on
    BY ZenonT(40), <1>1, <1>7 DEF TakeItem, Write, WritePair, WritePool, WriteObserved, WriteFactory, WriteRedis, Frame,
       StatementFails
  <2> QED BY ZenonT(40), <1>2, <1>3, <2>1, <1>1 DEF TakeItem
<1> QED BY <1>4, <1>5, <1>6, <1>7 DEF Next

\* The row of a factory is written by a plan, or by the operator.
LEMMA TrustWrites ==
  ASSUME TypeOK, JobInv, [Next]_vars,
         \A f \in Factories, status \in {"trusted", "untrusted", "off"} : ~UpdateFactory(f, status)
  PROVE  factories' = factories \/ \E w \in Writers : WriteFactory(w)
<1> USE DEF dbVars, noteVars
<1>1. CASE NewBlock \/ Restart \/ Tools \/ Reload \/ (\E failed \in SUBSET Pools : MarketStart(failed)) \/ UNCHANGED vars
  BY <1>1 DEF NewBlock, Restart, Tools, RunBatch, Reload, ReloadRead, ReloadApply, MarketStart, vars
<1>2. CASE Live \/ Collector
  BY <1>2 DEF Live, LivePoll, LiveSwaps, LiveScanned, Seeded, Collector, CollectorPoll, CollectorScanned
<1>3. CASE Operator \/ DisablePools
  BY <1>3 DEF Operator, ImportObserved, Rediscover, DisablePair, RemovePair, DisablePools
<1>4. CASE \E w \in Writers : \/ \E item \in job[w].inbox, fault \in Failures : TakeItem(w, item, fault)
                              \/ Write(w) \/ StatementFails(w)
  BY ZenonT(40), <1>4 DEF TakeItem, Write, WritePair, WritePool, WriteObserved, WriteRedis, StatementFails
<1> QED BY <1>1, <1>2, <1>3, <1>4 DEF Next

LEMMA TrustStep ==
  ASSUME TypeOK, JobInv, TrustInv, [Next]_vars
  PROVE  TrustInv'
<1>1. SUFFICES ASSUME faults' = Faults, ~meddled'
               PROVE  /\ \A f \in Factories : factories'[f] = "trusted" \/ Exempt(f)
                      /\ \A w \in Writers :
                           /\ job'[w].task \in Trusting =>
                                \A f \in Factories : f \in job'[w].trusted \/ Exempt(f)
                           /\ \A f \in Distrusts(job'[w].todo) : Exempt(f)
  <2>1. faults' = Faults /\ ~meddled' => on' = on
    BY Quiet
  <2> QED BY <2>1 DEF TrustInv, TrustOk, Trusted, Exempt, Unreadable, Distrusts
<1>2. /\ faults = Faults /\ ~meddled
      /\ \A f \in Factories, status \in {"trusted", "untrusted", "off"} : ~UpdateFactory(f, status)
      /\ \A w \in Writers : \A item \in job[w].inbox, fault \in Failures :
           TakeItem(w, item, fault) => fault = "none"
  BY <1>1, Quiet
<1>3. /\ \A f \in Factories : f \in Trusted \/ Exempt(f)
      /\ \A w \in Writers : TrustOk(job[w])
  BY <1>2 DEF TrustInv
<1>4. /\ job' \in [Writers -> Job] /\ \A w \in Writers : Moved(w)
  BY JobStep DEF JobsMove
<1>5. ASSUME NEW f \in Factories PROVE factories'[f] = "trusted" \/ Exempt(f)
  <2>1. CASE factories' = factories
    BY <1>3, <2>1 DEF Trusted
  <2>2. ASSUME NEW w \in Writers, WriteFactory(w) PROVE factories'[f] = "trusted" \/ Exempt(f)
    <3> DEFINE s == Head(job[w].todo)
    <3>1. At(w, "factory") /\ factories' = [factories EXCEPT ![s.key] = s.status]
      BY <2>2 DEF WriteFactory
    <3>2. s.table = "factory" /\ s.status \in {"trusted", "untrusted"}
      BY <3>1, HeadType DEF At
    <3>3. s = job[w].todo[1] /\ 1 \in DOMAIN job[w].todo
      BY <3>1, JobNow, Tails DEF At
    <3>4. s.status = "untrusted" => s.key \in Distrusts(job[w].todo)
      BY <3>2, <3>3 DEF Distrusts
    <3>5. s.status = "untrusted" => Exempt(s.key)
      BY <1>3, <3>4 DEF TrustOk
    <3> HIDE DEF s
    <3> QED BY <1>3, <3>1, <3>2, <3>5 DEF Trusted, TypeOK
  <2> QED BY <1>2, <2>1, <2>2, TrustWrites
<1>6. ASSUME NEW w \in Writers
      PROVE  /\ job'[w].task \in Trusting => \A f \in Factories : f \in job'[w].trusted \/ Exempt(f)
             /\ \A f \in Distrusts(job'[w].todo) : Exempt(f)
  <2>0. TrustOk(job[w]) /\ JobOk(w, job[w]) /\ job[w].todo \in Seq(Statement)
    BY <1>3, JobNow
  <2>1. CASE Fresh(job[w])' /\ TrustsFrom(w)
    <3>1. Distrusts(job'[w].todo) = {}
      BY <2>1 DEF Fresh, Distrusts
    <3> QED BY <1>3, <2>0, <2>1, <3>1 DEF TrustsFrom, TrustOk
  <2>2. CASE Steady(w)
    BY <2>0, <2>2 DEF Steady, SameWork, TrustOk
  <2>3. CASE Advances(w)
    <3>1. Distrusts(job'[w].todo) \subseteq Distrusts(job[w].todo)
      BY <2>0, <2>3, Tails DEF Advances
    <3> QED BY <2>0, <2>3, <3>1 DEF Advances, SameWork, TrustOk
  <2>4. CASE Takes(w)
    <3>1. PICK item \in job[w].inbox, fault \in Failures : TakeItem(w, item, fault)
      BY <2>4 DEF Takes
    <3>2. fault = "none" /\ item \in Item /\ job[w].task \in Looking /\ job[w].trusted \in SUBSET Factories
      BY <1>2, <3>1, Taken, JobNow
    <3>3. PICK j \in Job :
            /\ job' = [job EXCEPT ![w] = j]
            /\ j.task = job[w].task /\ j.inbox = job[w].inbox \ {item} /\ j.trusted = job[w].trusted
            /\ j.pool = item.pool /\ j.linked = FALSE /\ j.to = job[w].to
            /\ \/ j.todo = <<>> /\ w = "live" /\ job[w].task = "swaps" /\ item.pool \in seen
               \/ j.todo = Outcome(job[w].task, item, job[w].trusted, fault)
            /\ Fit(j.todo, item.pool)
      BY <3>1, Taken
    <3>4. job'[w] = j
      BY <3>3 DEF TypeOK
    <3>5. /\ job[w].task = "creations" => item \in CreatedItems
          /\ job[w].task = "import_page" => item.topic \in {"v2", "v3"} /\ item.topic = TopicOf[item.pool]
          /\ job[w].task = "classify" => "batch" \in on
      BY <2>0, <3>2 DEF JobOk, TasksOf, Writers, Scanners
    <3>6. ASSUME NEW f \in Distrusts(Outcome(job[w].task, item, job[w].trusted, "none")) PROVE Exempt(f)
      <4>1. job[w].task \in Trusting => \A g \in Factories : g \in job[w].trusted \/ Exempt(g)
        BY <2>0 DEF TrustOk
      <4> QED BY <3>2, <3>5, <3>6, <4>1, OutcomeTrusts
    <3>7. Distrusts(<<>>) = {}
      BY Pieces
    <3>8. \A f \in Distrusts(j.todo) : Exempt(f)
      BY <3>2, <3>3, <3>6, <3>7
    <3> QED BY <2>0, <3>3, <3>4, <3>8 DEF TrustOk
  <2> QED BY <1>4, <2>1, <2>2, <2>3, <2>4 DEF Moved
<1> QED BY <1>5, <1>6

------------------------------------------------------------------------------
(* The invariant, and what follows *)

LEMMA InitInv ==
  ASSUME Init
  PROVE  IInv
<1> USE DEF Init
<1>1. TypeOK
  <2>1. IsFiniteSet(Pools) /\ Len(LogsAt) \in Nat /\ Faults \in Nat /\ Restarts[on] \in Nat /\ Jobs[on] \in Nat
        /\ Configured \subseteq Pools
    BY RegistryAssumption
  <2>2. PICK old \in {{}, Configured} :
          /\ pools = [p \in Pools |-> IF p \in old THEN "enabled" ELSE "none"]
          /\ pairs = [a \in Pairs |-> IF \E p \in old : PairOf[p] = a THEN "enabled" ELSE "none"]
    OBVIOUS
  <2>3. Idle \in Job
    BY NoPlan DEF Idle, Job
  <2>4. Unseen \in Observation
    BY DEF Unseen, Observation
  <2>5. pools \in [Pools -> {"none", "enabled", "disabled"}]
    BY <2>2
  <2>6. pairs \in [Pairs -> {"none", "enabled", "disabled"}]
    BY <2>2
  <2>7. job \in [Writers -> Job] /\ observed \in [Pools -> Observation] /\ cursor \in [Scanners -> 0..tip]
    BY <2>3, <2>4
  <2>8. factories \in [Factories -> {"none", "trusted", "untrusted", "off"}]
    OBVIOUS
  <2>9. /\ on \in Scenarios /\ tip = 0 /\ since = 0 /\ faults = Faults
        /\ restarts = Restarts[on] /\ jobs = Jobs[on] /\ meddled = FALSE /\ raced = {}
        /\ published = Configured /\ monitored = Configured /\ reload = {} /\ seen = {}
        /\ missed = {} /\ withdrawn = {}
    OBVIOUS
  <2> HIDE DEF Init
  <2>10. published \cup monitored \cup reload \cup seen \cup missed \cup withdrawn \subseteq Pools
    BY <2>1, <2>9
  <2>11. /\ tip \in 0..Len(LogsAt) /\ since \in 0..tip /\ faults \in 0..Faults
         /\ restarts \in 0..Restarts[on] /\ jobs \in 0..Jobs[on]
    BY <2>1, <2>9
  <2>12. raced \subseteq Pairs /\ meddled \in BOOLEAN
    BY <2>9
  <2> QED BY <2>5, <2>6, <2>7, <2>8, <2>9, <2>10, <2>11, <2>12 DEF TypeOK
<1>2. \A w \in Writers : job[w] = Idle
  OBVIOUS
<1>3. JobInv
  BY <1>1, <1>2, IdleJob DEF JobInv
<1>4. /\ Idle.task = "idle" /\ Idle.todo = <<>> /\ Idle.inbox = {} /\ Idle.linked = FALSE
  BY DEF Idle
<1>5. PairInv
  <2>1. PICK old \in {{}, Configured} :
          /\ pools = [p \in Pools |-> IF p \in old THEN "enabled" ELSE "none"]
          /\ pairs = [a \in Pairs |-> IF \E p \in old : PairOf[p] = a THEN "enabled" ELSE "none"]
    OBVIOUS
  <2>2. ASSUME NEW p \in Pools, pools[p] = "enabled" PROVE pairs[PairOf[p]] = "enabled"
    <3>1. p \in old /\ PairOf[p] \in Pairs
      BY <2>1, <2>2, RegistryAssumption
    <3> QED BY <2>1, <3>1
  <2>3. \A w \in Writers : LinkOk(job[w])
    BY <1>2, <1>4 DEF LinkOk
  <2> QED BY <2>2, <2>3 DEF PairInv, PairOk, Searched, Enabled
<1>6. MarkInv
  BY <1>2, <1>4 DEF MarkInv, MarkOk
<1>7. ImportedInRegistry
  BY DEF ImportedInRegistry, Unseen
<1>8. SkipInv
  <2>1. cursor["live"] = 0 /\ since = 0 /\ seen = {} /\ job["live"] = Idle
    BY DEF Writers, Scanners
  <2>2. Swapped(0 + 1, 0) = {} /\ Created(0 + 1, 0) = {}
    BY Ranges
  <2> QED BY <1>4, <2>1, <2>2 DEF SkipInv
<1>9. TrustInv
  <2>1. \A f \in Factories : f \in Trusted \/ Exempt(f)
    BY DEF Trusted, Exempt
  <2>2. \A w \in Writers : TrustOk(job[w])
    BY <1>2, <1>4 DEF TrustOk, Trusting, Distrusts
  <2> QED BY <2>1, <2>2 DEF TrustInv
<1> QED BY <1>1, <1>3, <1>5, <1>6, <1>7, <1>8, <1>9 DEF IInv

LEMMA StepInv ==
  ASSUME IInv, [Next]_vars
  PROVE  IInv'
<1>1. TypeOK' /\ JobInv'
  BY TypeStep, JobStep DEF IInv, JobsMove
<1>2. PairInv'
  BY PairStep DEF IInv
<1>3. MarkInv' /\ ImportedInRegistry'
  BY MarkStep, ImportedStep DEF IInv
<1>4. SkipInv'
  BY SkipStep DEF IInv
<1>5. TrustInv'
  BY TrustStep DEF IInv
<1> QED BY <1>1, <1>2, <1>3, <1>4, <1>5 DEF IInv

\* IInv holds of every state of the registry.
THEOREM RegistryInvariance == Spec => []IInv
<1>1. Init => IInv
  BY InitInv
<1>2. IInv /\ [Next]_vars => IInv'
  BY StepInv
<1> QED BY <1>1, <1>2, PTL DEF Spec

LEMMA InvSound ==
  ASSUME IInv
  PROVE  RegistrySound
<1>1. ASSUME NEW p \in Enabled
      PROVE  pairs[PairOf[p]] = "enabled" \/ PairOf[p] \in raced \/ At("admin", "disable")
  BY <1>1 DEF IInv, PairInv, PairOk, Searched
<1> QED BY <1>1 DEF IInv, RegistrySound, PairOfEnabledPool

\* Whatever fails, restarts or comes between two statements: an enabled pool belongs
\* to an enabled pair, and an observed row that says imported has its pool in the
\* registry (the statements of import_discovered_pool, disable_token_pair,
\* delete_token_pair).
THEOREM RegistryKept == Spec => []RegistrySound
<1>1. IInv => RegistrySound
  BY InvSound
<1> QED BY <1>1, RegistryInvariance, PTL

LEMMA InvSkips ==
  ASSUME IInv
  PROVE  NothingSkipped
<1>1. \A p \in Swapped(since + 1, cursor["live"]) \cup Created(since + 1, cursor["live"]) : Settled(p)
  BY DEF IInv, SkipInv
<1> QED BY <1>1 DEF NothingSkipped, Swapped, Created, Settled

\* Every pool that swapped or was created in the blocks the scan has left behind has
\* a row, unless a call about it failed (run_pool_discovery).
THEOREM ScanComplete == Spec => []NothingSkipped
<1>1. IInv => NothingSkipped
  BY InvSkips
<1> QED BY <1>1, RegistryInvariance, PTL

LEMMA InvTrusts ==
  ASSUME IInv
  PROVE  TrustKept
<1>1. faults = Faults /\ ~meddled => \A f \in Factories : f \in Trusted \/ Exempt(f)
  BY DEF IInv, TrustInv
<1> QED BY <1>1, RegistryAssumption DEF TrustKept, Exempt

\* A default factory keeps its trust while every call answers and the operator leaves
\* the factories alone, but for what the classifier does to those of classic pools.
THEOREM DefaultsTrusted == Spec => []TrustKept
<1>1. IInv => TrustKept
  BY InvTrusts
<1> QED BY <1>1, RegistryInvariance, PTL

==============================================================================

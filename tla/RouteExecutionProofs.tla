------------------------- MODULE RouteExecutionProofs -------------------------
(* What RouteExecution keeps, for any routes, batches, faults and wallets: a  *)
(* route is simulated only with its allowances, what the hub executes goes    *)
(* through trusted pools, no candidate ends the process, the fund wallet pays *)
(* a thing once, and live simulations find their opportunities.               *)
EXTENDS RouteExecution, FiniteSetTheorems, SequenceTheorems, NaturalsInduction, TLAPS

------------------------------------------------------------------------------
(* The inductive invariant *)

Idling == {"down", "select", "reconcile", "fund", "pay", "wait", "drain"}
PCs == Idling \cup {"check", "admin", "nonce", "approve", "simulate", "submit"}

Bot ==
  [pc : PCs, rows : SUBSET {LateRow}, cache : SUBSET Keys, todo : Seq(Routes),
   ready : SUBSET Routes, done : SUBSET Routes, sims : SUBSET [route : Routes, gain : Gains],
   missing : SUBSET Keys, nonce : 0..(Slots + 1), value : 0..TargetGas, mined : BOOLEAN,
   cause : {"none", "node", "busy"}]

Lane == [status : {"idle", "pending", "cooldown"}, balance : Nat]

IsGas(tx) == tx.does = "gas"

TypeInv ==
  /\ sc \in Scenarios /\ plans = [rows \in SUBSET {LateRow} |-> Plans(rows)]
  /\ registry \in SUBSET {LateRow} /\ bot \in Bot /\ lane \in Lane
  /\ gas \in Nat /\ abandoned \in Nat /\ faults \in 0..sc.faults
  /\ opps \subseteq Routes
  /\ web = [nonce |-> web.nonce, todo |-> web.todo] /\ web.nonce \in 0..(Slots + 2)
  /\ pool = [n \in 1..Slots |-> pool[n]]
  /\ \A n \in 1..Slots : IsGas(pool[n]) => pool[n] \in [by : {"bot"}, does : {"gas"}, value : Nat]

\* The simulations under way are of opportunities that have their rows.
QueueInv ==
  /\ simq \in Seq([live : BOOLEAN, rows : BOOLEAN]) /\ Len(simq) <= Capacity
  /\ \A i \in 1..Len(simq) : simq[i].live => simq[i].rows

\* The lane and the transaction that it follows, and the gas for the next.
LaneInv ==
  /\ (lane.status = "pending") <=> (arb # None)
  /\ arb # None => /\ \E rows \in SUBSET registry, r \in Routes :
                        /\ Plans(rows)[r].encodable
                        /\ arb = [executor |-> Plans(rows)[r].executor, call |-> Plans(rows)[r].call,
                                  mined |-> arb.mined]
                   /\ arb.mined \in BOOLEAN /\ (arb.mined \/ gas > 0)
  /\ lane.status # "pending" => lane.balance <= gas
  /\ ~sc.live => bot.pc \in {"down", "drain", "simulate"}
  /\ sc.live /\ bot.pc \notin {"down", "select", "reconcile"} => arb = None
  /\ sc.live /\ bot.pc \in (PCs \ Idling) \cup {"drain"} => gas >= MinGas
  /\ bot.pc \in {"fund", "pay", "wait"} =>
       IF bot.pc = "wait" /\ bot.mined THEN gas >= TargetGas ELSE gas + bot.value >= TargetGas

\* What is left of a batch, and what has its row.
BatchInv ==
  /\ bot.rows \subseteq registry
  /\ bot.pc \in Idling => bot.todo = <<>> /\ bot.ready = {} /\ bot.done = {} /\ bot.sims = {}
  /\ bot.pc = "simulate" => bot.todo = <<>>
  /\ bot.pc = "submit" => bot.todo = <<>> /\ bot.ready = {} /\ bot.done = {}
  /\ bot.pc \in {"admin", "nonce", "approve"} => bot.todo # <<>> /\ Cardinality(bot.ready) < MaxReady
  /\ IsFiniteSet(bot.ready) /\ Cardinality(bot.ready) <= MaxReady /\ IsFiniteSet(bot.sims)
  /\ \A s \in bot.sims : Plan(s.route).encodable
  /\ sc.live => /\ bot.todo \in Seq(opps) /\ bot.ready \cup bot.done \subseteq opps
                /\ \A s \in bot.sims : s.route \in opps

\* What the process takes for approved is, or was.
ReadyInv ==
  /\ bot.cache \subseteq allow \cup lost
  /\ sc.live => \A r \in bot.ready : Plan(r).encodable /\ Plan(r).approvals \subseteq allow \cup lost

\* The process signs at a nonce it has no transaction at.
Ours(n) == pool[n].by = "bot"

NonceInv ==
  bot.nonce \in 1..Slots =>
    /\ bot.pc \in {"pay", "approve"} => ~Ours(bot.nonce)
    /\ bot.pc = "wait" /\ ~bot.mined /\ Ours(bot.nonce) => pool[bot.nonce] = GasTx(bot.value)

\* What the process, in a state b, waits for in these slots, and what it prepares.
WaitsOn(b, p) == b.pc = "wait" /\ ~b.mined /\ b.nonce \in 1..Slots /\ p[b.nonce] = GasTx(b.value)
Own(b, p) == IF WaitsOn(b, p) THEN b.value ELSE 0
Asked(b) == IF b.pc \in {"fund", "pay"} THEN b.value ELSE 0

\* Partial sums of the transfers in these slots.
GasOf(tx) == IF IsGas(tx) THEN tx.value ELSE 0
SumOf(p, s) == s[0] = 0 /\ \A n \in 1..Slots : s[n] = s[n - 1] + GasOf(p[n])

\* Transfers on their way are the process's own or given up on, and fill the target.
GasHolds(b, p, balance, lapsed) ==
  \E s \in [0..Slots -> Nat] :
    /\ SumOf(p, s)
    /\ s[Slots] <= lapsed + Own(b, p)
    /\ balance + s[Slots] + Asked(b) <= TargetGas + lapsed

GasInv == GasHolds(bot, pool, gas, abandoned)

\* The lane's record of the balance stays within it too.
BalanceInv == lane.balance <= TargetGas + abandoned

\* A transfer is given up on, and may be mined yet, for a fault: the call's own, or
\* the one that lost a transaction before it.
Behind(b, p) ==
  /\ b.pc = "pay" \/ (b.pc = "wait" /\ ~b.mined)
  /\ \E n \in 1..Slots : n < b.nonce /\ p[n] = NoTx

AbandonHolds(b, p, lapsed, failed) ==
  lapsed + (IF Behind(b, p) THEN TargetGas ELSE 0) <= TargetGas * failed

AbandonInv == AbandonHolds(bot, pool, abandoned, faults)

FlagInv == flags = {}

IInv ==
  /\ TypeInv /\ QueueInv /\ LaneInv /\ BatchInv /\ ReadyInv /\ OnlyTrustedPools
  /\ NonceInv /\ GasInv /\ BalanceInv /\ AbandonInv /\ FlagInv
------------------------------------------------------------------------------
(* Numbers and sets *)

\* A nonempty set of naturals has a least element.
LEMMA Least ==
  ASSUME NEW S \in SUBSET Nat, S # {}
  PROVE  \E m \in S : \A k \in S : m <= k
<1>1. PICK m \in S : \A k \in S : ~ (<<k, m>> \in OpToRel(<, Nat))
  BY NatLessThanWellFounded, WFMin
<1>2. \A k \in S : ~ (k < m)
  BY <1>1 DEF OpToRel
<1> QED BY <1>2, SMT

\* A finite set of naturals has an upper bound: a least set without one would have
\* an element to spare.
LEMMA FiniteBound ==
  ASSUME NEW S \in SUBSET Nat, IsFiniteSet(S)
  PROVE  \E n \in Nat : \A k \in S : k <= n
<1> DEFINE Bounded(T) == \E n \in Nat : \A k \in T : k <= n
           Unbounded == {T \in SUBSET Nat : IsFiniteSet(T) /\ ~Bounded(T)}
           Sizes == {Cardinality(T) : T \in Unbounded}
<1>1. SUFFICES ASSUME S \in Unbounded PROVE FALSE
  OBVIOUS
<1>2. Sizes \in SUBSET Nat /\ Sizes # {}
  BY <1>1, FS_CardinalityType
<1>3. PICK m \in Sizes : \A k \in Sizes : m <= k
  <2> HIDE DEF Sizes
  <2> QED BY <1>2, Least
<1>4. PICK T \in Unbounded : m = Cardinality(T)
  OBVIOUS
<1>5. T # {}
  <2>1. Bounded({})
    OBVIOUS
  <2> QED BY <1>4, <2>1
<1>6. PICK x \in T : TRUE
  BY <1>5
<1>7. IsFiniteSet(T \ {x}) /\ Cardinality(T \ {x}) = Cardinality(T) - 1 /\ Cardinality(T) \in Nat
  BY <1>4, <1>6, FS_RemoveElement, FS_CardinalityType
<1>8. Bounded(T \ {x})
  <2>1. SUFFICES ASSUME ~Bounded(T \ {x}) PROVE FALSE
    OBVIOUS
  <2>2. T \ {x} \in Unbounded
    BY <1>4, <1>7, <2>1
  <2>3. m <= Cardinality(T \ {x})
    BY <1>3, <2>2
  <2> QED BY <1>4, <1>7, <2>3
<1>9. PICK n \in Nat : \A k \in T \ {x} : k <= n
  BY <1>8
<1>10. x \in Nat
  BY <1>4, <1>6
<1>11. Bounded(T)
  <2>1. CASE x <= n
    BY <1>4, <1>9, <2>1
  <2>2. CASE ~(x <= n)
    <3>1. \A k \in T : k <= x
      BY <1>4, <1>9, <1>10, <2>2
    <3> QED BY <1>10, <3>1
  <2> QED BY <2>1, <2>2
<1> QED BY <1>4, <1>11

\* The image of a finite set under a function is no larger.
LEMMA ImageFacts ==
  ASSUME NEW S, IsFiniteSet(S), NEW f, DOMAIN f = S
  PROVE  /\ IsFiniteSet({f[x] : x \in S})
         /\ Cardinality({f[x] : x \in S}) <= Cardinality(S)
<1> DEFINE T == {f[x] : x \in S}
           g == [x \in S |-> f[x]]
<1>1. g \in Surjection(S, T)
  BY DEF Surjection
<1> HIDE DEF g
<1> QED BY <1>1, FS_Surjection

\* One of the simulations is the best.
LEMMA BestFacts ==
  ASSUME bot \in Bot, IsFiniteSet(bot.sims), bot.sims # {}
  PROVE  Best \in bot.sims
<1> DEFINE gains == {s.gain : s \in bot.sims}
<1>1. bot.sims \subseteq [route : Routes, gain : Gains] /\ Gains \subseteq Nat
  BY ExecutionAssumption DEF Bot
<1>2. gains \in SUBSET Nat /\ gains # {}
  BY <1>1
<1>3. IsFiniteSet(gains)
  <2> DEFINE g == [s \in bot.sims |-> s.gain]
  <2>1. IsFiniteSet({g[s] : s \in bot.sims})
    <3>1. DOMAIN g = bot.sims
      OBVIOUS
    <3> HIDE DEF g
    <3> QED BY <3>1, ImageFacts
  <2>2. gains = {g[s] : s \in bot.sims}
    OBVIOUS
  <2> QED BY <2>1, <2>2
<1>4. PICK n \in Nat : \A k \in gains : k <= n
  <2> HIDE DEF gains
  <2> QED BY <1>2, <1>3, FiniteBound
<1> DEFINE rest == {n - k : k \in gains}
<1>5. rest \in SUBSET Nat /\ rest # {}
  <2>1. \A k \in gains : n - k \in Nat
    <3> HIDE DEF gains
    <3> QED BY <1>2, <1>4
  <2> HIDE DEF gains
  <2> QED BY <1>2, <2>1
<1>6. PICK r \in rest : \A k \in rest : r <= k
  <2> HIDE DEF rest
  <2> QED BY <1>5, Least
<1>7. PICK s \in bot.sims : r = n - s.gain
  OBVIOUS
<1>8. ASSUME NEW o \in bot.sims PROVE o.gain <= s.gain
  <2>1. n - s.gain <= n - o.gain
    BY <1>6, <1>7
  <2>2. n \in Nat /\ o.gain \in Nat /\ s.gain \in Nat
    BY <1>1, <1>4
  <2> QED BY <2>1, <2>2
<1> QED BY <1>8, Zenon DEF Best

\* The next nonce is the first free one.
LEMMA PendingFacts ==
  /\ Pending \in 1..(Slots + 1)
  /\ Pending \in 1..Slots => pool[Pending] = NoTx
  /\ \A m \in 1..Slots : m < Pending => pool[m] # NoTx
<1> DEFINE Free == {n \in 1..(Slots + 1) : n = Slots + 1 \/ pool[n] = NoTx}
<1>1. Slots \in Nat /\ Slots > 0
  BY ExecutionAssumption
<1>2. Free \in SUBSET Nat /\ Slots + 1 \in Free
  BY <1>1
<1>3. PICK n \in Free : \A k \in Free : n <= k
  <2> HIDE DEF Free
  <2> QED BY <1>2, Least
<1>4. n \in 1..(Slots + 1) /\ (n = Slots + 1 \/ pool[n] = NoTx)
  BY <1>3
<1>5. \A m \in 1..(n - 1) : pool[m] # NoTx
  <2> SUFFICES ASSUME NEW m \in 1..(n - 1), pool[m] = NoTx PROVE FALSE
    OBVIOUS
  <2>1. m \in Free
    BY <1>1, <1>4
  <2> QED BY <1>1, <1>3, <1>4, <2>1
<1>6. /\ Pending \in 1..(Slots + 1)
      /\ Pending = Slots + 1 \/ pool[Pending] = NoTx
      /\ \A m \in 1..(Pending - 1) : pool[m] # NoTx
  BY <1>4, <1>5, Zenon DEF Pending
<1> QED BY <1>1, <1>6

\* The recursive sum is the last of the partial sums.
LEMMA SumFacts ==
  ASSUME NEW s \in [0..Slots -> Nat], SumOf(pool, s)
  PROVE  Bringing[Slots] = s[Slots]
<1>1. Slots \in Nat /\ Slots > 0
  BY ExecutionAssumption
<1> DEFINE f == [n \in 0..Slots |-> IF n = 0 THEN 0 ELSE s[n - 1] + InFlight(n)]
<1>2. s = f
  <2>1. \A n \in 0..Slots : s[n] = f[n]
    BY <1>1 DEF SumOf, InFlight, GasOf, IsGas
  <2> QED BY <2>1
<1> DEFINE Solves(g) == g = [n \in 0..Slots |-> IF n = 0 THEN 0 ELSE g[n - 1] + InFlight(n)]
<1>3. Solves(s)
  BY <1>2
<1>4. Bringing = CHOOSE g : Solves(g)
  BY DEF Bringing
<1>5. Solves(Bringing)
  <2> HIDE DEF Solves
  <2> QED BY <1>3, <1>4
<1>6. \A n \in 0..Slots : Bringing[n] = IF n = 0 THEN 0 ELSE Bringing[n - 1] + InFlight(n)
  BY <1>5
<1> DEFINE Differ == {n \in 0..Slots : Bringing[n] # s[n]}
<1>7. Differ = {}
  <2>1. SUFFICES ASSUME Differ # {} PROVE FALSE
    OBVIOUS
  <2>2. Differ \in SUBSET Nat
    BY <1>1
  <2>3. PICK n \in Differ : \A k \in Differ : n <= k
    <3> HIDE DEF Differ
    <3> QED BY <2>1, <2>2, Least
  <2>4. n \in 0..Slots /\ Bringing[n] # s[n]
    BY <2>3
  <2>5. n # 0
    BY <1>1, <1>6, <2>4 DEF SumOf, InFlight, GasOf, IsGas
  <2>6. n - 1 \in 0..Slots /\ n - 1 \notin Differ
    BY <1>1, <2>3, <2>4, <2>5
  <2>7. Bringing[n - 1] = s[n - 1]
    BY <2>6
  <2>8. n \in 1..Slots
    BY <1>1, <2>4, <2>5
  <2> QED BY <1>6, <2>4, <2>5, <2>7, <2>8 DEF SumOf, InFlight, GasOf, IsGas
<1> QED BY <1>1, <1>7
------------------------------------------------------------------------------
(* Routes *)

\* What a step that can be encoded names in the call.
LEMMA StepFacts ==
  ASSUME NEW trusted, NEW s, EncodeStep(trusted, s) # None
  PROVE  LET e == EncodeStep(trusted, s) IN
         /\ e.tin = s.tin /\ e.pool = s.pool
         /\ \E f \in DOMAIN Families :
              /\ e.factory = FactoryOf(s, f) /\ e.factory # None
              /\ e.kind = "DirectV2" => f \notin Adapted /\ s.factory = V2Factory
              /\ e.kind = "Adapter" => f \in Adapted
              /\ ~NeedsHub(e.kind) => /\ e.router = RouterOf(f) /\ f \notin Adapted
                                      /\ Allowed(trusted, f, s.factory)
<1> DEFINE f == CHOOSE g \in Family(s) : TRUE
           kind == StepKind(trusted, s)
           e == EncodeStep(trusted, s)
<1>1. /\ kind # "none"
      /\ e = [kind |-> kind, router |-> IF kind = "DirectV2" THEN None ELSE RouterOf(f),
              factory |-> FactoryOf(s, f), pool |-> s.pool, tin |-> s.tin, tout |-> s.tout,
              fee |-> FeeOf(s, f)]
      /\ FactoryOf(s, f) # None
  BY DEF EncodeStep
<1>2. Family(s) # {} /\ f \in Family(s)
  BY <1>1 DEF StepKind
<1>3. f \in DOMAIN Families
  BY <1>2 DEF Family
<1>4. f # "DirectV2" /\ f # "Adapter"
  <2>1. DOMAIN Families = {"classic", "slipstream", "uniswap", "pancake", "v4", "balancer"}
    BY DEF Families
  <2> HIDE DEF f
  <2> QED BY <1>3, <2>1
<1>5. /\ kind = "DirectV2" => f \notin Adapted /\ s.factory = V2Factory
      /\ kind = "Adapter" => f \in Adapted
      /\ ~NeedsHub(kind) => f \notin Adapted /\ Allowed(trusted, f, s.factory)
  BY <1>1, <1>2, <1>4 DEF StepKind, Adapted, NeedsHub
<1> HIDE DEF f, kind
<1> QED BY <1>1, <1>3, <1>5 DEF NeedsHub

\* Allowances are asked for by executors, for tokens and routers of the routes.
LEMMA ApprovalFacts ==
  ASSUME NEW rows \in SUBSET {LateRow}, NEW r \in Routes
  PROVE  /\ Plans(rows)[r].approvals \subseteq Keys
         /\ Plans(rows)[r].encodable => \A e \in Range(Plans(rows)[r].call) :
              NeedsHub(e.kind) \/ <<Plans(rows)[r].executor, e.tin, e.router>> \in Plans(rows)[r].approvals
<1> DEFINE trusted == TrustedFactorySet(rows)
           plan == Plans(rows)[r]
<1>1. plan = [encodable |-> Encodable(trusted, r), executor |-> Executor(trusted, r),
              call |-> Encode(trusted, r),
              approvals |-> IF Encodable(trusted, r) THEN RequiredApprovals(trusted, r) ELSE {}]
  BY DEF Plans
<1> HIDE DEF plan
<1>2. Executor(trusted, r) \in {Settings.exec2, Settings.execMulti, Settings.execAny}
  BY DEF Executor, OrElse
<1>3. ASSUME NEW e \in Range(Encode(trusted, r)), Encodable(trusted, r), ~NeedsHub(e.kind)
      PROVE  <<Executor(trusted, r), e.tin, e.router>> \in Keys
  <2>1. PICK i \in DOMAIN Route[r] : e = EncodeStep(trusted, Route[r][i])
    BY <1>3 DEF Range, Encode
  <2>2. e # None
    BY <1>3 DEF Encodable
  <2>3. PICK f \in DOMAIN Families : e.router = RouterOf(f)
    BY <1>3, <2>1, <2>2, StepFacts
  <2>4. e.tin = Route[r][i].tin
    BY <2>1, <2>2, StepFacts
  <2>5. Route[r][i] \in UNION {Range(Route[q]) : q \in Routes}
    BY DEF Range
  <2> QED BY <1>2, <2>3, <2>4, <2>5 DEF Keys
<1>4. plan.approvals \subseteq Keys
  BY <1>1, <1>3 DEF RequiredApprovals
<1>5. plan.encodable => \A e \in Range(plan.call) :
        NeedsHub(e.kind) \/ <<plan.executor, e.tin, e.router>> \in plan.approvals
  BY <1>1 DEF RequiredApprovals
<1> QED BY <1>4, <1>5 DEF plan

\* A row more is a factory more.
LEMMA TrustGrows ==
  ASSUME NEW rows, NEW more, rows \subseteq more, NEW f \in DOMAIN BuiltIn
  PROVE  /\ TrustedFactorySet(rows)[f] \subseteq TrustedFactorySet(more)[f]
         /\ DOMAIN TrustedFactorySet(rows) = DOMAIN BuiltIn
         /\ BuiltIn[f][1] \in TrustedFactorySet(more)[f]
         /\ Settings.factory[f] # None => Settings.factory[f] \in TrustedFactorySet(more)[f]
BY EncodingAssumption DEF TrustedFactorySet

\* What the executor accepts of an encoded route goes through trusted pools.
LEMMA AcceptedFacts ==
  ASSUME NEW rows \in SUBSET registry, NEW r \in Routes,
         Plans(rows)[r].encodable, NEW executor, NEW keys,
         Accepts(executor, Plans(rows)[r].call, keys),
         NEW e \in Range(Plans(rows)[r].call)
  PROVE  \/ e.kind = "Adapter" /\ e.factory \in {Settings.factory[f] : f \in Adapted}
         \/ /\ <<e.factory, {e.tin, e.tout}, e.fee, e.pool>> \in Known
            /\ \/ e.factory = V2Factory
               \/ \E f \in DOMAIN BuiltIn : e.factory \in TrustedFactorySet(registry)[f]
<1> DEFINE trusted == TrustedFactorySet(rows)
<1>1. Encodable(trusted, r) /\ e \in Range(Encode(trusted, r)) /\ CheckedPool(e)
  BY DEF Plans, Accepts
<1>2. PICK i \in DOMAIN Route[r] : e = EncodeStep(trusted, Route[r][i])
  BY <1>1 DEF Range, Encode
<1>3. e # None
  BY <1>1 DEF Encodable
<1> DEFINE s == Route[r][i]
<1>4. PICK f \in DOMAIN Families :
        /\ e.factory = FactoryOf(s, f) /\ e.factory # None
        /\ e.kind = "DirectV2" => f \notin Adapted /\ s.factory = V2Factory
        /\ e.kind = "Adapter" => f \in Adapted
        /\ ~NeedsHub(e.kind) => f \notin Adapted /\ Allowed(trusted, f, s.factory)
  BY <1>2, <1>3, StepFacts
<1>5. e.pool = s.pool /\ e.pool # None
  BY <1>2, <1>3, StepFacts, PoolsAreNamed
<1> HIDE DEF s
<1>6. CASE e.kind = "Adapter"
  BY <1>4, <1>6 DEF FactoryOf
<1>7. CASE e.kind = "DirectV2"
  <2>1. e.factory = V2Factory
    BY <1>4, <1>7, PoolsAreNamed DEF FactoryOf, OrElse
  <2> QED BY <1>1, <1>7, <2>1 DEF CheckedPool
<1>8. CASE e.kind \notin {"Adapter", "DirectV2"}
  <2>1. f \in DOMAIN BuiltIn /\ Allowed(trusted, f, s.factory) /\ f \notin Adapted
    BY <1>4, <1>8, EncodingAssumption DEF NeedsHub
  <2>2. e.factory = OrElse(s.factory, OrElse(Settings.factory[f], BuiltIn[f][1]))
    BY <1>4, <2>1 DEF FactoryOf
  <2>3. s.factory # None => s.factory \in trusted[f]
    BY <2>1 DEF Allowed
  <2>4. e.factory \in TrustedFactorySet(registry)[f]
    BY <2>1, <2>2, <2>3, TrustGrows DEF OrElse
  <2>5. <<e.factory, {e.tin, e.tout}, e.fee, e.pool>> \in Known
    BY <1>1, <1>4, <1>5, <1>8 DEF CheckedPool
  <2> QED BY <2>1, <2>4, <2>5
<1> QED BY <1>6, <1>7, <1>8
------------------------------------------------------------------------------
(* The process *)

\* What TypeInv says of the constants and of plans.
LEMMA Basics ==
  ASSUME TypeInv
  PROVE  /\ TargetGas \in Nat /\ MinGas \in 1..TargetGas /\ MaxReady \in Nat /\ MaxReady > 0
         /\ Capacity \in Nat /\ Capacity > 0 /\ Slots \in Nat /\ Slots > 0 /\ Gains \subseteq Nat
         /\ sc.batches \subseteq Seq(Routes) /\ sc.live \in BOOLEAN /\ sc.faults \in Nat
         /\ bot.rows \in SUBSET {LateRow}
         /\ \A r : Plan(r) = Plans(bot.rows)[r]
         /\ \A r \in Routes : /\ Plan(r).approvals \subseteq Keys
                              /\ Plan(r).encodable \in BOOLEAN
<1>1. bot.rows \in SUBSET {LateRow}
  BY DEF TypeInv, Bot
<1>2. \A r : Plan(r) = Plans(bot.rows)[r]
  BY <1>1 DEF TypeInv, Plan
<1>3. \A r \in Routes : Plan(r).approvals \subseteq Keys
  BY <1>1, <1>2, ApprovalFacts
<1>4. \A r \in Routes : Plan(r).encodable \in BOOLEAN
  BY <1>2 DEF Plans, Encodable
<1>5. sc \in Scenarios
  BY DEF TypeInv
<1> QED BY <1>1, <1>2, <1>3, <1>4, <1>5, ExecutionAssumption

LEMMA DownFacts ==
  ASSUME NEW cause \in {"none", "node", "busy"}
  PROVE  /\ Down(cause) \in Bot
         /\ Down(cause).pc = "down" /\ Down(cause).rows = {} /\ Down(cause).cache = {}
         /\ Down(cause).todo = <<>> /\ Down(cause).ready = {} /\ Down(cause).done = {}
         /\ Down(cause).sims = {} /\ Down(cause).nonce = 0
BY ExecutionAssumption DEF Down, Bot, PCs, Idling

LEMMA SkippedFacts ==
  ASSUME bot \in Bot, bot.todo # <<>>
  PROVE  /\ Candidate \in Routes /\ Tail(bot.todo) \in Seq(Routes)
         /\ Skipped \in Bot /\ Skipped.pc = "check" /\ Skipped.todo = Tail(bot.todo)
         /\ Skipped.nonce = 0 /\ Skipped.missing = {}
         /\ Skipped.rows = bot.rows /\ Skipped.cache = bot.cache /\ Skipped.ready = bot.ready
         /\ Skipped.done = bot.done /\ Skipped.sims = bot.sims
         /\ \A S : bot.todo \in Seq(S) => Candidate \in S /\ Tail(bot.todo) \in Seq(S)
<1>1. bot.todo \in Seq(Routes)
  BY DEF Bot
<1>2. \A S : bot.todo \in Seq(S) => Head(bot.todo) \in S /\ Tail(bot.todo) \in Seq(S)
  OBVIOUS
<1>3. "check" \in PCs /\ 0 \in 0..(Slots + 1)
  BY ExecutionAssumption DEF PCs
<1>4. Skipped \in Bot
  BY <1>1, <1>2, <1>3 DEF Skipped, Bot
<1>5. /\ Skipped.pc = "check" /\ Skipped.todo = Tail(bot.todo)
      /\ Skipped.nonce = 0 /\ Skipped.missing = {}
      /\ Skipped.rows = bot.rows /\ Skipped.cache = bot.cache /\ Skipped.ready = bot.ready
      /\ Skipped.done = bot.done /\ Skipped.sims = bot.sims
  BY DEF Skipped, Bot
<1> QED BY <1>1, <1>2, <1>4, <1>5 DEF Candidate

\* A process that starts reads the registry, and has nothing else.
LEMMA StartFacts ==
  ASSUME bot \in Bot, Start
  PROVE  /\ bot'.pc \in {"reconcile", "drain"} /\ bot'.rows = registry /\ bot'.cache = bot.cache
         /\ bot'.todo = bot.todo /\ bot'.ready = bot.ready /\ bot'.done = bot.done
         /\ bot'.sims = bot.sims
<1> DEFINE first == IF sc.live THEN "reconcile" ELSE "drain"
<1>1. bot' = [bot EXCEPT !.pc = first, !.rows = registry, !.cause = "none"]
  BY DEF Start
<1>2. first \in {"reconcile", "drain"}
  OBVIOUS
<1> HIDE DEF first
<1> QED BY <1>1, <1>2 DEF Bot

\* Where the fund wallet's steps leave the process.
LEMMA ShiftFacts ==
  ASSUME NEW n \in 0..(Slots + 1)
  PROVE  Shifted(n) \in 0..(Slots + 1) /\ (n > 0 => Shifted(n) = n - 1) /\ (n = 0 => Shifted(n) = 0)
BY ExecutionAssumption DEF Shifted

\* Nobody but the process changes what it does.
Beside == DropFund \/ MineArb \/ LowerAllowance \/ TrustFactory \/ SearcherRecords
          \/ FlushSimulations \/ WebStart \/ Web \/ UNCHANGED vars

LEMMA BesideFacts ==
  ASSUME Beside
  PROVE  /\ bot' = bot /\ sc' = sc /\ plans' = plans /\ lane' = lane /\ abandoned' = abandoned
         /\ MineArb \/ UNCHANGED <<arb, gas, won>>
         /\ TrustFactory \/ registry' = registry
         /\ SearcherRecords \/ opps' = opps
         /\ FlushSimulations \/ simq' = simq
         /\ LowerAllowance \/ UNCHANGED <<allow, lost>>
BY DEF Beside, DropFund, MineArb, LowerAllowance, TrustFactory, SearcherRecords, FlushSimulations,
   WebStart, Web, WebSkip, WebSend, WebFails, vars, fixed, chainVars, dbVars, history, Sends,
   RecordOpportunities

LEMMA NextIsBeside ==
  ASSUME [Next]_vars
  PROVE  Beside \/ MineFund \/ Fault \/ Steps
BY DEF Next, Chain, Beside

\* The process ends only for one of the causes named.
LEMMA RowsKept ==
  ASSUME BatchInv, LaneInv, bot \in Bot, sc.live \in BOOLEAN
  PROVE  /\ bot.pc = "approve" => Candidate \in opps
         /\ Submitting => Best \in bot.sims /\ Best.route \in opps
<1>1. CASE bot.pc = "approve"
  <2>1. sc.live /\ bot.todo \in Seq(opps) /\ bot.todo # <<>>
    BY <1>1 DEF LaneInv, BatchInv
  <2> QED BY <1>1, <2>1 DEF Candidate, Submitting
<1>2. CASE Submitting
  <2>1. sc.live /\ \A s \in bot.sims : s.route \in opps
    BY <1>2 DEF LaneInv, BatchInv, Submitting
  <2>2. Best \in bot.sims
    BY <1>2, BestFacts DEF BatchInv, Submitting
  <2> QED BY <1>2, <2>1, <2>2 DEF Submitting
<1> QED BY <1>1, <1>2

LEMMA MineFundFacts ==
  ASSUME TypeInv, MineFund
  PROVE  /\ bot' \in Bot
         /\ bot'.pc = bot.pc /\ bot'.rows = bot.rows /\ bot'.cache = bot.cache
         /\ bot'.todo = bot.todo /\ bot'.ready = bot.ready /\ bot'.done = bot.done
         /\ bot'.sims = bot.sims /\ bot'.value = bot.value /\ bot'.nonce = Shifted(bot.nonce)
         /\ bot'.mined = (bot.mined \/ (bot.pc = "wait" /\ bot.nonce = 1 /\ pool[1].by = "bot"))
<1> DEFINE new == bot.mined \/ (bot.pc = "wait" /\ bot.nonce = Latest /\ pool[Latest].by = "bot")
<1>1. bot \in Bot /\ Shifted(bot.nonce) \in 0..(Slots + 1) /\ new \in BOOLEAN
  BY ShiftFacts DEF TypeInv, Bot
<1>2. bot' = [bot EXCEPT !.nonce = Shifted(bot.nonce), !.mined = new]
  BY <1>1, Zenon DEF MineFund, Bot
<1> HIDE DEF new
<1>3. /\ bot' \in Bot
      /\ bot'.pc = bot.pc /\ bot'.rows = bot.rows /\ bot'.cache = bot.cache
      /\ bot'.todo = bot.todo /\ bot'.ready = bot.ready /\ bot'.done = bot.done
      /\ bot'.sims = bot.sims /\ bot'.value = bot.value /\ bot'.nonce = Shifted(bot.nonce)
      /\ bot'.mined = new
  BY <1>1, <1>2 DEF Bot
<1> QED BY <1>3 DEF new, Latest

LEMMA BotTyped ==
  ASSUME TypeInv, LaneInv, BatchInv, [Next]_vars
  PROVE  bot' \in Bot
<1>1. bot \in Bot
  BY DEF TypeInv
<1> USE Basics
<1>2. \A pc \in PCs : [bot EXCEPT !.pc = pc] \in Bot
  BY <1>1 DEF Bot
<1>3. PCs = {"down", "select", "reconcile", "fund", "pay", "wait", "drain",
             "check", "admin", "nonce", "approve", "simulate", "submit"}
  BY DEF PCs, Idling
<1>4. \A pc \in PCs : [bot EXCEPT !.pc = pc, !.nonce = Pending] \in Bot
  <2>1. Pending \in 0..(Slots + 1)
    BY PendingFacts
  <2> QED BY <1>1, <2>1 DEF Bot
<1>5. <<>> \in Seq(Routes)
  OBVIOUS
<1>a. CASE Beside
  BY <1>1, <1>a, BesideFacts
<1>b. CASE MineFund
  BY <1>b, MineFundFacts
<1>c. CASE Fault
  BY <1>c, DownFacts DEF Fault, Die
<1>d. CASE Start
  <2>1. registry \in SUBSET {LateRow} /\ "none" \in {"none", "node", "busy"}
    BY DEF TypeInv
  <2> QED BY <1>1, <1>3, <1>d, <2>1 DEF Start, Bot
<1>e. CASE SelectWorker \/ EndBatch
  BY <1>2, <1>3, <1>e DEF SelectWorker, EndBatch
<1>f. CASE ReconcileWorker
  <2>1. CASE Settled.status # "pending" /\ ~(gas >= MinGas)
    <3>1. TargetGas - gas \in 0..TargetGas
      BY <2>1 DEF TypeInv
    <3>2. bot' = [bot EXCEPT !.pc = "fund", !.value = TargetGas - gas]
      BY <1>f, <2>1 DEF ReconcileWorker
    <3> QED BY <1>1, <1>3, <3>1, <3>2 DEF Bot
  <2>2. CASE Settled.status = "pending"
    BY <1>f, <2>2, DownFacts DEF ReconcileWorker, Die
  <2>3. CASE Settled.status # "pending" /\ gas >= MinGas
    BY <1>2, <1>3, <1>f, <2>3 DEF ReconcileWorker
  <2> QED BY <2>1, <2>2, <2>3
<1>g. CASE ReadFundingNonce
  BY <1>3, <1>4, <1>g DEF ReadFundingNonce
<1>h. CASE SendFunding
  BY <1>1, <1>3, <1>h DEF SendFunding, Bot
<1>i. CASE FundingRefused \/ FundingTimesOut
  BY <1>i, DownFacts DEF FundingRefused, FundingTimesOut, Die
<1>j. CASE FundingMined
  <2>1. 0 \in 0..TargetGas /\ 0 \in 0..(Slots + 1)
    OBVIOUS
  <2> QED BY <1>1, <1>3, <1>j, <2>1 DEF FundingMined, Bot
<1>k. ASSUME NEW b \in sc.batches, Drain(b) PROVE bot' \in Bot
  <2> DEFINE first == {b[i] : i \in {j \in DOMAIN b : j <= MaxReady}}
  <2>1. b \in Seq(Routes)
    OBVIOUS
  <2>2. first \in SUBSET Routes
    BY <2>1
  <2>3. bot' = [bot EXCEPT !.pc = "check", !.todo = b] \/ bot' = [bot EXCEPT !.pc = "simulate", !.ready = first]
    BY <1>k DEF Drain
  <2> HIDE DEF first
  <2>4. CASE bot' = [bot EXCEPT !.pc = "check", !.todo = b]
    BY <1>1, <1>3, <2>1, <2>4 DEF Bot
  <2>5. CASE bot' = [bot EXCEPT !.pc = "simulate", !.ready = first]
    BY <1>1, <1>3, <2>2, <2>5 DEF Bot
  <2> QED BY <2>3, <2>4, <2>5
<1>l. CASE SkipUnencodable
  BY <1>1, <1>l, SkippedFacts DEF SkipUnencodable, Checking
<1>m. CASE CheckApprovals
  <2> DEFINE asked == Plan(Candidate).approvals
             missing == MissingApprovals(Candidate)
  <2>1. Candidate \in Routes /\ Tail(bot.todo) \in Seq(Routes)
    BY <1>1, <1>m, SkippedFacts DEF CheckApprovals, Checking
  <2>2. asked \in SUBSET Keys /\ missing \in SUBSET Keys
    BY <2>1 DEF MissingApprovals
  <2>3. \/ bot' = [bot EXCEPT !.cache = bot.cache \cup (asked \cap allow), !.missing = missing,
                    !.pc = IF missing = {} THEN "check" ELSE "admin",
                    !.ready = IF missing = {} THEN bot.ready \cup {Candidate} ELSE bot.ready,
                    !.todo = IF missing = {} THEN Tail(bot.todo) ELSE bot.todo]
        \/ bot' = [bot EXCEPT !.pc = "admin", !.missing = asked]
    BY <1>1, <1>m, Zenon DEF CheckApprovals, Bot
  <2> HIDE DEF asked, missing
  <2> DEFINE cache == bot.cache \cup (asked \cap allow)
             more == bot.ready \cup {Candidate}
  <2>4. cache \in SUBSET Keys /\ more \in SUBSET Routes
    BY <1>1, <2>1, <2>2 DEF Bot
  <2>5. \/ bot' = [bot EXCEPT !.cache = cache, !.missing = missing, !.pc = "check", !.ready = more,
                              !.todo = Tail(bot.todo)]
        \/ bot' = [bot EXCEPT !.cache = cache, !.missing = missing, !.pc = "admin",
                              !.ready = bot.ready, !.todo = bot.todo]
        \/ bot' = [bot EXCEPT !.pc = "admin", !.missing = asked]
    BY <2>3
  <2> HIDE DEF cache, more
  <2>6. CASE bot' = [bot EXCEPT !.cache = cache, !.missing = missing, !.pc = "check", !.ready = more,
                                !.todo = Tail(bot.todo)]
    BY <1>1, <1>3, <2>1, <2>2, <2>4, <2>6 DEF Bot
  <2>7. CASE bot' = [bot EXCEPT !.cache = cache, !.missing = missing, !.pc = "admin",
                                !.ready = bot.ready, !.todo = bot.todo]
    BY <1>1, <1>3, <2>2, <2>4, <2>7 DEF Bot
  <2>8. CASE bot' = [bot EXCEPT !.pc = "admin", !.missing = asked]
    BY <1>1, <1>3, <2>2, <2>8 DEF Bot
  <2> QED BY <2>5, <2>6, <2>7, <2>8
<1>n. CASE AdminPending
  <2>1. bot.todo # <<>>
    BY <1>n DEF AdminPending, BatchInv
  <2> QED BY <1>1, <1>2, <1>3, <1>n, <2>1, SkippedFacts DEF AdminPending
<1>o. CASE ReadApprovalNonce
  <2>1. bot.todo # <<>>
    BY <1>o DEF ReadApprovalNonce, BatchInv
  <2>2. CASE bot' = Skipped
    BY <1>1, <2>1, <2>2, SkippedFacts
  <2>3. CASE bot' = [bot EXCEPT !.pc = "approve", !.nonce = Pending]
    BY <1>3, <1>4, <2>3
  <2> QED BY <1>o, <2>2, <2>3 DEF ReadApprovalNonce
<1>p. CASE SendApproval \/ ApprovalFails
  <2>1. bot.pc = "approve" /\ bot.todo # <<>> /\ Candidate \in opps
    BY <1>1, <1>p, RowsKept DEF SendApproval, ApprovalFails, BatchInv
  <2>2. bot' = Skipped
    BY <1>p, <2>1 DEF SendApproval, ApprovalFails
  <2> QED BY <1>1, <2>1, <2>2, SkippedFacts
<1>q. CASE BeginSimulations
  BY <1>1, <1>3, <1>5, <1>q DEF BeginSimulations, Bot
<1>r. CASE Simulate
  <2>1. PICK r \in bot.ready :
          \/ bot' = [bot EXCEPT !.ready = bot.ready \ {r}, !.done = bot.done \cup {r}]
          \/ \E gain \in Gains :
               bot' = [[bot EXCEPT !.ready = bot.ready \ {r}, !.done = bot.done \cup {r}] EXCEPT
                         !.sims = @ \cup {[route |-> r, gain |-> gain]}]
    BY <1>1, <1>r DEF Simulate, Bot
  <2>2. r \in Routes
    BY <1>1 DEF Bot
  <2> DEFINE next == [bot EXCEPT !.ready = bot.ready \ {r}, !.done = bot.done \cup {r}]
  <2>3. next \in Bot
    BY <1>1, <2>2 DEF Bot
  <2>4. ASSUME NEW gain \in Gains PROVE [next EXCEPT !.sims = @ \cup {[route |-> r, gain |-> gain]}] \in Bot
    <3> HIDE DEF next
    <3> DEFINE sims == next.sims \cup {[route |-> r, gain |-> gain]}
    <3>1. sims \in SUBSET [route : Routes, gain : Gains]
      BY <2>2, <2>3 DEF Bot
    <3>2. [next EXCEPT !.sims = @ \cup {[route |-> r, gain |-> gain]}] = [next EXCEPT !.sims = sims]
      BY <2>3 DEF Bot
    <3> HIDE DEF sims
    <3> QED BY <2>3, <3>1, <3>2 DEF Bot
  <2> QED BY <2>1, <2>3, <2>4
<1>s. CASE EndSimulations
  BY <1>1, <1>3, <1>s DEF EndSimulations, Bot
<1>t. CASE SkipSubmission \/ SubmitBest \/ SubmissionFails
  <2>1. Submitting /\ Best.route \in opps
    BY <1>1, <1>t, RowsKept DEF SkipSubmission, SubmitBest, SubmissionFails
  <2>2. bot' = WithoutBest \/ bot' = [bot EXCEPT !.pc = "select", !.sims = {}]
    BY <1>t, <2>1 DEF SkipSubmission, SubmitBest, SubmissionFails
  <2> DEFINE rest == bot.sims \ {Best}
  <2>3. rest \in SUBSET [route : Routes, gain : Gains] /\ {} \in SUBSET [route : Routes, gain : Gains]
    BY <1>1 DEF Bot
  <2>4. WithoutBest = [bot EXCEPT !.sims = rest]
    BY <1>1 DEF WithoutBest, Bot
  <2> HIDE DEF rest
  <2>5. WithoutBest \in Bot
    BY <1>1, <2>3, <2>4 DEF Bot
  <2>6. [bot EXCEPT !.pc = "select", !.sims = {}] \in Bot
    BY <1>1, <1>3, <2>3 DEF Bot
  <2> QED BY <2>2, <2>5, <2>6
<1> QED
  BY <1>a, <1>b, <1>c, <1>d, <1>e, <1>f, <1>g, <1>h, <1>i, <1>j, <1>k, <1>l, <1>m, <1>n, <1>o, <1>p,
     <1>q, <1>r, <1>s, <1>t, NextIsBeside DEF Steps, Worker, Preflight, Submission

------------------------------------------------------------------------------
(* The fund wallet's transactions *)

\* One transaction takes a slot, or one is forgotten.
Puts(n, tx) == n \in 1..Slots /\ pool' = [pool EXCEPT ![n] = tx]

LEMMA WebTxFacts ==
  ASSUME NEW item
  PROVE  WebTx(item).by = "web" /\ WebTx(item).does \in {"map", "approve"}
BY DEF WebTx, MapTx, ApproveTx

\* Who moves the wallet's transactions.
LEMMA PoolMoves ==
  ASSUME TypeInv, [Next]_vars
  PROVE  \/ pool' = pool
         \/ MineFund
         \/ SendFunding /\ Puts(bot.nonce, GasTx(bot.value))
         \/ SendApproval /\ \E key : Puts(bot.nonce, ApproveTx("bot", key))
         \/ WebSend /\ \E item : Puts(web.nonce, WebTx(item))
         \/ DropFund /\ \E n \in 1..Slots : Puts(n, NoTx)
<1> USE DEF Puts
<1>1. CASE Beside
  <2>1. CASE WebSend
    BY <2>1 DEF WebSend, Sends, Latest
  <2>2. CASE DropFund
    BY <2>2 DEF DropFund
  <2>3. CASE ~WebSend /\ ~DropFund
    BY <1>1, <2>3 DEF Beside, MineArb, LowerAllowance, TrustFactory, SearcherRecords, FlushSimulations,
       WebStart, Web, WebSkip, WebFails, vars, fixed, chainVars
  <2> QED BY <2>1, <2>2, <2>3
<1>2. CASE Fault \/ Start
  BY <1>2 DEF Fault, Start, chainVars
<1>3. CASE SendFunding
  BY <1>3 DEF SendFunding, Sends, Latest
<1>4. CASE SendApproval
  BY <1>4 DEF SendApproval, Sends, Latest
<1>5. CASE Worker /\ ~SendFunding
  BY <1>5 DEF Worker, SelectWorker, ReconcileWorker, ReadFundingNonce, FundingRefused, FundingMined,
     FundingTimesOut, chainVars
<1>6. CASE \E b \in sc.batches : Drain(b)
  BY <1>6 DEF Drain, chainVars
<1>7. CASE Preflight /\ ~SendApproval
  BY <1>7 DEF Preflight, SkipUnencodable, CheckApprovals, AdminPending, ReadApprovalNonce, ApprovalFails,
     BeginSimulations, chainVars
<1>8. CASE Submission
  BY <1>8 DEF Submission, Simulate, EndSimulations, SkipSubmission, SubmitBest, SubmissionFails, EndBatch,
     chainVars
<1> QED BY <1>1, <1>2, <1>3, <1>4, <1>5, <1>6, <1>7, <1>8, NextIsBeside DEF Steps

\* The slots after a transaction has been mined.
LEMMA MinedFacts ==
  ASSUME TypeInv, MineFund
  PROVE  /\ pool[1] # NoTx /\ Slots \in Nat /\ Slots > 0
         /\ pool' = [n \in 1..Slots |-> pool'[n]]
         /\ pool'[Slots] = NoTx
         /\ \A n \in 1..Slots : n + 1 \in 1..Slots => pool'[n] = pool[n + 1]
         /\ gas' = gas + InFlight(1)
BY ExecutionAssumption DEF MineFund, TypeInv, InFlight, Latest

LEMMA PutFacts ==
  ASSUME TypeInv, NEW n, NEW tx, Puts(n, tx)
  PROVE  /\ pool' = [k \in 1..Slots |-> pool'[k]] /\ n \in 1..Slots
         /\ pool'[n] = tx
         /\ \A k \in 1..Slots : k # n => pool'[k] = pool[k]
BY DEF Puts, TypeInv

GasTxs == [by : {"bot"}, does : {"gas"}, value : Nat]

LEMMA GasFacts ==
  ASSUME NEW value \in Nat
  PROVE  /\ GasTx(value) \in GasTxs /\ IsGas(GasTx(value)) /\ GasTx(value) # NoTx
         /\ GasTx(value).by = "bot" /\ GasTx(value).value = value
BY DEF GasTx, GasTxs, IsGas, NoTx

LEMMA PoolTyped ==
  ASSUME TypeInv, [Next]_vars
  PROVE  /\ pool' = [n \in 1..Slots |-> pool'[n]]
         /\ \A n \in 1..Slots : IsGas(pool'[n]) => pool'[n] \in GasTxs
<1>0. /\ pool = [n \in 1..Slots |-> pool[n]]
      /\ \A n \in 1..Slots : IsGas(pool[n]) => pool[n] \in GasTxs
  BY DEF TypeInv, GasTxs
<1>1. ASSUME NEW k, NEW tx, Puts(k, tx), IsGas(tx) => tx \in GasTxs
      PROVE  /\ pool' = [n \in 1..Slots |-> pool'[n]]
             /\ \A n \in 1..Slots : IsGas(pool'[n]) => pool'[n] \in GasTxs
  BY <1>0, <1>1, PutFacts
<1>2. CASE pool' = pool
  BY <1>0, <1>2
<1>3. CASE MineFund
  <2>1. \A n \in 1..Slots : IsGas(pool'[n]) => n + 1 \in 1..Slots
    BY <1>3, MinedFacts DEF IsGas, NoTx
  <2> QED BY <1>0, <1>3, <2>1, MinedFacts
<1>4. bot.value \in Nat
  BY DEF TypeInv, Bot
<1>5. ~IsGas(NoTx)
  BY DEF IsGas, NoTx
<1>6. \A item : ~IsGas(WebTx(item))
  BY WebTxFacts DEF IsGas
<1>7. \A key : ~IsGas(ApproveTx("bot", key))
  BY DEF IsGas, ApproveTx
<1> QED BY <1>1, <1>2, <1>3, <1>4, <1>5, <1>6, <1>7, GasFacts, PoolMoves

------------------------------------------------------------------------------
(* Types *)

\* Who writes what.
LEMMA Changes ==
  ASSUME [Next]_vars
  PROVE  /\ sc' = sc /\ plans' = plans
         /\ TrustFactory \/ registry' = registry
         /\ Fails \/ faults' = faults
         /\ MineFund \/ MineArb \/ gas' = gas
         /\ Fault \/ FundingTimesOut \/ abandoned' = abandoned
         /\ SelectWorker \/ ReconcileWorker \/ FundingMined \/ SubmitBest \/ SubmissionFails \/ lane' = lane
         /\ MineArb \/ SelectWorker \/ ReconcileWorker \/ SubmitBest \/ arb' = arb
         /\ MineArb \/ won' = won
         /\ (\E b \in sc.batches : Drain(b)) \/ SearcherRecords \/ opps' = opps
         /\ MineFund \/ WebStart \/ Web \/ web' = web
         /\ MineFund \/ LowerAllowance \/ UNCHANGED <<allow, lost>>
<1> USE DEF vars, fixed, chainVars, dbVars, history
<1>1. CASE Beside
  BY <1>1 DEF Beside, DropFund, MineArb, LowerAllowance, TrustFactory, SearcherRecords, FlushSimulations,
     WebStart, Web, WebSkip, WebSend, WebFails
<1>2. CASE MineFund \/ Fault \/ Start
  BY <1>2 DEF MineFund, Fault, Start
<1>3. CASE Worker
  BY <1>3 DEF Worker, SelectWorker, ReconcileWorker, ReadFundingNonce, SendFunding, FundingRefused,
     FundingMined, FundingTimesOut
<1>4. CASE \E b \in sc.batches : Drain(b)
  BY <1>4 DEF Drain
<1>5. CASE Preflight
  BY <1>5 DEF Preflight, SkipUnencodable, CheckApprovals, AdminPending, ReadApprovalNonce, SendApproval,
     ApprovalFails, BeginSimulations
<1>6. CASE Submission
  BY <1>6 DEF Submission, Simulate, EndSimulations, SkipSubmission, SubmitBest, SubmissionFails, EndBatch
<1> QED BY <1>1, <1>2, <1>3, <1>4, <1>5, <1>6, NextIsBeside DEF Steps

LEMMA TypeStep ==
  ASSUME TypeInv, LaneInv, BatchInv, [Next]_vars
  PROVE  TypeInv'
<1>0. bot \in Bot /\ bot' \in Bot /\ lane \in Lane /\ gas \in Nat /\ abandoned \in Nat
  BY BotTyped DEF TypeInv
<1>1. bot.value \in 0..TargetGas /\ TargetGas \in Nat
  BY <1>0, Basics DEF Bot
<1>3. registry' \in SUBSET {LateRow}
  BY Changes DEF TrustFactory, TypeInv
<1>4. faults' \in 0..sc.faults
  BY Changes, Basics DEF Fails, TypeInv
<1>5. gas' \in Nat
  <2>2. CASE MineFund
    <3>1. 1 \in 1..Slots /\ gas' = gas + InFlight(1)
      BY <2>2, MinedFacts
    <3>2. InFlight(1) \in Nat
      BY <3>1 DEF TypeInv, InFlight, IsGas
    <3> QED BY <1>0, <3>1, <3>2
  <2>3. CASE MineArb
    BY <1>0, <2>3 DEF MineArb, LaneInv
  <2> QED BY <1>0, <2>2, <2>3, Changes
<1>6. abandoned' \in Nat
  <2>1. abandoned' \in {abandoned, abandoned + bot.value}
    BY Changes DEF Fault, FundingTimesOut
  <2> QED BY <1>0, <1>1, <2>1
<1>7. lane' \in Lane
  <2>2. Settled \in Lane /\ [status |-> "idle", balance |-> gas] \in Lane
    BY <1>0 DEF Settled, Lane
  <2>3. CASE SelectWorker \/ ReconcileWorker \/ FundingMined
    BY <2>2, <2>3 DEF SelectWorker, ReconcileWorker, FundingMined
  <2>4. CASE SubmitBest \/ SubmissionFails
    BY <1>0, <2>4 DEF SubmitBest, SubmissionFails, Lane
  <2> QED BY <1>0, <2>3, <2>4, Changes
<1>8. opps' \subseteq Routes
  <2>2. CASE \E b \in sc.batches : Drain(b)
    BY <2>2, Basics DEF Drain, Range
  <2>3. CASE SearcherRecords
    <3>1. Range(bot.todo) \cup bot.ready \cup bot.done \subseteq Routes
      BY <1>0 DEF Bot, Range
    <3> QED BY <2>3, <3>1 DEF SearcherRecords, RecordOpportunities, TypeInv
  <2> QED BY <2>2, <2>3, Changes DEF TypeInv
<1>9. web' = [nonce |-> web'.nonce, todo |-> web'.todo] /\ web'.nonce \in 0..(Slots + 2)
  <2>0. web = [nonce |-> web.nonce, todo |-> web.todo] /\ web.nonce \in 0..(Slots + 2)
        /\ Slots \in Nat /\ Slots > 0
    BY Basics DEF TypeInv
  <2>2. CASE MineFund
    <3>1. web' = [web EXCEPT !.nonce = Shifted(web.nonce)]
      BY <2>0, <2>2 DEF MineFund
    <3>2. Shifted(web.nonce) \in 0..(Slots + 2)
      BY <2>0 DEF Shifted
    <3>3. web' = [nonce |-> Shifted(web.nonce), todo |-> web.todo]
      BY <2>0, <3>1
    <3> QED BY <3>2, <3>3
  <2>3. CASE WebStart
    <3>1. \E items : web' = [nonce |-> Pending, todo |-> items]
      BY <2>3 DEF WebStart
    <3>2. Pending \in 0..(Slots + 2)
      BY <2>0, PendingFacts
    <3> QED BY <3>1, <3>2
  <2>4. CASE Web
    BY <2>0, <2>4 DEF Web, WebSkip, WebSend, WebFails, WebIdle, Sends, Latest
  <2> QED BY <2>0, <2>2, <2>3, <2>4, Changes
<1>10. \A n \in 1..Slots : IsGas(pool'[n]) => pool'[n] \in [by : {"bot"}, does : {"gas"}, value : Nat]
  BY PoolTyped DEF GasTxs
<1> QED
  BY <1>0, <1>3, <1>4, <1>5, <1>6, <1>7, <1>8, <1>9, <1>10, Changes, PoolTyped DEF TypeInv, IsGas

------------------------------------------------------------------------------
(* The worker's lane *)

LEMMA SettledFacts ==
  ASSUME TypeInv, LaneInv
  PROVE  LET free == IF Settled # lane THEN None ELSE arb IN
         /\ Settled \in Lane
         /\ Settled.status = "pending" => Settled = lane /\ free = arb
         /\ Settled.status # "pending" => free = None /\ Settled.balance <= gas
<1>1. lane \in Lane /\ gas \in Nat
  BY DEF TypeInv
<1>2. CASE lane.status = "pending" /\ arb.mined
  <2>1. Settled = [status |-> "idle", balance |-> gas]
    BY <1>2 DEF Settled
  <2> QED BY <1>1, <1>2, <2>1 DEF Lane
<1>3. CASE ~(lane.status = "pending" /\ arb.mined)
  <2>1. Settled = lane
    BY <1>3 DEF Settled
  <2> QED BY <1>1, <2>1 DEF LaneInv
<1> QED BY <1>2, <1>3

\* The transaction the lane follows is one of an encoded route.
Follows(tx, known) ==
  /\ \E rows \in SUBSET known, r \in Routes :
       /\ Plans(rows)[r].encodable
       /\ tx = [executor |-> Plans(rows)[r].executor, call |-> Plans(rows)[r].call, mined |-> tx.mined]
  /\ tx.mined \in BOOLEAN

LEMMA FollowsFacts ==
  ASSUME TypeInv, NEW known \in SUBSET {LateRow}, NEW tx, Follows(tx, known)
  PROVE  tx # None
<1>1. PICK rows \in SUBSET known, r \in Routes :
        tx = [executor |-> Plans(rows)[r].executor, call |-> Plans(rows)[r].call, mined |-> tx.mined]
  BY DEF Follows
<1>2. rows \in SUBSET {LateRow} /\ tx.mined \in BOOLEAN
  BY DEF TypeInv, Follows
<1> QED BY <1>1, <1>2, NoneIsNothing

LEMMA RegistryGrows ==
  ASSUME [Next]_vars
  PROVE  registry \subseteq registry' /\ \A tx : Follows(tx, registry) => Follows(tx, registry')
BY Changes DEF TrustFactory, Follows

LEMMA LaneStep ==
  ASSUME TypeInv, TypeInv', LaneInv, BatchInv, NonceInv, [Next]_vars
  PROVE  LaneInv'
<1>0. /\ sc' = sc /\ sc.live \in BOOLEAN /\ MinGas \in 1..TargetGas /\ TargetGas \in Nat /\ gas \in Nat
      /\ bot \in Bot /\ lane \in Lane /\ bot.value \in Nat
  <2>1. bot \in Bot /\ lane \in Lane /\ gas \in Nat
    BY DEF TypeInv
  <2>2. bot.value \in 0..TargetGas
    BY <2>1 DEF Bot
  <2> QED BY <2>1, <2>2, Changes, Basics
<1>1. PCs = {"down", "select", "reconcile", "fund", "pay", "wait", "drain",
             "check", "admin", "nonce", "approve", "simulate", "submit"} /\ bot.pc \in PCs
  BY DEF PCs, Idling, TypeInv, Bot
<1>2. arb # None => Follows(arb, registry) /\ (arb.mined \/ gas > 0)
  BY DEF LaneInv, Follows
<1>3. arb # None => Follows(arb, registry')
  BY <1>2, RegistryGrows
<1> DEFINE Held == /\ (lane'.status = "pending") <=> (arb' # None)
                   /\ arb' # None => Follows(arb', registry') /\ (arb'.mined \/ gas' > 0)
                   /\ lane'.status # "pending" => lane'.balance <= gas'
           Ready1 == /\ ~sc.live => bot'.pc \in {"down", "drain", "simulate"}
                     /\ sc.live /\ bot'.pc \notin {"down", "select", "reconcile"} => arb' = None
                     /\ sc.live /\ bot'.pc \in (PCs \ Idling) \cup {"drain"} => gas' >= MinGas
                     /\ bot'.pc \in {"fund", "pay", "wait"} =>
                          IF bot'.pc = "wait" /\ bot'.mined THEN gas' >= TargetGas
                          ELSE gas' + bot'.value >= TargetGas
<1>4. SUFFICES Held /\ Ready1
  BY <1>0 DEF LaneInv, Follows
<1>5. ASSUME UNCHANGED <<lane, arb, gas>> PROVE Held
  BY <1>2, <1>3, <1>5 DEF LaneInv
<1>6. CASE Beside /\ ~MineArb
  <2>1. UNCHANGED <<bot, arb, gas, lane>>
    BY <1>6, BesideFacts
  <2> QED BY <1>0, <1>5, <2>1 DEF LaneInv
<1>7. CASE MineArb
  <2>1. /\ arb # None /\ ~arb.mined /\ gas' = gas - 1 /\ lane' = lane /\ bot' = bot
        /\ arb' = [arb EXCEPT !.mined = TRUE]
    BY <1>7 DEF MineArb, dbVars
  <2>2. Follows(arb', registry') /\ arb'.mined = TRUE
    <3>1. PICK rows \in SUBSET registry', r \in Routes :
            /\ Plans(rows)[r].encodable
            /\ arb = [executor |-> Plans(rows)[r].executor, call |-> Plans(rows)[r].call, mined |-> arb.mined]
      BY <1>3, <2>1 DEF Follows
    <3> DEFINE x == Plans(rows)[r].executor
               y == Plans(rows)[r].call
               m == arb.mined
    <3>2. arb' = [executor |-> x, call |-> y, mined |-> TRUE]
      <4>1. arb = [executor |-> x, call |-> y, mined |-> m] /\ arb' = [arb EXCEPT !.mined = TRUE]
        BY <2>1, <3>1
      <4> HIDE DEF x, y, m
      <4> QED BY <4>1
    <3>3. arb'.mined = TRUE
      BY <3>2
    <3> QED BY <3>1, <3>2, <3>3 DEF Follows
  <2>3. arb' # None
    BY <2>2, FollowsFacts DEF TypeInv
  <2>4. gas > 0 /\ lane.status = "pending"
    BY <1>2, <2>1 DEF LaneInv
  <2>5. bot.pc \in IF sc.live THEN {"down", "select", "reconcile"} ELSE {"down", "drain", "simulate"}
    BY <1>0, <1>1, <2>1 DEF LaneInv
  <2>6. Held
    <3>1. lane'.status = "pending" /\ arb' # None
      BY <2>1, <2>3, <2>4
    <3>2. Follows(arb', registry') /\ (arb'.mined \/ gas' > 0)
      <4> HIDE DEF Follows
      <4> QED BY <2>2
    <3> HIDE DEF Follows
    <3> QED BY <3>1, <3>2
  <2>7. Ready1
    BY <1>0, <2>1, <2>5 DEF Idling
  <2> QED BY <2>6, <2>7
<1>8. CASE MineFund
  <2>1. /\ UNCHANGED <<lane, arb>> /\ gas' = gas + InFlight(1) /\ 1 \in 1..Slots
        /\ bot'.pc = bot.pc /\ bot'.value = bot.value
        /\ bot'.mined = (bot.mined \/ (bot.pc = "wait" /\ bot.nonce = 1 /\ pool[1].by = "bot"))
    BY <1>8, MineFundFacts, MinedFacts DEF MineFund, dbVars
  <2>2. InFlight(1) \in Nat
    BY <2>1 DEF TypeInv, InFlight, IsGas
  <2>3. bot.pc = "wait" /\ ~bot.mined /\ bot'.mined => gas' = gas + bot.value
    <3>1. SUFFICES ASSUME bot.pc = "wait", ~bot.mined, bot'.mined PROVE InFlight(1) = bot.value
      BY <2>1
    <3>2. bot.nonce = 1 /\ Ours(1)
      BY <1>8, <2>1, <3>1, MinedFacts DEF Ours, TypeInv, Bot
    <3>3. pool[1] = GasTx(bot.value)
      BY <2>1, <3>1, <3>2 DEF NonceInv
    <3> QED BY <1>0, <3>3, GasFacts DEF InFlight, IsGas
  <2>4. lane.balance \in Nat
    BY <1>0 DEF Lane
  <2>5. Held
    BY <1>0, <1>2, <1>3, <2>1, <2>2, <2>4 DEF LaneInv
  <2>6. Ready1
    BY <1>0, <2>1, <2>2, <2>3 DEF LaneInv
  <2> QED BY <2>5, <2>6
<1>9. CASE Fault \/ FundingRefused \/ FundingTimesOut
  <2>1. UNCHANGED <<lane, arb, gas>> /\ bot'.pc = "down"
    BY <1>9, DownFacts DEF Fault, FundingRefused, FundingTimesOut, Die, chainVars
  <2> QED BY <1>5, <2>1 DEF Idling
<1>10. CASE Start
  <2>1. UNCHANGED <<lane, arb, gas>> /\ bot'.pc = IF sc.live THEN "reconcile" ELSE "drain"
    BY <1>0, <1>10 DEF Start, chainVars, dbVars, Bot
  <2> QED BY <1>5, <2>1 DEF Idling
<1> DEFINE free == IF Settled # lane THEN None ELSE arb
<1>11. CASE SelectWorker
  <2>1. /\ lane' = Settled /\ arb' = free /\ gas' = gas /\ sc.live
        /\ bot'.pc = IF Ready(Settled) THEN "drain" ELSE "reconcile"
    BY <1>0, <1>11 DEF SelectWorker, LaneInv, Bot
  <2> HIDE DEF free
  <2> QED BY <1>0, <1>2, <1>3, <2>1, SettledFacts DEF LaneInv, Ready, Lane, Idling, free
<1>12. CASE ReconcileWorker
  <2>1. arb' = free /\ gas' = gas /\ sc.live
    BY <1>12 DEF ReconcileWorker, LaneInv
  <2>2. CASE Settled.status = "pending"
    <3>1. lane' = lane /\ arb' = arb /\ bot'.pc = "down"
      BY <1>12, <2>1, <2>2, SettledFacts, DownFacts DEF ReconcileWorker, Die
    <3> QED BY <1>5, <2>1, <3>1 DEF Idling
  <2>3. CASE Settled.status # "pending" /\ gas >= MinGas
    <3>1. lane' = [status |-> "idle", balance |-> gas] /\ bot'.pc = "drain" /\ arb' = None
      BY <1>0, <1>12, <2>1, <2>3, SettledFacts DEF ReconcileWorker, Bot
    <3> QED BY <1>0, <2>1, <2>3, <3>1 DEF Idling
  <2>4. CASE Settled.status # "pending" /\ ~(gas >= MinGas)
    <3>1. lane' = Settled /\ bot'.pc = "fund" /\ bot'.value = TargetGas - gas /\ arb' = None
      BY <1>0, <1>12, <2>1, <2>4, SettledFacts DEF ReconcileWorker, Bot
    <3> QED BY <1>0, <2>1, <2>4, <3>1, SettledFacts DEF Idling
  <2> QED BY <2>2, <2>3, <2>4
<1>13. CASE ReadFundingNonce \/ SendFunding
  <2>1. /\ UNCHANGED <<lane, arb, gas>> /\ sc.live /\ bot.pc \in {"fund", "pay"} /\ bot'.value = bot.value
        /\ bot'.pc = "pay" \/ (bot'.pc = "wait" /\ bot'.mined = FALSE)
    BY <1>0, <1>13 DEF ReadFundingNonce, SendFunding, chainVars, dbVars, LaneInv, Bot
  <2> QED BY <1>0, <1>5, <2>1 DEF LaneInv, Idling
<1>14. CASE FundingMined
  <2>1. /\ UNCHANGED <<arb, gas>> /\ sc.live /\ bot.pc = "wait" /\ bot.mined /\ bot'.pc = "drain"
        /\ lane' = [status |-> "idle", balance |-> gas]
    BY <1>0, <1>14 DEF FundingMined, chainVars, dbVars, LaneInv, Bot
  <2> QED BY <1>0, <2>1 DEF LaneInv, Idling
<1>15. CASE (\E b \in sc.batches : Drain(b)) \/ EndSimulations
  <2>1. UNCHANGED <<lane, arb, gas>> /\ bot.pc \in {"drain", "simulate"}
    BY <1>15 DEF Drain, EndSimulations, chainVars, dbVars
  <2>2. bot'.pc \in IF sc.live THEN {"check", "submit"} ELSE {"simulate", "drain"}
    BY <1>0, <1>15 DEF Drain, EndSimulations, Bot
  <2> QED BY <1>0, <1>1, <1>5, <2>1, <2>2 DEF LaneInv, Idling
<1>16. CASE Preflight
  <2>1. UNCHANGED <<lane, arb, gas>> /\ bot.pc \in {"check", "admin", "nonce", "approve"}
    BY <1>16 DEF Preflight, SkipUnencodable, CheckApprovals, AdminPending, ReadApprovalNonce, SendApproval,
       ApprovalFails, BeginSimulations, chainVars, dbVars, Checking
  <2>2. sc.live /\ arb = None /\ gas >= MinGas
    BY <1>1, <2>1 DEF LaneInv, Idling
  <2>3. bot'.pc \in {"down", "check", "admin", "nonce", "approve", "simulate"}
    <3>1. CASE bot' = Skipped \/ (\E cause : bot' = Down(cause))
      <4>1. Skipped.pc = "check"
        BY <1>0 DEF Skipped, Bot
      <4>2. \A cause : Down(cause).pc = "down"
        BY DEF Down
      <4> QED BY <3>1, <4>1, <4>2
    <3>2. CASE CheckApprovals
      BY <1>0, <3>2 DEF CheckApprovals, Bot
    <3>3. CASE BeginSimulations \/ \E n : bot' = [bot EXCEPT !.pc = "approve", !.nonce = n]
      BY <1>0, <3>3 DEF BeginSimulations, Bot
    <3>4. CASE bot' = [bot EXCEPT !.pc = "nonce"]
      BY <1>0, <3>4 DEF Bot
    <3> QED
      BY <1>16, <3>1, <3>2, <3>3, <3>4 DEF Preflight, SkipUnencodable, AdminPending, ReadApprovalNonce,
         SendApproval, ApprovalFails, Die
  <2> QED BY <1>0, <1>1, <1>5, <2>1, <2>2, <2>3 DEF Idling
<1>17. CASE Simulate
  <2>1. UNCHANGED <<lane, arb, gas>> /\ bot'.pc = bot.pc /\ bot.pc = "simulate"
    BY <1>0, <1>17 DEF Simulate, chainVars, dbVars, Bot
  <2> QED BY <1>0, <1>5, <2>1 DEF LaneInv
<1>18. CASE SkipSubmission \/ EndBatch
  <2>1. /\ UNCHANGED <<lane, arb, gas>> /\ bot.pc = "submit"
        /\ bot'.pc \in {"submit", "select"}
    BY <1>0, <1>18 DEF SkipSubmission, EndBatch, Submitting, WithoutBest, chainVars, dbVars, Bot
  <2> QED BY <1>0, <1>1, <1>5, <2>1 DEF LaneInv, Idling
<1>19. CASE SubmitBest \/ SubmissionFails
  <2>1. /\ bot.pc = "submit" /\ sc.live /\ arb = None /\ gas >= MinGas
        /\ Best \in bot.sims /\ Best.route \in opps /\ gas' = gas
    <3>1. Submitting /\ gas' = gas
      BY <1>19 DEF SubmitBest, SubmissionFails, chainVars
    <3> QED BY <1>0, <1>1, <3>1, RowsKept DEF LaneInv, Idling, Submitting
  <2>2. CASE SubmitBest
    <3>1. /\ arb' = [executor |-> Plan(Best.route).executor, call |-> Plan(Best.route).call, mined |-> FALSE]
          /\ lane' = [lane EXCEPT !.status = "pending"] /\ bot'.pc = "select"
      BY <1>0, <2>1, <2>2 DEF SubmitBest, Bot
    <3>2. Best.route \in Routes /\ Plan(Best.route).encodable
      BY <1>0, <2>1 DEF Bot, BatchInv
    <3>3. bot.rows \in SUBSET registry' /\ Plan(Best.route) = Plans(bot.rows)[Best.route]
      BY Basics, RegistryGrows DEF BatchInv
    <3>4. arb'.mined \in BOOLEAN /\ arb'.mined = FALSE
      BY <3>1
    <3>5. Follows(arb', registry')
      BY <3>1, <3>2, <3>3, <3>4 DEF Follows
    <3>6. arb' # None
      BY <3>5, FollowsFacts DEF TypeInv
    <3>7. lane'.status = "pending"
      BY <1>0, <3>1 DEF Lane
    <3> QED BY <1>0, <2>1, <3>1, <3>5, <3>6, <3>7 DEF Idling
  <2>3. CASE SubmissionFails
    <3>1. arb' = None /\ lane'.status = "cooldown" /\ lane'.balance = lane.balance /\ bot'.pc = "submit"
      BY <1>0, <2>1, <2>3 DEF SubmissionFails, WithoutBest, chainVars, Lane, Bot
    <3> QED BY <1>0, <2>1, <3>1 DEF LaneInv, Idling
  <2> QED BY <1>19, <2>2, <2>3
<1> QED
  BY <1>6, <1>7, <1>8, <1>9, <1>10, <1>11, <1>12, <1>13, <1>14, <1>15, <1>16, <1>17, <1>18, <1>19,
     NextIsBeside DEF Steps, Worker, Submission

------------------------------------------------------------------------------
(* The batch *)

\* BatchInv, of the process in a state b that knows these rows, with these opportunities.
Batch(b, known, kept) ==
  /\ b.rows \subseteq known
  /\ b.pc \in Idling => b.todo = <<>> /\ b.ready = {} /\ b.done = {} /\ b.sims = {}
  /\ b.pc = "simulate" => b.todo = <<>>
  /\ b.pc = "submit" => b.todo = <<>> /\ b.ready = {} /\ b.done = {}
  /\ b.pc \in {"admin", "nonce", "approve"} => b.todo # <<>> /\ Cardinality(b.ready) < MaxReady
  /\ IsFiniteSet(b.ready) /\ Cardinality(b.ready) <= MaxReady /\ IsFiniteSet(b.sims)
  /\ \A s \in b.sims : plans[b.rows][s.route].encodable
  /\ sc.live => /\ b.todo \in Seq(kept) /\ b.ready \cup b.done \subseteq kept
                /\ \A s \in b.sims : s.route \in kept

LEMMA BatchGrows ==
  ASSUME NEW b, NEW known, NEW kept, Batch(b, known, kept), NEW k, known \subseteq k,
         NEW o, kept \subseteq o
  PROVE  Batch(b, k, o)
<1>1. \A todo : todo \in Seq(kept) => todo \in Seq(o)
  BY SeqMonotonic
<1> QED BY <1>1 DEF Batch

LEMMA IdleBatch ==
  ASSUME NEW b, NEW known, NEW kept, b.rows \subseteq known, b.pc \in Idling,
         b.todo = <<>>, b.ready = {}, b.done = {}, b.sims = {}, TypeInv
  PROVE  Batch(b, known, kept)
<1>1. IsFiniteSet({}) /\ Cardinality({}) = 0 /\ MaxReady \in Nat
  BY Basics, FS_EmptySet
<1>2. <<>> \in Seq(kept)
  OBVIOUS
<1>3. b.pc \notin {"simulate", "submit", "admin", "nonce", "approve"}
  BY DEF Idling
<1> QED BY <1>1, <1>2, <1>3 DEF Batch

\* The first candidates of a batch.
LEMMA FirstFacts ==
  ASSUME NEW b \in Seq(Routes), MaxReady \in Nat
  PROVE  LET first == {b[i] : i \in {j \in DOMAIN b : j <= MaxReady}} IN
         IsFiniteSet(first) /\ Cardinality(first) <= MaxReady
<1> DEFINE S == {j \in DOMAIN b : j <= MaxReady}
           f == [i \in S |-> b[i]]
           image == {f[x] : x \in S}
<1>1. IsFiniteSet(1..MaxReady) /\ Cardinality(1..MaxReady) = MaxReady
  BY FS_Interval
<1>2. S \subseteq 1..MaxReady
  OBVIOUS
<1>3. IsFiniteSet(S) /\ Cardinality(S) <= MaxReady /\ Cardinality(S) \in Nat
  BY <1>1, <1>2, FS_Subset, FS_CardinalityType
<1>4. DOMAIN f = S /\ image = {b[i] : i \in S}
  OBVIOUS
<1>5. IsFiniteSet(image) /\ Cardinality(image) <= Cardinality(S)
  <2> HIDE DEF f, S
  <2> QED BY <1>3, <1>4, ImageFacts
<1>6. Cardinality(image) \in Nat
  BY <1>5, FS_CardinalityType
<1> HIDE DEF f, image
<1> QED BY <1>3, <1>4, <1>5, <1>6

LEMMA BatchStep ==
  ASSUME TypeInv, TypeInv', LaneInv, BatchInv, [Next]_vars
  PROVE  BatchInv'
<1>0. /\ sc' = sc /\ plans' = plans /\ bot \in Bot /\ bot' \in Bot /\ sc.live \in BOOLEAN
      /\ registry \subseteq registry' /\ bot.rows \in SUBSET {LateRow} /\ bot'.rows \in SUBSET {LateRow}
      /\ MaxReady \in Nat /\ MaxReady > 0
  <2>1. bot \in Bot /\ bot' \in Bot
    BY DEF TypeInv
  <2>2. bot'.rows \in SUBSET {LateRow}
    BY <2>1 DEF Bot
  <2> QED BY <2>1, <2>2, Basics, Changes, RegistryGrows
<1>1. \A r : Plan(r) = plans[bot.rows][r] /\ Plan(r)' = plans[bot'.rows][r]
  BY <1>0 DEF Plan
<1>2. Batch(bot, registry, opps)
  BY <1>1 DEF BatchInv, Batch
<1>3. SUFFICES Batch(bot', registry', opps')
  BY <1>0, <1>1 DEF BatchInv, Batch
<1> DEFINE Settles == /\ bot'.pc \in Idling /\ bot'.rows \subseteq registry'
                      /\ bot'.todo = <<>> /\ bot'.ready = {} /\ bot'.done = {} /\ bot'.sims = {}
<1>4. ASSUME Settles PROVE Batch(bot', registry', opps')
  BY <1>4, IdleBatch
<1>5. ASSUME NEW cause \in {"none", "node", "busy"}, bot' = Down(cause) PROVE Batch(bot', registry', opps')
  <2>1. Settles
    BY <1>5, DownFacts DEF Idling
  <2> QED BY <1>4, <2>1
<1>6. ASSUME Batch(bot', registry, opps), opps \subseteq opps' PROVE Batch(bot', registry', opps')
  BY <1>0, <1>6, BatchGrows
<1>7. CASE Beside
  <2>1. bot' = bot /\ opps \subseteq opps'
    BY <1>7, BesideFacts DEF SearcherRecords, RecordOpportunities
  <2> QED BY <1>2, <1>6, <2>1
<1>8. CASE MineFund
  <2>1. opps' = opps
    BY <1>8 DEF MineFund, dbVars
  <2>2. Batch(bot', registry, opps)
    BY <1>2, <1>8, MineFundFacts DEF Batch
  <2> QED BY <1>6, <2>1, <2>2
<1>9. CASE Fault \/ FundingRefused \/ FundingTimesOut
  BY <1>5, <1>9 DEF Fault, FundingRefused, FundingTimesOut, Die
<1>10. CASE Start \/ Worker \/ EndBatch
  <2>1. CASE bot' = Down("busy") \/ bot' = Down("node")
    BY <1>5, <2>1
  <2>2. CASE ~(bot' = Down("busy") \/ bot' = Down("node"))
    <3>1. bot.todo = <<>> /\ bot.ready = {} /\ bot.done = {} /\ bot.sims = {}
      BY <1>2, <1>10 DEF Batch, Idling, Start, Worker, SelectWorker, ReconcileWorker, ReadFundingNonce,
         SendFunding, FundingRefused, FundingMined, FundingTimesOut, EndBatch
    <3>2. /\ bot'.todo = bot.todo /\ bot'.ready = bot.ready /\ bot'.done = bot.done /\ bot'.sims = bot.sims
          /\ bot'.pc \in Idling /\ bot'.rows \in {registry, bot.rows}
      <4>0. CASE Start
        BY <1>0, <4>0, StartFacts DEF Idling
      <4>1. CASE SelectWorker \/ EndBatch
        BY <1>0, <4>1 DEF Bot, Idling, SelectWorker, EndBatch
      <4>5. CASE FundingMined
        BY <1>0, <4>5 DEF Bot, Idling, FundingMined
      <4>2. CASE ReconcileWorker
        BY <1>0, <2>2, <4>2 DEF Bot, Idling, ReconcileWorker, Die
      <4>3. CASE ReadFundingNonce \/ SendFunding
        BY <1>0, <4>3 DEF Bot, Idling, ReadFundingNonce, SendFunding
      <4>4. CASE FundingRefused \/ FundingTimesOut
        BY <2>2, <4>4 DEF FundingRefused, FundingTimesOut, Die
      <4> QED BY <1>10, <4>0, <4>1, <4>2, <4>3, <4>4, <4>5 DEF Worker
    <3>3. Settles
      BY <1>0, <1>2, <3>1, <3>2 DEF Batch
    <3> QED BY <1>4, <3>3
  <2> QED BY <2>1, <2>2
<1>11. ASSUME NEW b \in sc.batches, Drain(b) PROVE Batch(bot', registry', opps')
  <2> DEFINE first == {b[i] : i \in {j \in DOMAIN b : j <= MaxReady}}
  <2>1. b \in Seq(Routes) /\ bot.pc = "drain"
    BY <1>11, Basics DEF Drain
  <2>2. /\ bot.rows \subseteq registry' /\ bot.todo = <<>> /\ bot.ready = {} /\ bot.done = {} /\ bot.sims = {}
    BY <1>0, <1>2, <2>1 DEF Batch, Idling
  <2>3. CASE sc.live
    <3>1. bot' = [bot EXCEPT !.pc = "check", !.todo = b] /\ b \in Seq(opps')
      BY <1>11, <2>1, <2>3, SeqOfRange DEF Drain
    <3>2. /\ bot'.pc = "check" /\ bot'.todo = b /\ bot'.rows = bot.rows
          /\ bot'.ready = {} /\ bot'.done = {} /\ bot'.sims = {}
      BY <1>0, <2>2, <3>1 DEF Bot
    <3>3. IsFiniteSet({}) /\ Cardinality({}) = 0
      BY FS_EmptySet
    <3>4. b \in Seq(opps') /\ {} \subseteq opps'
      BY <3>1
    <3> QED BY <1>0, <2>2, <3>2, <3>3, <3>4 DEF Batch, Idling
  <2>4. CASE ~sc.live
    <3>1. bot' = [bot EXCEPT !.pc = "simulate", !.ready = first]
      BY <1>11, <2>4 DEF Drain
    <3>2. IsFiniteSet(first) /\ Cardinality(first) <= MaxReady
      BY <1>0, <2>1, FirstFacts
    <3> HIDE DEF first
    <3>3. /\ bot'.pc = "simulate" /\ bot'.todo = <<>> /\ bot'.rows = bot.rows
          /\ bot'.ready = first /\ bot'.done = {} /\ bot'.sims = {}
      BY <1>0, <2>2, <3>1 DEF Bot
    <3> QED BY <1>0, <2>2, <2>4, <3>2, <3>3, FS_EmptySet DEF Batch, Idling
  <2> QED BY <2>3, <2>4
<1>12. CASE Preflight \/ (Submission /\ ~EndBatch)
  <2>1. opps' = opps
    <3>1. bot.pc # "drain" /\ ~SearcherRecords => opps' = opps
      BY Changes DEF Drain
    <3> QED BY <1>12 DEF Preflight, SkipUnencodable, CheckApprovals, AdminPending, ReadApprovalNonce,
         SendApproval, ApprovalFails, BeginSimulations, Submission, Simulate, EndSimulations,
         SkipSubmission, SubmitBest, SubmissionFails, dbVars
  <2>2. SUFFICES Batch(bot', registry, opps)
    BY <1>6, <2>1
  <2>3. ASSUME bot.todo # <<>>, bot' = Skipped PROVE Batch(bot', registry, opps)
    <3>1. /\ Skipped.pc = "check" /\ Skipped.todo = Tail(bot.todo) /\ Skipped.rows = bot.rows
          /\ Skipped.ready = bot.ready /\ Skipped.done = bot.done /\ Skipped.sims = bot.sims
          /\ sc.live => Tail(bot.todo) \in Seq(opps)
      BY <1>0, <1>2, <2>3, SkippedFacts DEF Batch
    <3> QED BY <1>2, <2>3, <3>1 DEF Batch, Idling
  <2>4. CASE SkipUnencodable
    BY <2>3, <2>4 DEF SkipUnencodable, Checking
  <2>5. CASE CheckApprovals
    <3> DEFINE missing == MissingApprovals(Candidate)
               more == bot.ready \cup {Candidate}
    <3>1. /\ bot.pc = "check" /\ bot.todo # <<>> /\ Cardinality(bot.ready) < MaxReady
      BY <2>5 DEF CheckApprovals, Checking
    <3>2. \/ bot' = [bot EXCEPT !.cache = bot'.cache, !.missing = bot'.missing, !.pc = "check",
                                !.ready = more, !.todo = Tail(bot.todo)]
          \/ bot' = [bot EXCEPT !.cache = bot'.cache, !.missing = bot'.missing, !.pc = "admin"]
      <4> HIDE DEF missing
      <4> QED BY <1>0, <2>5 DEF CheckApprovals, missing, Bot
    <3> HIDE DEF missing, more
    <3>3. CASE bot' = [bot EXCEPT !.cache = bot'.cache, !.missing = bot'.missing, !.pc = "admin"]
      <4>1. /\ bot'.pc = "admin" /\ bot'.rows = bot.rows /\ bot'.todo = bot.todo
            /\ bot'.ready = bot.ready /\ bot'.done = bot.done /\ bot'.sims = bot.sims
        BY <1>0, <3>3 DEF Bot
      <4> QED BY <1>2, <3>1, <4>1 DEF Batch, Idling
    <3>4. CASE bot' = [bot EXCEPT !.cache = bot'.cache, !.missing = bot'.missing, !.pc = "check",
                                  !.ready = more, !.todo = Tail(bot.todo)]
      <4>1. /\ bot'.pc = "check" /\ bot'.rows = bot.rows /\ bot'.todo = Tail(bot.todo)
            /\ bot'.ready = more /\ bot'.done = bot.done /\ bot'.sims = bot.sims
        BY <1>0, <3>4 DEF Bot
      <4>2. IsFiniteSet(bot.ready) /\ Cardinality(bot.ready) \in Nat
        BY <1>2, FS_CardinalityType DEF Batch
      <4>3. IsFiniteSet(more) /\ Cardinality(more) <= MaxReady
        <5>1. \A x : /\ IsFiniteSet(bot.ready \cup {x})
                    /\ Cardinality(bot.ready \cup {x}) \in {Cardinality(bot.ready), Cardinality(bot.ready) + 1}
          BY <4>2, FS_AddElement
        <5>2. /\ IsFiniteSet(more)
              /\ Cardinality(more) \in {Cardinality(bot.ready), Cardinality(bot.ready) + 1}
          BY <5>1 DEF more
        <5> QED BY <1>0, <3>1, <4>2, <5>2
      <4>4. sc.live => Tail(bot.todo) \in Seq(opps) /\ more \subseteq opps
        BY <1>0, <1>2, <3>1, SkippedFacts DEF Batch, more
      <4> QED BY <1>2, <4>1, <4>3, <4>4 DEF Batch, Idling
    <3> QED BY <3>2, <3>3, <3>4
  <2>6. CASE AdminPending
    <3>1. bot.pc = "admin" /\ bot.todo # <<>>
      BY <1>2, <2>6 DEF AdminPending, Batch
    <3>2. CASE bot' = [bot EXCEPT !.pc = "nonce"]
      <4>1. /\ bot'.pc = "nonce" /\ bot'.rows = bot.rows /\ bot'.todo = bot.todo
            /\ bot'.ready = bot.ready /\ bot'.done = bot.done /\ bot'.sims = bot.sims
        BY <1>0, <3>2 DEF Bot
      <4> QED BY <1>2, <3>1, <4>1 DEF Batch, Idling
    <3> QED BY <2>3, <2>6, <3>1, <3>2 DEF AdminPending
  <2>7. CASE ReadApprovalNonce
    <3>1. bot.pc = "nonce" /\ bot.todo # <<>>
      BY <1>2, <2>7 DEF ReadApprovalNonce, Batch
    <3>2. CASE bot' = [bot EXCEPT !.pc = "approve", !.nonce = Pending]
      <4>1. /\ bot'.pc = "approve" /\ bot'.rows = bot.rows /\ bot'.todo = bot.todo
            /\ bot'.ready = bot.ready /\ bot'.done = bot.done /\ bot'.sims = bot.sims
        BY <1>0, <3>2 DEF Bot
      <4> QED BY <1>2, <3>1, <4>1 DEF Batch, Idling
    <3> QED BY <2>3, <2>7, <3>1, <3>2 DEF ReadApprovalNonce
  <2>8. CASE SendApproval \/ ApprovalFails
    <3>1. bot.todo # <<>> /\ Candidate \in opps
      BY <1>0, <2>8, RowsKept DEF SendApproval, ApprovalFails, BatchInv
    <3> QED BY <2>3, <2>8, <3>1 DEF SendApproval, ApprovalFails
  <2>9. CASE BeginSimulations
    <3>1. /\ bot'.pc = "simulate" /\ bot'.rows = bot.rows /\ bot'.todo = <<>>
          /\ bot'.ready = bot.ready /\ bot'.done = bot.done /\ bot'.sims = bot.sims
      BY <1>0, <2>9 DEF BeginSimulations, Bot
    <3> QED BY <1>2, <3>1 DEF Batch, Idling
  <2>10. CASE Simulate
    <3>1. PICK r \in bot.ready :
            /\ bot'.pc = "simulate" /\ bot'.rows = bot.rows /\ bot'.todo = bot.todo
            /\ bot'.ready = bot.ready \ {r} /\ bot'.done = bot.done \cup {r}
            /\ \/ bot'.sims = bot.sims
               \/ /\ Plan(r).encodable
                  /\ \E gain : bot'.sims = bot.sims \cup {[route |-> r, gain |-> gain]}
      BY <1>0, <2>10 DEF Simulate, Bot
    <3>2. IsFiniteSet(bot.ready \ {r}) /\ Cardinality(bot.ready \ {r}) <= MaxReady
      <4>1. IsFiniteSet(bot.ready) /\ Cardinality(bot.ready) \in Nat
        BY <1>2, FS_CardinalityType DEF Batch
      <4> QED BY <1>0, <1>2, <3>1, <4>1, FS_RemoveElement DEF Batch
    <3>3. IsFiniteSet(bot'.sims)
      <4>1. \A x : IsFiniteSet(bot.sims \cup {x})
        BY <1>2, FS_AddElement DEF Batch
      <4> QED BY <1>2, <3>1, <4>1 DEF Batch
    <3>4. \A s \in bot'.sims : s \in bot.sims \/ (s.route = r /\ Plan(r).encodable)
      BY <3>1
    <3>5. bot.todo = <<>>
      BY <1>2, <2>10 DEF Batch, Simulate
    <3> QED BY <1>1, <1>2, <3>1, <3>2, <3>3, <3>4, <3>5 DEF Batch, Idling
  <2>11. CASE EndSimulations
    <3>1. /\ bot'.pc = IF sc.live THEN "submit" ELSE "drain"
          /\ bot'.rows = bot.rows /\ bot'.todo = bot.todo
          /\ bot'.ready = {} /\ bot'.done = {} /\ bot'.sims = IF sc.live THEN bot.sims ELSE {}
      BY <1>0, <2>11 DEF EndSimulations, Bot
    <3>2. bot.todo = <<>> /\ bot.ready = {}
      BY <1>2, <2>11 DEF Batch, EndSimulations
    <3> QED BY <1>2, <3>1, <3>2, FS_EmptySet DEF Batch, Idling
  <2>12. CASE SkipSubmission \/ SubmitBest \/ SubmissionFails
    <3>1. Submitting /\ Best.route \in opps /\ Best \in bot.sims
      BY <1>0, <2>12, RowsKept DEF SkipSubmission, SubmitBest, SubmissionFails
    <3>2. /\ bot'.rows = bot.rows /\ bot'.todo = bot.todo
          /\ bot'.ready = bot.ready /\ bot'.done = bot.done
          /\ \/ bot'.pc = "submit" /\ bot'.sims = bot.sims \ {Best}
             \/ bot'.pc = "select" /\ bot'.sims = {}
      BY <1>0, <2>12, <3>1 DEF SkipSubmission, SubmitBest, SubmissionFails, WithoutBest, Submitting, Bot
    <3>3. IsFiniteSet(bot'.sims) /\ bot'.sims \subseteq bot.sims
      BY <1>2, <3>2, FS_EmptySet, FS_Subset DEF Batch
    <3> QED BY <1>2, <3>1, <3>2, <3>3 DEF Batch, Idling, Submitting
  <2> QED
    BY <1>12, <2>4, <2>5, <2>6, <2>7, <2>8, <2>9, <2>10, <2>11, <2>12 DEF Preflight, Submission
<1> QED BY <1>7, <1>8, <1>9, <1>10, <1>11, <1>12, NextIsBeside DEF Steps

------------------------------------------------------------------------------
(* Allowances, pools and the queue *)

\* What has been approved stays known.
LEMMA ReadyStep ==
  ASSUME TypeInv, TypeInv', LaneInv, BatchInv, ReadyInv, [Next]_vars
  PROVE  ReadyInv'
<1>0. /\ sc' = sc /\ plans' = plans /\ bot \in Bot /\ bot' \in Bot /\ sc.live \in BOOLEAN
      /\ bot.rows \in SUBSET {LateRow} /\ bot'.rows \in SUBSET {LateRow}
  <2>1. bot \in Bot /\ bot' \in Bot
    BY DEF TypeInv
  <2>2. bot'.rows \in SUBSET {LateRow}
    BY <2>1 DEF Bot
  <2> QED BY <2>1, <2>2, Basics, Changes
<1>1. \A r : Plan(r) = plans[bot.rows][r] /\ Plan(r)' = plans[bot'.rows][r]
  BY <1>0 DEF Plan
<1> DEFINE Known1(b, ever) ==
             /\ b.cache \subseteq ever
             /\ sc.live => \A r \in b.ready : /\ plans[b.rows][r].encodable
                                              /\ plans[b.rows][r].approvals \subseteq ever
<1>2. Known1(bot, allow \cup lost)
  BY <1>1 DEF ReadyInv
<1>3. SUFFICES Known1(bot', (allow \cup lost)')
  BY <1>0, <1>1 DEF ReadyInv
<1>4. allow \cup lost \subseteq (allow \cup lost)'
  BY Changes DEF MineFund, LowerAllowance, history
<1>5. ASSUME NEW b, Known1(b, allow \cup lost) PROVE Known1(b, (allow \cup lost)')
  BY <1>4, <1>5
<1>6. ASSUME NEW b, b.cache = bot.cache, b.rows = bot.rows, b.ready \subseteq bot.ready
      PROVE  Known1(b, allow \cup lost)
  BY <1>2, <1>6
<1>7. ASSUME NEW b, b.cache \subseteq bot.cache, b.ready = {} PROVE Known1(b, allow \cup lost)
  BY <1>2, <1>7
<1> HIDE DEF Known1
<1>8. ASSUME NEW cause \in {"none", "node", "busy"}, bot' = Down(cause)
      PROVE  Known1(bot', (allow \cup lost)')
  BY <1>5, <1>7, <1>8, DownFacts
<1>9. ASSUME bot.todo # <<>>, bot' = Skipped PROVE Known1(bot', (allow \cup lost)')
  <2>1. bot'.cache = bot.cache /\ bot'.rows = bot.rows /\ bot'.ready = bot.ready
    BY <1>0, <1>9, SkippedFacts
  <2> QED BY <1>5, <1>6, <2>1
<1>10. CASE Beside
  BY <1>2, <1>5, <1>10, BesideFacts
<1>11. CASE MineFund
  BY <1>5, <1>6, <1>11, MineFundFacts
<1>12. CASE Fault \/ FundingRefused \/ FundingTimesOut
  BY <1>8, <1>12 DEF Fault, FundingRefused, FundingTimesOut, Die
<1>13. CASE Start \/ Worker \/ EndBatch
  <2>1. CASE bot' = Down("busy") \/ bot' = Down("node")
    BY <1>8, <2>1
  <2>2. CASE ~(bot' = Down("busy") \/ bot' = Down("node"))
    <3>1. bot.ready = {} /\ bot'.ready = bot.ready /\ bot'.cache = bot.cache
      <4>1. bot.pc \in Idling \/ bot.pc = "submit"
        BY <1>13 DEF Idling, Start, Worker, SelectWorker, ReconcileWorker, ReadFundingNonce,
           SendFunding, FundingRefused, FundingMined, FundingTimesOut, EndBatch
      <4>2. bot'.ready = bot.ready /\ bot'.cache = bot.cache
        BY <1>0, <1>13, <2>2 DEF Bot, Start, Worker, SelectWorker, ReconcileWorker, ReadFundingNonce,
           SendFunding, FundingRefused, FundingMined, FundingTimesOut, EndBatch, Die
      <4> QED BY <4>1, <4>2 DEF BatchInv
    <3> QED BY <1>5, <1>7, <3>1
  <2> QED BY <2>1, <2>2
<1>14. ASSUME NEW b \in sc.batches, Drain(b) PROVE Known1(bot', (allow \cup lost)')
  <2>1. bot'.cache = bot.cache /\ bot'.rows = bot.rows /\ (sc.live => bot'.ready = bot.ready)
    BY <1>0, <1>14 DEF Drain, Bot
  <2>2. CASE sc.live
    BY <1>5, <1>6, <2>1, <2>2
  <2>3. CASE ~sc.live
    <3>1. Known1(bot', allow \cup lost)
      BY <1>2, <2>1, <2>3 DEF Known1
    <3> QED BY <1>5, <3>1
  <2> QED BY <2>2, <2>3
<1>15. CASE SkipUnencodable \/ AdminPending \/ ReadApprovalNonce \/ SendApproval \/ ApprovalFails
  <2>1. bot.todo # <<>>
    BY <1>15 DEF BatchInv, SkipUnencodable, Checking, AdminPending, ReadApprovalNonce, SendApproval,
       ApprovalFails
  <2>2. bot.pc = "approve" => Candidate \in opps
    BY <1>0, RowsKept
  <2>3. CASE bot' = Skipped
    BY <1>9, <2>1, <2>3
  <2>4. CASE bot' = [bot EXCEPT !.pc = "nonce"] \/ bot' = [bot EXCEPT !.pc = "approve", !.nonce = Pending]
    <3>1. bot'.cache = bot.cache /\ bot'.rows = bot.rows /\ bot'.ready = bot.ready
      BY <1>0, <2>4 DEF Bot
    <3> QED BY <1>5, <1>6, <3>1
  <2> QED
    BY <1>15, <2>2, <2>3, <2>4 DEF SkipUnencodable, AdminPending, ReadApprovalNonce, SendApproval, ApprovalFails
<1>16. CASE CheckApprovals
  <2> DEFINE asked == Plan(Candidate).approvals
             missing == MissingApprovals(Candidate)
             more == bot.ready \cup {Candidate}
             cache == bot.cache \cup (asked \cap allow)
  <2>1. Plan(Candidate).encodable
    BY <1>16 DEF CheckApprovals
  <2>2. missing = {} => asked \subseteq allow \cup lost
    BY <1>2 DEF MissingApprovals, Known1
  <2>3. cache \subseteq allow \cup lost
    BY <1>2 DEF Known1
  <2>4. /\ bot'.rows = bot.rows /\ bot'.cache \in {bot.cache, cache}
        /\ bot'.ready = bot.ready \/ (missing = {} /\ bot'.ready = more)
    <3> HIDE DEF missing, asked
    <3> QED BY <1>0, <1>16 DEF CheckApprovals, missing, asked, Bot
  <2>5. \A r \in more : r \in bot.ready \/ r = Candidate
    OBVIOUS
  <2> HIDE DEF missing, cache, more
  <2>6. bot'.cache \subseteq allow \cup lost
    BY <1>2, <2>3, <2>4 DEF Known1
  <2>7. ASSUME sc.live, NEW r \in bot'.ready
        PROVE  plans[bot.rows][r].encodable /\ plans[bot.rows][r].approvals \subseteq allow \cup lost
    <3>1. CASE r \in bot.ready
      BY <1>2, <2>7, <3>1 DEF Known1
    <3>2. CASE r \notin bot.ready
      <4>1. r = Candidate /\ missing = {}
        BY <2>4, <2>5, <2>7, <3>2
      <4> QED BY <1>1, <2>1, <2>2, <4>1
    <3> QED BY <3>1, <3>2
  <2>8. Known1(bot', allow \cup lost)
    BY <2>4, <2>6, <2>7 DEF Known1
  <2> QED BY <1>5, <2>8
<1>17. CASE BeginSimulations \/ Simulate \/ EndSimulations \/ SkipSubmission \/ SubmitBest \/ SubmissionFails
  <2>1. Submitting => Best.route \in opps
    BY <1>0, RowsKept
  <2>2. bot'.rows = bot.rows /\ bot'.cache = bot.cache /\ bot'.ready \subseteq bot.ready
    <3>1. CASE Simulate
      <4>1. \E r \in bot.ready :
              bot'.rows = bot.rows /\ bot'.cache = bot.cache /\ bot'.ready = bot.ready \ {r}
        BY <1>0, <3>1 DEF Simulate, Bot
      <4> QED BY <4>1
    <3>2. CASE BeginSimulations \/ EndSimulations
      BY <1>0, <3>2 DEF BeginSimulations, EndSimulations, Bot
    <3>3. CASE SkipSubmission \/ SubmitBest \/ SubmissionFails
      BY <1>0, <2>1, <3>3 DEF SkipSubmission, SubmitBest, SubmissionFails, WithoutBest, Bot
    <3> QED BY <1>17, <3>1, <3>2, <3>3
  <2> QED BY <1>5, <1>6, <2>2
<1> QED
  BY <1>10, <1>11, <1>12, <1>13, <1>14, <1>15, <1>16, <1>17, NextIsBeside DEF Steps, Preflight, Submission

\* The call that succeeds is the one the lane follows.
LEMMA PoolsStep ==
  ASSUME TypeInv, LaneInv, OnlyTrustedPools, [Next]_vars
  PROVE  OnlyTrustedPools'
<1>1. registry \subseteq registry' /\ registry' \in SUBSET {LateRow} /\ registry \in SUBSET {LateRow}
  BY RegistryGrows, Changes DEF TrustFactory, TypeInv
<1> DEFINE Trusted(call, rows) ==
             \A e \in Range(call) :
               \/ e.kind = "Adapter" /\ e.factory \in {Settings.factory[f] : f \in Adapted}
               \/ /\ <<e.factory, {e.tin, e.tout}, e.fee, e.pool>> \in Known
                  /\ \/ e.factory = V2Factory
                     \/ \E f \in DOMAIN BuiltIn : e.factory \in TrustedFactorySet(rows)[f]
<1>2. \A call : Trusted(call, registry) => Trusted(call, registry')
  <2>1. \A f \in DOMAIN BuiltIn : TrustedFactorySet(registry)[f] \subseteq TrustedFactorySet(registry')[f]
    BY <1>1, TrustGrows
  <2> QED BY <2>1
<1>3. ASSUME won' # None PROVE Trusted(won', registry')
  <2>1. CASE won' = won
    BY <1>2, <1>3, <2>1 DEF OnlyTrustedPools
  <2>2. CASE won' # won
    <3>1. MineArb /\ arb # None /\ won' = arb.call /\ Accepts(arb.executor, arb.call, allow)
          /\ registry' = registry
      BY <2>2, Changes DEF MineArb, dbVars
    <3>2. PICK rows \in SUBSET registry, r \in Routes :
            /\ Plans(rows)[r].encodable
            /\ arb = [executor |-> Plans(rows)[r].executor, call |-> Plans(rows)[r].call, mined |-> arb.mined]
      BY <3>1 DEF LaneInv
    <3>3. arb.call = Plans(rows)[r].call
      BY <3>2
    <3>4. Trusted(Plans(rows)[r].call, registry)
      BY <3>1, <3>2, <3>3, AcceptedFacts
    <3> QED BY <3>1, <3>3, <3>4
  <2> QED BY <2>1, <2>2
<1> QED BY <1>3 DEF OnlyTrustedPools

\* A simulation that is queued for a live batch has its opportunities' rows.
LEMMA EnqueueFacts ==
  ASSUME QueueInv, sc.live \in BOOLEAN, Capacity \in Nat, NEW C, Enqueue(C), sc.live => C \subseteq opps
  PROVE  QueueInv'
<1>1. CASE simq' = simq
  BY <1>1 DEF QueueInv
<1> DEFINE kept == C \subseteq opps
           new == [live |-> sc.live, rows |-> kept]
<1>2. CASE simq' # simq
  <2>1. simq' = Append(simq, new) /\ Len(simq) # Capacity
    BY <1>2 DEF Enqueue
  <2>2. kept \in BOOLEAN
    OBVIOUS
  <2>3. new \in [live : BOOLEAN, rows : BOOLEAN] /\ (new.live => new.rows)
    <3>1. sc.live => kept
      OBVIOUS
    <3> HIDE DEF kept
    <3> QED BY <2>2, <3>1
  <2> HIDE DEF new
  <2> QED BY <2>1, <2>3 DEF QueueInv
<1> QED BY <1>1, <1>2

LEMMA QueueStep ==
  ASSUME TypeInv, LaneInv, BatchInv, QueueInv, [Next]_vars
  PROVE  QueueInv'
<1>0. bot \in Bot /\ sc.live \in BOOLEAN /\ Capacity \in Nat
  BY Basics DEF TypeInv
<1>1. CASE simq' = simq \/ simq' = <<>>
  <2>1. CASE simq' = simq
    BY <2>1 DEF QueueInv
  <2>2. CASE simq' = <<>>
    <3>1. /\ <<>> \in Seq([live : BOOLEAN, rows : BOOLEAN]) /\ Len(<<>>) <= Capacity
          /\ \A i \in 1..Len(<<>>) : FALSE
      BY <1>0
    <3> QED BY <2>2, <3>1 DEF QueueInv
  <2> QED BY <1>1, <2>1, <2>2
<1>2. ASSUME NEW C, Enqueue(C), sc.live => C \subseteq opps PROVE QueueInv'
  BY <1>0, <1>2, EnqueueFacts
<1>3. CASE FlushSimulations
  <2>1. simq \in Seq([live : BOOLEAN, rows : BOOLEAN]) /\ simq # <<>> /\ simq' = Tail(simq)
    BY <1>3 DEF FlushSimulations, QueueInv
  <2>2. /\ simq' \in Seq([live : BOOLEAN, rows : BOOLEAN]) /\ Len(simq') = Len(simq) - 1
        /\ \A i \in 1..Len(simq') : simq'[i] = simq[i + 1] /\ i + 1 \in 1..Len(simq)
    BY <2>1
  <2> QED BY <1>0, <2>1, <2>2 DEF QueueInv
<1>4. CASE Beside /\ ~FlushSimulations
  BY <1>1, <1>4, BesideFacts
<1>5. CASE MineFund \/ Fault \/ Start
  BY <1>1, <1>5 DEF MineFund, Fault, Start, Die, dbVars
<1>6. CASE Worker \/ \E b \in sc.batches : Drain(b)
  BY <1>1, <1>6 DEF Worker, SelectWorker, ReconcileWorker, ReadFundingNonce, SendFunding, FundingRefused,
     FundingMined, FundingTimesOut, Drain, Die, dbVars
<1>7. CASE Preflight
  <2>1. bot.pc \in {"check", "nonce", "approve"} /\ bot.todo # <<>> => sc.live /\ {Candidate} \subseteq opps
    <3>1. bot.pc \in {"check", "nonce", "approve"} => sc.live
      BY DEF LaneInv
    <3> QED BY <1>0, <3>1, SkippedFacts DEF BatchInv
  <2>2. bot.pc \in {"nonce", "approve"} => bot.todo # <<>>
    BY DEF BatchInv
  <2>3. CASE SkipUnencodable \/ ReadApprovalNonce \/ SendApproval \/ ApprovalFails
    <3>1. simq' = simq \/ simq' = <<>> \/ Enqueue({Candidate})
      BY <2>3 DEF SkipUnencodable, ReadApprovalNonce, SendApproval, ApprovalFails, Die
    <3>2. {Candidate} \subseteq opps
      BY <2>1, <2>2, <2>3 DEF SkipUnencodable, ReadApprovalNonce, SendApproval, ApprovalFails, Checking
    <3> QED BY <1>1, <1>2, <3>1, <3>2
  <2>4. CASE CheckApprovals \/ AdminPending \/ BeginSimulations
    BY <1>1, <2>4 DEF CheckApprovals, AdminPending, BeginSimulations, dbVars
  <2> QED BY <1>7, <2>3, <2>4 DEF Preflight
<1>8. CASE EndSimulations
  <2>1. sc.live => bot.done \subseteq opps
    BY DEF BatchInv
  <2>2. Enqueue(bot.done)
    BY <1>8 DEF EndSimulations
  <2> QED BY <1>2, <2>1, <2>2
<1>9. CASE Submission /\ ~EndSimulations
  BY <1>1, <1>9 DEF Submission, Simulate, SkipSubmission, SubmitBest, SubmissionFails, EndBatch, Die, dbVars
<1> QED BY <1>3, <1>4, <1>5, <1>6, <1>7, <1>8, <1>9, NextIsBeside DEF Steps

------------------------------------------------------------------------------
(* Nonces *)

\* Where the process is after a step: by itself, waiting for gas, or elsewhere.
LEMMA PcMoves ==
  ASSUME TypeInv, TypeInv', LaneInv, BatchInv, [Next]_vars
  PROVE  \/ Beside \/ MineFund \/ Fault \/ FundingTimesOut \/ SendFunding
         \/ /\ pool' = pool /\ gas' = gas /\ abandoned' = abandoned
            /\ \/ ReadFundingNonce
               \/ ReconcileWorker /\ bot'.pc = "fund" /\ bot'.value = TargetGas - gas
               \/ ReadApprovalNonce /\ bot'.pc = "approve" /\ bot'.nonce = Pending
         \/ /\ bot'.pc \notin {"fund", "pay", "wait", "approve"} /\ (bot.pc = "wait" => bot.mined)
            /\ gas' = gas /\ abandoned' = abandoned /\ (SendApproval \/ pool' = pool)
<1>0. bot \in Bot /\ bot' \in Bot
  BY DEF TypeInv
<1> USE DEF chainVars, history
<1>1. \A cause : Down(cause).pc = "down"
  BY DEF Down
<1>2. CASE Start \/ SelectWorker \/ FundingRefused \/ FundingMined
  <2>1. CASE Start
    <3>1. bot.pc = "down" /\ UNCHANGED <<pool, gas, abandoned>>
      BY <2>1 DEF Start
    <3> QED BY <1>0, <2>1, <3>1, StartFacts
  <2>2. CASE SelectWorker
    BY <1>0, <2>2 DEF SelectWorker, Bot
  <2>3. CASE FundingRefused
    BY <1>1, <2>3 DEF FundingRefused, Die
  <2>4. CASE FundingMined
    BY <1>0, <2>4 DEF FundingMined, Bot
  <2> QED BY <1>2, <2>1, <2>2, <2>3, <2>4
<1>3. CASE ReconcileWorker
  BY <1>0, <1>1, <1>3 DEF ReconcileWorker, Die, Bot
<1>4. CASE \E b \in sc.batches : Drain(b)
  BY <1>0, <1>4 DEF Drain, Bot
<1>5. CASE ReadFundingNonce
  BY <1>5 DEF ReadFundingNonce
<1>6. CASE Preflight
  <2>1. Skipped.pc = "check"
    BY <1>0 DEF Skipped, Bot
  <2>2. CASE CheckApprovals
    <3>1. bot.pc = "check" /\ UNCHANGED <<pool, gas, abandoned>>
      BY <2>2 DEF CheckApprovals, Checking
    <3>2. bot'.pc \in {"check", "admin"}
      BY <1>0, <2>2 DEF CheckApprovals, Bot
    <3> QED BY <3>1, <3>2
  <2>3. CASE ReadApprovalNonce
    <3>1. CASE bot' = Skipped
      BY <2>1, <2>3, <3>1 DEF ReadApprovalNonce
    <3>2. CASE bot' = [bot EXCEPT !.pc = "approve", !.nonce = Pending]
      <4>1. bot'.pc = "approve" /\ bot'.nonce = Pending
        BY <1>0, <3>2 DEF Bot
      <4> QED BY <2>3, <4>1 DEF ReadApprovalNonce
    <3> QED BY <2>3, <3>1, <3>2 DEF ReadApprovalNonce
  <2>4. CASE SkipUnencodable \/ SendApproval \/ ApprovalFails
    BY <1>1, <2>1, <2>4 DEF SkipUnencodable, SendApproval, ApprovalFails, Checking, Die
  <2>5. CASE AdminPending \/ BeginSimulations
    BY <1>0, <2>1, <2>5 DEF AdminPending, BeginSimulations, Bot
  <2> QED BY <1>6, <2>2, <2>3, <2>4, <2>5 DEF Preflight
<1>7. CASE Submission
  <2>1. CASE Simulate
    <3>1. bot'.pc = "simulate" /\ bot.pc = "simulate"
      BY <1>0, <2>1 DEF Simulate, Bot
    <3> QED BY <2>1, <3>1 DEF Simulate
  <2>2. CASE EndSimulations \/ EndBatch
    BY <1>0, <2>2 DEF EndSimulations, EndBatch, Bot
  <2>3. CASE SkipSubmission \/ SubmitBest \/ SubmissionFails
    <3>1. Submitting /\ bot'.pc \in {"down", "select", "submit"}
      BY <1>0, <1>1, <2>3 DEF SkipSubmission, SubmitBest, SubmissionFails, WithoutBest, Submitting, Die, Bot
    <3> QED BY <2>3, <3>1 DEF SkipSubmission, SubmitBest, SubmissionFails, Submitting
  <2> QED BY <1>7, <2>1, <2>2, <2>3 DEF Submission
<1> QED BY <1>2, <1>3, <1>4, <1>5, <1>6, <1>7, NextIsBeside DEF Steps, Worker

\* NonceInv, of the process in a state b over these slots.
NonceHolds(b, p) ==
  b.nonce \in 1..Slots =>
    /\ b.pc \in {"pay", "approve"} => p[b.nonce].by # "bot"
    /\ b.pc = "wait" /\ ~b.mined /\ p[b.nonce].by = "bot" => p[b.nonce] = GasTx(b.value)

LEMMA DownIsDown ==
  ASSUME Fault \/ FundingTimesOut
  PROVE  bot'.pc = "down" /\ bot'.nonce = 0 /\ bot'.mined = FALSE
BY DEF Fault, FundingTimesOut, Die, Down

LEMMA NonceStep ==
  ASSUME TypeInv, TypeInv', LaneInv, BatchInv, NonceInv, [Next]_vars
  PROVE  NonceInv'
<1>0. bot \in Bot /\ bot' \in Bot /\ Slots \in Nat /\ Slots > 0 /\ bot.nonce \in 0..(Slots + 1)
  <2>1. bot \in Bot /\ bot' \in Bot
    BY DEF TypeInv
  <2>2. bot.nonce \in 0..(Slots + 1)
    BY <2>1 DEF Bot
  <2> QED BY <2>1, <2>2, Basics
<1>1. NonceHolds(bot, pool)
  BY DEF NonceInv, NonceHolds, Ours
<1>2. SUFFICES NonceHolds(bot', pool')
  BY DEF NonceInv, NonceHolds, Ours
<1>3. NoTx.by = "nobody"
  BY DEF NoTx
<1>4. ASSUME NEW n, NEW tx, Puts(n, tx), tx.by # "bot", bot' = bot PROVE NonceHolds(bot', pool')
  BY <1>1, <1>4, PutFacts DEF NonceHolds
<1>5. CASE MineFund
  <2>1. /\ bot'.nonce = Shifted(bot.nonce) /\ bot'.pc = bot.pc /\ bot'.value = bot.value
        /\ bot'.mined = (bot.mined \/ (bot.pc = "wait" /\ bot.nonce = 1 /\ pool[1].by = "bot"))
    BY <1>5, MineFundFacts
  <2>2. ASSUME bot'.nonce \in 1..Slots
        PROVE  /\ bot.nonce \in 2..(Slots + 1)
               /\ IF bot.nonce \in 1..Slots THEN pool'[bot'.nonce] = pool[bot.nonce] ELSE pool'[bot'.nonce] = NoTx
    <3>1. bot.nonce \in 2..(Slots + 1) /\ bot'.nonce = bot.nonce - 1
      BY <1>0, <2>1, <2>2, ShiftFacts
    <3>2. CASE bot.nonce \in 1..Slots
      <4>1. bot'.nonce + 1 = bot.nonce
        BY <1>0, <3>1
      <4> QED BY <1>5, <2>2, <3>1, <3>2, <4>1, MinedFacts
    <3>3. CASE bot.nonce \notin 1..Slots
      <4>1. bot'.nonce = Slots
        BY <1>0, <3>1, <3>3
      <4> QED BY <1>5, <3>1, <3>3, <4>1, MinedFacts
    <3> QED BY <3>2, <3>3
  <2>3. SUFFICES ASSUME bot'.nonce \in 1..Slots
                 PROVE  /\ bot'.pc \in {"pay", "approve"} => pool'[bot'.nonce].by # "bot"
                        /\ bot'.pc = "wait" /\ ~bot'.mined /\ pool'[bot'.nonce].by = "bot" =>
                             pool'[bot'.nonce] = GasTx(bot'.value)
    BY DEF NonceHolds
  <2>4. CASE bot.nonce \in 1..Slots
    <3>1. pool'[bot'.nonce] = pool[bot.nonce] /\ bot.nonce # 1
      BY <1>0, <2>2, <2>3, <2>4
    <3>2. bot'.mined <=> bot.mined
      BY <2>1, <3>1, Zenon
    <3> QED BY <1>1, <2>1, <2>4, <3>1, <3>2 DEF NonceHolds
  <2>5. CASE bot.nonce \notin 1..Slots
    BY <1>3, <2>2, <2>3, <2>5
  <2> QED BY <2>4, <2>5
<1>6. CASE SendFunding
  <2>1. bot'.nonce = bot.nonce /\ bot'.value = bot.value /\ bot'.pc = "wait"
        /\ Puts(bot.nonce, GasTx(bot.value))
    BY <1>0, <1>6 DEF SendFunding, Bot, Sends, Puts, Latest
  <2> QED BY <1>6, <2>1, PutFacts DEF NonceHolds
<1>7. CASE SendApproval
  <2>1. bot'.pc = "check"
    BY <1>0, <1>7 DEF SendApproval, Skipped, Bot
  <2> QED BY <2>1 DEF NonceHolds
<1>8. CASE WebSend /\ \E item : Puts(web.nonce, WebTx(item))
  <2>1. bot' = bot
    BY <1>8 DEF WebSend
  <2>2. PICK item : Puts(web.nonce, WebTx(item))
    BY <1>8
  <2> QED BY <1>4, <2>1, <2>2, WebTxFacts
<1>9. CASE DropFund /\ \E n \in 1..Slots : Puts(n, NoTx)
  <2>1. bot' = bot
    BY <1>9 DEF DropFund
  <2> QED BY <1>3, <1>4, <1>9, <2>1
<1>10. CASE pool' = pool /\ ~MineFund /\ ~SendFunding
  <2>1. CASE Beside
    BY <1>1, <1>10, <2>1, BesideFacts
  <2>2. CASE Fault \/ FundingTimesOut
    BY <1>0, <2>2, DownIsDown DEF NonceHolds
  <2>3. CASE bot'.nonce = Pending /\ bot'.pc \in {"pay", "approve"}
    <3>1. Pending \in 1..Slots => pool'[Pending] = NoTx
      BY <1>10, PendingFacts
    <3> QED BY <1>3, <2>3, <3>1 DEF NonceHolds
  <2>4. CASE ReadFundingNonce
    <3>1. bot'.nonce = Pending /\ bot'.pc = "pay"
      BY <1>0, <2>4 DEF ReadFundingNonce, Bot
    <3> QED BY <2>3, <3>1
  <2>5. CASE bot'.pc \notin {"pay", "wait", "approve"}
    BY <2>5 DEF NonceHolds
  <2> QED BY <1>10, <2>1, <2>2, <2>3, <2>4, <2>5, PcMoves
<1> QED BY <1>5, <1>6, <1>7, <1>8, <1>9, <1>10, PoolMoves

\* What must not happen does not.
LEMMA FlagStep ==
  ASSUME TypeInv, LaneInv, BatchInv, NonceInv, QueueInv, FlagInv, [Next]_vars
  PROVE  FlagInv'
<1>0. bot \in Bot
  BY DEF TypeInv
<1>1. ASSUME NEW n, NEW tx, Sends(n, tx), ~(pool[n].by = "bot" /\ tx.by = "bot") PROVE FlagInv'
  BY <1>1 DEF Sends, FlagInv
<1>2. CASE SendFunding \/ SendApproval
  <2>1. bot.pc \in {"pay", "approve"} /\ \E tx : Sends(bot.nonce, tx)
    BY <1>2 DEF SendFunding, SendApproval
  <2>2. bot.nonce \in 1..Slots
    BY <2>1 DEF Sends, Latest
  <2>3. pool[bot.nonce].by # "bot"
    BY <2>1, <2>2 DEF NonceInv, Ours
  <2> QED BY <1>1, <2>1, <2>3
<1>3. CASE WebSend
  <2>1. PICK item : Sends(web.nonce, WebTx(item))
    BY <1>3 DEF WebSend
  <2> QED BY <1>1, <2>1, WebTxFacts
<1>4. CASE FlushSimulations
  <2>1. simq # <<>> /\ simq \in Seq([live : BOOLEAN, rows : BOOLEAN])
    BY <1>4 DEF FlushSimulations, QueueInv
  <2>2. Head(simq).live => Head(simq).rows
    BY <2>1 DEF QueueInv
  <2> QED BY <1>4, <2>2 DEF FlushSimulations, FlagInv
<1>5. CASE Beside /\ ~WebSend /\ ~FlushSimulations
  BY <1>5 DEF Beside, DropFund, MineArb, LowerAllowance, TrustFactory, SearcherRecords, WebStart, Web,
     WebSkip, WebFails, vars, history, FlagInv
<1>6. CASE MineFund \/ Fault \/ Start
  BY <1>6 DEF MineFund, Fault, Start, history, FlagInv
<1>7. CASE Worker /\ ~SendFunding
  BY <1>7 DEF Worker, SelectWorker, ReconcileWorker, ReadFundingNonce, FundingRefused, FundingMined,
     FundingTimesOut, history, FlagInv
<1>8. CASE \E b \in sc.batches : Drain(b)
  BY <1>8 DEF Drain, history, FlagInv
<1>9. CASE Preflight /\ ~SendApproval
  BY <1>9 DEF Preflight, SkipUnencodable, CheckApprovals, AdminPending, ReadApprovalNonce, ApprovalFails,
     BeginSimulations, history, FlagInv
<1>10. CASE Submission
  BY <1>10 DEF Submission, Simulate, EndSimulations, SkipSubmission, SubmitBest, SubmissionFails, EndBatch,
     history, FlagInv
<1> QED
  BY <1>2, <1>3, <1>4, <1>5, <1>6, <1>7, <1>8, <1>9, <1>10, NextIsBeside DEF Steps

------------------------------------------------------------------------------
(* Sums of gas *)

GasTyped(p) == \A n \in 1..Slots : GasOf(p[n]) \in Nat

LEMMA SumGrows ==
  ASSUME NEW p, NEW s \in [0..Slots -> Nat], SumOf(p, s), GasTyped(p)
  PROVE  \A m \in 0..Slots : \A k \in 0..Slots : m <= k => s[m] <= s[k]
<1>1. Slots \in Nat /\ Slots > 0
  BY ExecutionAssumption
<1> SUFFICES ASSUME NEW m \in 0..Slots PROVE \A k \in 0..Slots : m <= k => s[m] <= s[k]
  OBVIOUS
<1> DEFINE Less == {k \in 0..Slots : m <= k /\ ~(s[m] <= s[k])}
<1>2. SUFFICES ASSUME Less # {} PROVE FALSE
  OBVIOUS
<1>3. Less \in SUBSET Nat
  BY <1>1
<1>4. PICK k \in Less : \A j \in Less : k <= j
  <2> HIDE DEF Less
  <2> QED BY <1>2, <1>3, Least
<1>5. k \in 0..Slots /\ m <= k /\ ~(s[m] <= s[k])
  BY <1>4
<1>6. k # m
  BY <1>1, <1>5
<1>7. k - 1 \in 0..Slots /\ m <= k - 1 /\ k \in 1..Slots /\ k - 1 \notin Less
  BY <1>1, <1>4, <1>5, <1>6
<1>8. s[m] <= s[k - 1]
  BY <1>7
<1>9. s[k] = s[k - 1] + GasOf(p[k]) /\ GasOf(p[k]) \in Nat
  BY <1>7 DEF SumOf, GasTyped
<1>10. s[k] \in Nat /\ s[k - 1] \in Nat /\ s[m] \in Nat
  BY <1>5, <1>7
<1> QED BY <1>5, <1>8, <1>9, <1>10

\* A transaction in one slot changes the sum by what it brings.
LEMMA SumPut ==
  ASSUME NEW p, NEW q, NEW n \in 1..Slots, NEW s \in [0..Slots -> Nat], SumOf(p, s),
         GasTyped(p), GasTyped(q), \A k \in 1..Slots : k # n => q[k] = p[k]
  PROVE  \E t \in [0..Slots -> Nat] :
           /\ SumOf(q, t)
           /\ t[Slots] = s[Slots] - GasOf(p[n]) + GasOf(q[n])
<1>1. Slots \in Nat /\ Slots > 0
  BY ExecutionAssumption
<1> DEFINE old == GasOf(p[n])
           new == GasOf(q[n])
           t == [k \in 0..Slots |-> IF k < n THEN s[k] ELSE s[k] - old + new]
<1>2. old \in Nat /\ new \in Nat
  BY DEF GasTyped
<1>3. n - 1 \in 0..Slots /\ n \in 0..Slots
  BY <1>1
<1>4. s[n] = s[n - 1] + old /\ s[n - 1] \in Nat
  BY <1>3 DEF SumOf
<1>5. ASSUME NEW k \in 0..Slots, ~(k < n) PROVE s[k] - old + new \in Nat
  <2>1. n <= k
    BY <1>1, <1>3, <1>5
  <2>2. s[n] <= s[k] /\ s[k] \in Nat
    BY <1>3, <2>1, SumGrows
  <2> HIDE DEF old, new
  <2> QED BY <1>2, <1>4, <2>2
<1>6. t \in [0..Slots -> Nat]
  <2> HIDE DEF old, new
  <2> QED BY <1>5
<1>7. t[0] = 0
  BY <1>1, <1>3 DEF SumOf
<1>8. ASSUME NEW k \in 1..Slots PROVE t[k] = t[k - 1] + GasOf(q[k])
  <2>1. k \in 0..Slots /\ k - 1 \in 0..Slots /\ s[k] \in Nat /\ s[k - 1] \in Nat
    BY <1>1
  <2>2. s[k] = s[k - 1] + GasOf(p[k]) /\ GasOf(p[k]) \in Nat
    BY DEF SumOf, GasTyped
  <2> HIDE DEF old, new
  <2>3. CASE k < n
    <3>1. q[k] = p[k] /\ k - 1 < n
      BY <1>1, <2>3
    <3> QED BY <2>1, <2>2, <2>3, <3>1
  <2>4. CASE k = n
    <3>1. GasOf(p[k]) = old /\ GasOf(q[k]) = new /\ ~(k < n) /\ k - 1 < n
      BY <1>1, <2>4 DEF old, new
    <3> QED BY <1>2, <2>1, <2>2, <2>4, <3>1
  <2>5. CASE n < k
    <3>1. q[k] = p[k] /\ ~(k - 1 < n) /\ ~(k < n)
      BY <1>1, <2>5
    <3> QED BY <1>2, <2>1, <2>2, <3>1
  <2> QED BY <1>1, <2>3, <2>4, <2>5
<1>9. t[Slots] = s[Slots] - old + new
  <2> HIDE DEF old, new
  <2> QED BY <1>1, <1>3
<1>10. SumOf(q, t)
  <2> HIDE DEF t
  <2> QED BY <1>7, <1>8 DEF SumOf
<1> HIDE DEF t
<1> QED BY <1>6, <1>9, <1>10

\* Mining the first transaction takes what it brings from the sum.
LEMMA SumShift ==
  ASSUME NEW p, NEW q, NEW s \in [0..Slots -> Nat], SumOf(p, s), GasTyped(p),
         \A n \in 1..Slots : n + 1 \in 1..Slots => q[n] = p[n + 1], GasOf(q[Slots]) = 0
  PROVE  \E t \in [0..Slots -> Nat] : SumOf(q, t) /\ t[Slots] = s[Slots] - GasOf(p[1])
<1>1. Slots \in Nat /\ Slots > 0
  BY ExecutionAssumption
<1> DEFINE t == [k \in 0..Slots |-> IF k = Slots THEN s[Slots] - s[1] ELSE s[k + 1] - s[1]]
<1>2. s[1] = GasOf(p[1]) /\ s[1] \in Nat
  <2>1. 1 \in 1..Slots /\ 1 - 1 = 0 /\ 1 \in 0..Slots
    BY <1>1
  <2>2. s[1] = s[0] + GasOf(p[1]) /\ GasOf(p[1]) \in Nat
    BY <2>1 DEF SumOf, GasTyped
  <2> QED BY <2>1, <2>2 DEF SumOf
<1>3. ASSUME NEW k \in 1..Slots PROVE s[k] - s[1] \in Nat
  <2>1. k \in 0..Slots /\ 1 \in 0..Slots /\ 1 <= k
    BY <1>1
  <2>2. s[1] <= s[k] /\ s[k] \in Nat
    BY <2>1, SumGrows
  <2> QED BY <1>2, <2>2
<1>4. t \in [0..Slots -> Nat]
  <2>1. \A k \in 0..Slots : k = Slots \/ k + 1 \in 1..Slots
    BY <1>1
  <2>2. Slots \in 1..Slots
    BY <1>1
  <2> QED BY <1>3, <2>1, <2>2
<1>5. t[0] = 0
  BY <1>1, <1>2
<1>6. ASSUME NEW k \in 1..Slots PROVE t[k] = t[k - 1] + GasOf(q[k])
  <2>1. k \in 0..Slots /\ k - 1 \in 0..Slots /\ k - 1 # Slots /\ k - 1 + 1 = k /\ s[k] \in Nat
    BY <1>1
  <2>2. t[k - 1] = s[k] - s[1]
    BY <2>1
  <2>3. CASE k = Slots
    BY <1>2, <2>1, <2>2, <2>3
  <2>4. CASE k # Slots
    <3>1. k + 1 \in 1..Slots /\ k + 1 \in 0..Slots /\ k + 1 - 1 = k
      BY <1>1, <2>4
    <3>2. q[k] = p[k + 1] /\ s[k + 1] = s[k] + GasOf(p[k + 1]) /\ GasOf(p[k + 1]) \in Nat
      BY <3>1 DEF SumOf, GasTyped
    <3>3. t[k] = s[k + 1] - s[1]
      BY <2>1, <2>4
    <3> HIDE DEF t
    <3> QED BY <1>2, <2>1, <2>2, <3>2, <3>3
  <2> QED BY <2>3, <2>4
<1>7. t[Slots] = s[Slots] - GasOf(p[1])
  BY <1>1, <1>2
<1>8. SumOf(q, t)
  <2> HIDE DEF t
  <2> QED BY <1>5, <1>6 DEF SumOf
<1> HIDE DEF t
<1> QED BY <1>4, <1>7, <1>8

------------------------------------------------------------------------------
(* Gas *)

\* A transaction that is no transfer, where the process has none but its own.
LEMMA GasBeside ==
  ASSUME TypeInv, TypeInv', GasInv, bot' = bot, gas' = gas, abandoned' = abandoned,
         NEW n, NEW tx, Puts(n, tx), ~IsGas(tx), tx.by # "bot"
  PROVE  GasInv'
<1>0. bot \in Bot /\ bot.value \in Nat /\ TargetGas \in Nat /\ gas \in Nat /\ abandoned \in Nat /\ Slots \in Nat
      /\ GasTyped(pool) /\ GasTyped(pool')
  <2>1. bot \in Bot
    BY DEF TypeInv
  <2>2. bot.value \in 0..TargetGas
    BY <2>1 DEF Bot
  <2> QED BY <2>1, <2>2, Basics DEF TypeInv, GasTyped, GasOf
<1>1. PICK s \in [0..Slots -> Nat] :
        /\ SumOf(pool, s) /\ s[Slots] <= abandoned + Own(bot, pool)
        /\ gas + s[Slots] + Asked(bot) <= TargetGas + abandoned
  BY DEF GasInv, GasHolds
<1>2. n \in 1..Slots /\ pool'[n] = tx /\ \A k \in 1..Slots : k # n => pool'[k] = pool[k]
  BY PutFacts
<1>3. GasOf(pool'[n]) = 0 /\ GasOf(pool[n]) \in Nat
  BY <1>0, <1>2 DEF GasOf, GasTyped
<1>4. PICK t \in [0..Slots -> Nat] :
        SumOf(pool', t) /\ t[Slots] = s[Slots] - GasOf(pool[n]) + GasOf(pool'[n])
  BY <1>0, <1>1, <1>2, SumPut
<1>5. s[Slots] \in Nat /\ t[Slots] \in Nat
  BY <1>0
<1>6. t[Slots] = s[Slots] - GasOf(pool[n])
  BY <1>3, <1>4, <1>5
<1>7. Asked(bot) \in Nat /\ Own(bot, pool) \in Nat /\ Own(bot, pool') \in Nat
  BY <1>0 DEF Asked, Own
<1>8. t[Slots] <= abandoned + Own(bot, pool')
  <2>1. CASE WaitsOn(bot, pool) /\ bot.nonce = n
    <3>1. pool[n] = GasTx(bot.value)
      BY <2>1 DEF WaitsOn
    <3>2. GasOf(pool[n]) = bot.value
      BY <1>0, <3>1, GasFacts DEF GasOf
    <3>3. Own(bot, pool) = bot.value
      BY <2>1 DEF Own
    <3> QED BY <1>0, <1>1, <1>5, <1>6, <1>7, <3>2, <3>3
  <2>2. CASE WaitsOn(bot, pool) /\ bot.nonce # n
    <3>1. Own(bot, pool') = Own(bot, pool)
      BY <1>2, <2>2 DEF WaitsOn, Own
    <3> QED BY <1>0, <1>1, <1>3, <1>5, <1>6, <1>7, <3>1
  <2>3. CASE ~WaitsOn(bot, pool)
    <3>1. Own(bot, pool) = 0
      BY <2>3 DEF Own
    <3> QED BY <1>0, <1>1, <1>3, <1>5, <1>6, <1>7, <3>1
  <2> QED BY <2>1, <2>2, <2>3
<1>9. gas + t[Slots] + Asked(bot) <= TargetGas + abandoned
  BY SMTT(20), <1>0, <1>1, <1>3, <1>5, <1>6, <1>7
<1> QED BY <1>4, <1>8, <1>9 DEF GasInv, GasHolds

LEMMA GasStep ==
  ASSUME TypeInv, TypeInv', LaneInv, BatchInv, NonceInv, GasInv, [Next]_vars
  PROVE  GasInv'
<1>0. /\ bot \in Bot /\ bot' \in Bot /\ bot.value \in Nat /\ bot'.value \in Nat /\ TargetGas \in Nat
      /\ gas \in Nat /\ abandoned \in Nat /\ gas' \in Nat /\ abandoned' \in Nat /\ Slots \in Nat /\ Slots > 0
      /\ GasTyped(pool) /\ GasTyped(pool')
  <2>1. bot \in Bot /\ bot' \in Bot
    BY DEF TypeInv
  <2>2. bot.value \in 0..TargetGas /\ bot'.value \in 0..TargetGas
    BY <2>1 DEF Bot
  <2> QED BY SMTT(20), <2>1, <2>2, Basics DEF TypeInv, GasTyped, GasOf
<1>1. PICK s \in [0..Slots -> Nat] :
        /\ SumOf(pool, s) /\ s[Slots] <= abandoned + Own(bot, pool)
        /\ gas + s[Slots] + Asked(bot) <= TargetGas + abandoned
  BY DEF GasInv, GasHolds
<1>2. /\ s[Slots] \in Nat /\ Asked(bot) \in Nat /\ Own(bot, pool) \in Nat
      /\ Asked(bot') \in Nat /\ Own(bot', pool') \in Nat
  BY <1>0 DEF Asked, Own
<1>3. ASSUME NEW t \in [0..Slots -> Nat], SumOf(pool', t), t[Slots] <= abandoned' + Own(bot', pool'),
             gas' + t[Slots] + Asked(bot') <= TargetGas + abandoned'
      PROVE  GasInv'
  BY <1>3 DEF GasInv, GasHolds
<1>4. CASE MineFund
  <2>1. PICK t \in [0..Slots -> Nat] : SumOf(pool', t) /\ t[Slots] = s[Slots] - GasOf(pool[1])
    <3>1. GasOf(pool'[Slots]) = 0
      BY <1>4, MinedFacts DEF GasOf, IsGas, NoTx
    <3>2. \A n \in 1..Slots : n + 1 \in 1..Slots => pool'[n] = pool[n + 1]
      BY <1>4, MinedFacts
    <3> QED BY <1>0, <1>1, <3>1, <3>2, SumShift
  <2>2. gas' = gas + GasOf(pool[1]) /\ abandoned' = abandoned /\ GasOf(pool[1]) \in Nat
    <3>1. 1 \in 1..Slots
      BY <1>0
    <3> QED BY <1>0, <1>4, <3>1, MinedFacts DEF InFlight, GasOf, IsGas, GasTyped, MineFund, history
  <2>3. /\ bot'.nonce = Shifted(bot.nonce) /\ bot'.pc = bot.pc /\ bot'.value = bot.value
        /\ bot'.mined = (bot.mined \/ (bot.pc = "wait" /\ bot.nonce = 1 /\ pool[1].by = "bot"))
    BY <1>4, MineFundFacts
  <2>4. Asked(bot') = Asked(bot) /\ t[Slots] \in Nat
    BY <1>0, <2>3 DEF Asked
  <2>5. t[Slots] <= abandoned + Own(bot', pool')
    <3>1. CASE ~WaitsOn(bot, pool)
      <4>1. Own(bot, pool) = 0
        BY <3>1 DEF Own
      <4> QED BY SMTT(20), <1>0, <1>1, <1>2, <2>1, <2>2, <2>4, <4>1
    <3>2. CASE WaitsOn(bot, pool)
      <4>1. /\ Own(bot, pool) = bot.value /\ bot.nonce \in 1..Slots /\ pool[bot.nonce] = GasTx(bot.value)
            /\ bot.pc = "wait" /\ ~bot.mined
        BY <3>2 DEF Own, WaitsOn
      <4>2. CASE bot.nonce = 1
        <5>1. GasOf(pool[1]) = bot.value
          BY <1>0, <4>1, <4>2, GasFacts DEF GasOf
        <5> QED BY SMTT(20), <1>0, <1>1, <1>2, <2>1, <2>4, <4>1, <5>1
      <4>3. CASE bot.nonce # 1
        <5>1. bot'.nonce = bot.nonce - 1 /\ bot'.nonce \in 1..Slots /\ bot'.nonce + 1 = bot.nonce
          BY <1>0, <2>3, <4>1, <4>3 DEF Shifted
        <5>2. pool'[bot'.nonce] = GasTx(bot.value)
          BY <1>4, <4>1, <5>1, MinedFacts
        <5>3. ~bot'.mined
          BY <2>3, <4>1, <4>3, Zenon
        <5>4. Own(bot', pool') = bot.value
          BY <2>3, <4>1, <5>1, <5>2, <5>3 DEF Own, WaitsOn
        <5> QED BY SMTT(20), <1>0, <1>1, <1>2, <2>1, <2>2, <2>4, <4>1, <5>4
      <4> QED BY <4>2, <4>3
    <3> QED BY <3>1, <3>2
  <2>6. gas' + t[Slots] + Asked(bot') <= TargetGas + abandoned
    BY <1>0, <1>1, <1>2, <2>1, <2>2, <2>4
  <2> QED BY <1>3, <2>1, <2>2, <2>5, <2>6
<1>5. CASE SendFunding
  <2>1. /\ bot'.nonce = bot.nonce /\ bot'.value = bot.value /\ bot'.pc = "wait" /\ bot'.mined = FALSE
        /\ Puts(bot.nonce, GasTx(bot.value)) /\ bot.pc = "pay" /\ gas' = gas /\ abandoned' = abandoned
    BY <1>0, <1>5 DEF SendFunding, Bot, Sends, Puts, Latest
  <2>2. /\ bot.nonce \in 1..Slots /\ pool'[bot.nonce] = GasTx(bot.value)
        /\ \A k \in 1..Slots : k # bot.nonce => pool'[k] = pool[k]
    BY <2>1, PutFacts
  <2>3. GasOf(pool[bot.nonce]) = 0 /\ GasOf(pool'[bot.nonce]) = bot.value
    <3>1. pool[bot.nonce].by # "bot"
      BY <2>1, <2>2 DEF NonceInv, Ours
    <3>2. ~IsGas(pool[bot.nonce])
      BY <2>2, <3>1 DEF TypeInv
    <3> QED BY <1>0, <2>2, <3>2, GasFacts DEF GasOf
  <2>4. PICK t \in [0..Slots -> Nat] :
          SumOf(pool', t) /\ t[Slots] = s[Slots] - GasOf(pool[bot.nonce]) + GasOf(pool'[bot.nonce])
    <3>1. PICK n \in 1..Slots : n = bot.nonce
      BY <2>2
    <3>2. \A k \in 1..Slots : k # n => pool'[k] = pool[k]
      BY <2>2, <3>1
    <3>3. \E t \in [0..Slots -> Nat] :
            SumOf(pool', t) /\ t[Slots] = s[Slots] - GasOf(pool[n]) + GasOf(pool'[n])
      BY <1>0, <1>1, <3>2, SumPut
    <3> QED BY <3>1, <3>3
  <2>5. t[Slots] = s[Slots] + bot.value /\ t[Slots] \in Nat
    BY <1>0, <1>2, <2>3, <2>4
  <2>6. Own(bot, pool) = 0 /\ Asked(bot) = bot.value /\ Asked(bot') = 0
    BY <2>1 DEF Own, WaitsOn, Asked
  <2>7. Own(bot', pool') = bot.value
    BY <2>1, <2>2 DEF Own, WaitsOn
  <2>8. t[Slots] <= abandoned' + Own(bot', pool') /\ gas' + t[Slots] + Asked(bot') <= TargetGas + abandoned'
    BY <1>0, <1>1, <1>2, <2>1, <2>5, <2>6, <2>7
  <2> QED BY <1>3, <2>4, <2>8
<1>6. CASE SendApproval
  <2>1. /\ bot'.pc = "check" /\ bot.pc = "approve" /\ gas' = gas /\ abandoned' = abandoned
        /\ \E key : Puts(bot.nonce, ApproveTx("bot", key))
    BY <1>0, <1>6 DEF SendApproval, Skipped, Bot, Sends, Puts, Latest
  <2>2. PICK key : Puts(bot.nonce, ApproveTx("bot", key))
    BY <2>1
  <2>3. /\ bot.nonce \in 1..Slots /\ pool'[bot.nonce] = ApproveTx("bot", key)
        /\ \A k \in 1..Slots : k # bot.nonce => pool'[k] = pool[k]
    BY <2>2, PutFacts
  <2>4. GasOf(pool[bot.nonce]) = 0 /\ GasOf(pool'[bot.nonce]) = 0
    <3>1. pool[bot.nonce].by # "bot"
      BY <2>1, <2>3 DEF NonceInv, Ours
    <3>2. ~IsGas(pool[bot.nonce])
      BY <2>3, <3>1 DEF TypeInv
    <3>3. ~IsGas(ApproveTx("bot", key))
      BY DEF IsGas, ApproveTx
    <3> QED BY <2>3, <3>2, <3>3 DEF GasOf
  <2>5. PICK t \in [0..Slots -> Nat] :
          SumOf(pool', t) /\ t[Slots] = s[Slots] - GasOf(pool[bot.nonce]) + GasOf(pool'[bot.nonce])
    <3>1. PICK n \in 1..Slots : n = bot.nonce
      BY <2>3
    <3>2. \A k \in 1..Slots : k # n => pool'[k] = pool[k]
      BY <2>3, <3>1
    <3>3. \E t \in [0..Slots -> Nat] :
            SumOf(pool', t) /\ t[Slots] = s[Slots] - GasOf(pool[n]) + GasOf(pool'[n])
      BY <1>0, <1>1, <3>2, SumPut
    <3> QED BY <3>1, <3>3
  <2>6. t[Slots] = s[Slots]
    BY <1>2, <2>4, <2>5
  <2>7. Own(bot, pool) = 0 /\ Own(bot', pool') = 0 /\ Asked(bot') = 0
    BY <2>1 DEF Own, WaitsOn, Asked
  <2>8. t[Slots] <= abandoned' + Own(bot', pool') /\ gas' + t[Slots] + Asked(bot') <= TargetGas + abandoned'
    BY <1>0, <1>1, <1>2, <2>1, <2>6, <2>7
  <2> QED BY <1>3, <2>5, <2>8
<1>7. CASE WebSend /\ \E item : Puts(web.nonce, WebTx(item))
  <2>1. bot' = bot /\ gas' = gas /\ abandoned' = abandoned
    BY <1>7 DEF WebSend
  <2>2. PICK item : Puts(web.nonce, WebTx(item))
    BY <1>7
  <2>3. ~IsGas(WebTx(item)) /\ WebTx(item).by # "bot"
    BY WebTxFacts DEF IsGas
  <2> QED BY <2>1, <2>2, <2>3, GasBeside
<1>8. CASE DropFund /\ \E n \in 1..Slots : Puts(n, NoTx)
  <2>1. bot' = bot /\ gas' = gas /\ abandoned' = abandoned
    BY <1>8 DEF DropFund, history
  <2>2. ~IsGas(NoTx) /\ NoTx.by # "bot"
    BY DEF IsGas, NoTx
  <2> QED BY <1>8, <2>1, <2>2, GasBeside
<1>9. CASE pool' = pool /\ ~MineFund /\ ~SendFunding /\ ~SendApproval
  <2>1. SumOf(pool', s)
    BY <1>1, <1>9
  <2>2. SUFFICES /\ s[Slots] <= abandoned' + Own(bot', pool')
                 /\ gas' + s[Slots] + Asked(bot') <= TargetGas + abandoned'
    BY <1>3, <2>1
  <2>3. CASE Beside
    <3>1. bot' = bot /\ abandoned' = abandoned /\ gas' <= gas
      BY <1>0, <2>3, BesideFacts DEF MineArb
    <3> QED BY <1>0, <1>1, <1>2, <1>9, <3>1
  <2>4. CASE Fault \/ FundingTimesOut
    <3>1. Own(bot', pool') = 0 /\ Asked(bot') = 0 /\ gas' = gas
      <4>1. bot'.pc = "down" /\ gas' = gas
        BY <2>4, DownIsDown DEF Fault, FundingTimesOut, chainVars
      <4> QED BY <4>1 DEF Own, WaitsOn, Asked
    <3>2. /\ abandoned' \in {abandoned, abandoned + bot.value}
          /\ abandoned' = abandoned => Own(bot, pool) = 0 \/ bot.value = 0
      BY <1>0, <2>4 DEF Fault, FundingTimesOut, Gone, Latest, Own, WaitsOn
    <3>3. Own(bot, pool) \in {0, bot.value}
      BY DEF Own
    <3> QED BY <1>0, <1>1, <1>2, <3>1, <3>2, <3>3
  <2>5. CASE gas' = gas /\ abandoned' = abandoned /\ ReadFundingNonce
    <3>1. bot'.pc = "pay" /\ bot.pc = "fund" /\ bot'.value = bot.value
      BY <1>0, <2>5 DEF ReadFundingNonce, Bot
    <3>2. Own(bot, pool) = 0 /\ Own(bot', pool') = 0 /\ Asked(bot') = Asked(bot)
      BY <3>1 DEF Own, WaitsOn, Asked
    <3> QED BY <1>0, <1>1, <1>2, <2>5, <3>2
  <2>6. CASE gas' = gas /\ abandoned' = abandoned /\ ReconcileWorker /\ bot'.pc = "fund"
             /\ bot'.value = TargetGas - gas
    <3>1. bot.pc = "reconcile"
      BY <2>6 DEF ReconcileWorker
    <3>2. Own(bot, pool) = 0 /\ Own(bot', pool') = 0 /\ Asked(bot') = TargetGas - gas
      BY <2>6, <3>1 DEF Own, WaitsOn, Asked
    <3> QED BY <1>0, <1>1, <1>2, <2>6, <3>2
  <2>7. CASE gas' = gas /\ abandoned' = abandoned /\ bot'.pc \notin {"fund", "pay", "wait"}
             /\ (bot.pc = "wait" => bot.mined)
    <3>1. Own(bot, pool) = 0 /\ Own(bot', pool') = 0 /\ Asked(bot') = 0
      BY <2>7 DEF Own, WaitsOn, Asked
    <3> QED BY <1>0, <1>1, <1>2, <2>7, <3>1
  <2>8. ReadApprovalNonce => bot.pc = "nonce"
    BY DEF ReadApprovalNonce
  <2> QED BY <1>9, <2>3, <2>4, <2>5, <2>6, <2>7, <2>8, PcMoves
<1> QED BY <1>4, <1>5, <1>6, <1>7, <1>8, <1>9, PoolMoves

\* What is given up on costs a fault.
LEMMA AbandonStep ==
  ASSUME TypeInv, TypeInv', LaneInv, BatchInv, AbandonInv, [Next]_vars
  PROVE  AbandonInv'
<1>0. /\ bot \in Bot /\ bot' \in Bot /\ bot.value \in 0..TargetGas /\ TargetGas \in Nat
      /\ abandoned \in Nat /\ abandoned' \in Nat /\ faults \in Nat /\ Slots \in Nat /\ Slots > 0
  <2>1. bot \in Bot /\ bot' \in Bot /\ faults \in 0..sc.faults
    BY DEF TypeInv
  <2>2. bot.value \in 0..TargetGas
    BY <2>1 DEF Bot
  <2> QED BY <2>1, <2>2, Basics DEF TypeInv
<1> DEFINE reserve == IF Behind(bot, pool) THEN TargetGas ELSE 0
           reserve1 == IF Behind(bot', pool') THEN TargetGas ELSE 0
           budget == TargetGas * faults
<1>1. abandoned + reserve <= budget /\ budget \in Nat
  BY <1>0 DEF AbandonInv, AbandonHolds
<1>2. SUFFICES abandoned' + reserve1 <= TargetGas * faults'
  BY DEF AbandonInv, AbandonHolds
<1>3. reserve \in {0, TargetGas} /\ reserve1 \in {0, TargetGas}
  OBVIOUS
<1>4. ASSUME bot'.pc \notin {"pay", "wait"} PROVE reserve1 = 0
  BY <1>4 DEF Behind
<1>5. CASE Fails
  <2>1. TargetGas * faults' = budget + TargetGas
    <3>1. faults' = faults + 1
      BY <1>5 DEF Fails
    <3>2. TargetGas * (faults + 1) = TargetGas * faults + TargetGas
      BY <1>0
    <3> QED BY <3>1, <3>2
  <2>2. CASE Fault
    <3>1. reserve1 = 0
      BY <1>4, <2>2, DownIsDown
    <3>2. abandoned' \in {abandoned, abandoned + bot.value}
      BY <2>2 DEF Fault
    <3> HIDE DEF reserve, reserve1, budget
    <3> QED BY <1>0, <1>1, <1>3, <2>1, <3>1, <3>2
  <2>3. CASE ~Fault
    <3>1. abandoned' = abandoned
      BY <1>0, <1>5, <2>3, Changes DEF FundingTimesOut, Fails
    <3> HIDE DEF reserve, reserve1, budget
    <3> QED BY <1>0, <1>1, <1>3, <2>1, <3>1
  <2> QED BY <2>2, <2>3
<1>6. CASE FundingTimesOut
  <2>1. reserve1 = 0 /\ faults' = faults
    BY <1>4, <1>6, DownIsDown DEF FundingTimesOut
  <2>2. CASE Gone
    <3>1. abandoned' = abandoned
      BY <1>6, <2>2 DEF FundingTimesOut
    <3> HIDE DEF reserve, reserve1
    <3> QED BY <1>0, <1>1, <1>3, <2>1, <3>1
  <2>3. CASE ~Gone
    <3>1. /\ abandoned' = abandoned + bot.value /\ bot.pc = "wait" /\ ~bot.mined /\ pool[1] = NoTx
          /\ bot.nonce \in 1..Slots /\ pool[bot.nonce] = GasTx(bot.value)
      BY <1>6, <2>3 DEF FundingTimesOut, Gone, Latest
    <3>2. bot.nonce # 1
      BY <1>0, <3>1, GasFacts
    <3>3. 1 \in 1..Slots /\ 1 < bot.nonce
      BY <1>0, <3>1, <3>2
    <3>4. reserve = TargetGas
      BY <3>1, <3>3 DEF Behind
    <3> HIDE DEF reserve, reserve1
    <3> QED BY <1>0, <1>1, <2>1, <3>1, <3>4
  <2> QED BY <2>2, <2>3
<1>7. ASSUME faults' = faults, abandoned' = abandoned, Behind(bot', pool') => Behind(bot, pool)
      PROVE  abandoned' + reserve1 <= TargetGas * faults'
  <2>1. reserve1 <= reserve
    BY <1>0, <1>7
  <2> HIDE DEF reserve, reserve1
  <2> QED BY <1>0, <1>1, <1>3, <1>7, <2>1
<1>8. CASE ~Fails /\ ~FundingTimesOut
  <2>1. faults' = faults /\ abandoned' = abandoned
    BY <1>8, Changes DEF Fault
  <2>2. SUFFICES ASSUME Behind(bot', pool') PROVE Behind(bot, pool)
    BY <1>7, <2>1
  <2>3. PICK n \in 1..Slots : n < bot'.nonce /\ pool'[n] = NoTx
    BY <2>2 DEF Behind
  <2>4. /\ bot'.pc = "pay" \/ (bot'.pc = "wait" /\ ~bot'.mined)
    BY <2>2 DEF Behind
  <2>5. CASE MineFund
    <3>1. /\ bot'.nonce = Shifted(bot.nonce) /\ bot'.pc = bot.pc /\ bot.nonce \in 0..(Slots + 1)
          /\ bot'.mined = (bot.mined \/ (bot.pc = "wait" /\ bot.nonce = 1 /\ pool[1].by = "bot"))
      BY <1>0, <2>5, MineFundFacts DEF Bot
    <3>2. n + 1 \in 1..Slots /\ n + 1 < bot.nonce
      BY <1>0, <2>3, <3>1 DEF Shifted
    <3>3. pool[n + 1] = NoTx
      BY <2>3, <2>5, <3>2, MinedFacts
    <3>4. bot.pc = "pay" \/ (bot.pc = "wait" /\ ~bot.mined)
      BY <2>4, <3>1, Zenon
    <3> QED BY <3>2, <3>3, <3>4 DEF Behind
  <2>6. CASE SendFunding
    <3>1. bot'.nonce = bot.nonce /\ bot.pc = "pay" /\ Puts(bot.nonce, GasTx(bot.value))
      BY <1>0, <2>6 DEF SendFunding, Bot, Sends, Puts, Latest
    <3>2. bot.nonce \in 1..Slots /\ n # bot.nonce
      BY <1>0, <2>3, <3>1 DEF Puts
    <3>3. pool'[n] = pool[n]
      BY <3>1, <3>2, PutFacts
    <3> QED BY <2>3, <3>1, <3>3 DEF Behind
  <2>7. CASE SendApproval
    <3>1. bot'.pc = "check"
      BY <1>0, <2>7 DEF SendApproval, Skipped, Bot
    <3> QED BY <2>4, <3>1
  <2>8. CASE WebSend /\ \E item : Puts(web.nonce, WebTx(item))
    <3>1. PICK item : Puts(web.nonce, WebTx(item))
      BY <2>8
    <3>2. bot' = bot
      BY <2>8 DEF WebSend
    <3>3. WebTx(item) # NoTx
      BY WebTxFacts DEF NoTx
    <3>4. pool'[n] = pool[n]
      BY <2>3, <3>1, <3>3, PutFacts
    <3> QED BY <2>2, <2>3, <3>2, <3>4 DEF Behind
  <2>9. CASE pool' = pool /\ ~MineFund /\ ~SendFunding
    <3>1. CASE Beside
      BY <2>2, <2>9, <3>1, BesideFacts
    <3>2. CASE ReadFundingNonce
      <4>1. bot'.nonce = Pending
        BY <1>0, <3>2 DEF ReadFundingNonce, Bot
      <4> QED BY <2>3, <2>9, <4>1, PendingFacts
    <3> QED BY <1>8, <2>4, <2>9, <3>1, <3>2, PcMoves DEF Fault
  <2> QED BY <1>8, <2>5, <2>6, <2>7, <2>8, <2>9, PoolMoves DEF DropFund
<1> QED BY <1>5, <1>6, <1>8

\* No more gas than the target and what was given up on.
LEMMA GasWithinTarget ==
  ASSUME TypeInv, GasInv
  PROVE  gas <= TargetGas + abandoned
<1>1. PICK s \in [0..Slots -> Nat] : gas + s[Slots] + Asked(bot) <= TargetGas + abandoned
  BY DEF GasInv, GasHolds
<1>2. s[Slots] \in Nat /\ Asked(bot) \in Nat /\ gas \in Nat /\ abandoned \in Nat /\ TargetGas \in Nat
  <2>1. Slots \in 0..Slots /\ bot \in Bot
    BY Basics DEF TypeInv
  <2>2. bot.value \in 0..TargetGas
    BY <2>1 DEF Bot
  <2> QED BY <2>1, <2>2, Basics DEF TypeInv, Asked
<1> QED BY <1>1, <1>2

\* The balance that the lane remembers is one the worker had.
LEMMA BalanceStep ==
  ASSUME TypeInv, TypeInv', LaneInv, GasInv, BalanceInv, [Next]_vars
  PROVE  BalanceInv'
<1>0. /\ lane \in Lane /\ gas \in Nat /\ abandoned \in Nat /\ TargetGas \in Nat /\ bot.value \in Nat
      /\ lane.balance \in Nat
  <2>1. lane \in Lane /\ bot \in Bot
    BY DEF TypeInv
  <2>2. lane.balance \in Nat /\ bot.value \in 0..TargetGas
    BY <2>1 DEF Lane, Bot
  <2> QED BY <2>1, <2>2, Basics DEF TypeInv
<1>1. gas <= TargetGas + abandoned
  BY <1>0, GasWithinTarget
<1>2. abandoned' \in {abandoned, abandoned + bot.value}
  BY Changes DEF Fault, FundingTimesOut
<1>3. lane'.balance \in {lane.balance, gas}
  <2>1. Settled.balance \in {lane.balance, gas}
    BY <1>0 DEF Settled
  <2>2. CASE SelectWorker \/ ReconcileWorker \/ FundingMined
    BY <2>1, <2>2 DEF SelectWorker, ReconcileWorker, FundingMined
  <2>3. CASE SubmitBest \/ SubmissionFails
    BY <1>0, <2>3 DEF SubmitBest, SubmissionFails, Lane
  <2> QED BY <2>2, <2>3, Changes
<1> QED BY <1>0, <1>1, <1>2, <1>3 DEF BalanceInv

------------------------------------------------------------------------------
(* Theorems *)

LEMMA InitInv ==
  ASSUME Init
  PROVE  IInv
<1>1. /\ sc \in Scenarios /\ sc.gas \in 0..TargetGas /\ sc.faults \in Nat /\ TargetGas \in Nat /\ Slots \in Nat
      /\ Slots > 0 /\ Capacity \in Nat /\ MaxReady \in Nat /\ sc.live \in BOOLEAN
  BY ExecutionAssumption DEF Init
<1>2. bot = Down("none") /\ bot \in Bot /\ bot.pc = "down" /\ bot.rows = {} /\ bot.cache = {} /\ bot.todo = <<>>
      /\ bot.ready = {} /\ bot.done = {} /\ bot.sims = {} /\ bot.nonce = 0
  BY DownFacts DEF Init
<1>3. pool = [n \in 1..Slots |-> NoTx] /\ \A n \in 1..Slots : pool[n] = NoTx
  BY DEF Init
<1>4. TypeInv
  <2>1. \A n \in 1..Slots : ~IsGas(pool[n])
    BY <1>3 DEF IsGas, NoTx
  <2>2. lane \in Lane
    BY DEF Init, Lane
  <2>3. web = [nonce |-> web.nonce, todo |-> web.todo] /\ web.nonce \in 0..(Slots + 2)
    BY <1>1 DEF Init, WebIdle
  <2>4. faults \in 0..sc.faults /\ gas \in Nat /\ abandoned \in Nat
    BY <1>1 DEF Init
  <2> QED BY <1>1, <1>2, <1>3, <2>1, <2>2, <2>3, <2>4 DEF Init, TypeInv
<1>5. QueueInv
  BY <1>1 DEF Init, QueueInv
<1>6. LaneInv
  BY <1>1, <1>2 DEF Init, LaneInv, PCs, Idling
<1>7. BatchInv
  <2>1. Batch(bot, registry, opps)
    BY <1>2, <1>4, IdleBatch DEF Idling
  <2> QED BY <1>4, <2>1, Basics DEF BatchInv, Batch, Plan
<1>8. ReadyInv /\ OnlyTrustedPools /\ FlagInv
  BY <1>2 DEF Init, ReadyInv, OnlyTrustedPools, FlagInv
<1>9. NonceInv
  BY <1>1, <1>2 DEF NonceInv
<1>10. GasInv
  <2> DEFINE s == [n \in 0..Slots |-> 0]
  <2>1. \A n \in 1..Slots : GasOf(pool[n]) = 0
    BY <1>3 DEF GasOf, IsGas, NoTx
  <2>2. s \in [0..Slots -> Nat] /\ SumOf(pool, s) /\ s[Slots] = 0
    <3>1. \A n \in 1..Slots : n \in 0..Slots /\ n - 1 \in 0..Slots
      BY <1>1
    <3> QED BY <1>1, <2>1, <3>1 DEF SumOf
  <2>3. Own(bot, pool) = 0 /\ Asked(bot) = 0
    BY <1>2 DEF Own, WaitsOn, Asked
  <2>4. gas = sc.gas /\ abandoned = 0
    BY DEF Init
  <2> HIDE DEF s
  <2>5. s[Slots] <= abandoned + Own(bot, pool) /\ gas + s[Slots] + Asked(bot) <= TargetGas + abandoned
    BY <1>1, <2>2, <2>3, <2>4
  <2> QED BY <2>2, <2>5 DEF GasInv, GasHolds
<1>11. AbandonInv
  <2>1. ~Behind(bot, pool) /\ abandoned = 0 /\ faults = 0
    BY <1>2 DEF Behind, Init
  <2> QED BY <1>1, <2>1 DEF AbandonInv, AbandonHolds
<1>12. BalanceInv
  BY <1>1 DEF Init, BalanceInv
<1> QED BY <1>4, <1>5, <1>6, <1>7, <1>8, <1>9, <1>10, <1>11, <1>12 DEF IInv

LEMMA StepInv ==
  ASSUME IInv, [Next]_vars
  PROVE  IInv'
<1>1. TypeInv /\ LaneInv /\ BatchInv /\ NonceInv /\ QueueInv /\ ReadyInv /\ OnlyTrustedPools /\ GasInv
      /\ BalanceInv /\ AbandonInv /\ FlagInv
  BY DEF IInv
<1>2. TypeInv'
  BY <1>1, TypeStep
<1> QED
  BY <1>1, <1>2, QueueStep, LaneStep, BatchStep, ReadyStep, PoolsStep, NonceStep, GasStep,
     BalanceStep, AbandonStep, FlagStep DEF IInv

\* The balance of the worker and the gas given up on stay within what faults allow.
LEMMA GasBounds ==
  ASSUME IInv
  PROVE  gas \in Sums /\ abandoned \in Sums /\ lane.balance \in Sums
<1>0. /\ gas \in Nat /\ abandoned \in Nat /\ TargetGas \in Nat /\ sc.faults \in Nat /\ faults \in 0..sc.faults
      /\ lane.balance \in Nat
  BY Basics DEF IInv, TypeInv, Lane
<1>1. gas <= TargetGas + abandoned
  BY GasWithinTarget DEF IInv
<1>2. abandoned <= TargetGas * faults
  <2>1. TargetGas * faults \in Nat
    BY <1>0
  <2>2. abandoned + 0 <= TargetGas * faults \/ abandoned + TargetGas <= TargetGas * faults
    BY DEF IInv, AbandonInv, AbandonHolds
  <2> QED BY <1>0, <2>1, <2>2
<1>3. TargetGas * faults <= TargetGas * sc.faults
  <2>1. PICK rest \in Nat : sc.faults = faults + rest
    <3>1. sc.faults - faults \in Nat /\ sc.faults = faults + (sc.faults - faults)
      BY <1>0
    <3> QED BY <3>1
  <2>2. TargetGas * (faults + rest) = TargetGas * faults + TargetGas * rest
    BY <1>0
  <2>3. TargetGas * rest \in Nat /\ TargetGas * faults \in Nat
    BY <1>0
  <2> QED BY <2>1, <2>2, <2>3
<1>4. TargetGas * (sc.faults + 2) = TargetGas * sc.faults + TargetGas + TargetGas
  BY <1>0
<1>5. TargetGas * faults \in Nat /\ TargetGas * sc.faults \in Nat
  BY <1>0
<1>6. lane.balance <= TargetGas + abandoned
  BY DEF IInv, BalanceInv
<1> DEFINE one == TargetGas * faults
           all == TargetGas * sc.faults
           top == TargetGas * (sc.faults + 2)
<1>7. abandoned <= one /\ one <= all /\ top = all + TargetGas + TargetGas /\ one \in Nat /\ all \in Nat
  BY <1>2, <1>3, <1>4, <1>5
<1>8. Sums = 0..top
  BY DEF Sums
<1> HIDE DEF one, all, top
<1> QED BY <1>0, <1>1, <1>6, <1>7, <1>8

LEMMA TypesHold ==
  ASSUME IInv
  PROVE  TypeOK
<1>1. TypeInv /\ LaneInv /\ BatchInv /\ QueueInv
  BY DEF IInv
<1>2. bot \in Bot /\ lane \in Lane
  BY <1>1 DEF TypeInv
<1>3. DOMAIN pool = 1..Slots
  BY <1>1 DEF TypeInv
<1>4. lane.status \in {"idle", "pending", "cooldown"}
  BY <1>2 DEF Lane
<1>5. /\ bot.pc \in PCs /\ bot.nonce \in 0..(Slots + 1) /\ bot.ready \cup bot.done \subseteq Routes
      /\ bot.cache \subseteq Keys
  BY <1>2 DEF Bot
<1>6. bot.pc \in {"down", "select", "reconcile", "fund", "pay", "wait", "drain", "check", "admin",
                  "nonce", "approve", "simulate", "submit"}
  BY <1>5 DEF PCs, Idling
<1>7. /\ (lane.status = "pending") <=> (arb # None)
      /\ opps \subseteq Routes /\ Len(simq) <= Capacity /\ web.nonce \in 0..(Slots + 2)
      /\ Cardinality(bot.ready) <= MaxReady
  BY <1>1 DEF TypeInv, LaneInv, QueueInv, BatchInv
<1> QED BY <1>3, <1>4, <1>5, <1>6, <1>7, GasBounds DEF TypeOK

LEMMA ReadyHolds ==
  ASSUME IInv
  PROVE  ReadyIsApproved
<1>1. TypeInv /\ ReadyInv /\ bot \in Bot
  BY DEF IInv, TypeInv
<1>2. SUFFICES ASSUME sc.live, NEW r \in bot.ready, NEW e \in Range(Plan(r).call), ~NeedsHub(e.kind)
               PROVE  <<Plan(r).executor, e.tin, e.router>> \in allow \cup lost
  BY DEF ReadyIsApproved
<1>3. r \in Routes /\ Plan(r) = Plans(bot.rows)[r] /\ bot.rows \in SUBSET {LateRow}
  BY <1>1, Basics DEF Bot
<1>4. Plan(r).encodable /\ Plan(r).approvals \subseteq allow \cup lost
  BY <1>1, <1>2 DEF ReadyInv
<1>5. <<Plan(r).executor, e.tin, e.router>> \in Plan(r).approvals
  BY <1>2, <1>3, <1>4, ApprovalFacts
<1> QED BY <1>4, <1>5

LEMMA WalletHolds ==
  ASSUME IInv
  PROVE  WalletSound
<1>1. gas + Bringing[Slots] <= TargetGas + abandoned
  <2>1. PICK s \in [0..Slots -> Nat] :
          SumOf(pool, s) /\ gas + s[Slots] + Asked(bot) <= TargetGas + abandoned
    BY DEF IInv, GasInv, GasHolds
  <2>2. Bringing[Slots] = s[Slots]
    BY <2>1, SumFacts
  <2>3. /\ s[Slots] \in Nat /\ Asked(bot) \in Nat /\ gas \in Nat /\ abandoned \in Nat /\ TargetGas \in Nat
    <3>1. Slots \in 0..Slots /\ bot \in Bot /\ TypeInv
      BY Basics DEF IInv, TypeInv
    <3>2. bot.value \in 0..TargetGas
      BY <3>1 DEF Bot
    <3> QED BY <3>1, <3>2, Basics DEF TypeInv, Asked
  <2> QED BY <2>1, <2>2, <2>3
<1> QED BY <1>1 DEF WalletSound, FundedWithinTarget, OwnNoncesApart, IInv, FlagInv

LEMMA InvAlways == Spec => []IInv
BY InitInv, StepInv, PTL DEF Spec

\* A route is simulated live only with every allowance its executor will be asked for, or
\* one that was lowered since; what the hub executes goes through pools of trusted
\* factories that answer for them; every variable keeps its type and its bound
\* (missing_approvals_cached; step_execution_kind, factory_for_step; _validatePool).
THEOREM RoutesAreSound == Spec => []RoutesSound
<1>1. IInv => RoutesSound
  BY TypesHold, ReadyHolds DEF RoutesSound, IInv
<1> QED BY <1>1, InvAlways, PTL

\* No candidate ends the process: rows are there when transactions refer to them, and what
\* cannot be encoded is left out (live_approval_preflight; run_live_submission_batch).
THEOREM NoCandidateEverKills == Spec => []NoCandidateKills
<1>1. IInv => NoCandidateKills
  BY DEF IInv, TypeInv, Bot, NoCandidateKills
<1> QED BY <1>1, InvAlways, PTL

\* Whatever is lost, late or replaced, the worker gets no more than its target and what was
\* given up on, and the process never replaces a transaction of its own
\* (fund_worker_lane_if_needed, admin_has_pending_nonce, get_transaction_count).
THEOREM WalletIsSound == Spec => []WalletSound
<1>1. IInv => WalletSound
  BY WalletHolds
<1> QED BY <1>1, InvAlways, PTL

\* Live simulations find the opportunities they refer to (record_opportunities before
\* enqueue, record_simulations).
THEOREM LiveSimulationsAreKept == Spec => []LiveSimulationsKept
<1>1. IInv => LiveSimulationsKept
  BY DEF IInv, FlagInv, LiveSimulationsKept
<1> QED BY <1>1, InvAlways, PTL

==============================================================================

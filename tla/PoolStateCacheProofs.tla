------------------------- MODULE PoolStateCacheProofs -------------------------
(***************************************************************************)
(* Proofs about the pool state caches.  Of PoolStateCache: its types, and  *)
(* that no change of a pool without ticks is missed by the searcher as     *)
(* long as pending logs are dealt with before their block is sealed.  Of   *)
(* SealedStates, as the instance Loop: that the words and the fees which   *)
(* the sealed loop publishes are the chain's, and that the delayed         *)
(* validation judges them rightly.                                         *)
(***************************************************************************)
EXTENDS MCSealedStates, FiniteSetTheorems, WellFoundedInduction, TLAPS

\* Blocks are appended to the log in order; the last one is pending.
LogInv ==
  /\ \A i, j \in DOMAIN log : i <= j => log[i].block <= log[j].block
  /\ \A i \in DOMAIN log : log[i].block <= head + 1
  /\ \A i \in DOMAIN log : log[i].kind = "mint" => log[i].pool \in TickPools

\* The pools a pipeline publishes.
PipePools(w) == {p \in Pools : pipe[w].states[p] # NoState}

\* A version that a read of a sealed block can give.
IsSealed(v) == v = 0 \/ (v \in DOMAIN log /\ log[v].block <= head)

\* A version of the pending block.
IsPending(v) == v \in DOMAIN log /\ log[v].block = head + 1

\* The sealed loop knows sealed blocks only.
SealedInv ==
  /\ \A p \in Pools : IsSealed(mem[p].ver) /\ mem[p].block <= head
  /\ lastSeen <= head /\ upto <= head
  /\ pipe["sealed"].at \in {"block", "states"} =>
       \A p \in PipePools("sealed") : IsSealed(pipe["sealed"].states[p].ver)

\* The Flashblocks session has the pending block ahead of it, and marks what it
\* publishes.
FlashInv ==
  /\ fpc \in {"receive", "publish"} =>
       \A i \in DOMAIN log : i > fpos => log[i].block = head + 1
  /\ pipe["flash"].at \in {"block", "states"} =>
       \A p \in PipePools("flash") : IsPending(pipe["flash"].states[p].ver)
  /\ PipePools("flash") \subseteq pipe["flash"].marks

\* Between two drains there is nothing in hand.
DrainInv == qpc \in {"bootstrap", "drain"} => got = {}

\* The searcher knows version v of p, or hears of it.
Covered(p, v) ==
  \/ qpc = "bootstrap"
  \/ Announced(p)
  \/ cache[p] # NoState /\ cache[p].ver >= v

\* A state of p that the sealed loop publishes without a mark is one the searcher
\* knows: Redis had it, or a newer one, ever since it was compared.
Unmarked(p) ==
  /\ pipe["sealed"].at \in {"block", "states"}
  /\ p \in PipePools("sealed") \ pipe["sealed"].marks
  => /\ redis[p] # NoState /\ redis[p].ver >= pipe["sealed"].states[p].ver
     /\ Covered(p, pipe["sealed"].states[p].ver)

\* What NoChangeMissed says of p.
Heard(p) == qpc # "bootstrap" /\ Behind(p) => Announced(p)

CoverInv == \A p \in Pools \ TickPools : Unmarked(p) /\ Heard(p)

\* Strengthened NoChangeMissed.
IInv == TypeOK /\ LogInv /\ SealedInv /\ FlashInv /\ DrainInv /\ CoverInv

------------------------------------------------------------------------------
(* Facts about sets of numbers *)

\* A nonempty set of naturals has a least element.
LEMMA Minimum ==
  ASSUME NEW S \in SUBSET Nat, S # {}
  PROVE  \E m \in S : \A k \in S : m <= k
<1>1. PICK m \in S : \A k \in S : ~ (<<k, m>> \in OpToRel(<, Nat))
  BY NatLessThanWellFounded, WFMin
<1>2. \A k \in S : ~ (k < m)
  BY <1>1 DEF OpToRel
<1> QED BY <1>2, SMT

\* A nonempty set of naturals up to n has a greatest element.
LEMMA Maximum ==
  ASSUME NEW n \in Nat, NEW S \in SUBSET (0..n), S # {}
  PROVE  \E m \in S : \A k \in S : k <= m
<1> DEFINE T == {n - i : i \in S}
<1>1. \A i \in S : i \in 0..n /\ n - i \in Nat
  OBVIOUS
<1>2. PICK i \in S : TRUE
  OBVIOUS
<1>3. n - i \in T
  BY <1>2
<1>4. T \in SUBSET Nat /\ T # {}
  BY <1>1, <1>3
<1>5. PICK m \in T : \A k \in T : m <= k
  BY <1>4, Minimum
<1>6. PICK j \in S : m = n - j
  OBVIOUS
<1>7. ASSUME NEW k \in S PROVE k <= j
  <2>1. n - k \in T
    OBVIOUS
  <2>2. n - j <= n - k
    BY <1>5, <1>6, <2>1
  <2>3. j \in 0..n /\ k \in 0..n
    OBVIOUS
  <2> HIDE DEF T
  <2> QED BY <2>2, <2>3
<1> QED BY <1>7

\* Last returns a member of a set of positions.
LEMMA LastMember ==
  ASSUME NEW n \in Nat, NEW S \in SUBSET (1..n)
  PROVE  /\ S = {} => Last(S) = 0
         /\ S # {} => Last(S) \in S
         /\ Last(S) \in Nat
<1>1. CASE S = {}
  BY <1>1 DEF Last
<1>2. CASE S # {}
  <2>1. S \in SUBSET (0..n)
    OBVIOUS
  <2>2. \E i \in S : \A j \in S : j <= i
    BY <1>2, <2>1, Maximum
  <2>3. Last(S) \in S
    BY <1>2, <2>2 DEF Last
  <2>4. Last(S) \in 1..n
    BY <2>3
  <2>5. Last(S) \in Nat
    BY <2>4
  <2> QED BY <1>2, <2>3, <2>5
<1> QED BY <1>1, <1>2

\* The entries of the log have their types.
LEMMA LogEntries ==
  ASSUME TypeOK
  PROVE  /\ head \in Nat /\ Len(log) \in Nat /\ DOMAIN log = 1..Len(log)
         /\ \A i \in DOMAIN log : /\ log[i].pool \in Pools /\ log[i].block \in Nat
                                  /\ log[i].kind \in {"swap", "mint"}
<1>1. head \in Nat /\ log \in Seq(Event)
  BY CacheConstants DEF TypeOK
<1>2. Len(log) \in Nat /\ DOMAIN log = 1..Len(log)
  BY <1>1
<1>3. \A i \in DOMAIN log : log[i] \in Event
  BY <1>1
<1> QED BY <1>1, <1>2, <1>3 DEF Event

\* A read of the chain at a sealed block gives a sealed version.
LEMMA OnChainSealed ==
  ASSUME TypeOK, NEW p \in Pools, NEW b \in Nat
  PROVE  /\ OnChain(p, b) \in Nat
         /\ b <= head => IsSealed(OnChain(p, b))
<1> DEFINE S == EventsOf(p, 0, b)
<1>1. S \in SUBSET (1..Len(log))
  BY LogEntries DEF EventsOf
<1>2. \A i \in S : i \in DOMAIN log /\ log[i].block <= b
  BY DEF EventsOf
<1>3. OnChain(p, b) = Last(S)
  BY DEF OnChain
<1> HIDE DEF S
<1>4. Last(S) \in Nat /\ (Last(S) = 0 \/ Last(S) \in S)
  BY <1>1, LogEntries, LastMember
<1> QED BY <1>2, <1>3, <1>4, LogEntries DEF IsSealed

------------------------------------------------------------------------------
(* The invariant holds at first *)

LEMMA InitInv == Init => IInv
<1> SUFFICES ASSUME Init PROVE IInv
  OBVIOUS
<1> USE CacheConstants
<1>1. log = <<>> /\ DOMAIN log = {} /\ log \in Seq(Event)
  BY DEF Init
<1>2. NoPipe \in Pipe
  BY DEF NoPipe, Pipe
<1>3. [ver |-> 0, block |-> 0] \in State
  BY DEF State
<1>4. head \in 1..MaxBlock
  BY DEF Init
<1>5. TypeOK
  BY <1>1, <1>2, <1>3, <1>4 DEF Init, TypeOK, Writers
<1>6. \A w \in Writers : pipe[w] = NoPipe
  BY DEF Init
<1>7. LogInv /\ DrainInv
  BY <1>1 DEF Init, LogInv, DrainInv
<1>8. \A p \in Pools : mem[p].ver = 0 /\ mem[p].block = 0
  BY DEF Init
<1>9. SealedInv
  BY <1>6, <1>8 DEF Init, SealedInv, IsSealed, NoPipe, Writers
<1>10. FlashInv
  BY <1>1, <1>6 DEF Init, FlashInv, PipePools, NoPipe, Writers
<1>11. CoverInv
  BY <1>6 DEF Init, CoverInv, Unmarked, Heard, NoPipe, Writers
<1> QED BY <1>5, <1>7, <1>9, <1>10, <1>11 DEF IInv

------------------------------------------------------------------------------
(* Types *)

\* What Publish and Step leave in pipe.
LEMMA PipeTypes ==
  ASSUME TypeOK, NEW w \in Writers
  PROVE  /\ \A b \in Nat, S \in [Pools -> State \cup {NoState}], M \in SUBSET Pools :
              Publish(w, b, S, M) => pipe' \in [Writers -> Pipe]
         /\ \A a \in {"states", "marks"} : Step(w, a) => pipe' \in [Writers -> Pipe]
         /\ pipe' = [pipe EXCEPT ![w] = NoPipe] => pipe' \in [Writers -> Pipe]
<1>1. pipe \in [Writers -> Pipe]
  BY DEF TypeOK
<1>2. NoPipe \in Pipe
  BY DEF NoPipe, Pipe
<1>3. ASSUME NEW b \in Nat, NEW S \in [Pools -> State \cup {NoState}],
             NEW M \in SUBSET Pools
      PROVE  [at |-> "block", block |-> b, states |-> S, marks |-> M] \in Pipe
  BY DEF Pipe
<1>4. ASSUME NEW a \in {"states", "marks"}
      PROVE  [pipe[w] EXCEPT !.at = a] \in Pipe
  BY <1>1 DEF Pipe
<1> QED BY <1>1, <1>2, <1>3, <1>4 DEF Publish, Step

LEMMA TypeStep == TypeOK /\ LogInv /\ SealedInv /\ [Next]_vars => TypeOK'
<1> SUFFICES ASSUME TypeOK, LogInv, SealedInv, [Next]_vars PROVE TypeOK'
  OBVIOUS
<1> USE CacheConstants
<1>1. CASE Chain
  <2>1. CASE Seal
    BY <2>1 DEF Seal, TypeOK, redisVars, sealedVars, flashVars, searchVars
  <2>2. ASSUME NEW p \in Pools, NEW k \in {"swap", "mint"}, Emit(p, k)
        PROVE  TypeOK'
    <3>1. [pool |-> p, kind |-> k, block |-> head + 1] \in Event
      BY LogEntries DEF Event
    <3>2. log' \in Seq(Event)
      BY <2>2, <3>1 DEF Emit, TypeOK
    <3> QED BY <2>2, <3>2 DEF Emit, TypeOK, redisVars, sealedVars, flashVars, searchVars
  <2> QED BY <1>1, <2>1, <2>2 DEF Chain
<1>2. ASSUME NEW w \in Writers, Pipeline(w) PROVE TypeOK'
  <2>1. pipe[w].block \in Nat /\ pipe[w].marks \in SUBSET Pools
        /\ pipe[w].states \in [Pools -> State \cup {NoState}]
    BY DEF TypeOK, Pipe
  <2>2. CASE PipeBlock(w)
    <3>1. current' \in Nat
      BY <2>1, <2>2 DEF PipeBlock, Newer, Larger, TypeOK
    <3>2. pipe' \in [Writers -> Pipe]
      BY <2>2, PipeTypes DEF PipeBlock
    <3> QED BY <2>2, <3>1, <3>2 DEF PipeBlock, TypeOK, chainVars, sealedVars, flashVars, searchVars
  <2>3. CASE PipeStates(w)
    <3>1. redis' \in [Pools -> State \cup {NoState}]
      BY <2>1, <2>3 DEF PipeStates, TypeOK
    <3>2. pipe' \in [Writers -> Pipe]
      BY <2>3, PipeTypes DEF PipeStates
    <3> QED BY <2>3, <3>1, <3>2 DEF PipeStates, TypeOK, chainVars, sealedVars, flashVars, searchVars
  <2>4. CASE PipeMarks(w)
    <3>1. changed' \subseteq Pools
      BY <2>1, <2>4 DEF PipeMarks, TypeOK
    <3>2. pipe' \in [Writers -> Pipe]
      BY <2>4, PipeTypes DEF PipeMarks
    <3> QED BY <2>4, <3>1, <3>2 DEF PipeMarks, TypeOK, chainVars, sealedVars, flashVars, searchVars
  <2> QED BY <1>2, <2>2, <2>3, <2>4 DEF Pipeline
<1>3. CASE Load
  <2>1. \A p \in Pools : [ver |-> OnChain(p, head), block |-> head] \in State
    BY LogEntries, OnChainSealed DEF State
  <2>2. mem' \in [Pools -> State]
    BY <1>3, <2>1 DEF Load
  <2> QED BY <1>3, <2>2 DEF Load, TypeOK, chainVars, redisVars, flashVars, searchVars
<1>4. CASE Sync
  <2>1. lastSeen' \in Nat /\ upto' = lastSeen' /\ polled' \in Nat
    BY <1>4, LogEntries DEF Sync, StartBlock, TypeOK
  <2> QED BY <1>4, <2>1 DEF Sync, TypeOK, chainVars, flashVars, searchVars
<1>5. ASSUME NEW F, Chunk(F) PROVE TypeOK'
  <2>1. upto' \in Nat /\ polled' \in Nat
    BY <1>5, LogEntries DEF Chunk, TypeOK
  <2>2. ASSUME NEW p \in Pools, NEW i \in DOMAIN log PROVE Applied(p, i) \in State
    <3>1. i \in Nat /\ log[i].block \in Nat
      BY LogEntries
    <3>2. OnChain(p, log[i].block) \in Nat
      BY <3>1, OnChainSealed
    <3> QED BY <3>1, <3>2 DEF Applied, State
  <2> DEFINE done(p) == EventsOf(p, lastSeen, upto') \ F
  <2>3. \A p \in Pools : done(p) # {} => Last(done(p)) \in DOMAIN log
    <3> SUFFICES ASSUME NEW p \in Pools, done(p) # {} PROVE Last(done(p)) \in DOMAIN log
      OBVIOUS
    <3>1. done(p) \in SUBSET (1..Len(log))
      BY LogEntries DEF EventsOf
    <3> HIDE DEF done
    <3>2. Last(done(p)) \in done(p)
      BY <3>1, LogEntries, LastMember
    <3> QED BY <3>1, <3>2, LogEntries
  <2>4. mem' = [p \in Pools |-> IF done(p) = {} THEN mem[p] ELSE Applied(p, Last(done(p)))]
        /\ sel' = {p \in Pools : done(p) # {}}
    BY <1>5 DEF Chunk
  <2> HIDE DEF done
  <2>5. mem' \in [Pools -> State] /\ sel' \subseteq Pools
    BY <2>2, <2>3, <2>4 DEF TypeOK
  <2>6. tickChanged' \subseteq TickPools
    <3>1. \A i \in DOMAIN log : log[i].kind = "mint" => log[i].pool \in TickPools
      BY DEF LogInv
    <3>2. tickChanged' = tickChanged \cup
            {p \in Pools : \E i \in EventsOf(p, lastSeen, upto') : log[i].kind = "mint"}
      BY <1>5 DEF Chunk
    <3>3. \A p \in Pools : \A i \in EventsOf(p, lastSeen, upto') :
            i \in DOMAIN log /\ log[i].pool = p
      BY DEF EventsOf
    <3> QED BY <3>1, <3>2, <3>3 DEF TypeOK
  <2> QED BY <1>5, <2>1, <2>5, <2>6 DEF Chunk, TypeOK, chainVars, flashVars, searchVars
<1>6. ASSUME NEW p \in TickPools, Warmup(p) PROVE TypeOK'
  BY <1>6 DEF Warmup, TypeOK, chainVars, sealedVars, flashVars, searchVars
<1>7. CASE ReadPrevious
  <2> DEFINE B == {mem[p].block : p \in sel}
             newest == CHOOSE b \in B : \A p \in sel : mem[p].block <= b
             S == [p \in Pools |-> IF p \in sel THEN mem[p] ELSE NoState]
             M == {p \in sel : redis[p] = NoState \/ redis[p].ver # mem[p].ver}
             c == IF upto = lastSeen THEN lastSeen ELSE newest
  <2>1. \A p \in Pools : mem[p].block \in Nat /\ mem[p].block <= head
    BY DEF TypeOK, State, SealedInv
  <2>2. \A b \in B : b \in 0..head
    BY <2>1, LogEntries DEF TypeOK
  <2>3. B # {}
    BY <1>7 DEF ReadPrevious
  <2>4. \E b \in B : \A d \in B : d <= b
    <3> HIDE DEF B
    <3> QED BY <2>2, <2>3, LogEntries, Maximum
  <2>5. \E b \in B : \A p \in sel : mem[p].block <= b
    BY <2>4
  <2>6. newest \in B
    <3> HIDE DEF B
    <3> QED BY <2>5
  <2>7. c \in Nat
    <3> HIDE DEF B, newest
    <3> QED BY <2>2, <2>6, LogEntries DEF TypeOK
  <2>8. S \in [Pools -> State \cup {NoState}] /\ M \in SUBSET Pools
    BY DEF TypeOK
  <2>9. Publish("sealed", c, S, M)
    BY <1>7 DEF ReadPrevious
  <2> HIDE DEF B, newest, S, M, c
  <2>10. pipe' \in [Writers -> Pipe]
    BY <2>7, <2>8, <2>9, PipeTypes DEF Writers
  <2> QED BY <1>7, <2>10 DEF ReadPrevious, TypeOK, chainVars, redisVars, flashVars, searchVars
<1>8. CASE Advance
  <2>1. current' \in Nat
    BY <1>8 DEF Advance, Newer, Larger, TypeOK
  <2>2. fpc' \in {"off", "connect", "receive", "publish"}
    BY <1>8 DEF Advance, TypeOK
  <2> QED BY <1>8, <2>1, <2>2 DEF Advance, TypeOK, chainVars, searchVars
<1>9. CASE MarketDataCrash
  BY <1>9 DEF MarketDataCrash, TypeOK, chainVars, redisVars, searchVars
<1>10. CASE Connect
  BY <1>10, LogEntries DEF Connect, TypeOK, chainVars, redisVars, sealedVars, searchVars
<1>11. CASE Receive
  <2>1. fpos' \in Nat
    BY <1>11 DEF Receive, TypeOK
  <2>2. fpos + 1 \in DOMAIN log
    BY <1>11, LogEntries DEF Receive, TypeOK
  <2> DEFINE e == log[fpos + 1]
             S == [p \in Pools |-> IF p = e.pool THEN [ver |-> fpos + 1, block |-> e.block]
                                  ELSE NoState]
  <2>3. e.pool \in Pools /\ e.block \in Nat
    BY <2>2, LogEntries
  <2>4. S \in [Pools -> State \cup {NoState}]
    BY <2>3 DEF State, TypeOK
  <2>5. \/ Publish("flash", e.block, S, {e.pool}) /\ fpc' = "publish" /\ UNCHANGED current
        \/ current' = Newer(e.block) /\ UNCHANGED <<pipe, fpc>>
    BY <1>11 DEF Receive
  <2> HIDE DEF e, S
  <2>6. pipe' \in [Writers -> Pipe] /\ fpc' \in {"off", "connect", "receive", "publish"}
        /\ current' \in Nat
    <3>1. CASE Publish("flash", e.block, S, {e.pool}) /\ fpc' = "publish" /\ UNCHANGED current
      <4>1. pipe' \in [Writers -> Pipe]
        BY <2>3, <2>4, <3>1, PipeTypes DEF Writers
      <4> QED BY <3>1, <4>1 DEF TypeOK
    <3>2. CASE current' = Newer(e.block) /\ UNCHANGED <<pipe, fpc>>
      BY <2>3, <3>2 DEF Newer, Larger, TypeOK
    <3> QED BY <2>5, <3>1, <3>2
  <2> QED BY <1>11, <2>1, <2>6 DEF Receive, TypeOK, chainVars, sealedVars, searchVars
<1>12. CASE Published
  BY <1>12 DEF Published, TypeOK, chainVars, redisVars, sealedVars, searchVars
<1>13. CASE Disconnect
  BY <1>13 DEF Disconnect, TypeOK, chainVars, redisVars, sealedVars, searchVars
<1>14. CASE Bootstrap
  BY <1>14 DEF Bootstrap, TypeOK, chainVars, redisVars, sealedVars, flashVars
<1>15. CASE DrainChanged
  BY <1>15 DEF DrainChanged, TypeOK, chainVars, sealedVars, flashVars
<1>16. CASE DrainTicks
  BY <1>16 DEF DrainTicks, TypeOK, chainVars, sealedVars, flashVars
<1>17. CASE LoadStates
  <2>1. cache' \in [Pools -> State \cup {NoState}]
    BY <1>17 DEF LoadStates, TypeOK
  <2> QED BY <1>17, <2>1 DEF LoadStates, TypeOK, chainVars, redisVars, sealedVars, flashVars
<1>18. CASE SearcherCrash
  BY <1>18 DEF SearcherCrash, TypeOK, chainVars, redisVars, sealedVars, flashVars
<1>19. CASE UNCHANGED vars
  BY <1>19 DEF vars, TypeOK, chainVars, redisVars, sealedVars, flashVars, searchVars
<1> QED BY <1>1, <1>2, <1>3, <1>4, <1>5, <1>6, <1>7, <1>8, <1>9, <1>10, <1>11, <1>12,
           <1>13, <1>14, <1>15, <1>16, <1>17, <1>18, <1>19
        DEF Next, Sealed, FlashSession, Searcher

------------------------------------------------------------------------------
(* The chain and the two readers *)

\* What a step of one pipeline does, and that it leaves the other one alone.
LEMMA PipeFrame ==
  ASSUME TypeOK, NEW w \in Writers, NEW v \in Writers, v # w
  PROVE  /\ \A b, S, M : Publish(w, b, S, M) =>
              /\ pipe'[v] = pipe[v]
              /\ pipe'[w].at = "block" /\ pipe'[w].states = S /\ pipe'[w].marks = M
         /\ \A a : Step(w, a) =>
              /\ pipe'[v] = pipe[v]
              /\ pipe'[w].at = a
              /\ pipe'[w].states = pipe[w].states /\ pipe'[w].marks = pipe[w].marks
         /\ pipe' = [pipe EXCEPT ![w] = NoPipe] =>
              /\ pipe'[v] = pipe[v]
              /\ pipe'[w].at = "idle" /\ pipe'[w].marks = {}
              /\ \A p \in Pools : pipe'[w].states[p] = NoState
<1>1. pipe \in [Writers -> Pipe]
  BY DEF TypeOK
<1>2. ASSUME NEW b, NEW S, NEW M, Publish(w, b, S, M)
      PROVE  /\ pipe'[v] = pipe[v]
             /\ pipe'[w].at = "block" /\ pipe'[w].states = S /\ pipe'[w].marks = M
  BY <1>1, <1>2 DEF Publish
<1>3. ASSUME NEW a, Step(w, a)
      PROVE  /\ pipe'[v] = pipe[v]
             /\ pipe'[w].at = a
             /\ pipe'[w].states = pipe[w].states /\ pipe'[w].marks = pipe[w].marks
  BY <1>1, <1>3 DEF Step, Pipe
<1>4. ASSUME pipe' = [pipe EXCEPT ![w] = NoPipe]
      PROVE  /\ pipe'[v] = pipe[v]
             /\ pipe'[w].at = "idle" /\ pipe'[w].marks = {}
             /\ \A p \in Pools : pipe'[w].states[p] = NoState
  BY <1>1, <1>4 DEF NoPipe
<1> QED BY <1>2, <1>3, <1>4

\* The log grows at its end, with pending events.
LEMMA EmitLog ==
  ASSUME TypeOK, NEW p \in Pools, NEW k \in {"swap", "mint"}, Emit(p, k)
  PROVE  /\ DOMAIN log \subseteq DOMAIN log' /\ head' = head
         /\ \A i \in DOMAIN log : log'[i] = log[i]
         /\ \A i \in DOMAIN log' \ DOMAIN log :
              /\ i = Len(log) + 1 /\ log'[i].block = head + 1
              /\ log'[i].kind = "mint" => log'[i].pool \in TickPools
<1>1. log' = Append(log, [pool |-> p, kind |-> k, block |-> head + 1]) /\ head' = head
  BY DEF Emit
<1>2. log \in Seq(Event)
  BY DEF TypeOK
<1>3. Len(log) \in Nat /\ DOMAIN log = 1..Len(log) /\ DOMAIN log' = 1..(Len(log) + 1)
  BY <1>1, <1>2, LogEntries
<1>4. log'[Len(log) + 1] = [pool |-> p, kind |-> k, block |-> head + 1]
  BY <1>1, <1>2
<1>5. \A i \in 1..Len(log) : log'[i] = log[i]
  BY <1>1, <1>2
<1>6. \A i \in DOMAIN log' \ DOMAIN log : i = Len(log) + 1
  BY <1>3
<1>7. DOMAIN log \subseteq DOMAIN log'
  BY <1>3
<1>8. k = "mint" => p \in TickPools
  BY DEF Emit
<1> QED BY <1>1, <1>3, <1>4, <1>5, <1>6, <1>7, <1>8

LEMMA LogStep == TypeOK /\ LogInv /\ [Next]_vars => LogInv'
<1> SUFFICES ASSUME TypeOK, LogInv, [Next]_vars PROVE LogInv'
  OBVIOUS
<1>1. CASE Seal
  BY <1>1, LogEntries DEF Seal, LogInv
<1>2. ASSUME NEW p \in Pools, NEW k \in {"swap", "mint"}, Emit(p, k) PROVE LogInv'
  <2>1. DOMAIN log = 1..Len(log) /\ Len(log) \in Nat /\ head \in Nat
    BY LogEntries
  <2>2. ASSUME NEW i \in DOMAIN log', NEW j \in DOMAIN log', i <= j
        PROVE  log'[i].block <= log'[j].block
    <3>1. CASE j \in DOMAIN log
      <4>1. i \in DOMAIN log
        BY <1>2, <2>1, <2>2, <3>1, EmitLog
      <4> QED BY <1>2, <2>2, <3>1, <4>1, EmitLog DEF LogInv
    <3>2. CASE j \notin DOMAIN log /\ i \in DOMAIN log
      BY <1>2, <3>2, EmitLog DEF LogInv
    <3>3. CASE j \notin DOMAIN log /\ i \notin DOMAIN log
      BY <1>2, <2>1, <3>3, EmitLog
    <3> QED BY <3>1, <3>2, <3>3
  <2>3. \A i \in DOMAIN log' : /\ log'[i].block <= head' + 1
                               /\ log'[i].kind = "mint" => log'[i].pool \in TickPools
    BY <1>2, <2>1, EmitLog DEF LogInv
  <2> QED BY <2>2, <2>3 DEF LogInv
<1>3. CASE UNCHANGED chainVars
  BY <1>3 DEF LogInv, chainVars
<1>4. CASE \E w \in Writers : Pipeline(w)
  BY <1>3, <1>4 DEF Pipeline, PipeBlock, PipeStates, PipeMarks
<1>5. CASE Sealed
  BY <1>3, <1>5 DEF Sealed, Load, Sync, ReadPrevious, Advance, Chunk
<1>6. CASE MarketDataCrash \/ Disconnect \/ SearcherCrash \/ \E p \in TickPools : Warmup(p)
  BY <1>3, <1>6 DEF MarketDataCrash, Disconnect, SearcherCrash, Warmup
<1>7. CASE FlashSession
  BY <1>3, <1>7 DEF FlashSession, Connect, Receive, Published
<1>8. CASE Searcher
  BY <1>3, <1>8 DEF Searcher, Bootstrap, DrainChanged, DrainTicks, LoadStates
<1>9. CASE UNCHANGED vars
  BY <1>3, <1>9 DEF vars
<1> QED BY <1>1, <1>2, <1>4, <1>5, <1>6, <1>7, <1>8, <1>9 DEF Next, Chain

\* What is sealed stays sealed.
LEMMA SealedStable ==
  ASSUME TypeOK, LogInv, Seal \/ \E p \in Pools, k \in {"swap", "mint"} : Emit(p, k),
         NEW v, IsSealed(v)
  PROVE  v = 0 \/ (v \in DOMAIN log' /\ log'[v].block <= head')
<1>1. CASE Seal
  BY <1>1, LogEntries DEF Seal, IsSealed
<1>2. CASE \E p \in Pools, k \in {"swap", "mint"} : Emit(p, k)
  BY <1>2, EmitLog DEF IsSealed
<1> QED BY <1>1, <1>2

LEMMA SealedStep == TypeOK /\ LogInv /\ SealedInv /\ [Next]_vars => SealedInv'
<1> SUFFICES ASSUME TypeOK, LogInv, SealedInv, [Next]_vars PROVE SealedInv'
  OBVIOUS
<1>a. head \in Nat /\ lastSeen \in Nat /\ upto \in Nat /\ MaxSpan \in Nat
  BY LogEntries, CacheConstants DEF TypeOK
<1>1. CASE Chain
  <2>1. UNCHANGED <<sealedVars, pipe>> /\ head <= head' /\ head' \in Nat
    <3>1. CASE Seal
      BY <1>a, <3>1 DEF Seal
    <3>2. ASSUME NEW p \in Pools, NEW k \in {"swap", "mint"}, Emit(p, k)
          PROVE  UNCHANGED <<sealedVars, pipe>> /\ head' = head
      BY <3>2 DEF Emit
    <3> QED BY <1>1, <1>a, <3>1, <3>2 DEF Chain
  <2>2. \A v : IsSealed(v) => v = 0 \/ (v \in DOMAIN log' /\ log'[v].block <= head')
    BY <1>1, SealedStable DEF Chain
  <2>3. \A p \in Pools : mem[p].block \in Nat
    BY DEF TypeOK, State
  <2> QED BY <2>1, <2>2, <2>3, <1>a DEF SealedInv, IsSealed, PipePools, sealedVars
<1>2. CASE UNCHANGED <<chainVars, mem, lastSeen, upto, pipe>>
  BY <1>2 DEF SealedInv, IsSealed, PipePools, chainVars
<1>3. ASSUME NEW w \in Writers, Pipeline(w) PROVE SealedInv'
  <2>1. UNCHANGED <<chainVars, sealedVars>>
    BY <1>3 DEF Pipeline, PipeBlock, PipeStates, PipeMarks
  <2>2. CASE w = "flash"
    <3>1. pipe'["sealed"] = pipe["sealed"]
      BY <1>3, <2>2, PipeFrame DEF Pipeline, PipeBlock, PipeStates, PipeMarks, Writers
    <3> QED BY <2>1, <3>1 DEF SealedInv, IsSealed, PipePools, chainVars, sealedVars
  <2>3. CASE w = "sealed"
    <3>1. CASE PipeBlock("sealed")
      <4>1. pipe["sealed"].at = "block" /\ pipe'["sealed"].states = pipe["sealed"].states
        BY <3>1, PipeFrame DEF PipeBlock, Writers
      <4> QED BY <2>1, <4>1 DEF SealedInv, IsSealed, PipePools, chainVars, sealedVars
    <3>2. CASE PipeStates("sealed") \/ PipeMarks("sealed")
      <4>1. pipe'["sealed"].at \in {"marks", "idle"}
        BY <3>2, PipeFrame DEF PipeStates, PipeMarks, Writers
      <4> QED BY <2>1, <4>1 DEF SealedInv, IsSealed, PipePools, chainVars, sealedVars
    <3> QED BY <1>3, <2>3, <3>1, <3>2 DEF Pipeline
  <2> QED BY <2>2, <2>3 DEF Writers
<1>4. CASE Load
  <2>1. UNCHANGED <<chainVars, lastSeen, upto, pipe>>
    BY <1>4 DEF Load
  <2>2. \A p \in Pools : mem'[p].ver = OnChain(p, head) /\ mem'[p].block = head
    BY <1>4 DEF Load
  <2>3. \A p \in Pools : IsSealed(OnChain(p, head))
    BY <1>a, OnChainSealed
  <2> QED BY <1>a, <2>1, <2>2, <2>3 DEF SealedInv, IsSealed, PipePools, chainVars
<1>5. CASE Sync
  <2>1. lastSeen' <= head /\ upto' <= head
    BY <1>5, <1>a DEF Sync, StartBlock, TypeOK
  <2>2. UNCHANGED <<chainVars, mem, pipe>>
    BY <1>5 DEF Sync
  <2> QED BY <2>1, <2>2 DEF SealedInv, IsSealed, PipePools, chainVars
<1>6. ASSUME NEW F, Chunk(F) PROVE SealedInv'
  <2>1. UNCHANGED <<chainVars, lastSeen, pipe>> /\ upto' <= head /\ upto' \in Nat
    BY <1>6, <1>a DEF Chunk
  <2> DEFINE done(p) == EventsOf(p, lastSeen, upto') \ F
  <2>2. mem' = [p \in Pools |-> IF done(p) = {} THEN mem[p] ELSE Applied(p, Last(done(p)))]
    BY <1>6 DEF Chunk
  <2>3. ASSUME NEW p \in Pools, done(p) # {}
        PROVE  Last(done(p)) \in DOMAIN log /\ log[Last(done(p))].block <= head
    <3>1. done(p) \in SUBSET (1..Len(log))
      BY LogEntries DEF EventsOf
    <3>2. \A i \in done(p) : i \in DOMAIN log /\ log[i].block <= upto'
      BY DEF EventsOf
    <3> HIDE DEF done
    <3>3. Last(done(p)) \in done(p)
      BY <2>3, <3>1, LogEntries, LastMember
    <3>4. \A i \in DOMAIN log : log[i].block \in Nat
      BY LogEntries
    <3> QED BY <3>2, <3>3, <3>4, <2>1, <1>a
  <2>4. ASSUME NEW p \in Pools, NEW i \in DOMAIN log, log[i].block <= head
        PROVE  IsSealed(Applied(p, i).ver) /\ Applied(p, i).block <= head
    <3>1. log[i].block \in Nat
      BY LogEntries
    <3>2. IsSealed(OnChain(p, log[i].block)) /\ IsSealed(i)
      BY <2>4, <3>1, OnChainSealed DEF IsSealed
    <3> QED BY <2>4, <3>2 DEF Applied
  <2> HIDE DEF done
  <2>5. \A p \in Pools : IsSealed(mem'[p].ver) /\ mem'[p].block <= head
    BY <2>2, <2>3, <2>4 DEF SealedInv
  <2> QED BY <2>1, <2>5 DEF SealedInv, IsSealed, PipePools, chainVars
<1>7. CASE ReadPrevious
  <2> DEFINE S == [p \in Pools |-> IF p \in sel THEN mem[p] ELSE NoState]
  <2>1. \E b, M : Publish("sealed", b, S, M)
    BY <1>7 DEF ReadPrevious
  <2>2. pipe'["sealed"].states = S
    <3> HIDE DEF S
    <3> QED BY <2>1, PipeFrame DEF Writers
  <2>3. UNCHANGED <<chainVars, mem, lastSeen, upto>>
    BY <1>7 DEF ReadPrevious
  <2>4. \A p \in Pools : S[p] # NoState => IsSealed(S[p].ver)
    BY DEF SealedInv
  <2> HIDE DEF S
  <2> QED BY <2>2, <2>3, <2>4 DEF SealedInv, IsSealed, PipePools, chainVars
<1>8. CASE Advance
  <2>1. lastSeen' = upto /\ UNCHANGED <<chainVars, mem, upto, pipe>>
    BY <1>8 DEF Advance
  <2> QED BY <2>1 DEF SealedInv, IsSealed, PipePools, chainVars
<1>9. CASE Receive
  <2>1. UNCHANGED <<chainVars, sealedVars>>
    BY <1>9 DEF Receive
  <2>2. pipe'["sealed"] = pipe["sealed"]
    <3>1. (\E b, S, M : Publish("flash", b, S, M)) \/ UNCHANGED pipe
      BY <1>9 DEF Receive
    <3> QED BY <3>1, PipeFrame DEF Writers
  <2> QED BY <2>1, <2>2 DEF SealedInv, IsSealed, PipePools, chainVars, sealedVars
<1>10. CASE MarketDataCrash \/ Disconnect \/ SearcherCrash \/ \E p \in TickPools : Warmup(p)
  BY <1>2, <1>10 DEF MarketDataCrash, Disconnect, SearcherCrash, Warmup, sealedVars
<1>11. CASE Connect \/ Published
  BY <1>2, <1>11 DEF Connect, Published, sealedVars
<1>12. CASE Searcher
  BY <1>2, <1>12 DEF Searcher, Bootstrap, DrainChanged, DrainTicks, LoadStates, sealedVars
<1>13. CASE UNCHANGED vars
  BY <1>2, <1>13 DEF vars, sealedVars
<1> QED BY <1>1, <1>3, <1>4, <1>5, <1>6, <1>7, <1>8, <1>9, <1>10, <1>11, <1>12, <1>13
        DEF Next, Sealed, FlashSession

LEMMA FlashStep == ~LateLogs /\ TypeOK /\ LogInv /\ FlashInv /\ [Next]_vars => FlashInv'
<1> SUFFICES ASSUME ~LateLogs, TypeOK, LogInv, FlashInv, [Next]_vars PROVE FlashInv'
  OBVIOUS
<1>a. head \in Nat /\ fpos \in Nat /\ Len(log) \in Nat /\ DOMAIN log = 1..Len(log)
  BY LogEntries DEF TypeOK
<1>1. CASE Seal
  <2>1. pipe["flash"].at = "idle" /\ UNCHANGED <<log, fpc, fpos, pipe>>
    BY <1>1 DEF Seal, FlashCaughtUp, flashVars
  <2>2. fpc \in {"off", "connect"} \/ (fpc = "receive" /\ fpos = Len(log))
    BY <1>1 DEF Seal, FlashCaughtUp
  <2>3. fpc \in {"receive", "publish"} => \A i \in DOMAIN log : ~ (i > fpos)
    <3> SUFFICES ASSUME fpc \in {"receive", "publish"}, NEW i \in DOMAIN log
                 PROVE  ~ (i > fpos)
      OBVIOUS
    <3>1. fpos = Len(log)
      BY <2>2
    <3> QED BY <3>1, <1>a
  <2> QED BY <2>1, <2>3 DEF FlashInv, PipePools
<1>2. ASSUME NEW p \in Pools, NEW k \in {"swap", "mint"}, Emit(p, k) PROVE FlashInv'
  <2>1. UNCHANGED <<head, fpc, fpos, pipe>>
    BY <1>2 DEF Emit, flashVars
  <2>2. \A v : IsPending(v) => v \in DOMAIN log' /\ log'[v].block = head + 1
    BY <1>2, EmitLog DEF IsPending
  <2>3. \A i \in DOMAIN log' : \/ i \in DOMAIN log /\ log'[i] = log[i]
                               \/ log'[i].block = head + 1
    BY <1>2, EmitLog
  <2> QED BY <2>1, <2>2, <2>3 DEF FlashInv, IsPending, PipePools
<1>3. CASE UNCHANGED <<chainVars, flashVars, pipe>>
  BY <1>3 DEF FlashInv, IsPending, PipePools, chainVars, flashVars
<1>4. ASSUME NEW w \in Writers, Pipeline(w) PROVE FlashInv'
  <2>1. UNCHANGED <<chainVars, flashVars>>
    BY <1>4 DEF Pipeline, PipeBlock, PipeStates, PipeMarks
  <2>2. CASE w = "sealed"
    <3>1. pipe'["flash"] = pipe["flash"]
      BY <1>4, <2>2, PipeFrame DEF Pipeline, PipeBlock, PipeStates, PipeMarks, Writers
    <3> QED BY <2>1, <3>1 DEF FlashInv, IsPending, PipePools, chainVars, flashVars
  <2>3. CASE w = "flash"
    <3>1. CASE PipeBlock("flash")
      <4>1. /\ pipe["flash"].at = "block" /\ pipe'["flash"].states = pipe["flash"].states
            /\ pipe'["flash"].marks = pipe["flash"].marks
        BY <3>1, PipeFrame DEF PipeBlock, Writers
      <4> QED BY <2>1, <4>1 DEF FlashInv, IsPending, PipePools, chainVars, flashVars
    <3>2. CASE PipeStates("flash")
      <4>1. /\ pipe'["flash"].at = "marks" /\ pipe'["flash"].states = pipe["flash"].states
            /\ pipe'["flash"].marks = pipe["flash"].marks
        BY <3>2, PipeFrame DEF PipeStates, Writers
      <4> QED BY <2>1, <4>1 DEF FlashInv, IsPending, PipePools, chainVars, flashVars
    <3>3. CASE PipeMarks("flash")
      <4>1. /\ pipe'["flash"].at = "idle"
            /\ \A p \in Pools : pipe'["flash"].states[p] = NoState
        BY <3>3, PipeFrame DEF PipeMarks, Writers
      <4> QED BY <2>1, <4>1 DEF FlashInv, IsPending, PipePools, chainVars, flashVars
    <3> QED BY <1>4, <2>3, <3>1, <3>2, <3>3 DEF Pipeline
  <2> QED BY <2>2, <2>3 DEF Writers
<1>5. CASE Load \/ Sync \/ \E F : Chunk(F)
  BY <1>3, <1>5 DEF Load, Sync, Chunk
<1>6. CASE ReadPrevious
  <2>1. UNCHANGED <<chainVars, flashVars>> /\ \E b, S, M : Publish("sealed", b, S, M)
    BY <1>6 DEF ReadPrevious
  <2>2. pipe'["flash"] = pipe["flash"]
    BY <2>1, PipeFrame DEF Writers
  <2> QED BY <2>1, <2>2 DEF FlashInv, IsPending, PipePools, chainVars, flashVars
<1>7. CASE Advance
  <2>1. UNCHANGED <<chainVars, pipe, fpos>> /\ (fpc' = fpc \/ fpc' = "connect")
    BY <1>7 DEF Advance
  <2> QED BY <2>1 DEF FlashInv, IsPending, PipePools, chainVars
<1>8. CASE MarketDataCrash
  <2>1. UNCHANGED <<chainVars, pipe, fpos>> /\ fpc' = "off"
    BY <1>8 DEF MarketDataCrash
  <2> QED BY <2>1 DEF FlashInv, IsPending, PipePools, chainVars
<1>9. CASE Connect
  <2>1. UNCHANGED <<chainVars, pipe>> /\ fpos' = Len(log)
    BY <1>9 DEF Connect
  <2>2. \A i \in DOMAIN log : ~ (i > fpos')
    BY <2>1, <1>a
  <2> QED BY <2>1, <2>2 DEF FlashInv, IsPending, PipePools, chainVars
<1>10. CASE Receive
  <2> DEFINE e == log[fpos + 1]
             S == [p \in Pools |-> IF p = e.pool THEN [ver |-> fpos + 1, block |-> e.block]
                                  ELSE NoState]
  <2>1. UNCHANGED chainVars /\ fpos' = fpos + 1
    BY <1>10 DEF Receive
  <2>2. \A i \in DOMAIN log : i > fpos => log[i].block = head + 1
    BY <1>10 DEF Receive, FlashInv
  <2>3. \A i \in DOMAIN log : i > fpos' => log[i].block = head + 1
    BY <1>a, <2>1, <2>2
  <2>4. IsPending(fpos + 1)
    <3>1. fpos + 1 \in DOMAIN log /\ fpos + 1 > fpos
      BY <1>10, <1>a DEF Receive
    <3> QED BY <2>2, <3>1 DEF IsPending
  <2>5. CASE pipe' = pipe
    BY <2>1, <2>3, <2>5 DEF FlashInv, IsPending, PipePools, chainVars
  <2>6. CASE Publish("flash", e.block, S, {e.pool})
    <3>1. \A p \in Pools : S[p] # NoState => p = e.pool /\ S[p].ver = fpos + 1
      OBVIOUS
    <3> HIDE DEF S
    <3>2. pipe'["flash"].states = S /\ pipe'["flash"].marks = {e.pool}
      BY <2>6, PipeFrame DEF Writers
    <3> HIDE DEF e
    <3> QED BY <2>1, <2>3, <2>4, <3>1, <3>2 DEF FlashInv, IsPending, PipePools, chainVars
  <2> QED BY <1>10, <2>5, <2>6 DEF Receive
<1>11. CASE Published
  <2>1. UNCHANGED <<chainVars, pipe, fpos>> /\ fpc = "publish"
    BY <1>11 DEF Published
  <2> QED BY <2>1 DEF FlashInv, IsPending, PipePools, chainVars
<1>12. CASE Disconnect
  <2>1. UNCHANGED <<chainVars, pipe, fpos>> /\ fpc' = "connect"
    BY <1>12 DEF Disconnect
  <2> QED BY <2>1 DEF FlashInv, IsPending, PipePools, chainVars
<1>13. CASE SearcherCrash \/ \E p \in TickPools : Warmup(p)
  BY <1>3, <1>13 DEF SearcherCrash, Warmup
<1>14. CASE Searcher
  BY <1>3, <1>14 DEF Searcher, Bootstrap, DrainChanged, DrainTicks, LoadStates
<1>15. CASE UNCHANGED vars
  BY <1>3, <1>15 DEF vars
<1> QED BY <1>1, <1>2, <1>4, <1>5, <1>6, <1>7, <1>8, <1>9, <1>10, <1>11, <1>12, <1>13, <1>14,
           <1>15 DEF Next, Chain, Sealed, FlashSession

------------------------------------------------------------------------------
(* The searcher *)

\* A pool stays announced while nothing is drained and no mark is on its way.
LEMMA AnnouncedFrame ==
  ASSUME TypeOK, NEW p \in Pools, NEW w \in Writers, Announced(p),
         changed \subseteq changed', got' = got,
         \A v \in Writers \ {w} : pipe'[v] = pipe[v],
         pipe[w].at = "marks" => pipe[w].marks \subseteq changed'
  PROVE  Announced(p)'
<1>1. CASE p \in changed \cup got
  BY <1>1 DEF Announced
<1>2. CASE \E v \in Writers : pipe[v].at = "marks" /\ p \in pipe[v].marks
  <2>1. PICK v \in Writers : pipe[v].at = "marks" /\ p \in pipe[v].marks
    BY <1>2
  <2>2. CASE v = w
    BY <2>1, <2>2 DEF Announced
  <2>3. CASE v # w
    BY <2>1, <2>3 DEF Announced
  <2> QED BY <2>2, <2>3
<1> QED BY <1>1, <1>2 DEF Announced

\* The commands of the pipelines.
LEMMA PipelineCovers ==
  ASSUME TypeOK, LogInv, SealedInv, FlashInv,
         NEW w \in Writers, Pipeline(w),
         NEW p \in Pools \ TickPools, Unmarked(p), Heard(p)
  PROVE  (Unmarked(p) /\ Heard(p))'
<1>a. UNCHANGED <<qpc, cache, got>>
  BY DEF Pipeline, PipeBlock, PipeStates, PipeMarks, searchVars
<1>b. \A v \in Writers \ {w} : pipe'[v] = pipe[v]
  BY PipeFrame DEF Pipeline, PipeBlock, PipeStates, PipeMarks
<1>c. w = "sealed" \/ (w = "flash" /\ pipe'["sealed"] = pipe["sealed"])
  BY <1>b DEF Writers
<1>d. redis[p] \in State \cup {NoState} /\ cache[p] \in State \cup {NoState}
      /\ \A v \in Writers : pipe[v].states[p] \in State \cup {NoState}
  BY DEF TypeOK, Pipe
<1>1. CASE PipeBlock(w)
  <2>1. /\ pipe[w].at = "block" /\ pipe'[w].at = "states"
        /\ pipe'[w].states = pipe[w].states /\ pipe'[w].marks = pipe[w].marks
        /\ UNCHANGED <<redis, changed>>
    BY <1>1, PipeFrame, <1>b DEF PipeBlock, Writers
  <2>2. Announced(p) => Announced(p)'
    BY <2>1, <1>a, <1>b, AnnouncedFrame
  <2>3. Heard(p)'
    BY <2>1, <2>2, <1>a DEF Heard, Behind
  <2>4. Unmarked(p)'
    BY <2>1, <2>2, <1>a, <1>c DEF Unmarked, Covered, PipePools
  <2> QED BY <2>3, <2>4
<1>2. CASE PipeMarks(w)
  <2>1. /\ pipe[w].at = "marks" /\ pipe'[w].at = "idle"
        /\ redis' = redis /\ changed' = changed \cup pipe[w].marks
    BY <1>2, PipeFrame DEF PipeMarks, Writers
  <2>2. Announced(p) => Announced(p)'
    BY <2>1, <1>a, <1>b, AnnouncedFrame
  <2>3. Heard(p)'
    BY <2>1, <2>2, <1>a DEF Heard, Behind
  <2>4. Unmarked(p)'
    BY <2>1, <2>2, <1>a, <1>c DEF Unmarked, Covered, PipePools
  <2> QED BY <2>3, <2>4
<1>3. CASE PipeStates(w)
  <2>1. /\ pipe[w].at = "states" /\ pipe'[w].at = "marks"
        /\ pipe'[w].states = pipe[w].states /\ pipe'[w].marks = pipe[w].marks
        /\ changed' = changed
    BY <1>3, PipeFrame DEF PipeStates, Writers
  <2>2. redis'[p] = IF pipe[w].states[p] # NoState THEN pipe[w].states[p] ELSE redis[p]
    BY <1>3 DEF PipeStates
  <2>3. Announced(p) => Announced(p)'
    BY <2>1, <1>a, <1>b, AnnouncedFrame
  <2>4. p \in pipe[w].marks => Announced(p)'
    BY <2>1 DEF Announced
  <2>5. CASE w = "sealed"
    <3>1. Unmarked(p)'
      BY <2>1, <2>5 DEF Unmarked
    <3>2. CASE p \notin PipePools("sealed")
      BY <2>2, <2>3, <2>5, <3>1, <3>2, <1>a DEF Heard, Behind, PipePools
    <3>3. CASE p \in PipePools("sealed") /\ p \in pipe["sealed"].marks
      BY <2>4, <2>5, <3>1, <3>3 DEF Heard
    <3>4. CASE p \in PipePools("sealed") \ pipe["sealed"].marks
      <4>1. Covered(p, pipe["sealed"].states[p].ver)
        BY <2>1, <2>5, <3>4 DEF Unmarked
      <4>2. redis'[p] = pipe["sealed"].states[p]
        BY <2>2, <2>5, <3>4 DEF PipePools
      <4>3. pipe["sealed"].states[p].ver \in Nat
        BY <1>d, <2>5, <3>4 DEF PipePools, State, Writers
      <4>4. cache[p] # NoState => cache[p].ver \in Nat
        BY <1>d DEF State
      <4>5. Heard(p)'
        BY <2>3, <4>1, <4>2, <4>3, <4>4, <1>a DEF Heard, Behind, Covered
      <4> QED BY <3>1, <4>5
    <3> QED BY <3>2, <3>3, <3>4
  <2>6. CASE w = "flash"
    <3>1. pipe'["sealed"] = pipe["sealed"]
      BY <1>b, <2>6 DEF Writers
    <3>2. CASE pipe["flash"].states[p] = NoState
      <4>1. redis'[p] = redis[p]
        BY <2>2, <2>6, <3>2
      <4>2. Heard(p)'
        BY <2>3, <4>1, <1>a DEF Heard, Behind
      <4>3. Unmarked(p)'
        BY <2>3, <3>1, <4>1, <1>a DEF Unmarked, Covered, PipePools
      <4> QED BY <4>2, <4>3
    <3>3. CASE pipe["flash"].states[p] # NoState
      <4>1. p \in PipePools("flash") /\ redis'[p] = pipe["flash"].states[p]
        BY <2>2, <2>6, <3>3 DEF PipePools
      <4>2. Announced(p)'
        BY <2>4, <2>6, <4>1 DEF FlashInv
      <4>3. IsPending(pipe["flash"].states[p].ver)
        BY <2>1, <2>6, <4>1 DEF FlashInv
      <4>4. ASSUME pipe["sealed"].at \in {"block", "states"}, p \in PipePools("sealed")
            PROVE  redis'[p].ver >= pipe["sealed"].states[p].ver
        <5> DEFINE f == pipe["flash"].states[p].ver
                   s == pipe["sealed"].states[p].ver
        <5>1. IsSealed(s)
          BY <4>4 DEF SealedInv
        <5>2. f \in DOMAIN log /\ log[f].block = head + 1 /\ head \in Nat
              /\ DOMAIN log = 1..Len(log) /\ Len(log) \in Nat
          BY <4>3, LogEntries DEF IsPending
        <5> HIDE DEF f, s
        <5>3. CASE s = 0
          BY <5>2, <5>3, <4>1 DEF f, s
        <5>4. CASE s \in DOMAIN log /\ log[s].block <= head
          <6>1. ~ (log[f].block <= log[s].block)
            BY <5>2, <5>4, LogEntries
          <6>2. ~ (f <= s)
            BY <5>2, <5>4, <6>1 DEF LogInv
          <6>3. f >= s
            BY <5>2, <5>4, <6>2
          <6> QED BY <6>3, <4>1 DEF f, s
        <5> QED BY <5>1, <5>3, <5>4 DEF IsSealed
      <4>5. Heard(p)'
        BY <4>2 DEF Heard
      <4>6. Unmarked(p)'
        BY <4>1, <4>2, <4>4, <3>1, <3>3 DEF Unmarked, Covered, PipePools
      <4> QED BY <4>5, <4>6
    <3> QED BY <3>2, <3>3
  <2> QED BY <2>5, <2>6 DEF Writers
<1> QED BY <1>1, <1>2, <1>3 DEF Pipeline

\* A publication that begins: what it does not mark is known.
LEMMA PublishCovers ==
  ASSUME TypeOK, ReadPrevious \/ Receive,
         NEW p \in Pools \ TickPools, Unmarked(p), Heard(p)
  PROVE  (Unmarked(p) /\ Heard(p))'
<1>a. UNCHANGED <<qpc, cache, got, redis, changed>>
  BY DEF ReadPrevious, Receive, searchVars, redisVars
<1>b. redis[p] \in State \cup {NoState} /\ cache[p] \in State \cup {NoState}
  BY DEF TypeOK
<1>1. CASE ReadPrevious
  <2> DEFINE S == [q \in Pools |-> IF q \in sel THEN mem[q] ELSE NoState]
             M == {q \in sel : redis[q] = NoState \/ redis[q].ver # mem[q].ver}
  <2>1. pipe["sealed"].at = "idle" /\ \E b : Publish("sealed", b, S, M)
    BY <1>1 DEF ReadPrevious
  <2>2. S[p] # NoState /\ p \notin M => redis[p] # NoState /\ redis[p].ver = S[p].ver
    OBVIOUS
  <2> HIDE DEF S, M
  <2>3. /\ pipe'["sealed"].at = "block"
        /\ pipe'["sealed"].states = S /\ pipe'["sealed"].marks = M
        /\ pipe'["flash"] = pipe["flash"]
    BY <2>1, PipeFrame DEF Writers
  <2>4. Announced(p) => Announced(p)'
    <3>1. \A v \in Writers \ {"sealed"} : pipe'[v] = pipe[v]
      BY <2>3 DEF Writers
    <3>2. "sealed" \in Writers
      BY DEF Writers
    <3> QED BY <2>1, <3>1, <3>2, <1>a, AnnouncedFrame
  <2>5. Heard(p)'
    BY <2>4, <1>a DEF Heard, Behind
  <2>6. ASSUME S[p] # NoState, p \notin M
        PROVE  /\ redis[p] # NoState /\ redis[p].ver >= S[p].ver
               /\ qpc = "bootstrap" \/ Announced(p)'
                  \/ (cache[p] # NoState /\ cache[p].ver >= S[p].ver)
    <3>1. redis[p] # NoState /\ redis[p].ver = S[p].ver /\ redis[p].ver \in Nat
      BY <2>2, <2>6, <1>b DEF State
    <3>2. cache[p] # NoState => cache[p].ver \in Nat
      BY <1>b DEF State
    <3>3. qpc = "bootstrap" \/ Announced(p) \/ ~ Behind(p)
      BY DEF Heard
    <3>4. ~ Behind(p) => cache[p] # NoState /\ cache[p].ver >= S[p].ver
      BY <3>1, <3>2 DEF Behind
    <3> QED BY <2>4, <3>1, <3>3, <3>4
  <2>7. Unmarked(p)'
    BY <2>3, <2>6, <1>a DEF Unmarked, Covered, PipePools
  <2> QED BY <2>5, <2>7
<1>2. CASE Receive
  <2>1. pipe["flash"].at = "idle" /\ ((\E b, S, M : Publish("flash", b, S, M)) \/ pipe' = pipe)
    BY <1>2 DEF Receive
  <2>2. pipe'["sealed"] = pipe["sealed"]
    BY <2>1, PipeFrame DEF Writers
  <2>3. Announced(p) => Announced(p)'
    <3>1. \A v \in Writers \ {"flash"} : pipe'[v] = pipe[v]
      BY <2>2 DEF Writers
    <3>2. "flash" \in Writers
      BY DEF Writers
    <3> QED BY <2>1, <3>1, <3>2, <1>a, AnnouncedFrame
  <2>4. Heard(p)'
    BY <2>3, <1>a DEF Heard, Behind
  <2>5. Unmarked(p)'
    BY <2>2, <2>3, <1>a DEF Unmarked, Covered, PipePools
  <2> QED BY <2>4, <2>5
<1> QED BY <1>1, <1>2

\* The searcher's own steps.
LEMMA SearcherCovers ==
  ASSUME TypeOK, DrainInv, Searcher \/ SearcherCrash,
         NEW p \in Pools \ TickPools, Unmarked(p), Heard(p)
  PROVE  (Unmarked(p) /\ Heard(p))'
<1>a. UNCHANGED <<pipe, redis>>
  BY DEF Searcher, Bootstrap, DrainChanged, DrainTicks, LoadStates, SearcherCrash, redisVars
<1>b. redis[p] \in State \cup {NoState}
  BY DEF TypeOK
<1>1. CASE Bootstrap
  <2>1. cache'[p] = redis[p]
    BY <1>1 DEF Bootstrap, TypeOK
  <2>2. redis[p] # NoState => redis[p].ver \in Nat
    BY <1>b DEF State
  <2>3. Heard(p)'
    BY <2>1, <2>2, <1>a DEF Heard, Behind
  <2>4. Unmarked(p)'
    BY <2>1, <1>a DEF Unmarked, Covered, PipePools
  <2> QED BY <2>3, <2>4
<1>2. CASE DrainChanged
  <2>1. qpc = "drain" /\ qpc' = "drain_ticks" /\ got' = changed /\ cache' = cache
    BY <1>2 DEF DrainChanged
  <2>2. got = {}
    BY <2>1 DEF DrainInv
  <2>3. Announced(p) => Announced(p)'
    BY <2>1, <2>2, <1>a DEF Announced
  <2>4. Heard(p)'
    BY <2>1, <2>3, <1>a DEF Heard, Behind
  <2>5. Unmarked(p)'
    BY <2>1, <2>3, <1>a DEF Unmarked, Covered, PipePools
  <2> QED BY <2>4, <2>5
<1>3. CASE DrainTicks
  <2>1. qpc = "drain_ticks" /\ qpc' = "load" /\ UNCHANGED <<got, changed, cache>>
    BY <1>3 DEF DrainTicks
  <2>2. Announced(p) => Announced(p)'
    BY <2>1, <1>a DEF Announced
  <2>3. Heard(p)'
    BY <2>1, <2>2, <1>a DEF Heard, Behind
  <2>4. Unmarked(p)'
    BY <2>1, <2>2, <1>a DEF Unmarked, Covered, PipePools
  <2> QED BY <2>3, <2>4
<1>4. CASE LoadStates
  <2>1. /\ qpc = "load" /\ qpc' = "drain" /\ changed' = changed
        /\ cache'[p] = IF p \in ToLoad THEN redis[p] ELSE cache[p]
    BY <1>4 DEF LoadStates, redisVars
  <2>2. CASE p \in got
    <3>1. p \in ToLoad
      BY <2>2 DEF ToLoad, TypeOK
    <3>2. cache'[p] = redis[p]
      BY <2>1, <3>1
    <3>3. redis[p] # NoState => redis[p].ver \in Nat
      BY <1>b DEF State
    <3>4. Heard(p)'
      BY <3>2, <3>3, <1>a DEF Heard, Behind
    <3>5. Unmarked(p)'
      BY <3>2, <1>a DEF Unmarked, Covered, PipePools
    <3> QED BY <3>4, <3>5
  <2>3. CASE p \notin got
    <3>1. p \notin ToLoad
      BY <2>3 DEF ToLoad, TypeOK
    <3>2. cache'[p] = cache[p]
      BY <2>1, <3>1
    <3>3. Announced(p) => Announced(p)'
      BY <2>1, <2>3, <1>a DEF Announced
    <3>4. Heard(p)'
      BY <2>1, <3>2, <3>3, <1>a DEF Heard, Behind
    <3>5. Unmarked(p)'
      BY <2>1, <3>2, <3>3, <1>a DEF Unmarked, Covered, PipePools
    <3> QED BY <3>4, <3>5
  <2> QED BY <2>2, <2>3
<1>5. CASE SearcherCrash
  <2>1. qpc' = "bootstrap"
    BY <1>5 DEF SearcherCrash
  <2> QED BY <2>1, <1>a DEF Heard, Unmarked, Covered, PipePools
<1> QED BY <1>1, <1>2, <1>3, <1>4, <1>5 DEF Searcher

LEMMA CoverStep ==
  TypeOK /\ LogInv /\ SealedInv /\ FlashInv /\ DrainInv /\ CoverInv /\ [Next]_vars => CoverInv'
<1> SUFFICES ASSUME TypeOK, LogInv, SealedInv, FlashInv, DrainInv, CoverInv, [Next]_vars,
                    NEW p \in Pools \ TickPools
             PROVE  (Unmarked(p) /\ Heard(p))'
  BY DEF CoverInv
<1>a. Unmarked(p) /\ Heard(p)
  BY DEF CoverInv
<1>1. CASE \E w \in Writers : Pipeline(w)
  BY <1>1, <1>a, PipelineCovers
<1>2. CASE ReadPrevious \/ Receive
  BY <1>2, <1>a, PublishCovers
<1>3. CASE Searcher \/ SearcherCrash
  BY <1>3, <1>a, SearcherCovers
<1>4. CASE UNCHANGED <<pipe, redis, changed, searchVars>>
  BY <1>4, <1>a DEF Unmarked, Heard, Covered, Behind, Announced, PipePools, searchVars
<1>5. CASE Chain
  BY <1>4, <1>5 DEF Chain, Seal, Emit, redisVars
<1>6. CASE Load \/ Sync \/ Advance \/ \E F : Chunk(F)
  BY <1>4, <1>6 DEF Load, Sync, Advance, Chunk, redisVars
<1>7. CASE MarketDataCrash \/ Disconnect \/ \E q \in TickPools : Warmup(q)
  BY <1>4, <1>7 DEF MarketDataCrash, Disconnect, Warmup, redisVars
<1>8. CASE Connect \/ Published
  BY <1>4, <1>8 DEF Connect, Published, redisVars
<1>9. CASE UNCHANGED vars
  BY <1>4, <1>9 DEF vars, redisVars
<1> QED BY <1>1, <1>2, <1>3, <1>5, <1>6, <1>7, <1>8, <1>9 DEF Next, Sealed, FlashSession

LEMMA DrainStep == DrainInv /\ [Next]_vars => DrainInv'
<1> SUFFICES ASSUME DrainInv, [Next]_vars PROVE DrainInv'
  OBVIOUS
<1>1. CASE UNCHANGED searchVars
  BY <1>1 DEF DrainInv, searchVars
<1>2. CASE Chain
  BY <1>1, <1>2 DEF Chain, Seal, Emit
<1>3. CASE \E w \in Writers : Pipeline(w)
  BY <1>1, <1>3 DEF Pipeline, PipeBlock, PipeStates, PipeMarks
<1>4. CASE Sealed
  BY <1>1, <1>4 DEF Sealed, Load, Sync, ReadPrevious, Advance, Chunk
<1>5. CASE MarketDataCrash \/ Disconnect \/ \E p \in TickPools : Warmup(p)
  BY <1>1, <1>5 DEF MarketDataCrash, Disconnect, Warmup
<1>6. CASE FlashSession
  BY <1>1, <1>6 DEF FlashSession, Connect, Receive, Published
<1>7. CASE Searcher \/ SearcherCrash
  BY <1>7 DEF Searcher, Bootstrap, DrainChanged, DrainTicks, LoadStates, SearcherCrash, DrainInv
<1>8. CASE UNCHANGED vars
  BY <1>1, <1>8 DEF vars
<1> QED BY <1>2, <1>3, <1>4, <1>5, <1>6, <1>7, <1>8 DEF Next

------------------------------------------------------------------------------
(* The chain the sealed loop reads *)

LEMMA KindsOf ==
  ASSUME NEW p \in Loop!SealedPools
  PROVE  /\ Loop!Kinds(p) \subseteq {"sync", "swap", "mint", "fee"}
         /\ p \in Classic => Loop!Kinds(p) = {"sync", "fee"} /\ p \notin Loop!V3Style
         /\ p \notin Classic => "sync" \notin Loop!Kinds(p) /\ p \in Loop!V3Style
  <1>1. CASE p \in Classic
    <2>1. p \notin Slipstream /\ p \notin UniswapV3
      BY <1>1, SealedConstants
    <2>2. Loop!Kinds(p) = {"sync", "fee"}
      BY <1>1, <2>1 DEF Loop!Kinds
    <2> QED
      BY <1>1, <2>1, <2>2 DEF Loop!V3Style
  <1>2. CASE p \in Slipstream
    <2>1. p \notin Classic /\ p \notin UniswapV3
      BY <1>2, SealedConstants
    <2>2. Loop!Kinds(p) = {"swap", "mint", "fee"}
      BY <1>2, <2>1 DEF Loop!Kinds
    <2> QED
      BY <1>2, <2>1, <2>2 DEF Loop!V3Style
  <1>3. CASE p \in UniswapV3
    <2>1. p \notin Classic /\ p \notin Slipstream
      BY <1>3, SealedConstants
    <2>2. Loop!Kinds(p) = {"swap", "mint"}
      BY <1>3, <2>1 DEF Loop!Kinds
    <2> QED
      BY <1>3, <2>1, <2>2 DEF Loop!V3Style
  <1> QED
    BY <1>1, <1>2, <1>3 DEF Loop!SealedPools, Loop!Aerodrome

\* Logs are numbered in the order of their blocks.
ChainEntry == [pool : Loop!SealedPools, kind : {"sync", "swap", "mint", "fee"}, value : Nat, block : Nat]

WellFormed(l, h) ==
  /\ l \in Seq(ChainEntry)
  /\ \A i, j \in DOMAIN l : i <= j => l[i].block <= l[j].block
  /\ \A i \in DOMAIN l : /\ l[i].block \in 2..h + 1
                         /\ l[i].kind \in Loop!Kinds(l[i].pool)
                         /\ l[i].value \in IF l[i].kind = "fee" THEN Fees ELSE Words

\* The operators of SealedStates, of a given log.
UpTo(l, b) == Cardinality({i \in DOMAIN l : l[i].block <= b})

Latest(S) == IF S = {} THEN 0 ELSE CHOOSE i \in S : \A j \in S : j <= i

LastIn(l, p, kinds, n) == Latest({i \in 1..n : l[i].pool = p /\ l[i].kind \in kinds})

ValueAt(l, i, first) == IF i = 0 THEN first ELSE l[i].value

PriceAt(l, p, n) == ValueAt(l, LastIn(l, p, {"sync", "swap"}, n), Word0)
DepthAt(l, p, n) == ValueAt(l, LastIn(l, p, {"mint"}, n), Word0)
FeeAt(l, p, n)   == ValueAt(l, LastIn(l, p, {"fee"}, n), Fee0)

LEMMA OfTheLog ==
  /\ \A b : Loop!Through(b) = UpTo(sLog, b)
  /\ \A p, kinds, n : Loop!LastOf(p, kinds, n) = LastIn(sLog, p, kinds, n)
  /\ \A p, n : /\ Loop!PriceAfter(p, n) = PriceAt(sLog, p, n)
               /\ Loop!DepthAfter(p, n) = DepthAt(sLog, p, n)
               /\ Loop!FeeAfter(p, n) = FeeAt(sLog, p, n)
  BY DEF Cardinality, Loop!Cardinality, Loop!Through, UpTo, Loop!LastOf, LastIn, Latest, Loop!Value, ValueAt,
         Loop!PriceAfter, PriceAt, Loop!DepthAfter, DepthAt, Loop!FeeAfter, FeeAt

LEMMA LogFacts ==
  ASSUME NEW l, NEW h, WellFormed(l, h)
  PROVE  /\ Len(l) \in Nat /\ DOMAIN l = 1..Len(l)
         /\ \A i \in DOMAIN l : l[i].pool \in Loop!SealedPools /\ l[i].block \in Nat
  <1>1. l \in Seq(ChainEntry)
    BY DEF WellFormed
  <1>2. Len(l) \in Nat /\ DOMAIN l = 1..Len(l) /\ \A i \in DOMAIN l : l[i] \in ChainEntry
    BY <1>1
  <1> QED
    BY <1>2 DEF ChainEntry

\* The logs of the blocks up to b are the first UpTo(l, b).
LEMMA UpToIs ==
  ASSUME NEW l, NEW h, WellFormed(l, h), NEW b \in Nat
  PROVE  /\ UpTo(l, b) \in 0..Len(l)
         /\ \A i \in DOMAIN l : i <= UpTo(l, b) <=> l[i].block <= b
  <1> DEFINE S == {i \in DOMAIN l : l[i].block <= b}
  <1>1. DOMAIN l = 1..Len(l) /\ Len(l) \in Nat /\ \A i \in DOMAIN l : l[i].block \in Nat
    BY DEF WellFormed, ChainEntry
  <1>2. \E m \in 0..Len(l) : S = 1..m
    <2>1. CASE S = DOMAIN l
      BY <1>1, <2>1
    <2>2. CASE S # DOMAIN l
      <3> DEFINE T == DOMAIN l \ S
      <3>1. T \in SUBSET Nat /\ T # {}
        BY <1>1, <2>2
      <3>2. PICK k \in T : \A j \in T : k <= j
        BY <3>1, Minimum
      <3>3. k \in 1..Len(l) /\ l[k].block > b
        BY <1>1
      <3>4. \A i \in DOMAIN l : i < k => i \in S
        BY <1>1, <3>2
      <3>5. \A i \in DOMAIN l : i >= k => i \notin S
        BY <1>1, <3>3 DEF WellFormed
      <3> HIDE DEF S, T
      <3>6. S \subseteq DOMAIN l
        BY DEF S
      <3>7. S = 1..(k - 1)
        <4>1. ASSUME NEW i \in S PROVE i \in 1..(k - 1)
          BY <1>1, <3>3, <3>5, <3>6
        <4>2. ASSUME NEW i \in 1..(k - 1) PROVE i \in S
          BY <1>1, <3>3, <3>4
        <4> QED
          BY <4>1, <4>2
      <3> QED
        BY <3>3, <3>7
    <2> QED
      BY <2>1, <2>2
  <1>3. PICK m \in 0..Len(l) : S = 1..m
    BY <1>2
  <1>4. Cardinality(1..m) = m
    BY <1>1, FS_Interval
  <1>5. UpTo(l, b) = m
    BY <1>3, <1>4 DEF UpTo
  <1>6. \A i \in DOMAIN l : i <= m <=> l[i].block <= b
    BY <1>1, <1>3
  <1> QED
    BY <1>5, <1>6

LEMMA LastInIs ==
  ASSUME NEW l, NEW n \in Nat, NEW p, NEW kinds, NEW x, x = LastIn(l, p, kinds, n)
  PROVE  /\ x \in 0..n
         /\ x # 0 => l[x].pool = p /\ l[x].kind \in kinds
         /\ \A i \in 1..n : l[i].pool = p /\ l[i].kind \in kinds => i <= x
  <1> DEFINE S == {i \in 1..n : l[i].pool = p /\ l[i].kind \in kinds}
  <1>1. CASE S = {}
    BY <1>1 DEF LastIn, Latest
  <1>2. CASE S # {}
    <2>1. S \in SUBSET (0..n)
      OBVIOUS
    <2>2. \E i \in S : \A j \in S : j <= i
      BY <1>2, <2>1, Maximum
    <2>3. x = CHOOSE i \in S : \A j \in S : j <= i
      BY <1>2 DEF LastIn, Latest
    <2>4. x \in S /\ \A j \in S : j <= x
      BY <2>2, <2>3
    <2> QED
      BY <2>4
  <1> QED
    BY <1>1, <1>2

\* What is last does not depend on the logs of others and of other kinds.
LEMMA SameLast ==
  ASSUME NEW l, NEW m \in Nat, NEW n \in Nat, NEW p, NEW kinds,
         \A i \in 1..n : i > m => ~ (l[i].pool = p /\ l[i].kind \in kinds),
         \A i \in 1..m : i > n => ~ (l[i].pool = p /\ l[i].kind \in kinds)
  PROVE  LastIn(l, p, kinds, m) = LastIn(l, p, kinds, n)
  <1> DEFINE S(k) == {i \in 1..k : l[i].pool = p /\ l[i].kind \in kinds}
  <1>1. S(m) = S(n)
    OBVIOUS
  <1>2. LastIn(l, p, kinds, m) = Latest(S(m)) /\ LastIn(l, p, kinds, n) = Latest(S(n))
    BY DEF LastIn
  <1> HIDE DEF S
  <1> QED
    BY <1>1, <1>2

LEMMA SameWords ==
  ASSUME NEW l, NEW m \in Nat, NEW n \in Nat, NEW p,
         \A i \in 1..n : i > m => ~ (l[i].pool = p /\ l[i].kind \in {"sync", "swap", "mint"}),
         \A i \in 1..m : i > n => ~ (l[i].pool = p /\ l[i].kind \in {"sync", "swap", "mint"})
  PROVE  PriceAt(l, p, m) = PriceAt(l, p, n) /\ DepthAt(l, p, m) = DepthAt(l, p, n)
  <1>0. /\ \A i \in 1..n : i > m => ~ (l[i].pool = p /\ l[i].kind \in {"sync", "swap"})
        /\ \A i \in 1..m : i > n => ~ (l[i].pool = p /\ l[i].kind \in {"sync", "swap"})
    OBVIOUS
  <1>1. LastIn(l, p, {"sync", "swap"}, m) = LastIn(l, p, {"sync", "swap"}, n)
    BY <1>0, SameLast
  <1>2. LastIn(l, p, {"mint"}, m) = LastIn(l, p, {"mint"}, n)
    BY SameLast
  <1> QED
    BY <1>1, <1>2 DEF PriceAt, DepthAt

\* The chain goes on: logs are added behind the head, or move behind it when its
\* block is replaced.
GoesOn(l, h, orph, l2, h2, orph2) ==
  /\ WellFormed(l, h) /\ WellFormed(l2, h2) /\ h \in Nat /\ h2 \in Nat /\ h <= h2
  /\ orph \subseteq orph2 /\ Len(l) <= Len(l2)
  /\ \A i \in DOMAIN l :
       /\ l2[i].pool = l[i].pool /\ l2[i].kind = l[i].kind /\ l2[i].value = l[i].value
       /\ l2[i].block # l[i].block =>
            l[i].block = h /\ l2[i].block = h + 1 /\ h \in orph2 /\ h2 = h
  /\ \A i \in DOMAIN l2 : i \notin DOMAIN l => l2[i].block > h

LEMMA SamePast ==
  ASSUME NEW l, NEW h, NEW orph, NEW l2, NEW h2, NEW orph2, GoesOn(l, h, orph, l2, h2, orph2),
         NEW n \in 0..Len(l), NEW p
  PROVE  /\ \A kinds : LastIn(l2, p, kinds, n) = LastIn(l, p, kinds, n)
         /\ PriceAt(l2, p, n) = PriceAt(l, p, n)
         /\ DepthAt(l2, p, n) = DepthAt(l, p, n)
         /\ FeeAt(l2, p, n) = FeeAt(l, p, n)
  <1>0. Len(l) \in Nat /\ n \in Nat /\ 1..n \subseteq DOMAIN l
    BY DEF GoesOn, WellFormed
  <1>1. ASSUME NEW kinds PROVE LastIn(l2, p, kinds, n) = LastIn(l, p, kinds, n)
    <2> DEFINE S(k) == {i \in 1..n : k[i].pool = p /\ k[i].kind \in kinds}
    <2>1. S(l2) = S(l)
      BY <1>0 DEF GoesOn
    <2>2. LastIn(l2, p, kinds, n) = Latest(S(l2)) /\ LastIn(l, p, kinds, n) = Latest(S(l))
      BY DEF LastIn
    <2> HIDE DEF S
    <2> QED
      BY <2>1, <2>2
  <1>2. ASSUME NEW kinds, NEW first
        PROVE  ValueAt(l2, LastIn(l2, p, kinds, n), first) = ValueAt(l, LastIn(l, p, kinds, n), first)
    <2> DEFINE x == LastIn(l, p, kinds, n)
    <2>1. x \in 0..n
      BY <1>0, LastInIs
    <2>2. x = 0 \/ x \in DOMAIN l
      BY <1>0, <2>1
    <2> HIDE DEF x
    <2>3. ValueAt(l2, x, first) = ValueAt(l, x, first)
      BY <2>2 DEF ValueAt, GoesOn
    <2> QED
      BY <1>1, <2>3 DEF x
  <1> QED
    BY <1>1, <1>2 DEF PriceAt, DepthAt, FeeAt

\* The past of a block below the head stays; the one of the head may lose logs,
\* when it has been replaced.
LEMMA PastOf ==
  ASSUME NEW l, NEW h, NEW orph, NEW l2, NEW h2, NEW orph2, GoesOn(l, h, orph, l2, h2, orph2),
         NEW b \in Nat, b <= h
  PROVE  /\ UpTo(l2, b) <= UpTo(l, b)
         /\ b \notin orph2 \/ b < h => UpTo(l2, b) = UpTo(l, b)
  <1>1. /\ UpTo(l, b) \in 0..Len(l) /\ \A i \in DOMAIN l : i <= UpTo(l, b) <=> l[i].block <= b
        /\ UpTo(l2, b) \in 0..Len(l2) /\ \A i \in DOMAIN l2 : i <= UpTo(l2, b) <=> l2[i].block <= b
    BY UpToIs DEF GoesOn
  <1>2. /\ DOMAIN l = 1..Len(l) /\ DOMAIN l2 = 1..Len(l2) /\ Len(l) \in Nat /\ Len(l2) \in Nat
        /\ Len(l) <= Len(l2) /\ DOMAIN l \subseteq DOMAIN l2
        /\ (\A i \in DOMAIN l : l[i].block \in Nat) /\ (\A i \in DOMAIN l2 : l2[i].block \in Nat)
        /\ h \in Nat
    <2>1. WellFormed(l, h) /\ WellFormed(l2, h2) /\ h \in Nat /\ Len(l) <= Len(l2)
      BY DEF GoesOn
    <2>2. Len(l) \in Nat /\ DOMAIN l = 1..Len(l) /\ \A i \in DOMAIN l : l[i].block \in Nat
      BY <2>1, LogFacts
    <2>3. Len(l2) \in Nat /\ DOMAIN l2 = 1..Len(l2) /\ \A i \in DOMAIN l2 : l2[i].block \in Nat
      BY <2>1, LogFacts
    <2> QED
      BY <2>1, <2>2, <2>3
  <1>3. \A i \in DOMAIN l2 : l2[i].block <= b => i \in DOMAIN l /\ l[i].block <= b
    <2>1. ASSUME NEW i \in DOMAIN l2, l2[i].block <= b, i \notin DOMAIN l PROVE FALSE
      BY <1>2, <2>1 DEF GoesOn
    <2>2. ASSUME NEW i \in DOMAIN l, l2[i].block <= b PROVE l[i].block <= b
      BY <1>2, <2>2 DEF GoesOn
    <2> QED
      BY <2>1, <2>2
  <1>4. UpTo(l2, b) <= UpTo(l, b)
    <2>1. CASE UpTo(l2, b) = 0
      BY <1>1, <2>1
    <2>2. CASE UpTo(l2, b) # 0
      <3>1. UpTo(l2, b) \in DOMAIN l2
        BY <1>1, <1>2, <2>2
      <3>2. l2[UpTo(l2, b)].block <= b
        BY <1>1, <3>1
      <3> QED
        BY <1>1, <1>3, <3>1, <3>2
    <2> QED
      BY <2>1, <2>2
  <1>5. ASSUME b \notin orph2 \/ b < h PROVE UpTo(l2, b) = UpTo(l, b)
    <2>1. \A i \in DOMAIN l : l[i].block <= b => l2[i].block <= b
      BY <1>2, <1>5 DEF GoesOn
    <2>2. CASE UpTo(l, b) = 0
      BY <1>1, <1>4, <2>2
    <2>3. CASE UpTo(l, b) # 0
      <3>1. UpTo(l, b) \in DOMAIN l /\ UpTo(l, b) \in DOMAIN l2
        BY <1>1, <1>2, <2>3
      <3>2. l2[UpTo(l, b)].block <= b
        BY <1>1, <2>1, <3>1
      <3> QED
        BY <1>1, <1>4, <3>1, <3>2
    <2> QED
      BY <2>2, <2>3
  <1> QED
    BY <1>4, <1>5
LEMMA UpToMonotone ==
  ASSUME NEW l, NEW h, WellFormed(l, h), NEW b \in Nat, NEW c \in Nat, b <= c
  PROVE  UpTo(l, b) <= UpTo(l, c)
  <1>1. /\ UpTo(l, b) \in 0..Len(l) /\ \A i \in DOMAIN l : i <= UpTo(l, b) <=> l[i].block <= b
        /\ UpTo(l, c) \in 0..Len(l) /\ \A i \in DOMAIN l : i <= UpTo(l, c) <=> l[i].block <= c
    BY UpToIs
  <1>2. Len(l) \in Nat /\ DOMAIN l = 1..Len(l) /\ \A i \in DOMAIN l : l[i].block \in Nat
    BY LogFacts
  <1>3. CASE UpTo(l, b) = 0
    BY <1>1, <1>3
  <1>4. CASE UpTo(l, b) # 0
    <2>1. UpTo(l, b) \in DOMAIN l
      BY <1>1, <1>2, <1>4
    <2>2. l[UpTo(l, b)].block <= c
      BY <1>1, <1>2, <2>1
    <2> QED
      BY <1>1, <2>1, <2>2
  <1> QED
    BY <1>3, <1>4

------------------------------------------------------------------------------
(* What is right of a state, of a fee and of a copy, given a log l, the head h  *)
(* and the replaced blocks o                                                    *)

Moving == {"sync", "swap", "mint"}

\* A log of p behind block d that a read at the head, or later, may include.
Ahead(l, h, o, p, d) ==
  \E i \in DOMAIN l : /\ l[i].pool = p /\ l[i].kind \in Moving /\ l[i].block > d
                      /\ o = {} => l[i].block <= h

\* The words that p has after the first n logs.
HasWords(l, p, state, n) == state.price = PriceAt(l, p, n) /\ state.depth = DepthAt(l, p, n)

\* The words are those of block d, if nothing of p was missed last.
WordsRight(l, h, o, p, d, miss, state) ==
  ~Ahead(l, h, o, p, d) /\ LastIn(l, p, Moving, UpTo(l, d)) \notin miss
    => HasWords(l, p, state, UpTo(l, d))

\* Log i moves the price of p, and j, not before it and up to block d, was applied.
Followed(l, p, d, miss, i, j) ==
  /\ i \in DOMAIN l /\ j \in DOMAIN l /\ i <= j /\ l[i].pool = p /\ l[j].pool = p
  /\ l[i].kind \in {"sync", "swap"} /\ l[j].kind \in Moving /\ l[j].block <= d /\ j \notin miss

\* The fee is one that the pool had, and not before its last Sync or Swap.
FeeRight(l, h, o, p, d, miss, fee) ==
  \E n \in 0..Len(l) :
    /\ fee = FeeAt(l, p, n)
    /\ n <= UpTo(l, h) \/ o # {}
    /\ \A i, j : Followed(l, p, d, miss, i, j) => UpTo(l, l[i].block) <= n

\* A fee read at block b will be.
JobRight(l, p, d, miss, b) == \A i, j : Followed(l, p, d, miss, i, j) => l[i].block <= b

Skipped(l, miss, p, b) == \E i \in miss : l[i].pool = p /\ l[i].block = b

\* A copy of a state is the chain's, or there is a reason.
CopyRight(l, o, miss, s) ==
  \/ s.state.block \in o
  \/ Skipped(l, miss, s.pool, s.state.block)
  \/ HasWords(l, s.pool, s.state, UpTo(l, s.state.block))

LEMMA SameMoving ==
  ASSUME NEW l, NEW m \in Nat, NEW n \in Nat, NEW p,
         \A i \in 1..n : i > m => ~ (l[i].pool = p /\ l[i].kind \in Moving),
         \A i \in 1..m : i > n => ~ (l[i].pool = p /\ l[i].kind \in Moving)
  PROVE  /\ LastIn(l, p, Moving, m) = LastIn(l, p, Moving, n)
         /\ \A s : HasWords(l, p, s, m) <=> HasWords(l, p, s, n)
  <1>1. LastIn(l, p, Moving, m) = LastIn(l, p, Moving, n)
    BY SameLast
  <1>2. PriceAt(l, p, m) = PriceAt(l, p, n) /\ DepthAt(l, p, m) = DepthAt(l, p, n)
    BY SameWords DEF Moving
  <1> QED
    BY <1>1, <1>2 DEF HasWords

\* With nothing ahead of d, the words of the head are those of d.
LEMMA NothingAhead ==
  ASSUME NEW l, NEW h \in Nat, NEW o, NEW p, NEW d \in 0..h, WellFormed(l, h), ~Ahead(l, h, o, p, d)
  PROVE  \A s : HasWords(l, p, s, UpTo(l, h)) <=> HasWords(l, p, s, UpTo(l, d))
  <1>1. /\ UpTo(l, d) \in 0..Len(l) /\ \A i \in DOMAIN l : i <= UpTo(l, d) <=> l[i].block <= d
        /\ UpTo(l, h) \in 0..Len(l) /\ \A i \in DOMAIN l : i <= UpTo(l, h) <=> l[i].block <= h
    BY UpToIs
  <1>2. Len(l) \in Nat /\ DOMAIN l = 1..Len(l) /\ \A i \in DOMAIN l : l[i].block \in Nat
    BY LogFacts
  <1>3. \A i \in 1..UpTo(l, h) : i > UpTo(l, d) => ~ (l[i].pool = p /\ l[i].kind \in Moving)
    BY <1>1, <1>2 DEF Ahead
  <1>4. \A i \in 1..UpTo(l, d) : ~ (i > UpTo(l, h))
    BY <1>1, UpToMonotone
  <1>5. UpTo(l, h) \in Nat /\ UpTo(l, d) \in Nat
    BY <1>1, <1>2
  <1> QED
    BY <1>3, <1>4, <1>5, SameMoving

(* They stay right as the chain goes on. *)

LEMMA AheadKept ==
  ASSUME NEW l, NEW h, NEW o, NEW l2, NEW h2, NEW o2, GoesOn(l, h, o, l2, h2, o2),
         NEW p, NEW d \in Nat, d <= h, Ahead(l, h, o, p, d)
  PROVE  Ahead(l2, h2, o2, p, d)
  <1>1. PICK i \in DOMAIN l : /\ l[i].pool = p /\ l[i].kind \in Moving /\ l[i].block > d
                              /\ o = {} => l[i].block <= h
    BY DEF Ahead
  <1>2. WellFormed(l, h) /\ WellFormed(l2, h2) /\ h \in Nat /\ h2 \in Nat /\ h <= h2 /\ Len(l) <= Len(l2)
        /\ o \subseteq o2
    BY DEF GoesOn
  <1>3. i \in DOMAIN l2 /\ l[i].block \in Nat
    BY <1>2, LogFacts
  <1>4. l2[i].pool = p /\ l2[i].kind \in Moving
    BY <1>1 DEF GoesOn
  <1>5. l2[i].block > d /\ (o2 = {} => l2[i].block <= h2)
    <2>1. CASE l2[i].block = l[i].block
      BY <1>1, <1>2, <1>3, <2>1
    <2>2. CASE l2[i].block # l[i].block
      <3>1. l2[i].block = h + 1 /\ h \in o2
        BY <2>2 DEF GoesOn
      <3> QED
        BY <1>2, <3>1
    <2> QED
      BY <2>1, <2>2
  <1> QED
    BY <1>3, <1>4, <1>5 DEF Ahead

LEMMA WordsKept ==
  ASSUME NEW l, NEW h, NEW o, NEW l2, NEW h2, NEW o2, GoesOn(l, h, o, l2, h2, o2),
         NEW p, NEW d \in Nat, d <= h, NEW miss, NEW state,
         WordsRight(l, h, o, p, d, miss, state)
  PROVE  WordsRight(l2, h2, o2, p, d, miss, state)
  <1> SUFFICES ASSUME ~Ahead(l2, h2, o2, p, d), LastIn(l2, p, Moving, UpTo(l2, d)) \notin miss
               PROVE  HasWords(l2, p, state, UpTo(l2, d))
    BY DEF WordsRight
  <1>1. ~Ahead(l, h, o, p, d)
    BY AheadKept
  <1>2. WellFormed(l, h) /\ WellFormed(l2, h2) /\ h \in Nat /\ Len(l) <= Len(l2)
    BY DEF GoesOn
  <1>3. /\ Len(l) \in Nat /\ DOMAIN l = 1..Len(l) /\ Len(l2) \in Nat /\ DOMAIN l2 = 1..Len(l2)
        /\ (\A i \in DOMAIN l : l[i].block \in Nat) /\ \A i \in DOMAIN l2 : l2[i].block \in Nat
    BY <1>2, LogFacts
  <1>4. /\ UpTo(l, d) \in 0..Len(l) /\ \A i \in DOMAIN l : i <= UpTo(l, d) <=> l[i].block <= d
        /\ UpTo(l2, d) \in 0..Len(l2) /\ \A i \in DOMAIN l2 : i <= UpTo(l2, d) <=> l2[i].block <= d
    BY <1>2, UpToIs
  <1> DEFINE m == UpTo(l, d)  n == UpTo(l2, d)
  <1>5. m \in Nat /\ n \in Nat /\ m \in 0..Len(l)
    BY <1>3, <1>4
  <1>6. \A i \in 1..n : ~ (i > m)
    BY <1>3, <1>4, PastOf
  <1>7. \A i \in 1..m : i > n => ~ (l2[i].pool = p /\ l2[i].kind \in Moving)
    <2> SUFFICES ASSUME NEW i \in 1..m, i > n, l2[i].pool = p, l2[i].kind \in Moving PROVE FALSE
      OBVIOUS
    <2>1. i \in DOMAIN l /\ i \in DOMAIN l2 /\ l[i].block <= d /\ l2[i].block > d
      BY <1>2, <1>3, <1>4
    <2>2. l2[i].block # l[i].block
      BY <1>3, <2>1
    <2>3. h \in o2
      BY <2>1, <2>2 DEF GoesOn
    <2> QED
      BY <2>1, <2>3 DEF Ahead
  <1> HIDE DEF m, n
  <1>8. /\ LastIn(l2, p, Moving, m) = LastIn(l2, p, Moving, n)
        /\ HasWords(l2, p, state, m) <=> HasWords(l2, p, state, n)
    BY <1>5, <1>6, <1>7, SameMoving
  <1>9. /\ LastIn(l2, p, Moving, m) = LastIn(l, p, Moving, m)
        /\ HasWords(l2, p, state, m) <=> HasWords(l, p, state, m)
    BY <1>5, SamePast DEF HasWords
  <1>10. LastIn(l, p, Moving, m) \notin miss
    BY <1>8, <1>9 DEF n
  <1>11. HasWords(l, p, state, m)
    BY <1>1, <1>10 DEF WordsRight, m
  <1> QED
    BY <1>8, <1>9, <1>11 DEF n
\* A log applied up to block d was one before the chain went on.
LEMMA FollowedBefore ==
  ASSUME NEW l, NEW h, NEW o, NEW l2, NEW h2, NEW o2, GoesOn(l, h, o, l2, h2, o2),
         NEW p, NEW d \in Nat, d <= h, NEW miss, NEW i, NEW j, Followed(l2, p, d, miss, i, j)
  PROVE  Followed(l, p, d, miss, i, j) /\ l2[i].block = l[i].block /\ l[i].block <= d
  <1>1. WellFormed(l, h) /\ WellFormed(l2, h2) /\ h \in Nat /\ Len(l) <= Len(l2)
    BY DEF GoesOn
  <1>2. /\ Len(l) \in Nat /\ DOMAIN l = 1..Len(l) /\ Len(l2) \in Nat /\ DOMAIN l2 = 1..Len(l2)
        /\ (\A k \in DOMAIN l : l[k].block \in Nat) /\ \A k \in DOMAIN l2 : l2[k].block \in Nat
    BY <1>1, LogFacts
  <1>3. i \in DOMAIN l2 /\ j \in DOMAIN l2 /\ i <= j /\ l2[j].block <= d /\ l2[i].block <= l2[j].block
    BY <1>1 DEF Followed, WellFormed
  <1>4. j \in DOMAIN l /\ i \in DOMAIN l
    BY <1>1, <1>2, <1>3 DEF GoesOn
  <1>5. l2[i].block = l[i].block /\ l2[j].block = l[j].block
    <2>1. l2[i].block <= h /\ l2[j].block <= h
      BY <1>1, <1>2, <1>3
    <2> QED
      BY <1>1, <1>4, <2>1 DEF GoesOn
  <1>6. l[i].block <= d
    BY <1>2, <1>3, <1>4, <1>5
  <1> QED
    BY <1>3, <1>4, <1>5, <1>6 DEF Followed, GoesOn

LEMMA FeeKept ==
  ASSUME NEW l, NEW h, NEW o, NEW l2, NEW h2, NEW o2, GoesOn(l, h, o, l2, h2, o2),
         NEW p, NEW d \in Nat, d <= h, NEW miss, NEW fee, FeeRight(l, h, o, p, d, miss, fee)
  PROVE  FeeRight(l2, h2, o2, p, d, miss, fee)
  <1>1. PICK n \in 0..Len(l) : /\ fee = FeeAt(l, p, n)
                               /\ n <= UpTo(l, h) \/ o # {}
                               /\ \A i, j : Followed(l, p, d, miss, i, j) => UpTo(l, l[i].block) <= n
    BY DEF FeeRight
  <1>2. WellFormed(l, h) /\ WellFormed(l2, h2) /\ h \in Nat /\ h2 \in Nat /\ h <= h2 /\ Len(l) <= Len(l2)
        /\ o \subseteq o2
    BY DEF GoesOn
  <1>3. /\ Len(l) \in Nat /\ DOMAIN l = 1..Len(l) /\ Len(l2) \in Nat
        /\ (\A k \in DOMAIN l : l[k].block \in Nat)
    BY <1>2, LogFacts
  <1>4. n \in 0..Len(l2) /\ fee = FeeAt(l2, p, n)
    BY <1>1, <1>2, <1>3, SamePast
  <1>5. n <= UpTo(l2, h2) \/ o2 # {}
    <2> SUFFICES ASSUME o2 = {} PROVE n <= UpTo(l2, h2)
      OBVIOUS
    <2>1. n <= UpTo(l, h)
      BY <1>1, <1>2
    <2>2. UpTo(l2, h) = UpTo(l, h)
      BY <1>2, PastOf
    <2>3. UpTo(l2, h) <= UpTo(l2, h2)
      BY <1>2, UpToMonotone
    <2>4. UpTo(l, h) \in Nat /\ UpTo(l2, h2) \in Nat
      <3>1. UpTo(l, h) \in 0..Len(l) /\ UpTo(l2, h2) \in 0..Len(l2)
        BY <1>2, UpToIs
      <3> QED
        BY <1>3, <3>1
    <2> QED
      BY <1>3, <2>1, <2>2, <2>3, <2>4
  <1>6. ASSUME NEW i, NEW j, Followed(l2, p, d, miss, i, j) PROVE UpTo(l2, l2[i].block) <= n
    <2>1. Followed(l, p, d, miss, i, j) /\ l2[i].block = l[i].block /\ l[i].block <= d
      BY <1>6, FollowedBefore
    <2>2. i \in DOMAIN l
      BY <2>1 DEF Followed
    <2>3. l[i].block \in Nat /\ l[i].block <= h
      BY <1>2, <1>3, <2>1, <2>2
    <2>4. UpTo(l2, l[i].block) <= UpTo(l, l[i].block)
      BY <2>3, PastOf
    <2>5. UpTo(l, l[i].block) \in 0..Len(l) /\ UpTo(l2, l[i].block) \in 0..Len(l2)
      BY <1>2, <2>3, UpToIs
    <2>6. UpTo(l, l[i].block) <= n
      BY <1>1, <2>1
    <2> QED
      BY <1>3, <2>1, <2>4, <2>5, <2>6
  <1> QED
    BY <1>4, <1>5, <1>6 DEF FeeRight

LEMMA JobKept ==
  ASSUME NEW l, NEW h, NEW o, NEW l2, NEW h2, NEW o2, GoesOn(l, h, o, l2, h2, o2),
         NEW p, NEW d \in Nat, d <= h, NEW miss, NEW b, JobRight(l, p, d, miss, b)
  PROVE  JobRight(l2, p, d, miss, b)
  BY FollowedBefore DEF JobRight

LEMMA SkippedKept ==
  ASSUME NEW l, NEW h, NEW o, NEW l2, NEW h2, NEW o2, GoesOn(l, h, o, l2, h2, o2),
         NEW p, NEW miss, miss \subseteq DOMAIN l, NEW b, Skipped(l, miss, p, b)
  PROVE  Skipped(l2, miss, p, b) \/ b \in o2
  BY DEF Skipped, GoesOn

LEMMA CopyKept ==
  ASSUME NEW l, NEW h, NEW o, NEW l2, NEW h2, NEW o2, GoesOn(l, h, o, l2, h2, o2),
         NEW miss, miss \subseteq DOMAIN l, NEW s, s.state.block \in Nat, s.state.block <= h,
         CopyRight(l, o, miss, s)
  PROVE  CopyRight(l2, o2, miss, s)
  <1> DEFINE b == s.state.block
  <1>1. CASE b \in o
    BY <1>1 DEF CopyRight, GoesOn
  <1>2. CASE Skipped(l, miss, s.pool, b)
    BY <1>2, SkippedKept DEF CopyRight
  <1>3. CASE HasWords(l, s.pool, s.state, UpTo(l, b)) /\ b \notin o2
    <2>1. UpTo(l2, b) = UpTo(l, b)
      BY <1>3, PastOf
    <2>2. UpTo(l, b) \in 0..Len(l)
      BY UpToIs DEF GoesOn
    <2>3. HasWords(l2, s.pool, s.state, UpTo(l, b))
      BY <1>3, <2>2, SamePast DEF HasWords
    <2> QED
      BY <2>1, <2>3 DEF CopyRight
  <1> QED
    BY <1>1, <1>2, <1>3 DEF CopyRight
------------------------------------------------------------------------------
(* The invariant of the sealed loop *)

\* The last block whose logs the loop has applied.
Horizon ==
  IF sPc = "load" THEN sCurrent ELSE IF sPc \in {"poll", "reload"} THEN seen ELSE sUpto

\* The pools that have a state.
Tracked == {p \in enabled : states[p] # None}

\* The pools whose state is whole.
Loaded == Tracked \ todo

Copies == [pool : enabled, state : Loop!State]

LoopTypes ==
  /\ sHead \in 1..MaxBlock /\ WellFormed(sLog, sHead)
  /\ \A i \in DOMAIN sLog : sLog[i].pool \in enabled
  /\ sCurrent \in 1..sHead /\ seen \in 0..sHead /\ sUpto \in 0..sHead
  /\ enabled \subseteq Loop!SealedPools
  /\ sPc \in {"load", "poll", "reload", "fees", "publish", "advance"}
  /\ sUpto > 0 => sPc # "load" /\ seen < sUpto
  /\ sPc \in {"fees", "publish", "advance"} => sUpto > 0
  /\ todo \subseteq enabled /\ half \in todo \cup {None}
  /\ sPc \notin {"load", "reload"} => todo = {}
  /\ \A p \in todo : states[p] # None => p = half
  /\ half # None => half \in Tracked
  /\ unread \subseteq Loop!SealedPools
  /\ \A p \in enabled \ todo : states[p] = None => p \in unread
  /\ states \in [Loop!SealedPools -> Loop!State \cup {None}]
  /\ sRedis \in [Loop!SealedPools -> Loop!State \cup {None}]
  /\ \A p \in Tracked : /\ states[p] \in Loop!State /\ states[p].block <= sHead
                        /\ p \in Classic => states[p].depth = Word0
  /\ sChanged \subseteq Loaded /\ feeLost \subseteq Loop!SealedPools
  /\ sPc \in {"load", "poll"} => sChanged = {}
  /\ missed \subseteq DOMAIN sLog /\ recent \subseteq DOMAIN sLog
  /\ jobs \in [Loop!SealedPools -> 0..MaxBlock]
  /\ \A p \in Loop!SealedPools : jobs[p] > 0 => /\ p \in Loop!Aerodrome \cap Tracked
                                                /\ seen < jobs[p] /\ jobs[p] <= sUpto
                                                /\ sPc \notin {"load", "poll", "reload"}
  /\ snaps \subseteq Copies /\ pending \subseteq Copies
  /\ \A s \in snaps \cup pending : s.state.block <= Horizon

\* Words and fees are right; the fees whose calls are under way will be.
WordsInv ==
  \A p \in Tracked : WordsRight(sLog, sHead, orphans, p, Horizon, missed, states[p])

FeeInv ==
  \A p \in (Loop!Aerodrome \cap Loaded) \ feeLost :
    (sPc = "fees" => jobs[p] = 0)
      => FeeRight(sLog, sHead, orphans, p, Horizon, missed, states[p].fee)

JobInv ==
  sPc = "fees" => \A p \in Loop!SealedPools : jobs[p] > 0 =>
     /\ p \in sChanged /\ [pool |-> p, state |-> states[p]] \in snaps
     /\ JobRight(sLog, p, sUpto, missed, jobs[p])

\* What is published is what the loop has, up to the pools of the chunk.
PublishedInv ==
  /\ sPc \in {"poll", "advance"} => \A p \in Loaded : sRedis[p] = states[p]
  /\ sPc \in {"reload", "fees", "publish"} => \A p \in Loaded \ sChanged : sRedis[p] = states[p]

CopyInv == \A s \in snaps \cup pending : CopyRight(sLog, orphans, missed, s)

VerdictInv ==
  Loop!VerdictsRight /\ (verdict # None => verdict.local.block \in Nat /\ verdict.local.block <= Horizon)

LoopInv == LoopTypes /\ WordsInv /\ FeeInv /\ JobInv /\ PublishedInv /\ CopyInv /\ VerdictInv

------------------------------------------------------------------------------
(* The chain goes on *)

Others == <<enabled, Loop!redisVars, sPc, states, Loop!loadVars, seen, Loop!chunkVars, recent, pending,
            verdict, Loop!pastVars>>

Goes ==
  /\ GoesOn(sLog, sHead, orphans, sLog', sHead', orphans')
  /\ \A i \in DOMAIN sLog' : sLog'[i].pool \in enabled

LEMMA EmitGoes ==
  ASSUME LoopTypes, NEW p \in enabled, NEW kind \in Loop!Kinds(p), Loop!Emit(p, kind)
  PROVE  Goes /\ UNCHANGED Others /\ sHead' \in 1..MaxBlock
  <1>1. PICK v \in Loop!NewValues(p, kind) :
          sLog' = Append(sLog, [pool |-> p, kind |-> kind, value |-> v, block |-> sHead + 1])
    BY DEF Loop!Emit
  <1>2. sHead' = sHead /\ orphans' = orphans /\ UNCHANGED Others
    BY DEF Loop!Emit, Others
  <1>3. p \in Loop!SealedPools /\ sHead \in Nat /\ sHead >= 1 /\ WellFormed(sLog, sHead) /\ sLog \in Seq(ChainEntry)
    BY CacheConstants DEF LoopTypes, WellFormed
  <1> DEFINE e == [pool |-> p, kind |-> kind, value |-> v, block |-> sHead + 1]
  <1>4. e \in ChainEntry /\ e.block = sHead + 1 /\ e.kind = kind /\ e.pool = p /\ e.value = v
    <2>1. kind \in {"sync", "swap", "mint", "fee"}
      BY <1>3, KindsOf
    <2>2. v \in Nat
      BY SealedConstants DEF Loop!NewValues
    <2> QED
      BY <1>3, <2>1, <2>2 DEF ChainEntry
  <1>v. v \in IF kind = "fee" THEN Fees ELSE Words
    BY DEF Loop!NewValues
  <1> HIDE DEF e
  <1>5. /\ Len(sLog) \in Nat /\ DOMAIN sLog = 1..Len(sLog)
        /\ \A i \in DOMAIN sLog : sLog[i].block \in Nat
    BY <1>3, LogFacts
  <1>6. /\ sLog' \in Seq(ChainEntry) /\ Len(sLog') = Len(sLog) + 1 /\ DOMAIN sLog' = 1..(Len(sLog) + 1)
        /\ \A i \in DOMAIN sLog : sLog'[i] = sLog[i]
        /\ sLog'[Len(sLog) + 1] = e
    <2>1. sLog' = Append(sLog, e)
      BY <1>1 DEF e
    <2> QED
      BY <1>3, <1>4, <1>5, <2>1
  <1>7. \A i \in DOMAIN sLog : /\ sLog[i].block \in 2..sHead + 1
                               /\ sLog[i].kind \in Loop!Kinds(sLog[i].pool)
                               /\ sLog[i].value \in IF sLog[i].kind = "fee" THEN Fees ELSE Words
    BY <1>3 DEF WellFormed
  <1>8. \A i \in DOMAIN sLog' : i \in DOMAIN sLog \/ i = Len(sLog) + 1
    BY <1>5, <1>6
  <1>9. WellFormed(sLog', sHead)
    <2>1. ASSUME NEW i \in DOMAIN sLog', NEW j \in DOMAIN sLog', i <= j
          PROVE  sLog'[i].block <= sLog'[j].block
      <3>1. CASE j \in DOMAIN sLog
        <4>1. i \in DOMAIN sLog
          BY <1>5, <1>6, <2>1, <3>1
        <4>2. sLog[i].block <= sLog[j].block
          BY <1>3, <2>1, <3>1, <4>1 DEF WellFormed
        <4> QED
          BY <1>6, <3>1, <4>1, <4>2
      <3>2. CASE j = Len(sLog) + 1
        <4>1. sLog'[j].block = sHead + 1
          BY <1>4, <1>6, <3>2
        <4>2. CASE i \in DOMAIN sLog
          BY <1>3, <1>6, <1>7, <4>1, <4>2
        <4>3. CASE i = Len(sLog) + 1
          BY <1>3, <3>2, <4>1, <4>3
        <4> QED
          BY <1>8, <4>2, <4>3
      <3> QED
        BY <1>8, <3>1, <3>2
    <2>2. ASSUME NEW i \in DOMAIN sLog'
          PROVE  /\ sLog'[i].block \in 2..sHead + 1
                 /\ sLog'[i].kind \in Loop!Kinds(sLog'[i].pool)
                 /\ sLog'[i].value \in IF sLog'[i].kind = "fee" THEN Fees ELSE Words
      <3>1. CASE i \in DOMAIN sLog
        BY <1>6, <1>7, <3>1
      <3>2. CASE i = Len(sLog) + 1
        BY <1>3, <1>4, <1>6, <1>v, <3>2
      <3> QED
        BY <1>8, <3>1, <3>2
    <2> QED
      BY <1>6, <2>1, <2>2 DEF WellFormed
  <1>10. \A i \in DOMAIN sLog' : i \notin DOMAIN sLog => sLog'[i].block > sHead
    BY <1>3, <1>4, <1>6, <1>8
  <1>11. GoesOn(sLog, sHead, orphans, sLog', sHead', orphans')
    BY <1>2, <1>3, <1>5, <1>6, <1>9, <1>10 DEF GoesOn
  <1>12. \A i \in DOMAIN sLog' : sLog'[i].pool \in enabled
    BY <1>4, <1>6, <1>8 DEF LoopTypes
  <1> QED
    BY <1>2, <1>11, <1>12 DEF LoopTypes, Goes

LEMMA SealGoes ==
  ASSUME LoopTypes, Loop!Seal
  PROVE  Goes /\ UNCHANGED Others /\ sHead' \in 1..MaxBlock
  <1>1. sHead' = sHead + 1 /\ sLog' = sLog /\ orphans' = orphans /\ UNCHANGED Others /\ sHead < MaxBlock
    BY DEF Loop!Seal, Others
  <1>2. sHead \in Nat /\ sHead >= 1 /\ WellFormed(sLog, sHead) /\ MaxBlock \in Nat
    BY CacheConstants DEF LoopTypes
  <1>3. WellFormed(sLog, sHead + 1)
    <2>1. \A i \in DOMAIN sLog : sLog[i].block \in 2..(sHead + 1) => sLog[i].block \in 2..(sHead + 1) + 1
      BY <1>2
    <2> QED
      BY <1>2, <2>1 DEF WellFormed
  <1>4. Len(sLog) \in Nat
    BY <1>2, LogFacts
  <1>5. GoesOn(sLog, sHead, orphans, sLog', sHead', orphans')
    BY <1>1, <1>2, <1>3, <1>4 DEF GoesOn
  <1> QED
    BY <1>1, <1>2, <1>5 DEF Goes, LoopTypes

LEMMA ReorgGoes ==
  ASSUME LoopTypes, Loop!Reorg
  PROVE  Goes /\ UNCHANGED Others /\ sHead' \in 1..MaxBlock
  <1>1. /\ sLog' = [i \in DOMAIN sLog |->
                      IF sLog[i].block = sHead THEN [sLog[i] EXCEPT !.block = sHead + 1] ELSE sLog[i]]
        /\ orphans' = orphans \cup {sHead} /\ sHead' = sHead /\ UNCHANGED Others
    BY DEF Loop!Reorg, Others
  <1>2. sHead \in Nat /\ sHead >= 1 /\ WellFormed(sLog, sHead) /\ sLog \in Seq(ChainEntry)
    BY CacheConstants DEF LoopTypes, WellFormed
  <1>3. Len(sLog) \in Nat /\ DOMAIN sLog = 1..Len(sLog)
        /\ \A i \in DOMAIN sLog : sLog[i] \in ChainEntry
    BY <1>2
  <1>4. \A i \in DOMAIN sLog :
          /\ sLog'[i] \in ChainEntry
          /\ sLog'[i].pool = sLog[i].pool /\ sLog'[i].kind = sLog[i].kind /\ sLog'[i].value = sLog[i].value
          /\ sLog'[i].block = IF sLog[i].block = sHead THEN sHead + 1 ELSE sLog[i].block
    <2> SUFFICES ASSUME NEW i \in DOMAIN sLog
                 PROVE  /\ sLog'[i] \in ChainEntry
                        /\ sLog'[i].pool = sLog[i].pool /\ sLog'[i].kind = sLog[i].kind
                        /\ sLog'[i].value = sLog[i].value
                        /\ sLog'[i].block = IF sLog[i].block = sHead THEN sHead + 1 ELSE sLog[i].block
      OBVIOUS
    <2>1. sLog[i] \in ChainEntry
      BY <1>3
    <2>2. sLog'[i] = IF sLog[i].block = sHead THEN [sLog[i] EXCEPT !.block = sHead + 1] ELSE sLog[i]
      BY <1>1
    <2>3. CASE sLog[i].block = sHead
      <3>1. [sLog[i] EXCEPT !.block = sHead + 1]
              = [pool |-> sLog[i].pool, kind |-> sLog[i].kind, value |-> sLog[i].value,
                 block |-> sHead + 1]
        BY <2>1 DEF ChainEntry
      <3>2. sLog'[i] = [pool |-> sLog[i].pool, kind |-> sLog[i].kind, value |-> sLog[i].value,
                        block |-> sHead + 1]
        BY <2>2, <2>3, <3>1
      <3>3. sLog'[i] \in ChainEntry
        BY <1>2, <2>1, <3>2 DEF ChainEntry
      <3> QED
        BY <2>3, <3>2, <3>3
    <2>4. CASE sLog[i].block # sHead
      BY <2>1, <2>2, <2>4
    <2> QED
      BY <2>3, <2>4
  <1>5. sLog' \in Seq(ChainEntry) /\ Len(sLog') = Len(sLog) /\ DOMAIN sLog' = DOMAIN sLog
    <2>1. sLog' \in [1..Len(sLog) -> ChainEntry]
      BY <1>1, <1>3, <1>4
    <2> QED
      BY <1>3, <2>1
  <1>6. \A i \in DOMAIN sLog : /\ sLog[i].block \in 2..sHead + 1
                               /\ sLog[i].kind \in Loop!Kinds(sLog[i].pool)
                               /\ sLog[i].value \in IF sLog[i].kind = "fee" THEN Fees ELSE Words
    BY <1>2 DEF WellFormed
  <1>7. WellFormed(sLog', sHead)
    <2>1. ASSUME NEW i \in DOMAIN sLog', NEW j \in DOMAIN sLog', i <= j
          PROVE  sLog'[i].block <= sLog'[j].block
      <3>1. sLog[i].block <= sLog[j].block
        BY <1>2, <1>5, <2>1 DEF WellFormed
      <3>2. sLog[i].block \in 2..sHead + 1 /\ sLog[j].block \in 2..sHead + 1
        BY <1>5, <1>6
      <3>3. /\ sLog'[i].block = IF sLog[i].block = sHead THEN sHead + 1 ELSE sLog[i].block
            /\ sLog'[j].block = IF sLog[j].block = sHead THEN sHead + 1 ELSE sLog[j].block
        BY <1>4, <1>5
      <3> QED
        BY <1>2, <3>1, <3>2, <3>3
    <2>2. ASSUME NEW i \in DOMAIN sLog'
          PROVE  /\ sLog'[i].block \in 2..sHead + 1
                 /\ sLog'[i].kind \in Loop!Kinds(sLog'[i].pool)
                 /\ sLog'[i].value \in IF sLog'[i].kind = "fee" THEN Fees ELSE Words
      <3>1. i \in DOMAIN sLog
        BY <1>5
      <3>2. sLog'[i].block = IF sLog[i].block = sHead THEN sHead + 1 ELSE sLog[i].block
        BY <1>4, <3>1
      <3>3. sLog'[i].block \in 2..sHead + 1
        BY <1>2, <1>6, <3>1, <3>2
      <3> QED
        BY <1>4, <1>6, <3>1, <3>3
    <2> QED
      BY <1>5, <2>1, <2>2 DEF WellFormed
  <1>8. \A i \in DOMAIN sLog : sLog'[i].block # sLog[i].block =>
          sLog[i].block = sHead /\ sLog'[i].block = sHead + 1 /\ sHead \in orphans'
    BY <1>1, <1>4
  <1>9. GoesOn(sLog, sHead, orphans, sLog', sHead', orphans')
    BY <1>1, <1>2, <1>3, <1>4, <1>5, <1>7, <1>8 DEF GoesOn
  <1> QED
    BY <1>1, <1>4, <1>5, <1>9 DEF LoopTypes, Goes

LEMMA ChainGoes ==
  ASSUME LoopTypes, Loop!Chain
  PROVE  Goes /\ UNCHANGED Others /\ sHead' \in 1..MaxBlock
  BY EmitGoes, SealGoes, ReorgGoes DEF Loop!Chain
LEMMA ChainTypes ==
  ASSUME LoopTypes, Goes, UNCHANGED Others, sHead' \in 1..MaxBlock
  PROVE  LoopTypes'
  <1>1. /\ WellFormed(sLog', sHead') /\ sHead <= sHead' /\ sHead \in Nat /\ sHead' \in Nat
        /\ DOMAIN sLog \subseteq DOMAIN sLog'
    <2>1. /\ WellFormed(sLog, sHead) /\ WellFormed(sLog', sHead') /\ sHead <= sHead' /\ sHead \in Nat
          /\ sHead' \in Nat /\ Len(sLog) <= Len(sLog')
      BY DEF Goes, GoesOn
    <2>2. DOMAIN sLog = 1..Len(sLog) /\ Len(sLog) \in Nat
      BY <2>1, LogFacts
    <2>3. DOMAIN sLog' = 1..Len(sLog') /\ Len(sLog') \in Nat
      BY <2>1, LogFacts
    <2> QED
      BY <2>1, <2>2, <2>3
  <1>2. Tracked' = Tracked /\ Loaded' = Loaded /\ Horizon' = Horizon
    BY DEF Others, Tracked, Loaded, Horizon, Loop!redisVars, Loop!loadVars, Loop!chunkVars
  <1>3. sCurrent' \in 1..sHead' /\ seen' \in 0..sHead' /\ sUpto' \in 0..sHead'
    BY <1>1 DEF LoopTypes, Others, Loop!redisVars, Loop!chunkVars
  <1>4. \A p \in Tracked' : /\ states'[p] \in Loop!State /\ states'[p].block <= sHead'
                            /\ p \in Classic => states'[p].depth = Word0
    <2> SUFFICES ASSUME NEW p \in Tracked
                 PROVE  /\ states[p] \in Loop!State /\ states[p].block <= sHead'
                        /\ p \in Classic => states[p].depth = Word0
      BY <1>2 DEF Others
    <2>1. /\ states[p] \in Loop!State /\ states[p].block <= sHead
          /\ p \in Classic => states[p].depth = Word0
      BY DEF LoopTypes
    <2>2. states[p].block \in Nat
      BY <2>1 DEF Loop!State
    <2> QED
      BY <1>1, <2>1, <2>2
  <1>5. missed' \subseteq DOMAIN sLog' /\ recent' \subseteq DOMAIN sLog'
    BY <1>1 DEF LoopTypes, Others, Loop!pastVars
  <1>6. UNCHANGED <<enabled, sPc, todo, half, states, sRedis, sChanged, feeLost, unread, jobs, seen, sUpto,
                    snaps, pending>>
        /\ \A i \in DOMAIN sLog' : sLog'[i].pool \in enabled
    BY DEF Others, Loop!redisVars, Loop!loadVars, Loop!chunkVars, Loop!pastVars, Goes
  <1>7. (\A s \in snaps \cup pending : s.state.block <= Horizon)'
    BY <1>2, <1>6 DEF LoopTypes
  <1> QED
    BY <1>1, <1>2, <1>3, <1>4, <1>5, <1>6, <1>7 DEF LoopTypes, Copies

LEMMA HorizonSealed ==
  ASSUME LoopTypes
  PROVE  Horizon \in Nat /\ Horizon <= sHead /\ sHead \in Nat
  BY CacheConstants DEF LoopTypes, Horizon

LEMMA ChainKeeps ==
  ASSUME LoopInv, Loop!Chain
  PROVE  LoopInv'
  <1>1. LoopTypes /\ Goes /\ UNCHANGED Others /\ sHead' \in 1..MaxBlock
    BY ChainGoes DEF LoopInv
  <1>2. GoesOn(sLog, sHead, orphans, sLog', sHead', orphans')
    BY <1>1 DEF Goes
  <1>3. Tracked' = Tracked /\ Loaded' = Loaded /\ Horizon' = Horizon
    BY <1>1 DEF Others, Tracked, Loaded, Horizon, Loop!redisVars, Loop!loadVars, Loop!chunkVars
  <1>4. Horizon \in Nat /\ Horizon <= sHead
    BY <1>1, HorizonSealed
  <1>5. UNCHANGED <<enabled, sPc, todo, half, states, sRedis, sChanged, feeLost, jobs, seen, sUpto, snaps,
                    pending, verdict, missed>>
    BY <1>1 DEF Others, Loop!redisVars, Loop!loadVars, Loop!chunkVars, Loop!pastVars
  <1>6. LoopTypes'
    BY <1>1, ChainTypes
  <1>7. WordsInv'
    BY <1>2, <1>3, <1>4, <1>5, WordsKept DEF LoopInv, WordsInv
  <1>8. FeeInv'
    <2> SUFFICES ASSUME NEW p \in (Loop!Aerodrome \cap Loaded) \ feeLost, sPc = "fees" => jobs[p] = 0
                 PROVE  FeeRight(sLog', sHead', orphans', p, Horizon, missed, states[p].fee)
      BY <1>3, <1>5 DEF FeeInv
    <2>1. FeeRight(sLog, sHead, orphans, p, Horizon, missed, states[p].fee)
      BY DEF LoopInv, FeeInv
    <2> QED
      BY <1>2, <1>4, <2>1, FeeKept
  <1>9. JobInv'
    <2> SUFFICES ASSUME sPc = "fees", NEW p \in Loop!SealedPools, jobs[p] > 0
                 PROVE  /\ p \in sChanged /\ [pool |-> p, state |-> states[p]] \in snaps
                        /\ JobRight(sLog', p, sUpto, missed, jobs[p])
      BY <1>5 DEF JobInv
    <2>1. /\ p \in sChanged /\ [pool |-> p, state |-> states[p]] \in snaps
          /\ JobRight(sLog, p, sUpto, missed, jobs[p])
      BY DEF LoopInv, JobInv
    <2>2. sUpto \in Nat /\ sUpto <= sHead
      BY <1>1, CacheConstants DEF LoopTypes
    <2> QED
      BY <1>2, <2>1, <2>2, JobKept
  <1>10. PublishedInv'
    BY <1>3, <1>5 DEF LoopInv, PublishedInv
  <1>11. missed \subseteq DOMAIN sLog
    BY <1>1 DEF LoopTypes
  <1>12. CopyInv'
    <2> SUFFICES ASSUME NEW s \in snaps \cup pending PROVE CopyRight(sLog', orphans', missed, s)
      BY <1>5 DEF CopyInv
    <2>1. CopyRight(sLog, orphans, missed, s) /\ s.state.block <= Horizon
      BY <1>1 DEF LoopInv, CopyInv, LoopTypes
    <2>2. s.state.block \in Nat /\ s.state.block <= sHead
      <3>1. s.state \in Loop!State
        BY <1>1 DEF LoopTypes, Copies
      <3>2. s.state.block \in Nat
        BY <3>1 DEF Loop!State
      <3> QED
        BY <1>1, <1>4, <2>1, <3>2, HorizonSealed
    <2> QED
      BY <1>2, <1>11, <2>1, <2>2, CopyKept
  <1>13. VerdictInv'
    <2> SUFFICES ASSUME verdict # None
                 PROVE  Loop!VerdictsRight' /\ verdict.local.block \in Nat /\ verdict.local.block <= Horizon
      BY <1>3, <1>5 DEF VerdictInv, Loop!VerdictsRight
    <2>1. Loop!VerdictsRight /\ verdict.local.block \in Nat /\ verdict.local.block <= Horizon
      BY DEF LoopInv, VerdictInv
    <2>2. ASSUME \E i \in missed : sLog[i].pool = verdict.pool /\ sLog[i].block = verdict.local.block
          PROVE  \/ verdict.local.block \in orphans'
                 \/ \E i \in missed : sLog'[i].pool = verdict.pool /\ sLog'[i].block = verdict.local.block
      <3>1. Skipped(sLog, missed, verdict.pool, verdict.local.block)
        BY <2>2 DEF Skipped
      <3>2. Skipped(sLog', missed, verdict.pool, verdict.local.block) \/ verdict.local.block \in orphans'
        BY <1>2, <1>11, <3>1, SkippedKept
      <3> QED
        BY <3>2 DEF Skipped
    <2>3. orphans \subseteq orphans'
      BY <1>2 DEF GoesOn
    <2> QED
      BY <1>5, <2>1, <2>2, <2>3 DEF Loop!VerdictsRight
  <1> QED
    BY <1>6, <1>7, <1>8, <1>9, <1>10, <1>12, <1>13 DEF LoopInv
------------------------------------------------------------------------------
(* What the calls return *)

LEMMA ValuesTyped ==
  ASSUME NEW l, NEW h, WellFormed(l, h), NEW p, NEW n \in 0..Len(l)
  PROVE  /\ PriceAt(l, p, n) \in Words /\ DepthAt(l, p, n) \in Words /\ FeeAt(l, p, n) \in Fees
         /\ p \in Classic => DepthAt(l, p, n) = Word0
  <1>1. Len(l) \in Nat /\ DOMAIN l = 1..Len(l) /\ n \in Nat
    BY LogFacts
  <1>2. \A i \in DOMAIN l : /\ l[i].kind \in Loop!Kinds(l[i].pool)
                            /\ l[i].value \in IF l[i].kind = "fee" THEN Fees ELSE Words
    BY DEF WellFormed
  <1>3. ASSUME NEW kinds
        PROVE  \/ LastIn(l, p, kinds, n) = 0
               \/ /\ LastIn(l, p, kinds, n) \in DOMAIN l /\ l[LastIn(l, p, kinds, n)].kind \in kinds
                  /\ l[LastIn(l, p, kinds, n)].pool = p
    <2> DEFINE x == LastIn(l, p, kinds, n)
    <2>1. x \in 0..n /\ (x # 0 => l[x].pool = p /\ l[x].kind \in kinds)
      BY <1>1, LastInIs
    <2> QED
      BY <1>1, <2>1
  <1>4. PriceAt(l, p, n) \in Words
    BY <1>2, <1>3, SealedConstants DEF PriceAt, ValueAt
  <1>5. DepthAt(l, p, n) \in Words
    BY <1>2, <1>3, SealedConstants DEF DepthAt, ValueAt
  <1>6. FeeAt(l, p, n) \in Fees
    BY <1>2, <1>3, SealedConstants DEF FeeAt, ValueAt
  <1>7. ASSUME p \in Classic PROVE DepthAt(l, p, n) = Word0
    <2>1. "mint" \notin Loop!Kinds(p)
      BY <1>7, KindsOf DEF Loop!SealedPools, Loop!Aerodrome
    <2>2. LastIn(l, p, {"mint"}, n) = 0
      BY <1>2, <1>3, <2>1
    <2> QED
      BY <2>2 DEF DepthAt, ValueAt
  <1> QED
    BY <1>4, <1>5, <1>6, <1>7

\* The words and the fee of p at block b.
LEMMA WordsRead ==
  ASSUME LoopTypes, NEW p, NEW b \in Nat
  PROVE  /\ UpTo(sLog, b) \in 0..Len(sLog)
         /\ Loop!Slot0At(p, b) = [price |-> PriceAt(sLog, p, UpTo(sLog, b)),
                                  depth |-> DepthAt(sLog, p, UpTo(sLog, b))]
         /\ Loop!Slot0At(p, b) # None
         /\ PriceAt(sLog, p, UpTo(sLog, b)) \in Words /\ DepthAt(sLog, p, UpTo(sLog, b)) \in Words
         /\ Loop!FeeAfter(p, Loop!Through(b)) = FeeAt(sLog, p, UpTo(sLog, b))
         /\ FeeAt(sLog, p, UpTo(sLog, b)) \in Fees
         /\ p \in Classic => DepthAt(sLog, p, UpTo(sLog, b)) = Word0
  <1>1. WellFormed(sLog, sHead)
    BY DEF LoopTypes
  <1>2. UpTo(sLog, b) \in 0..Len(sLog)
    BY <1>1, UpToIs
  <1>3. /\ PriceAt(sLog, p, UpTo(sLog, b)) \in Words /\ DepthAt(sLog, p, UpTo(sLog, b)) \in Words
        /\ FeeAt(sLog, p, UpTo(sLog, b)) \in Fees
        /\ p \in Classic => DepthAt(sLog, p, UpTo(sLog, b)) = Word0
    BY <1>1, <1>2, ValuesTyped
  <1>4. Loop!Slot0At(p, b) = [price |-> PriceAt(sLog, p, UpTo(sLog, b)),
                              depth |-> DepthAt(sLog, p, UpTo(sLog, b))]
    BY OfTheLog DEF Loop!Slot0At
  <1>5. Loop!Slot0At(p, b) # None
    BY <1>3, <1>4, SealedConstants
  <1>6. Loop!FeeAfter(p, Loop!Through(b)) = FeeAt(sLog, p, UpTo(sLog, b))
    BY OfTheLog
  <1> QED
    BY <1>2, <1>3, <1>4, <1>5, <1>6

\* A whole state of p at block b.
LEMMA StateRead ==
  ASSUME LoopTypes, NEW p \in Loop!SealedPools, NEW b \in Nat, NEW own \in Fees, NEW down \in BOOLEAN
  PROVE  LET st == Loop!PoolStateAt(p, b, own, down)
         IN  /\ ~down => st # None
             /\ st # None =>
                  /\ st \in Loop!State /\ st.block = b /\ HasWords(sLog, p, st, UpTo(sLog, b))
                  /\ p \in Classic => st.depth = Word0
                  /\ ~down /\ p \in Loop!Aerodrome => st.fee = FeeAt(sLog, p, UpTo(sLog, b))
  <1>1. /\ Loop!Slot0At(p, b) = [price |-> PriceAt(sLog, p, UpTo(sLog, b)),
                                 depth |-> DepthAt(sLog, p, UpTo(sLog, b))]
        /\ Loop!Slot0At(p, b) # None
        /\ PriceAt(sLog, p, UpTo(sLog, b)) \in Words /\ DepthAt(sLog, p, UpTo(sLog, b)) \in Words
        /\ Loop!FeeAfter(p, Loop!Through(b)) = FeeAt(sLog, p, UpTo(sLog, b))
        /\ FeeAt(sLog, p, UpTo(sLog, b)) \in Fees
        /\ p \in Classic => DepthAt(sLog, p, UpTo(sLog, b)) = Word0
    BY WordsRead
  <1>2. None \notin Fees
    BY SealedConstants
  <1>3. Loop!AerodromeStateAt(p, b) = Loop!Slot0At(p, b)
    BY <1>1 DEF Loop!AerodromeStateAt, Loop!ReservesAt, Loop!Slot0At
  <1>4. ASSUME NEW fee \in Fees
        PROVE  /\ Loop!Joined(Loop!Slot0At(p, b), fee, b)
                    = [price |-> PriceAt(sLog, p, UpTo(sLog, b)),
                       depth |-> DepthAt(sLog, p, UpTo(sLog, b)), fee |-> fee, block |-> b]
               /\ Loop!Joined(Loop!Slot0At(p, b), fee, b) \in Loop!State
               /\ Loop!Joined(Loop!Slot0At(p, b), fee, b) # None
    <2>1. Loop!Joined(Loop!Slot0At(p, b), fee, b)
            = [price |-> PriceAt(sLog, p, UpTo(sLog, b)),
               depth |-> DepthAt(sLog, p, UpTo(sLog, b)), fee |-> fee, block |-> b]
      BY <1>1, <1>2 DEF Loop!Joined
    <2>2. Loop!Joined(Loop!Slot0At(p, b), fee, b) \in Loop!State
      BY <1>1, <2>1 DEF Loop!State
    <2> QED
      BY <2>1, <2>2, SealedConstants DEF Loop!State
  <1>5. Loop!Joined(Loop!Slot0At(p, b), None, b) = None
    BY DEF Loop!Joined
  <1> DEFINE st == Loop!PoolStateAt(p, b, own, down)
  <1>6. \/ st = None /\ down
        \/ \E fee \in Fees : /\ st = Loop!Joined(Loop!Slot0At(p, b), fee, b)
                             /\ ~down /\ p \in Loop!Aerodrome => fee = FeeAt(sLog, p, UpTo(sLog, b))
    <2>1. CASE p \in UniswapV3
      <3>1. st = Loop!Joined(Loop!Slot0At(p, b), own, b) /\ p \notin Loop!Aerodrome
        BY <2>1, SealedConstants DEF Loop!PoolStateAt, Loop!Aerodrome
      <3> QED
        BY <3>1
    <2>2. CASE p \notin UniswapV3 /\ p \in Slipstream
      <3>1. st = Loop!Joined(Loop!Slot0At(p, b), Loop!SlipstreamFeeAt(p, b, down), b)
        BY <1>3, <2>2 DEF Loop!PoolStateAt
      <3>2. Loop!SlipstreamFeeAt(p, b, down) = IF down THEN None ELSE FeeAt(sLog, p, UpTo(sLog, b))
        BY <1>1 DEF Loop!SlipstreamFeeAt
      <3> QED
        BY <1>1, <1>5, <3>1, <3>2
    <2>3. CASE p \notin UniswapV3 /\ p \notin Slipstream
      <3>1. st = Loop!Joined(Loop!Slot0At(p, b), Loop!ClassicFeeForEntry(p, b, own, down), b)
        BY <1>3, <2>3 DEF Loop!PoolStateAt
      <3>2. Loop!ClassicFeeAt(p, b, down) = IF down THEN None ELSE FeeAt(sLog, p, UpTo(sLog, b))
        BY <1>1 DEF Loop!ClassicFeeAt
      <3>3. CASE down
        BY <1>5, <3>1, <3>2, <3>3 DEF Loop!ClassicFeeForEntry
      <3>4. CASE ~down
        BY <1>1, <1>2, <3>1, <3>2, <3>4 DEF Loop!ClassicFeeForEntry
      <3> QED
        BY <3>3, <3>4
    <2> QED
      BY <2>1, <2>2, <2>3
  <1> HIDE DEF st
  <1>7. CASE st = None /\ down
    BY <1>7 DEF st
  <1>8. ASSUME NEW fee \in Fees, st = Loop!Joined(Loop!Slot0At(p, b), fee, b),
               ~down /\ p \in Loop!Aerodrome => fee = FeeAt(sLog, p, UpTo(sLog, b))
        PROVE  /\ st # None /\ st \in Loop!State /\ st.block = b /\ HasWords(sLog, p, st, UpTo(sLog, b))
               /\ p \in Classic => st.depth = Word0
               /\ ~down /\ p \in Loop!Aerodrome => st.fee = FeeAt(sLog, p, UpTo(sLog, b))
    <2>1. /\ st = [price |-> PriceAt(sLog, p, UpTo(sLog, b)),
                   depth |-> DepthAt(sLog, p, UpTo(sLog, b)), fee |-> fee, block |-> b]
          /\ st \in Loop!State /\ st # None
      BY <1>4, <1>8
    <2> QED
      BY <1>1, <1>8, <2>1 DEF HasWords
  <1> QED
    BY <1>6, <1>7, <1>8 DEF st
------------------------------------------------------------------------------
(* Startup and crash *)

LEMMA LoopInit == Loop!Init => LoopInv
  <1> SUFFICES ASSUME Loop!Init PROVE LoopInv
    OBVIOUS
  <1> USE DEF Loop!Init
  <1>1. Tracked = {} /\ Loaded = {} /\ Horizon = 1
    BY SealedConstants DEF Tracked, Loaded, Horizon, Loop!SealedPools, Loop!Aerodrome
  <1>2. WellFormed(sLog, sHead)
    BY DEF WellFormed
  <1>3. enabled \subseteq Loop!SealedPools
    BY SealedConstants DEF Loop!SealedPools, Loop!Aerodrome
  <1>4. LoopTypes
    BY <1>1, <1>2, <1>3, CacheConstants DEF LoopTypes
  <1> QED
    BY <1>1, <1>4 DEF LoopInv, WordsInv, FeeInv, JobInv, PublishedInv, CopyInv, VerdictInv, Loop!VerdictsRight

LEMMA CrashKeeps ==
  ASSUME LoopInv, Loop!Crash
  PROVE  LoopInv'
  <1>1. LoopTypes
    BY DEF LoopInv
  <1>2. /\ sPc' = "load" /\ states' = [p \in Loop!SealedPools |-> None] /\ todo' = enabled /\ half' = None
        /\ seen' = 0 /\ sUpto' = 0 /\ sChanged' = {} /\ snaps' = {}
        /\ jobs' = [p \in Loop!SealedPools |-> 0] /\ recent' = {} /\ pending' = {}
        /\ verdict' = None /\ missed' = {} /\ feeLost' = {} /\ unread' = {}
        /\ UNCHANGED <<sHead, sLog, orphans, enabled, sCurrent, sRedis>>
    BY DEF Loop!Crash, Loop!chainVars, Loop!redisVars
  <1>3. Tracked' = {} /\ Loaded' = {}
    BY <1>1, <1>2, SealedConstants DEF Tracked, Loaded, LoopTypes, Loop!SealedPools, Loop!Aerodrome
  <1>4. LoopTypes'
    BY <1>1, <1>2, <1>3, CacheConstants DEF LoopTypes
  <1> QED
    BY <1>2, <1>3, <1>4 DEF LoopInv, WordsInv, FeeInv, JobInv, PublishedInv, CopyInv, VerdictInv, Loop!VerdictsRight

\* At startup and at a reload only the states that change matter.
LEMMA LoadFrame ==
  ASSUME LoopInv, LoopTypes', sPc \in {"load", "reload"}, NEW p \in enabled,
         UNCHANGED <<sHead, sLog, orphans, enabled, sCurrent, sRedis, sPc, seen, sUpto, snaps, jobs, pending,
                     verdict, missed>>,
         \A q \in Tracked' : q # p => q \in Tracked /\ states'[q] = states[q],
         todo \ todo' \subseteq {p}, sChanged \subseteq sChanged', feeLost \subseteq feeLost',
         p \in Tracked' => WordsRight(sLog, sHead, orphans, p, Horizon, missed, states'[p]),
         p \in (Loop!Aerodrome \cap Loaded') \ feeLost'
           => FeeRight(sLog, sHead, orphans, p, Horizon, missed, states'[p].fee),
         p \in Loaded' => sPc = "load" \/ p \in sChanged'
  PROVE  LoopInv'
  <1>1. Horizon' = Horizon
    BY DEF Horizon
  <1>2. \A q \in Loaded' : q # p => q \in Loaded /\ states'[q] = states[q]
    BY DEF Loaded
  <1>3. WordsInv'
    BY <1>1 DEF LoopInv, WordsInv
  <1>4. FeeInv'
    <2> SUFFICES ASSUME NEW q \in (Loop!Aerodrome \cap Loaded') \ feeLost'
                 PROVE  FeeRight(sLog, sHead, orphans, q, Horizon, missed, states'[q].fee)
      BY <1>1 DEF FeeInv
    <2>1. CASE q = p
      BY <2>1
    <2>2. CASE q # p
      <3>1. q \in (Loop!Aerodrome \cap Loaded) \ feeLost /\ states'[q] = states[q]
        BY <1>2, <2>2
      <3> QED
        BY <3>1 DEF LoopInv, FeeInv
    <2> QED
      BY <2>1, <2>2
  <1>5. PublishedInv'
    <2> SUFFICES ASSUME sPc = "reload", NEW q \in Loaded' \ sChanged' PROVE sRedis[q] = states'[q]
      BY DEF PublishedInv
    <2>1. q # p /\ q \in Loaded \ sChanged /\ states'[q] = states[q]
      BY <1>2
    <2> QED
      BY <2>1 DEF LoopInv, PublishedInv
  <1>6. JobInv'
    BY DEF JobInv
  <1>7. CopyInv' /\ VerdictInv'
    BY <1>1 DEF LoopInv, CopyInv, VerdictInv, Loop!VerdictsRight
  <1> QED
    BY <1>3, <1>4, <1>5, <1>6, <1>7 DEF LoopInv

LEMMA LoadWordsKeeps ==
  ASSUME LoopInv, NEW down \in BOOLEAN, Loop!LoadWords(down)
  PROVE  LoopInv'
  <1>1. LoopTypes
    BY DEF LoopInv
  <1> DEFINE p == CHOOSE q \in todo : TRUE
  <1>2. /\ sPc \in {"load", "reload"} /\ half = None /\ todo # {}
        /\ \/ /\ ~down /\ half' = p
              /\ states' = [states EXCEPT ![p] = Loop!Joined(Loop!Slot0At(p, sHead), Fee0, sHead)]
              /\ UNCHANGED <<todo, unread>>
           \/ /\ down /\ todo' = todo \ {p} /\ unread' = unread \cup {p}
              /\ UNCHANGED <<half, states>>
        /\ UNCHANGED <<sHead, sLog, orphans, enabled, sCurrent, sRedis, sPc, seen, sUpto, sChanged, snaps,
                       jobs, recent, pending, verdict, missed, feeLost>>
    BY DEF Loop!LoadWords, Loop!chainVars, Loop!redisVars, Loop!chunkVars
  <1>3. p \in todo
    BY <1>2
  <1> HIDE DEF p
  <1>4. p \in enabled /\ p \in Loop!SealedPools /\ p \notin Tracked /\ p \notin Loaded /\ p # None
        /\ None \notin todo
    BY <1>1, <1>2, <1>3, SealedConstants DEF LoopTypes, Tracked, Loaded, Loop!SealedPools, Loop!Aerodrome
  <1>5. sHead \in Nat /\ Horizon \in Nat /\ Horizon <= sHead /\ WellFormed(sLog, sHead) /\ Horizon' = Horizon
    <2>1. Horizon' = Horizon
      BY <1>2 DEF Horizon
    <2> QED
      BY <1>1, <2>1, HorizonSealed DEF LoopTypes
  <1>6. CASE down
    <2>1. /\ todo' = todo \ {p} /\ unread' = unread \cup {p} /\ half' = None /\ states' = states
      BY <1>2, <1>6
    <2>2. Tracked' = Tracked /\ Loaded' = Loaded
      BY <1>2, <1>4, <2>1 DEF Tracked, Loaded
    <2>3. \A q \in enabled \ todo' : states[q] = None => q \in unread'
      BY <1>1, <2>1 DEF LoopTypes
    <2>4. LoopTypes'
      BY <1>1, <1>2, <1>4, <1>5, <2>1, <2>2, <2>3 DEF LoopTypes, Copies
    <2> QED
      BY <1>2, <1>4, <2>1, <2>2, <2>4, LoadFrame
  <1>7. CASE ~down
    <2> DEFINE st == Loop!Joined(Loop!Slot0At(p, sHead), Fee0, sHead)
    <2>1. /\ half' = p /\ states' = [states EXCEPT ![p] = st] /\ todo' = todo /\ unread' = unread
      BY <1>2, <1>7
    <2>2. /\ st \in Loop!State /\ st.block = sHead /\ HasWords(sLog, p, st, UpTo(sLog, sHead)) /\ st # None
          /\ p \in Classic => st.depth = Word0
      <3>1. /\ Loop!Slot0At(p, sHead) = [price |-> PriceAt(sLog, p, UpTo(sLog, sHead)),
                                         depth |-> DepthAt(sLog, p, UpTo(sLog, sHead))]
            /\ Loop!Slot0At(p, sHead) # None
            /\ PriceAt(sLog, p, UpTo(sLog, sHead)) \in Words /\ DepthAt(sLog, p, UpTo(sLog, sHead)) \in Words
            /\ p \in Classic => DepthAt(sLog, p, UpTo(sLog, sHead)) = Word0
        BY <1>1, <1>5, WordsRead
      <3>2. st = [price |-> PriceAt(sLog, p, UpTo(sLog, sHead)),
                  depth |-> DepthAt(sLog, p, UpTo(sLog, sHead)), fee |-> Fee0, block |-> sHead]
        BY <3>1, SealedConstants DEF Loop!Joined
      <3> HIDE DEF st
      <3> QED
        BY <1>5, <3>1, <3>2, SealedConstants DEF Loop!State, HasWords
    <2> HIDE DEF st
    <2>3. states'[p] = st /\ \A q \in Loop!SealedPools : q # p => states'[q] = states[q]
      BY <1>1, <1>4, <2>1 DEF LoopTypes
    <2>4. Tracked' = Tracked \cup {p} /\ Loaded' = Loaded
      <3>1. enabled \subseteq Loop!SealedPools /\ enabled' = enabled /\ todo' = todo /\ p \in todo
        BY <1>1, <1>2, <1>3, <2>1 DEF LoopTypes
      <3> QED
        BY <1>4, <2>2, <2>3, <3>1 DEF Tracked, Loaded
    <2>5. \A q \in Tracked' : q # p => q \in Tracked /\ states'[q] = states[q]
      BY <1>1, <2>3, <2>4 DEF Tracked, LoopTypes
    <2>6. LoopTypes'
      <3>1. states' \in [Loop!SealedPools -> Loop!State \cup {None}]
        BY <1>1, <2>1, <2>2 DEF LoopTypes
      <3>2. \A q \in Tracked' : /\ states'[q] \in Loop!State /\ states'[q].block <= sHead
                                /\ q \in Classic => states'[q].depth = Word0
        BY <1>1, <1>5, <2>2, <2>3, <2>5 DEF LoopTypes
      <3>3. \A q \in todo : states'[q] # None => q = p
        BY <1>1, <1>2, <1>4, <2>3 DEF LoopTypes
      <3>4. \A q \in enabled \ todo : states'[q] = None => q \in unread
        BY <1>1, <2>2, <2>3 DEF LoopTypes
      <3> QED
        BY <1>1, <1>2, <1>3, <1>5, <2>1, <2>4, <3>1, <3>2, <3>3, <3>4 DEF LoopTypes, Copies
    <2>7. WordsRight(sLog, sHead, orphans, p, Horizon, missed, states'[p])
      BY <1>5, <2>2, <2>3, NothingAhead DEF WordsRight
    <2> QED
      BY <1>2, <1>4, <2>1, <2>4, <2>5, <2>6, <2>7, LoadFrame
  <1> QED
    BY <1>6, <1>7

\* A fee read at a block behind everything applied.
LEMMA FeeReadRight ==
  ASSUME LoopTypes, NEW p, NEW b \in Nat, b <= sHead, NEW d \in Nat, d <= sHead, NEW miss,
         JobRight(sLog, p, d, miss, b)
  PROVE  FeeRight(sLog, sHead, orphans, p, d, miss, FeeAt(sLog, p, UpTo(sLog, b)))
  <1>1. WellFormed(sLog, sHead) /\ sHead \in Nat
    BY CacheConstants DEF LoopTypes
  <1>2. UpTo(sLog, b) \in 0..Len(sLog) /\ UpTo(sLog, b) <= UpTo(sLog, sHead)
    BY <1>1, UpToIs, UpToMonotone
  <1>3. ASSUME NEW i, NEW j, Followed(sLog, p, d, miss, i, j)
        PROVE  UpTo(sLog, sLog[i].block) <= UpTo(sLog, b)
    <2>1. sLog[i].block <= b /\ sLog[i].block \in Nat
      BY <1>1, <1>3, LogFacts DEF JobRight, Followed
    <2> QED
      BY <1>1, <2>1, UpToMonotone
  <1> QED
    BY <1>2, <1>3 DEF FeeRight

LEMMA FollowedSealed ==
  ASSUME LoopTypes, NEW p, NEW d \in Nat, NEW miss
  PROVE  JobRight(sLog, p, d, miss, d)
  <1> SUFFICES ASSUME NEW i, NEW j, Followed(sLog, p, d, miss, i, j) PROVE sLog[i].block <= d
    BY DEF JobRight
  <1>1. WellFormed(sLog, sHead)
    BY DEF LoopTypes
  <1>2. sLog[i].block <= sLog[j].block /\ sLog[j].block <= d
    BY <1>1 DEF Followed, WellFormed
  <1>3. sLog[i].block \in Nat /\ sLog[j].block \in Nat
    BY <1>1, LogFacts DEF Followed
  <1> QED
    BY <1>2, <1>3

LEMMA JobsFewer ==
  ASSUME LoopTypes, NEW p, NEW d \in Nat, NEW h \in Nat, d <= h, NEW miss,
         JobRight(sLog, p, h, miss, h)
  PROVE  JobRight(sLog, p, d, miss, h)
  <1>1. WellFormed(sLog, sHead)
    BY DEF LoopTypes
  <1>2. \A i, j : Followed(sLog, p, d, miss, i, j) => Followed(sLog, p, h, miss, i, j)
    BY <1>1, LogFacts DEF Followed
  <1> QED
    BY <1>2 DEF JobRight

LEMMA LoadRestKeeps ==
  ASSUME LoopInv, NEW down \in BOOLEAN, Loop!LoadRest(down)
  PROVE  LoopInv'
  <1>1. LoopTypes
    BY DEF LoopInv
  <1> DEFINE p == half
             rest == Loop!Rest(p, down)
             old == states[p]
  <1>2. /\ sPc \in {"load", "reload"} /\ p # None /\ todo' = todo \ {p} /\ half' = None
        /\ states' = [states EXCEPT ![p] = rest]
        /\ unread' = IF rest = None THEN unread \cup {p} ELSE unread \ {p}
        /\ feeLost' = IF down /\ rest # None THEN feeLost \cup {p} ELSE feeLost
        /\ sChanged' = IF sPc = "reload" /\ rest # None THEN sChanged \cup {p} ELSE sChanged
        /\ UNCHANGED <<sHead, sLog, orphans, enabled, sCurrent, sRedis, sPc, seen, sUpto, snaps,
                       jobs, recent, pending, verdict, missed>>
    BY DEF Loop!LoadRest, Loop!chainVars, Loop!redisVars
  <1>3. p \in todo /\ p \in enabled /\ p \in Loop!SealedPools /\ p \in Tracked
    BY <1>1, <1>2 DEF LoopTypes
  <1>4. sHead \in Nat /\ Horizon \in Nat /\ Horizon <= sHead /\ WellFormed(sLog, sHead) /\ Horizon' = Horizon
    <2>1. Horizon' = Horizon
      BY <1>2 DEF Horizon
    <2> QED
      BY <1>1, <2>1, HorizonSealed DEF LoopTypes
  <1>5. old \in Loop!State /\ old.block <= sHead /\ (p \in Classic => old.depth = Word0) /\ old # None
        /\ WordsRight(sLog, sHead, orphans, p, Horizon, missed, old)
    BY <1>1, <1>3, <1>4 DEF LoopInv, LoopTypes, WordsInv, Tracked
  <1>6. /\ Loop!Slot0At(p, sHead) = [price |-> PriceAt(sLog, p, UpTo(sLog, sHead)),
                                     depth |-> DepthAt(sLog, p, UpTo(sLog, sHead))]
        /\ DepthAt(sLog, p, UpTo(sLog, sHead)) \in Words
        /\ Loop!FeeAfter(p, Loop!Through(sHead)) = FeeAt(sLog, p, UpTo(sLog, sHead))
        /\ FeeAt(sLog, p, UpTo(sLog, sHead)) \in Fees
        /\ p \in Classic => DepthAt(sLog, p, UpTo(sLog, sHead)) = Word0
    BY <1>1, <1>4, WordsRead
  <1> HIDE DEF p, rest, old
  <1>7. rest # None =>
          /\ rest \in Loop!State /\ rest.block <= sHead /\ (p \in Classic => rest.depth = Word0)
          /\ WordsRight(sLog, sHead, orphans, p, Horizon, missed, rest)
          /\ p \in Loop!Aerodrome /\ ~down => rest.fee = FeeAt(sLog, p, UpTo(sLog, sHead))
    <2> SUFFICES ASSUME rest # None
                 PROVE  /\ rest \in Loop!State /\ rest.block <= sHead /\ (p \in Classic => rest.depth = Word0)
                        /\ WordsRight(sLog, sHead, orphans, p, Horizon, missed, rest)
                        /\ p \in Loop!Aerodrome /\ ~down => rest.fee = FeeAt(sLog, p, UpTo(sLog, sHead))
      OBVIOUS
    <2>1. CASE p \in Loop!Aerodrome
      <3> DEFINE fee == Loop!LoadedFee(p, down)
      <3>1. rest = Loop!Joined(old, fee, old.block)
        BY <2>1 DEF Loop!Rest, rest, old
      <3>2. fee # None /\ rest = [price |-> old.price, depth |-> old.depth, fee |-> fee,
                                  block |-> old.block]
        BY <3>1 DEF Loop!Joined
      <3>3. fee \in Fees /\ (~down => fee = FeeAt(sLog, p, UpTo(sLog, sHead)))
        <4>1. /\ Loop!SlipstreamFeeAt(p, sHead, down) = IF down THEN None ELSE FeeAt(sLog, p, UpTo(sLog, sHead))
              /\ Loop!ClassicFeeAt(p, sHead, down) = IF down THEN None ELSE FeeAt(sLog, p, UpTo(sLog, sHead))
          BY <1>6 DEF Loop!SlipstreamFeeAt, Loop!ClassicFeeAt
        <4>2. None \notin Fees /\ Fee0 \in Fees
          BY SealedConstants
        <4> QED
          BY <1>6, <3>2, <4>1, <4>2 DEF Loop!LoadedFee, Loop!ClassicFeeForEntry
      <3> HIDE DEF fee
      <3>4. rest \in Loop!State /\ rest.price = old.price /\ rest.depth = old.depth
            /\ rest.block = old.block /\ rest.fee = fee
        BY <1>5, <3>2, <3>3 DEF Loop!State
      <3> QED
        BY <1>5, <3>3, <3>4 DEF WordsRight, HasWords
    <2>2. CASE p \notin Loop!Aerodrome
      <3>1. rest = [old EXCEPT !.depth = Loop!Slot0At(p, sHead).depth, !.block = sHead]
        BY <2>2 DEF Loop!Rest, rest, old
      <3>2. rest = [price |-> old.price, depth |-> DepthAt(sLog, p, UpTo(sLog, sHead)), fee |-> old.fee,
                    block |-> sHead]
        <4>1. Loop!Slot0At(p, sHead).depth = DepthAt(sLog, p, UpTo(sLog, sHead))
          BY <1>6
        <4> QED
          BY <1>5, <3>1, <4>1 DEF Loop!State
      <3>3. rest \in Loop!State /\ rest.price = old.price /\ rest.depth = DepthAt(sLog, p, UpTo(sLog, sHead))
            /\ rest.block = sHead
        BY <1>4, <1>5, <1>6, <3>2 DEF Loop!State
      <3>4. ASSUME ~Ahead(sLog, sHead, orphans, p, Horizon)
            PROVE  DepthAt(sLog, p, UpTo(sLog, sHead)) = DepthAt(sLog, p, UpTo(sLog, Horizon))
        <4> DEFINE now == [price |-> PriceAt(sLog, p, UpTo(sLog, sHead)),
                           depth |-> DepthAt(sLog, p, UpTo(sLog, sHead))]
        <4>1. HasWords(sLog, p, now, UpTo(sLog, sHead))
          BY DEF HasWords
        <4> HIDE DEF now
        <4>2. HasWords(sLog, p, now, UpTo(sLog, Horizon))
          BY <1>4, <3>4, <4>1, NothingAhead
        <4> QED
          BY <4>2 DEF HasWords, now
      <3>5. WordsRight(sLog, sHead, orphans, p, Horizon, missed, rest)
        BY <1>5, <3>3, <3>4 DEF WordsRight, HasWords
      <3> QED
        BY <1>4, <1>6, <2>2, <3>3, <3>5 DEF Loop!Aerodrome
    <2> QED
      BY <2>1, <2>2
  <1>8. states'[p] = rest /\ \A q \in Loop!SealedPools : q # p => states'[q] = states[q]
    BY <1>1, <1>2, <1>3 DEF LoopTypes
  <1>9. states' \in [Loop!SealedPools -> Loop!State \cup {None}]
    BY <1>1, <1>2, <1>7 DEF LoopTypes
  <1>10. /\ enabled \subseteq Loop!SealedPools /\ enabled' = enabled
         /\ \A q \in Loop!SealedPools : q \in todo /\ q # p => states[q] = None
    BY <1>1, <1>2, SealedConstants DEF LoopTypes, p, Loop!SealedPools, Loop!Aerodrome
  <1>11. /\ Tracked' = IF rest = None THEN Tracked \ {p} ELSE Tracked
         /\ Loaded' = IF rest = None THEN Loaded ELSE Loaded \cup {p}
    <2>1. Tracked' = IF rest = None THEN Tracked \ {p} ELSE Tracked
      BY <1>3, <1>8, <1>10 DEF Tracked
    <2> QED
      BY <1>2, <1>3, <2>1 DEF Loaded
  <1>12. \A q \in Tracked' : q # p => q \in Tracked /\ states'[q] = states[q]
    BY <1>8, <1>10, <1>11 DEF Tracked
  <1>13. LoopTypes'
    <2>1. \A q \in Tracked' : /\ states'[q] \in Loop!State /\ states'[q].block <= sHead
                              /\ q \in Classic => states'[q].depth = Word0
      <3> SUFFICES ASSUME NEW q \in Tracked'
                   PROVE  /\ states'[q] \in Loop!State /\ states'[q].block <= sHead
                          /\ q \in Classic => states'[q].depth = Word0
        OBVIOUS
      <3>1. CASE q = p
        <4>1. rest # None
          BY <1>11, <3>1
        <4> QED
          BY <1>7, <1>8, <3>1, <4>1
      <3>2. CASE q # p
        BY <1>1, <1>12, <3>2 DEF LoopTypes
      <3> QED
        BY <3>1, <3>2
    <2>2. \A q \in todo' : states'[q] # None => q = half'
      BY <1>1, <1>2, <1>8, <1>10 DEF LoopTypes
    <2>3. \A q \in enabled \ todo' : states'[q] = None => q \in unread'
      BY <1>1, <1>2, <1>8, <1>10 DEF LoopTypes
    <2>4. sChanged' \subseteq Loaded' /\ (sPc = "load" => sChanged' = {}) /\ sPc # "poll"
      BY <1>1, <1>2, <1>11 DEF LoopTypes
    <2>5. feeLost' \subseteq Loop!SealedPools /\ unread' \subseteq Loop!SealedPools
      BY <1>1, <1>2, <1>3 DEF LoopTypes
    <2>6. \A q \in Loop!SealedPools : ~ (jobs[q] > 0)
      BY <1>1, <1>2 DEF LoopTypes
    <2> QED
      BY <1>1, <1>2, <1>4, <1>9, <2>1, <2>2, <2>3, <2>4, <2>5, <2>6 DEF LoopTypes, Copies
  <1>14. p \in (Loop!Aerodrome \cap Loaded') \ feeLost'
           => FeeRight(sLog, sHead, orphans, p, Horizon, missed, states'[p].fee)
    <2> SUFFICES ASSUME p \in (Loop!Aerodrome \cap Loaded') \ feeLost'
                 PROVE  FeeRight(sLog, sHead, orphans, p, Horizon, missed, states'[p].fee)
      OBVIOUS
    <2>1. rest # None /\ ~down
      BY <1>2, <1>3, <1>11 DEF Loaded
    <2>2. JobRight(sLog, p, Horizon, missed, sHead)
      BY <1>1, <1>4, FollowedSealed, JobsFewer
    <2> QED
      BY <1>1, <1>4, <1>7, <1>8, <2>1, <2>2, FeeReadRight
  <1>15. p \in Tracked' => WordsRight(sLog, sHead, orphans, p, Horizon, missed, states'[p])
    BY <1>7, <1>8, <1>11
  <1>16. /\ sChanged \subseteq sChanged' /\ feeLost \subseteq feeLost' /\ todo \ todo' \subseteq {p}
         /\ p \in Loaded' => sPc = "load" \/ p \in sChanged'
    BY <1>2, <1>3, <1>11 DEF Loaded
  <1> QED
    BY <1>2, <1>3, <1>12, <1>13, <1>14, <1>15, <1>16, LoadFrame

LEMMA SynchronizeKeeps ==
  ASSUME LoopInv, Loop!Synchronize
  PROVE  LoopInv'
  <1>1. LoopTypes
    BY DEF LoopInv
  <1>2. /\ sPc = "load" /\ todo = {} /\ sPc' = "poll" /\ seen' = Loop!StartBlock
        /\ sRedis' = Loop!Published({p \in enabled : states[p] # None})
        /\ UNCHANGED <<sHead, sLog, orphans, enabled, sCurrent, states, todo, half, sUpto, sChanged, snaps,
                       jobs, recent, pending, verdict, missed, feeLost, unread>>
    BY DEF Loop!Synchronize, Loop!chainVars, Loop!loadVars, Loop!chunkVars, Loop!pastVars
  <1>3. sCurrent \in 1..sHead /\ sHead \in Nat
    BY <1>1, CacheConstants DEF LoopTypes
  <1>4. seen' = sCurrent
    BY <1>2, <1>3 DEF Loop!StartBlock
  <1>5. Horizon' = Horizon /\ Tracked' = Tracked /\ Loaded' = Loaded
    BY <1>2, <1>4 DEF Horizon, Tracked, Loaded
  <1>6. sRedis' \in [Loop!SealedPools -> Loop!State \cup {None}] /\ \A p \in Tracked : sRedis'[p] = states[p]
    BY <1>1, <1>2 DEF LoopTypes, Loop!Published, Tracked
  <1>7. LoopTypes'
    <2>1. sUpto = 0 /\ \A p \in Loop!SealedPools : ~ (jobs[p] > 0)
      BY <1>1, <1>2, <1>3 DEF LoopTypes
    <2> QED
      BY <1>1, <1>2, <1>3, <1>4, <1>5, <1>6, <2>1 DEF LoopTypes, Copies
  <1>8. PublishedInv'
    BY <1>2, <1>5, <1>6 DEF PublishedInv, Loaded
  <1> QED
    BY <1>2, <1>5, <1>7, <1>8 DEF LoopInv, WordsInv, FeeInv, JobInv, CopyInv, VerdictInv, Loop!VerdictsRight

LEMMA ReloadKeeps ==
  ASSUME LoopInv, Loop!Reload
  PROVE  LoopInv'
  <1>1. LoopTypes
    BY DEF LoopInv
  <1>2. /\ sPc = "poll" /\ sUpto = 0 /\ todo' = {p \in enabled : states[p] = None}
        /\ sUpto' = Loop!LatestBlock /\ sPc' = "reload"
        /\ UNCHANGED <<sHead, sLog, orphans, enabled, sCurrent, sRedis, states, half, seen, sChanged, snaps,
                       jobs, recent, pending, verdict, missed, feeLost, unread>>
    BY DEF Loop!Reload, Loop!chainVars, Loop!redisVars, Loop!pastVars
  <1>3. sUpto' \in 0..sHead /\ (sUpto' > 0 => seen < sUpto')
    BY <1>1, <1>2, CacheConstants, SealedConstants DEF LoopTypes, Loop!LatestBlock
  <1>4. Horizon' = Horizon /\ Tracked' = Tracked /\ Loaded' = Loaded /\ todo = {} /\ half = None
    BY <1>1, <1>2 DEF LoopTypes, Horizon, Tracked, Loaded
  <1>5. LoopTypes'
    <2>1. \A p \in Loop!SealedPools : ~ (jobs[p] > 0)
      BY <1>1, <1>2 DEF LoopTypes
    <2> QED
      BY <1>1, <1>2, <1>3, <1>4, <2>1 DEF LoopTypes, Copies
  <1>6. PublishedInv'
    BY <1>2, <1>4 DEF LoopInv, PublishedInv
  <1> QED
    BY <1>2, <1>4, <1>5, <1>6 DEF LoopInv, WordsInv, FeeInv, JobInv, CopyInv, VerdictInv, Loop!VerdictsRight

\* What is published of the pools that changed.
LEMMA PublishIs ==
  ASSUME LoopInv, sPc \in {"reload", "publish"}, Loop!Publish
  PROVE  /\ sRedis' \in [Loop!SealedPools -> Loop!State \cup {None}] /\ sCurrent' \in 1..sHead
         /\ \A p \in Loaded : sRedis'[p] = states[p]
  <1>1. LoopTypes
    BY DEF LoopInv
  <1>2. /\ sRedis' = Loop!Published(sChanged)
        /\ sCurrent' = CHOOSE b \in Loop!Newest \cup {sCurrent} : \A o \in Loop!Newest \cup {sCurrent} : o <= b
    BY DEF Loop!Publish
  <1>3. sCurrent \in 1..sHead /\ sHead \in 1..MaxBlock /\ MaxBlock \in Nat
    BY <1>1, CacheConstants DEF LoopTypes
  <1>4. sCurrent' \in 1..sHead
    <2> DEFINE N == Loop!Newest \cup {sCurrent}
    <2>1. N \in SUBSET (0..MaxBlock) /\ N # {} /\ \A b \in N : b <= sHead
      <3>1. \A p \in sChanged : states[p].block \in Nat /\ states[p].block <= sHead
        BY <1>1 DEF LoopTypes, Loaded, Loop!State
      <3>2. \A b \in Loop!Newest : b \in Nat /\ b <= sHead
        BY <3>1 DEF Loop!Newest
      <3>3. \A b \in N : b \in Nat /\ b <= sHead
        BY <1>3, <3>2
      <3> QED
        BY <1>3, <3>3
    <2>2. \E b \in N : \A o \in N : o <= b
      BY <1>3, <2>1, Maximum
    <2>3. sCurrent' \in N /\ \A o \in N : o <= sCurrent'
      BY <1>2, <2>2
    <2>4. sCurrent <= sCurrent' /\ sCurrent' \in Nat /\ sCurrent' <= sHead
      BY <2>1, <2>3
    <2> QED
      BY <1>3, <2>4
  <1>5. Loaded \subseteq Loop!SealedPools
    BY <1>1 DEF LoopTypes, Loaded, Tracked
  <1>6. sRedis' \in [Loop!SealedPools -> Loop!State \cup {None}] /\ \A p \in Loaded : sRedis'[p] = states[p]
    BY <1>1, <1>2, <1>5 DEF LoopInv, PublishedInv, LoopTypes, Loop!Published
  <1> QED
    BY <1>4, <1>6

LEMMA EndReloadKeeps ==
  ASSUME LoopInv, Loop!EndReload
  PROVE  LoopInv'
  <1>1. LoopTypes
    BY DEF LoopInv
  <1>2. /\ sPc = "reload" /\ todo = {} /\ Loop!Publish /\ sChanged' = {} /\ sPc' = "poll"
        /\ UNCHANGED <<sHead, sLog, orphans, enabled, states, todo, half, seen, sUpto, snaps, jobs, recent,
                       pending, verdict, missed, feeLost, unread>>
    BY DEF Loop!EndReload, Loop!chainVars, Loop!loadVars, Loop!pastVars
  <1>3. /\ sRedis' \in [Loop!SealedPools -> Loop!State \cup {None}] /\ sCurrent' \in 1..sHead
        /\ \A p \in Loaded : sRedis'[p] = states[p]
    BY <1>2, PublishIs
  <1>4. Horizon' = Horizon /\ Tracked' = Tracked /\ Loaded' = Loaded
    BY <1>2 DEF Horizon, Tracked, Loaded
  <1>5. LoopTypes'
    <2>1. \A p \in Loop!SealedPools : ~ (jobs[p] > 0)
      BY <1>1, <1>2 DEF LoopTypes
    <2> QED
      BY <1>1, <1>2, <1>3, <1>4, <2>1 DEF LoopTypes, Copies
  <1>6. PublishedInv'
    BY <1>2, <1>3, <1>4 DEF PublishedInv
  <1> QED
    BY <1>2, <1>4, <1>5, <1>6 DEF LoopInv, WordsInv, FeeInv, JobInv, CopyInv, VerdictInv, Loop!VerdictsRight

LEMMA PublishStatesKeeps ==
  ASSUME LoopInv, Loop!PublishStates
  PROVE  LoopInv'
  <1>1. LoopTypes
    BY DEF LoopInv
  <1>2. /\ sPc = "publish" /\ sPc' = "advance" /\ Loop!Publish /\ snaps' = {} /\ pending' = pending \cup snaps
        /\ UNCHANGED <<sHead, sLog, orphans, enabled, states, todo, half, seen, sUpto, sChanged,
                       jobs, recent, verdict, missed, feeLost, unread>>
    BY DEF Loop!PublishStates, Loop!chainVars, Loop!loadVars, Loop!pastVars
  <1>3. /\ sRedis' \in [Loop!SealedPools -> Loop!State \cup {None}] /\ sCurrent' \in 1..sHead
        /\ \A p \in Loaded : sRedis'[p] = states[p]
    BY <1>2, PublishIs
  <1>4. Horizon' = Horizon /\ Tracked' = Tracked /\ Loaded' = Loaded
    BY <1>2 DEF Horizon, Tracked, Loaded
  <1>5. LoopTypes'
    BY <1>1, <1>2, <1>3, <1>4 DEF LoopTypes, Copies
  <1>6. PublishedInv'
    BY <1>2, <1>3, <1>4 DEF PublishedInv
  <1> QED
    BY <1>2, <1>4, <1>5, <1>6 DEF LoopInv, WordsInv, FeeInv, JobInv, CopyInv, VerdictInv, Loop!VerdictsRight

LEMMA AdvanceKeeps ==
  ASSUME LoopInv, Loop!Advance
  PROVE  LoopInv'
  <1>1. LoopTypes
    BY DEF LoopInv
  <1>2. /\ sPc = "advance" /\ sPc' = "poll" /\ seen' = sUpto /\ sUpto' = 0 /\ sChanged' = {}
        /\ jobs' = [p \in Loop!SealedPools |-> 0]
        /\ sCurrent' = IF sUpto > sCurrent THEN sUpto ELSE sCurrent
        /\ UNCHANGED <<sHead, sLog, orphans, enabled, sRedis, states, todo, half, snaps, recent, pending,
                       verdict, missed, feeLost, unread>>
    BY DEF Loop!Advance, Loop!chainVars, Loop!loadVars, Loop!pastVars
  <1>3. sCurrent' \in 1..sHead' /\ seen' \in 0..sHead' /\ sUpto' \in 0..sHead'
    BY <1>1, <1>2, CacheConstants DEF LoopTypes
  <1>4. Horizon' = Horizon /\ Tracked' = Tracked /\ Loaded' = Loaded
    BY <1>2 DEF Horizon, Tracked, Loaded
  <1>5. jobs' \in [Loop!SealedPools -> 0..MaxBlock] /\ \A p \in Loop!SealedPools : jobs'[p] = 0
    BY <1>2, CacheConstants
  <1>6. LoopTypes'
    BY <1>1, <1>2, <1>3, <1>4, <1>5 DEF LoopTypes, Copies
  <1> QED
    BY <1>2, <1>4, <1>6 DEF LoopInv, WordsInv, FeeInv, JobInv, PublishedInv, CopyInv, VerdictInv, Loop!VerdictsRight
------------------------------------------------------------------------------
(* The fee calls *)

LEMMA RefreshFeesKeeps ==
  ASSUME LoopInv, Loop!RefreshFees
  PROVE  LoopInv'
  <1>1. LoopTypes
    BY DEF LoopInv
  <1> DEFINE asked == {p \in Loop!SealedPools : jobs[p] > 0}
  <1>2. /\ sPc = "fees" /\ sPc' = "publish"
        /\ UNCHANGED <<sHead, sLog, orphans, enabled, sCurrent, sRedis, todo, half, seen, sUpto, sChanged, jobs,
                       recent, pending, verdict, missed, unread>>
    BY DEF Loop!RefreshFees, Loop!chainVars, Loop!redisVars, Loop!loadVars
  <1>3. PICK down \in SUBSET asked :
          /\ states' = [p \in Loop!SealedPools |->
               IF p \in asked THEN Loop!WithFee(states[p], Loop!FeeRead(p, down)) ELSE states[p]]
          /\ snaps' = Loop!Snapshots(snaps, {[pool |-> p, state |-> states'[p]] : p \in asked \ down})
          /\ feeLost' = (feeLost \ asked) \cup down
    BY DEF Loop!RefreshFees
  <1>4. /\ sHead \in Nat /\ sUpto \in 0..sHead /\ todo = {} /\ seen \in 0..sHead /\ Horizon = sUpto
        /\ MaxBlock \in Nat
    BY <1>1, <1>2, CacheConstants DEF LoopTypes, Horizon
  <1>5. Loaded = Tracked /\ Horizon' = Horizon
    BY <1>2, <1>4 DEF Loaded, Horizon
  <1>6. \A p \in asked : /\ p \in Loop!SealedPools /\ p \in Loop!Aerodrome /\ p \in Tracked /\ p \in sChanged
                         /\ jobs[p] \in Nat /\ jobs[p] <= sUpto
                         /\ [pool |-> p, state |-> states[p]] \in snaps
                         /\ JobRight(sLog, p, sUpto, missed, jobs[p])
    BY <1>1, <1>2, <1>4 DEF LoopInv, LoopTypes, JobInv
  <1>7. \A p \in Tracked : /\ p \in enabled /\ p \in Loop!SealedPools
                           /\ states[p] \in Loop!State /\ states[p].block <= sHead
                           /\ p \in Classic => states[p].depth = Word0
    BY <1>1 DEF LoopTypes, Tracked
  <1> HIDE DEF asked
  <1>8. ASSUME NEW p \in asked
        PROVE  /\ states'[p] \in Loop!State /\ states'[p].price = states[p].price
               /\ states'[p].depth = states[p].depth /\ states'[p].block = states[p].block
               /\ p \notin down => states'[p].fee = FeeAt(sLog, p, UpTo(sLog, jobs[p]))
    <2>1. states'[p] = Loop!WithFee(states[p], Loop!FeeRead(p, down))
      BY <1>3, <1>6
    <2>2. jobs[p] \in Nat /\ states[p] \in Loop!State
      BY <1>6, <1>7
    <2>3. /\ Loop!FeeAfter(p, Loop!Through(jobs[p])) = FeeAt(sLog, p, UpTo(sLog, jobs[p]))
          /\ FeeAt(sLog, p, UpTo(sLog, jobs[p])) \in Fees
      BY <1>1, <2>2, WordsRead
    <2>4. Loop!FeeRead(p, down) = IF p \in down THEN None ELSE FeeAt(sLog, p, UpTo(sLog, jobs[p]))
      BY <2>3 DEF Loop!FeeRead, Loop!ClassicFeeAt, Loop!SlipstreamFeeAt
    <2>5. CASE p \in down
      BY <2>1, <2>2, <2>4, <2>5 DEF Loop!WithFee
    <2>6. CASE p \notin down
      <3>1. states'[p] = [states[p] EXCEPT !.fee = FeeAt(sLog, p, UpTo(sLog, jobs[p]))]
        BY <2>1, <2>3, <2>4, <2>6, SealedConstants DEF Loop!WithFee
      <3> QED
        BY <2>2, <2>3, <3>1 DEF Loop!State
    <2> QED
      BY <2>5, <2>6
  <1>9. \A p \in Loop!SealedPools : p \notin asked => states'[p] = states[p]
    BY <1>3
  <1>10. states' \in [Loop!SealedPools -> Loop!State \cup {None}]
    <2>1. \A p \in Loop!SealedPools : states'[p] \in Loop!State \cup {None}
      BY <1>1, <1>8, <1>9 DEF LoopTypes
    <2>2. DOMAIN states' = Loop!SealedPools /\ states' = [p \in Loop!SealedPools |-> states'[p]]
      BY <1>3
    <2> QED
      BY <2>1, <2>2
  <1>11. \A p \in Tracked : /\ states'[p] \in Loop!State /\ states'[p].price = states[p].price
                            /\ states'[p].depth = states[p].depth /\ states'[p].block = states[p].block
    BY <1>7, <1>8, <1>9
  <1>t. Tracked' = Tracked /\ Loaded' = Loaded
    <2>n. None \notin Loop!State
      BY SealedConstants DEF Loop!State
    <2>1. \A p \in asked : states'[p] # None /\ states[p] # None
      BY <1>6, <1>7, <1>8, <2>n
    <2>2. \A p \in enabled : states'[p] = None <=> states[p] = None
      BY <1>1, <1>9, <2>1 DEF LoopTypes
    <2> QED
      BY <1>2, <2>2 DEF Tracked, Loaded
  <1>12. ASSUME NEW s \in snaps'
         PROVE  s \in snaps \/ \E p \in asked : s = [pool |-> p, state |-> states'[p]]
    BY <1>3 DEF Loop!Snapshots
  <1>13. \A s \in snaps' : s \in Copies /\ s.state.block <= Horizon /\ CopyRight(sLog, orphans, missed, s)
    <2> SUFFICES ASSUME NEW s \in snaps'
                 PROVE  s \in Copies /\ s.state.block <= Horizon /\ CopyRight(sLog, orphans, missed, s)
      OBVIOUS
    <2>1. CASE s \in snaps
      BY <1>1, <2>1 DEF LoopInv, LoopTypes, CopyInv
    <2>2. ASSUME NEW p \in asked, s = [pool |-> p, state |-> states'[p]]
          PROVE  s \in Copies /\ s.state.block <= Horizon /\ CopyRight(sLog, orphans, missed, s)
      <3> DEFINE t == [pool |-> p, state |-> states[p]]
      <3>1. t \in snaps /\ p \in enabled
        BY <1>6, <1>7
      <3>2. t.state.block <= Horizon /\ CopyRight(sLog, orphans, missed, t)
        BY <1>1, <3>1 DEF LoopInv, LoopTypes, CopyInv
      <3>3. t.pool = p /\ t.state = states[p] /\ s.pool = p /\ s.state = states'[p]
        BY <2>2
      <3> HIDE DEF t
      <3>4. s.state.block = t.state.block /\ s.state.price = t.state.price /\ s.state.depth = t.state.depth
            /\ s.pool = t.pool
        BY <1>8, <3>3
      <3>5. CopyRight(sLog, orphans, missed, s)
        BY <3>2, <3>4 DEF CopyRight, HasWords
      <3>6. s \in Copies
        BY <1>8, <2>2, <3>1 DEF Copies
      <3> QED
        BY <3>2, <3>4, <3>5, <3>6
    <2> QED
      BY <1>12, <2>1, <2>2
  <1>14. LoopTypes'
    <2>1. feeLost' \subseteq Loop!SealedPools
      BY <1>1, <1>3, <1>6 DEF LoopTypes
    <2>2. \A p \in Tracked' : /\ states'[p] \in Loop!State /\ states'[p].block <= sHead
                              /\ p \in Classic => states'[p].depth = Word0
      BY <1>7, <1>11, <1>t
    <2>3. snaps' \subseteq Copies /\ \A s \in snaps' \cup pending : s.state.block <= Horizon'
      BY <1>1, <1>5, <1>13 DEF LoopTypes
    <2>4. \A p \in enabled : states'[p] = None <=> states[p] = None
      BY <1>2, <1>t DEF Tracked
    <2> QED
      BY <1>1, <1>2, <1>5, <1>10, <1>t, <2>1, <2>2, <2>3, <2>4 DEF LoopTypes, Copies
  <1>15. WordsInv'
    BY <1>2, <1>5, <1>11, <1>t DEF LoopInv, WordsInv, WordsRight, HasWords
  <1>16. FeeInv'
    <2> SUFFICES ASSUME NEW p \in (Loop!Aerodrome \cap Tracked) \ feeLost'
                 PROVE  FeeRight(sLog, sHead, orphans, p, sUpto, missed, states'[p].fee)
      BY <1>2, <1>4, <1>5, <1>t DEF FeeInv
    <2>1. CASE p \in asked
      <3>1. p \notin down
        BY <1>3
      <3>2. states'[p].fee = FeeAt(sLog, p, UpTo(sLog, jobs[p]))
        BY <1>8, <2>1, <3>1
      <3>3. jobs[p] \in Nat /\ jobs[p] <= sHead /\ JobRight(sLog, p, sUpto, missed, jobs[p])
        <4>1. jobs[p] \in Nat /\ jobs[p] <= sUpto /\ JobRight(sLog, p, sUpto, missed, jobs[p])
          BY <1>6, <2>1
        <4> QED
          BY <1>4, <4>1
      <3> QED
        BY <1>1, <1>4, <3>2, <3>3, FeeReadRight
    <2>2. CASE p \notin asked
      <3>1. p \in Loop!SealedPools /\ p \notin feeLost /\ states'[p] = states[p]
        BY <1>3, <1>7, <1>9, <2>2
      <3>2. jobs[p] = 0
        BY <1>1, <1>4, <2>2, <3>1 DEF LoopTypes, asked
      <3> QED
        BY <1>4, <1>5, <3>1, <3>2 DEF LoopInv, FeeInv
    <2> QED
      BY <2>1, <2>2
  <1>17. JobInv' /\ PublishedInv'
    <2>1. Loaded \subseteq Loop!SealedPools
      BY <1>7 DEF Loaded
    <2> QED
      BY <1>2, <1>6, <1>9, <1>t, <2>1 DEF LoopInv, JobInv, PublishedInv
  <1>18. CopyInv' /\ VerdictInv'
    BY <1>2, <1>5, <1>13 DEF LoopInv, CopyInv, VerdictInv, Loop!VerdictsRight
  <1> QED
    BY <1>14, <1>15, <1>16, <1>17, <1>18 DEF LoopInv

------------------------------------------------------------------------------
(* Delayed validation *)
LEMMA LargestOf ==
  ASSUME NEW n \in Nat, NEW S \in SUBSET (0..n), S # {}
  PROVE  /\ Loop!Largest(S) \in Nat
         /\ Loop!Largest(S) = 0 <=> \A m \in S : m = 0
  <1>1. \E m \in S : \A k \in S : k <= m
    BY Maximum
  <1>2. Loop!Largest(S) \in S /\ \A k \in S : k <= Loop!Largest(S)
    BY <1>1 DEF Loop!Largest
  <1>3. \A k \in S : k \in Nat
    OBVIOUS
  <1>4. Loop!Largest(S) \in Nat
    BY <1>2, <1>3
  <1>5. ASSUME Loop!Largest(S) = 0, NEW m \in S PROVE m = 0
    <2>1. m \in Nat /\ m <= 0
      BY <1>2, <1>3, <1>5
    <2> QED
      BY <2>1
  <1>6. (\A m \in S : m = 0) => Loop!Largest(S) = 0
    BY <1>2
  <1> QED
    BY <1>4, <1>5, <1>6

LEMMA Quotient ==
  ASSUME NEW x \in Nat, NEW y \in Nat, y > 0
  PROVE  x \div y \in Nat /\ (x \div y = 0 => x < y)
  OBVIOUS

LEMMA ValueDriftIs ==
  ASSUME NEW a \in Nat, NEW b \in Nat
  PROVE  /\ Loop!ValueDrift(a, b) \in Nat
         /\ a = b => Loop!ValueDrift(a, b) = 0
         /\ Loop!ValueDrift(a, b) = 0 => Loop!Near(a, b)
  <1>1. Loop!Gap(a, b) \in Nat
    BY DEF Loop!Gap
  <1>2. Loop!Infinite \in Nat /\ Loop!Infinite # 0
    BY DEF Loop!Infinite
  <1>3. CASE a = b
    BY <1>3 DEF Loop!ValueDrift, Loop!Near
  <1>4. CASE a # b /\ b = 0
    BY <1>2, <1>4 DEF Loop!ValueDrift
  <1>5. CASE a # b /\ b # 0
    <2> DEFINE x == Loop!Gap(a, b) * 10000
    <2>1. x \in Nat
      BY <1>1
    <2>2. Loop!ValueDrift(a, b) = x \div b
      BY <1>5 DEF Loop!ValueDrift
    <2> HIDE DEF x
    <2>3. x \div b \in Nat /\ (x \div b = 0 => x < b)
      BY <1>5, <2>1, Quotient
    <2> QED
      BY <1>5, <2>2, <2>3 DEF Loop!Near, x
  <1> QED
    BY <1>3, <1>4, <1>5

LEMMA OtherDrifts ==
  ASSUME NEW p, NEW a \in Nat, NEW b \in Nat
  PROVE  /\ Loop!TickDrift(a, b) \in Nat /\ (a = b => Loop!TickDrift(a, b) = 0)
         /\ Loop!FeeDrift(p, a, b) \in Nat /\ (Loop!FeeDrift(p, a, b) = 0 => a = b)
  <1>1. Loop!Gap(a, b) \in Nat /\ (Loop!Gap(a, b) = 0 <=> a = b)
    BY DEF Loop!Gap
  <1>2. Loop!Tick(a) \in Nat /\ Loop!Tick(b) \in Nat
    BY DEF Loop!Tick
  <1>3. Loop!TickDrift(a, b) \in Nat /\ (a = b => Loop!TickDrift(a, b) = 0)
    BY <1>2 DEF Loop!TickDrift, Loop!Gap
  <1>4. (Loop!Gap(a, b) + 99) \div 100 \in Nat /\ ((Loop!Gap(a, b) + 99) \div 100 = 0 => Loop!Gap(a, b) + 99 < 100)
    BY <1>1, Quotient
  <1>5. Loop!FeeDrift(p, a, b) \in Nat /\ (Loop!FeeDrift(p, a, b) = 0 => a = b)
    BY <1>1, <1>4 DEF Loop!FeeDrift
  <1> QED
    BY <1>3, <1>5

LEMMA DriftIs ==
  ASSUME NEW p, NEW a \in Loop!State, NEW b \in Loop!State
  PROVE  /\ Loop!WordDrift(p, a, b) \in Nat
         /\ a.price = b.price /\ a.depth = b.depth => Loop!WordDrift(p, a, b) = 0
         /\ Loop!Drift(p, a, b) = 0 =>
              /\ Loop!Near(a.price, b.price) /\ Loop!Near(a.depth, b.depth)
              /\ p \in Loop!Aerodrome => a.fee = b.fee
  <1>1. /\ a.price \in Nat /\ a.depth \in Nat /\ a.fee \in Nat
        /\ b.price \in Nat /\ b.depth \in Nat /\ b.fee \in Nat
    BY SealedConstants DEF Loop!State
  <1> DEFINE x == Loop!ValueDrift(a.price, b.price)
             y == Loop!ValueDrift(a.depth, b.depth)
             z == Loop!TickDrift(a.price, b.price)
             f == Loop!FeeDrift(p, a.fee, b.fee)
             S == {x, y} \cup (IF p \in Loop!V3Style THEN {z} ELSE {})
             w == Loop!WordDrift(p, a, b)
             T == {w} \cup (IF p \in Loop!Aerodrome THEN {f} ELSE {})
  <1>2. x \in Nat /\ (a.price = b.price => x = 0) /\ (x = 0 => Loop!Near(a.price, b.price))
    BY <1>1, ValueDriftIs
  <1>3. y \in Nat /\ (a.depth = b.depth => y = 0) /\ (y = 0 => Loop!Near(a.depth, b.depth))
    BY <1>1, ValueDriftIs
  <1>4. z \in Nat /\ (a.price = b.price => z = 0) /\ f \in Nat /\ (f = 0 => a.fee = b.fee)
    BY <1>1, OtherDrifts
  <1>5. w = Loop!Largest(S) /\ Loop!Drift(p, a, b) = Loop!Largest(T)
    BY DEF Loop!WordDrift, Loop!Drift
  <1> HIDE DEF x, y, z, f, w
  <1>6. S \in SUBSET (0..(x + y + z)) /\ S # {} /\ x + y + z \in Nat
    BY <1>2, <1>3, <1>4
  <1>7. Loop!Largest(S) \in Nat /\ (Loop!Largest(S) = 0 <=> \A m \in S : m = 0)
    BY <1>6, LargestOf
  <1>8. w \in Nat
    BY <1>5, <1>7
  <1>9. T \in SUBSET (0..(w + f)) /\ T # {} /\ w + f \in Nat
    BY <1>4, <1>8
  <1>10. Loop!Largest(T) = 0 <=> \A m \in T : m = 0
    BY <1>9, LargestOf
  <1>11. x \in S /\ y \in S /\ w \in T /\ (p \in Loop!Aerodrome => f \in T)
    OBVIOUS
  <1>12. \A m \in S : m = x \/ m = y \/ m = z
    OBVIOUS
  <1> HIDE DEF S, T
  <1>13. a.price = b.price /\ a.depth = b.depth => w = 0
    BY <1>2, <1>3, <1>4, <1>5, <1>7, <1>12
  <1>14. Loop!Drift(p, a, b) = 0 => x = 0 /\ y = 0 /\ (p \in Loop!Aerodrome => f = 0)
    BY <1>5, <1>7, <1>10, <1>11
  <1> QED
    BY <1>2, <1>3, <1>4, <1>8, <1>13, <1>14 DEF w

LEMMA ValidateKeeps ==
  ASSUME LoopInv, NEW s \in pending, NEW feeDown \in BOOLEAN, Loop!Validate(s, feeDown)
  PROVE  LoopInv'
  <1>1. LoopTypes
    BY DEF LoopInv
  <1> DEFINE onchain == Loop!PoolStateAt(s.pool, s.state.block, s.state.fee, feeDown)
  <1>2. /\ pending' = pending \ {s}
        /\ verdict' = IF onchain = None THEN verdict ELSE Loop!Verdict(s, onchain, feeDown)
        /\ UNCHANGED <<sHead, sLog, orphans, enabled, sCurrent, sRedis, sPc, states, todo, half, seen, sUpto,
                       sChanged, snaps, jobs, recent, missed, feeLost, unread>>
    BY DEF Loop!Validate, Loop!chainVars, Loop!redisVars, Loop!loadVars, Loop!chunkVars, Loop!pastVars
  <1>3. Horizon' = Horizon /\ Tracked' = Tracked /\ Loaded' = Loaded
    BY <1>2 DEF Horizon, Tracked, Loaded
  <1>4. LoopTypes'
    BY <1>1, <1>2, <1>3 DEF LoopTypes, Copies
  <1>5. s.pool \in Loop!SealedPools /\ s.state \in Loop!State /\ s.state.block <= Horizon /\ s.state.block \in Nat
        /\ s.state.fee \in Fees /\ CopyRight(sLog, orphans, missed, s)
    <2>1. s \in Copies /\ s.state.block <= Horizon /\ enabled \subseteq Loop!SealedPools
      BY <1>1 DEF LoopTypes
    <2> QED
      BY <2>1 DEF Copies, Loop!State, LoopInv, CopyInv
  <1>6. VerdictInv'
    <2>1. CASE onchain = None
      BY <1>2, <1>3, <2>1 DEF LoopInv, VerdictInv, Loop!VerdictsRight
    <2>2. CASE onchain # None
      <3>1. onchain \in Loop!State /\ HasWords(sLog, s.pool, onchain, UpTo(sLog, s.state.block))
        BY <1>1, <1>5, <2>2, StateRead
      <3> HIDE DEF onchain
      <3>2. verdict' = [pool |-> s.pool, local |-> s.state, onchain |-> onchain,
                        passed |-> Loop!Drift(s.pool, s.state, onchain) = 0,
                        feeRead |-> ~feeDown]
        BY <1>2, <2>2 DEF Loop!Verdict
      <3>3. /\ verdict'.pool = s.pool /\ verdict'.local = s.state /\ verdict'.onchain = onchain
            /\ verdict'.passed <=> Loop!Drift(s.pool, s.state, onchain) = 0
        BY <3>2
      <3>4. /\ Loop!WordDrift(s.pool, s.state, onchain) \in Nat
            /\ s.state.price = onchain.price /\ s.state.depth = onchain.depth
                 => Loop!WordDrift(s.pool, s.state, onchain) = 0
            /\ Loop!Drift(s.pool, s.state, onchain) = 0 =>
                 /\ Loop!Near(s.state.price, onchain.price) /\ Loop!Near(s.state.depth, onchain.depth)
                 /\ s.pool \in Loop!Aerodrome => s.state.fee = onchain.fee
        BY <1>5, <3>1, DriftIs
      <3>5. Loop!WordDrift(s.pool, s.state, onchain) > 0 =>
              \/ s.state.block \in orphans
              \/ \E i \in missed : sLog[i].pool = s.pool /\ sLog[i].block = s.state.block
        BY <1>5, <3>1, <3>4 DEF CopyRight, Skipped, HasWords
      <3>6. Loop!VerdictsRight'
        BY <1>2, <3>3, <3>4, <3>5 DEF Loop!VerdictsRight
      <3> QED
        BY <1>3, <1>5, <3>3, <3>6 DEF VerdictInv
    <2> QED
      BY <2>1, <2>2
  <1> QED
    BY <1>2, <1>3, <1>4, <1>6 DEF LoopInv, WordsInv, FeeInv, JobInv, PublishedInv, CopyInv
------------------------------------------------------------------------------
(* One chunk *)

\* The loop over the logs, as a table of what it has after each.
Steps(f, es, down) ==
  /\ f[0] = Loop!Begun
  /\ \A n \in 1..Len(sLog) : f[n] = IF n \in es THEN Loop!ApplyLog(f[n - 1], n, down) ELSE f[n - 1]

LEMMA AppliedSteps ==
  ASSUME Len(sLog) \in Nat, NEW es, NEW down
  PROVE  \E f : Steps(f, es, down) /\ Loop!Applied(es, down) = f[Len(sLog)]
  <1> DEFINE N == Len(sLog)
             Entry(g, n) == IF n = 0 THEN Loop!Begun
                           ELSE IF n \in es THEN Loop!ApplyLog(g[n - 1], n, down) ELSE g[n - 1]
             Solves(g, m) == g = [n \in 0..m |-> Entry(g, n)]
             T == {m \in 0..N : ~ \E g : Solves(g, m)}
  <1>1. T = {}
    <2> SUFFICES ASSUME T # {} PROVE FALSE
      OBVIOUS
    <2>1. T \in SUBSET Nat
      OBVIOUS
    <2>2. PICK m \in T : \A k \in T : m <= k
      BY <2>1, Minimum
    <2>3. m \in 0..N /\ ~ \E g : Solves(g, m)
      BY <2>2
    <2>4. CASE m = 0
      <3> DEFINE g == [n \in 0..0 |-> Loop!Begun]
      <3>1. Solves(g, 0)
        OBVIOUS
      <3> QED
        BY <2>3, <2>4, <3>1
    <2>5. CASE m # 0
      <3>1. m - 1 \in 0..N /\ m - 1 \notin T /\ m \in Nat
        BY <2>2, <2>3, <2>5
      <3>2. PICK g : Solves(g, m - 1)
        BY <3>1
      <3> DEFINE g2 == [n \in 0..m |-> IF n = m THEN Entry(g, m) ELSE g[n]]
      <3>3. \A n \in 0..(m - 1) : g2[n] = g[n] /\ g[n] = Entry(g, n)
        <4>1. \A n \in 0..(m - 1) : g[n] = Entry(g, n)
          BY <3>2
        <4>2. \A n \in 0..(m - 1) : n \in 0..m /\ n # m
          BY <3>1
        <4> HIDE DEF Entry
        <4> QED
          BY <4>1, <4>2
      <3>4. g2[m] = Entry(g, m)
        BY <3>1
      <3>5. \A n \in 0..m : n # 0 => g2[n - 1] = g[n - 1]
        <4>1. \A n \in 0..m : n # 0 => n - 1 \in 0..(m - 1)
          BY <3>1
        <4> QED
          BY <3>3, <4>1
      <3>6. \A n \in 0..m : Entry(g2, n) = Entry(g, n)
        BY <3>5
      <3>7. \A n \in 0..m : n = m \/ n \in 0..(m - 1)
        BY <3>1
      <3>8. \A n \in 0..m : g2[n] = Entry(g2, n)
        <4> HIDE DEF Entry, g2
        <4> QED
          BY <3>3, <3>4, <3>6, <3>7
      <3>9. g2 = [n \in 0..m |-> g2[n]]
        OBVIOUS
      <3>10. Solves(g2, m)
        <4> HIDE DEF Entry, g2
        <4> QED
          BY <3>8, <3>9
      <3> QED
        BY <2>3, <3>10
    <2> QED
      BY <2>4, <2>5
  <1>2. \E g : Solves(g, N)
    BY <1>1
  <1> DEFINE f == CHOOSE g : Solves(g, N)
  <1>3. Solves(f, N)
    BY <1>2
  <1>4. Loop!Applied(es, down) = f[Len(sLog)]
    BY DEF Loop!Applied
  <1> HIDE DEF f
  <1>5. \A n \in 0..N : f[n] = Entry(f, n)
    BY <1>3
  <1>6. Steps(f, es, down)
    <2>1. f[0] = Loop!Begun
      BY <1>5
    <2>2. \A n \in 1..N : n \in 0..N /\ n # 0
      OBVIOUS
    <2> QED
      BY <1>5, <2>1, <2>2 DEF Steps
  <1> QED
    BY <1>4, <1>6
Accumulators(es) ==
  [states : [Loop!SealedPools -> Loop!State \cup {None}], changed : SUBSET Tracked, snaps : SUBSET Copies,
   missed : SUBSET es, jobs : [Loop!SealedPools -> Nat], stopped : BOOLEAN]

\* Log i of p is among the first k and was applied.
Done(acc, es, k, p, i) == i \in es /\ i <= k /\ sLog[i].pool = p /\ i \notin acc.missed

\* A state whose words are those after log m, or later in its block.
Since(p, state, m) ==
  /\ state.block = sLog[m].block
  /\ \E x \in m..UpTo(sLog, sLog[m].block) : HasWords(sLog, p, state, x)

FoldTypes(acc, es, k) ==
  /\ acc \in Accumulators(es)
  /\ \A i \in acc.missed : i <= k
  /\ \A p \in Tracked : acc.states[p] \in Loop!State /\ (p \in Classic => acc.states[p].depth = Word0)

\* Pools of no applied log, and of one.
FoldStates(acc, es, k) ==
  /\ \A p \in Loop!SealedPools \ acc.changed :
       acc.states[p] = states[p] /\ acc.jobs[p] = 0 /\ \A i : ~Done(acc, es, k, p, i)
  /\ \A p \in acc.changed :
       /\ [pool |-> p, state |-> acc.states[p]] \in acc.snaps
       /\ \E m : /\ Done(acc, es, k, p, m) /\ \A i : Done(acc, es, k, p, i) => i <= m
                 /\ Since(p, acc.states[p], m)
                 /\ p \in Loop!Aerodrome /\ acc.jobs[p] = 0
                      => acc.states[p].fee = FeeAt(sLog, p, UpTo(sLog, sLog[m].block))

FoldJobs(acc, es, k) ==
  /\ \A p \in Loop!SealedPools : acc.jobs[p] > 0 =>
       p \in Loop!Aerodrome /\ \E i : Done(acc, es, k, p, i) /\ acc.jobs[p] = sLog[i].block
  /\ \A p \in Loop!Aerodrome : \A i :
       Done(acc, es, k, p, i) /\ sLog[i].kind # "mint" => sLog[i].block <= acc.jobs[p]

\* Only the end of the loop misses a Sync or a Swap, and all that follows it.
FoldStops(acc, es, k) ==
  /\ ~acc.stopped => \A i \in acc.missed : sLog[i].kind = "mint"
  /\ \A i \in acc.missed, j \in es : sLog[i].kind # "mint" /\ i <= j /\ j <= k => j \in acc.missed

CopyOf(acc, es, k, s) ==
  \E m : /\ Done(acc, es, k, s.pool, m) /\ Since(s.pool, s.state, m)
         /\ \A i : Done(acc, es, k, s.pool, i) /\ sLog[i].block = s.state.block => i <= m

FoldCopies(acc, es, k) == \A s \in acc.snaps : CopyOf(acc, es, k, s)

FoldInv(acc, es, k) ==
  FoldTypes(acc, es, k) /\ FoldStates(acc, es, k) /\ FoldJobs(acc, es, k)
    /\ FoldStops(acc, es, k) /\ FoldCopies(acc, es, k)

\* What a chunk applies: logs up to the head, of tracked pools, that are no fees.
Fetched(es) ==
  es \subseteq {i \in DOMAIN sLog : /\ sLog[i].block <= sHead /\ sLog[i].kind \in Moving
                                   /\ sLog[i].pool \in Tracked}

LEMMA FoldBegun ==
  ASSUME LoopTypes, NEW es, es \subseteq DOMAIN sLog
  PROVE  FoldInv(Loop!Begun, es, 0)
  <1>1. /\ Loop!Begun.states = states /\ Loop!Begun.changed = {} /\ Loop!Begun.snaps = {} /\ Loop!Begun.missed = {}
        /\ Loop!Begun.jobs = [p \in Loop!SealedPools |-> 0] /\ Loop!Begun.stopped = FALSE
    BY DEF Loop!Begun
  <1>2. Loop!Begun \in Accumulators(es)
    BY DEF Loop!Begun, Accumulators, LoopTypes
  <1>4. FoldTypes(Loop!Begun, es, 0)
    BY <1>1, <1>2 DEF FoldTypes, LoopTypes
  <1>5. WellFormed(sLog, sHead)
    BY DEF LoopTypes
  <1>6. \A p, i : ~ Done(Loop!Begun, es, 0, p, i)
    <2> SUFFICES ASSUME NEW p, NEW i, Done(Loop!Begun, es, 0, p, i) PROVE FALSE
      OBVIOUS
    <2>1. i \in DOMAIN sLog /\ i <= 0
      BY DEF Done
    <2> QED
      BY <1>5, <2>1, LogFacts
  <1>7. FoldStates(Loop!Begun, es, 0)
    BY <1>1, <1>6 DEF FoldStates
  <1>8. FoldJobs(Loop!Begun, es, 0)
    BY <1>1, <1>6 DEF FoldJobs
  <1>9. FoldStops(Loop!Begun, es, 0) /\ FoldCopies(Loop!Begun, es, 0)
    BY <1>1 DEF FoldStops, FoldCopies
  <1> QED
    BY <1>4, <1>7, <1>8, <1>9 DEF FoldInv

LEMMA NextNumber ==
  ASSUME NEW k \in Nat
  PROVE  ~ (k + 1 <= k) /\ \A i \in Nat : i <= k + 1 <=> i <= k \/ i = k + 1
  OBVIOUS

\* A log that is not of the chunk.
LEMMA FoldIdle ==
  ASSUME NEW acc, NEW es, NEW k \in Nat, es \subseteq Nat, FoldInv(acc, es, k), k + 1 \notin es
  PROVE  FoldInv(acc, es, k + 1)
  <1>1. \A i \in es : i <= k + 1 <=> i <= k
    OBVIOUS
  <1>2. \A p, i : Done(acc, es, k + 1, p, i) <=> Done(acc, es, k, p, i)
    BY <1>1 DEF Done
  <1>3. acc.missed \subseteq es
    BY DEF FoldInv, FoldTypes, Accumulators
  <1>4. FoldTypes(acc, es, k + 1)
    BY <1>1, <1>3 DEF FoldInv, FoldTypes
  <1>5. FoldStates(acc, es, k + 1)
    BY <1>2 DEF FoldInv, FoldStates
  <1>6. FoldJobs(acc, es, k + 1)
    BY <1>2 DEF FoldInv, FoldJobs
  <1>7. FoldStops(acc, es, k + 1)
    BY <1>1 DEF FoldInv, FoldStops
  <1>8. FoldCopies(acc, es, k + 1)
    BY <1>2 DEF FoldInv, FoldCopies, CopyOf
  <1> QED
    BY <1>4, <1>5, <1>6, <1>7, <1>8 DEF FoldInv

\* A log that is missed: the loop has ended, or it is a Mint or Burn.
LEMMA FoldMissed ==
  ASSUME NEW acc, NEW es, NEW k \in Nat, es \subseteq Nat, FoldInv(acc, es, k), k + 1 \in es,
         NEW new, new \in Accumulators(es),
         new.states = acc.states, new.changed = acc.changed, new.snaps = acc.snaps,
         new.jobs = acc.jobs, new.missed = acc.missed \cup {k + 1}, acc.stopped => new.stopped,
         acc.stopped \/ sLog[k + 1].kind = "mint"
  PROVE  FoldInv(new, es, k + 1)
  <1>1. ~ (k + 1 <= k) /\ \A i \in es : i <= k + 1 <=> i <= k \/ i = k + 1
    BY NextNumber, Zenon
  <1>2. \A p, i : Done(new, es, k + 1, p, i) <=> Done(acc, es, k, p, i)
    BY <1>1 DEF Done
  <1>3. acc.missed \subseteq es /\ \A i \in acc.missed : i <= k
    BY DEF FoldInv, FoldTypes, Accumulators
  <1>4. FoldTypes(new, es, k + 1)
    <2>1. \A i \in new.missed : i <= k + 1
      <3>1. \A i \in new.missed : i \in es /\ (i \in acc.missed \/ i = k + 1)
        BY <1>3
      <3> QED
        BY <1>1, <1>3, <3>1, Zenon
    <2> QED
      BY <2>1 DEF FoldInv, FoldTypes
  <1>5. FoldStates(new, es, k + 1)
    BY <1>2 DEF FoldInv, FoldStates
  <1>6. FoldJobs(new, es, k + 1)
    BY <1>2 DEF FoldInv, FoldJobs
  <1>7. FoldStops(new, es, k + 1)
    <2>1. ASSUME ~new.stopped, NEW i \in new.missed PROVE sLog[i].kind = "mint"
      <3>1. ~acc.stopped
        BY <2>1
      <3>2. sLog[k + 1].kind = "mint" /\ \A j \in acc.missed : sLog[j].kind = "mint"
        BY <3>1 DEF FoldInv, FoldStops
      <3> QED
        BY <3>2
    <2>2. ASSUME NEW i \in new.missed, NEW j \in es, sLog[i].kind # "mint", i <= j, j <= k + 1
          PROVE  j \in new.missed
      <3>1. CASE j = k + 1
        BY <3>1
      <3>2. CASE j # k + 1
        <4>1. j <= k
          BY <1>1, <2>2, <3>2
        <4>2. i \in acc.missed
          BY <1>3, <2>2, <4>1
        <4>3. j \in acc.missed
          BY <2>2, <4>1, <4>2 DEF FoldInv, FoldStops
        <4> QED
          BY <4>3
      <3> QED
        BY <3>1, <3>2
    <2> QED
      BY <2>1, <2>2 DEF FoldStops
  <1>8. FoldCopies(new, es, k + 1)
    BY <1>2 DEF FoldInv, FoldCopies, CopyOf
  <1> QED
    BY <1>4, <1>5, <1>6, <1>7, <1>8 DEF FoldInv

\* What a log that is applied leaves of the accumulators, its fee job aside.
AfterTouch(new, acc, es, p, st) ==
  /\ new \in Accumulators(es)
  /\ new.states = [acc.states EXCEPT ![p] = st] /\ new.changed = acc.changed \cup {p}
  /\ new.snaps = Loop!Snapshots(acc.snaps, {[pool |-> p, state |-> st]})
  /\ new.missed = acc.missed /\ new.stopped = acc.stopped

\* A log that is applied: its pool gets a state of its block.
LEMMA FoldTouched ==
  ASSUME LoopTypes, NEW acc, NEW es, NEW k \in Nat, es \subseteq DOMAIN sLog, FoldInv(acc, es, k),
         ~acc.stopped, NEW n, n = k + 1, n \in es, NEW p, p = sLog[n].pool,
         p \in Tracked, NEW st \in Loop!State, Since(p, st, n), p \in Classic => st.depth = Word0,
         sLog[n].kind = "mint" /\ p \in Loop!Aerodrome => st.fee = FeeAt(sLog, p, UpTo(sLog, sLog[n].block)),
         NEW new, AfterTouch(new, acc, es, p, st),
         new.jobs = IF sLog[n].kind = "mint" THEN acc.jobs ELSE Loop!Due(acc.jobs, p, sLog[n].block)
  PROVE  FoldInv(new, es, k + 1)
  <1> USE DEF AfterTouch
  <1>1. /\ WellFormed(sLog, sHead) /\ Len(sLog) \in Nat /\ DOMAIN sLog = 1..Len(sLog) /\ n \in DOMAIN sLog
        /\ p \in enabled /\ p \in Loop!SealedPools /\ enabled \subseteq Loop!SealedPools
    <2>1. WellFormed(sLog, sHead)
      BY DEF LoopTypes
    <2> QED
      BY <2>1, LogFacts DEF LoopTypes
  <1>2. \A i \in DOMAIN sLog : sLog[i].block \in Nat /\ sLog[i].block > 0
    <2>1. sHead \in Nat /\ \A i \in DOMAIN sLog : sLog[i].block \in 2..sHead + 1
      BY <1>1, CacheConstants DEF WellFormed, LoopTypes
    <2> QED
      BY <2>1
  <1>3. ~ (n <= k) /\ \A i \in es : i <= n <=> i <= k \/ i = n
    <2>1. es \subseteq Nat
      BY <1>1
    <2> QED
      BY <2>1, NextNumber, Zenon
  <1>4. /\ acc.states \in [Loop!SealedPools -> Loop!State \cup {None}] /\ acc.changed \subseteq Tracked
        /\ acc.missed \subseteq es /\ acc.jobs \in [Loop!SealedPools -> Nat]
        /\ \A i \in acc.missed : i <= k
    BY DEF FoldInv, FoldTypes, Accumulators
  <1>5. n \notin acc.missed
    BY <1>3, <1>4
  <1>6. \A q, i : Done(new, es, n, q, i) <=> Done(acc, es, k, q, i) \/ (i = n /\ q = p)
    BY <1>3, <1>5 DEF Done
  <1>7. /\ new.states[p] = st /\ \A q \in Loop!SealedPools : q # p => new.states[q] = acc.states[q]
    BY <1>1, <1>4
  <1>8. \A q \in Loop!SealedPools : q # p => new.jobs[q] = acc.jobs[q]
    BY <1>4 DEF Loop!Due
  <1>9. new.jobs[p] = IF sLog[n].kind # "mint" /\ p \in Loop!Aerodrome THEN sLog[n].block ELSE acc.jobs[p]
    BY <1>1, <1>4 DEF Loop!Due
  <1>10. \A s : s \in new.snaps <=>
           \/ s = [pool |-> p, state |-> st]
           \/ s \in acc.snaps /\ (s.pool # p \/ s.state.block # st.block)
    BY DEF Loop!Snapshots
  <1>11. st.block = sLog[n].block
    BY DEF Since
  <1>12. FoldTypes(new, es, n)
    <2>1. \A i \in new.missed : i <= n
      BY <1>3, <1>4
    <2>2. \A q \in Tracked : new.states[q] \in Loop!State /\ (q \in Classic => new.states[q].depth = Word0)
      BY <1>1, <1>7 DEF FoldInv, FoldTypes, Tracked
    <2> QED
      BY <2>1, <2>2 DEF FoldTypes
  <1>13. FoldStates(new, es, n)
    <2>1. ASSUME NEW q \in Loop!SealedPools \ new.changed
          PROVE  new.states[q] = states[q] /\ new.jobs[q] = 0 /\ \A i : ~Done(new, es, n, q, i)
      <3>1. q # p /\ q \in Loop!SealedPools \ acc.changed
        BY <2>1
      <3>2. acc.states[q] = states[q] /\ acc.jobs[q] = 0 /\ \A i : ~Done(acc, es, k, q, i)
        BY <3>1 DEF FoldInv, FoldStates
      <3> QED
        BY <1>6, <1>7, <1>8, <3>1, <3>2
    <2>2. /\ [pool |-> p, state |-> new.states[p]] \in new.snaps
          /\ \E m : /\ Done(new, es, n, p, m) /\ \A i : Done(new, es, n, p, i) => i <= m
                    /\ Since(p, new.states[p], m)
                    /\ p \in Loop!Aerodrome /\ new.jobs[p] = 0
                         => new.states[p].fee = FeeAt(sLog, p, UpTo(sLog, sLog[m].block))
      <3>1. [pool |-> p, state |-> new.states[p]] \in new.snaps
        BY <1>7, <1>10
      <3>2. Done(new, es, n, p, n)
        BY <1>6
      <3>3. \A i : Done(new, es, n, p, i) => i <= n
        BY DEF Done
      <3>4. p \in Loop!Aerodrome /\ new.jobs[p] = 0 => st.fee = FeeAt(sLog, p, UpTo(sLog, sLog[n].block))
        BY <1>1, <1>2, <1>9
      <3> QED
        BY <1>7, <3>1, <3>2, <3>3, <3>4
    <2>3. ASSUME NEW q \in new.changed, q # p
          PROVE  /\ [pool |-> q, state |-> new.states[q]] \in new.snaps
                 /\ \E m : /\ Done(new, es, n, q, m) /\ \A i : Done(new, es, n, q, i) => i <= m
                           /\ Since(q, new.states[q], m)
                           /\ q \in Loop!Aerodrome /\ new.jobs[q] = 0
                                => new.states[q].fee = FeeAt(sLog, q, UpTo(sLog, sLog[m].block))
      <3>1. q \in acc.changed /\ q \in Loop!SealedPools
        BY <1>1, <1>4, <2>3 DEF Tracked
      <3>2. new.states[q] = acc.states[q] /\ new.jobs[q] = acc.jobs[q]
        BY <1>7, <1>8, <2>3, <3>1
      <3>3. [pool |-> q, state |-> acc.states[q]] \in acc.snaps
        BY <3>1 DEF FoldInv, FoldStates
      <3>4. [pool |-> q, state |-> new.states[q]] \in new.snaps
        BY <1>10, <2>3, <3>2, <3>3
      <3>5. PICK m : /\ Done(acc, es, k, q, m) /\ \A i : Done(acc, es, k, q, i) => i <= m
                     /\ Since(q, acc.states[q], m)
                     /\ q \in Loop!Aerodrome /\ acc.jobs[q] = 0
                          => acc.states[q].fee = FeeAt(sLog, q, UpTo(sLog, sLog[m].block))
        BY <3>1 DEF FoldInv, FoldStates
      <3>6. Done(new, es, n, q, m) /\ \A i : Done(new, es, n, q, i) => i <= m
        BY <1>6, <2>3, <3>5
      <3>7. /\ Since(q, new.states[q], m)
            /\ q \in Loop!Aerodrome /\ new.jobs[q] = 0
                 => new.states[q].fee = FeeAt(sLog, q, UpTo(sLog, sLog[m].block))
        BY <3>2, <3>5
      <3> QED
        BY <3>4, <3>6, <3>7
    <2>4. ASSUME NEW q \in new.changed
          PROVE  /\ [pool |-> q, state |-> new.states[q]] \in new.snaps
                 /\ \E m : /\ Done(new, es, n, q, m) /\ \A i : Done(new, es, n, q, i) => i <= m
                           /\ Since(q, new.states[q], m)
                           /\ q \in Loop!Aerodrome /\ new.jobs[q] = 0
                                => new.states[q].fee = FeeAt(sLog, q, UpTo(sLog, sLog[m].block))
      <3>1. CASE q = p
        BY <2>2, <3>1
      <3>2. CASE q # p
        BY <2>3, <3>2
      <3> QED
        BY <3>1, <3>2
    <2> QED
      BY <2>1, <2>4, Zenon DEF FoldStates
  <1>14. FoldJobs(new, es, n)
    <2>1. ASSUME NEW q \in Loop!SealedPools, new.jobs[q] > 0
          PROVE  q \in Loop!Aerodrome /\ \E i : Done(new, es, n, q, i) /\ new.jobs[q] = sLog[i].block
      <3>1. CASE new.jobs[q] = acc.jobs[q]
        <4>1. q \in Loop!Aerodrome /\ \E i : Done(acc, es, k, q, i) /\ acc.jobs[q] = sLog[i].block
          BY <2>1, <3>1 DEF FoldInv, FoldJobs
        <4> QED
          BY <1>6, <3>1, <4>1
      <3>2. CASE new.jobs[q] # acc.jobs[q]
        <4>1. q = p /\ p \in Loop!Aerodrome /\ new.jobs[p] = sLog[n].block
          BY <1>8, <1>9, <3>2
        <4>2. Done(new, es, n, p, n)
          BY <1>6
        <4> QED
          BY <4>1, <4>2
      <3> QED
        BY <3>1, <3>2
    <2>2. ASSUME NEW q \in Loop!Aerodrome, NEW i, Done(new, es, n, q, i), sLog[i].kind # "mint"
          PROVE  sLog[i].block <= new.jobs[q]
      <3>1. i \in DOMAIN sLog /\ sLog[i].block \in Nat /\ i <= n /\ q \in Loop!SealedPools
        BY <1>2, <2>2 DEF Done, Loop!SealedPools
      <3>2. CASE new.jobs[q] = sLog[n].block
        <4>1. sLog[i].block <= sLog[n].block
          BY <1>1, <3>1 DEF WellFormed
        <4> QED
          BY <3>2, <4>1
      <3>3. CASE new.jobs[q] # sLog[n].block
        <4>1. ~ (i = n /\ q = p)
          BY <1>9, <2>2, <3>3
        <4>2. Done(acc, es, k, q, i)
          BY <1>6, <2>2, <4>1
        <4>3. new.jobs[q] = acc.jobs[q]
          BY <1>8, <1>9, <3>1, <3>3
        <4>4. sLog[i].block <= acc.jobs[q]
          BY <2>2, <4>2 DEF FoldInv, FoldJobs
        <4> QED
          BY <4>3, <4>4
      <3> QED
        BY <3>2, <3>3
    <2> QED
      BY <2>1, <2>2 DEF FoldJobs
  <1>15. FoldStops(new, es, n)
    <2>1. \A i \in new.missed : sLog[i].kind = "mint"
      BY DEF FoldInv, FoldStops
    <2> QED
      BY <2>1 DEF FoldStops
  <1>16. FoldCopies(new, es, n)
    <2> SUFFICES ASSUME NEW s \in new.snaps PROVE CopyOf(new, es, n, s)
      BY DEF FoldCopies
    <2>1. CASE s = [pool |-> p, state |-> st]
      <3>1. s.pool = p /\ s.state = st
        BY <2>1
      <3>2. Done(new, es, n, p, n) /\ \A i : Done(new, es, n, p, i) => i <= n
        BY <1>6 DEF Done
      <3> QED
        BY <3>1, <3>2 DEF CopyOf
    <2>2. CASE s \in acc.snaps /\ (s.pool # p \/ s.state.block # st.block)
      <3>1. PICK m : /\ Done(acc, es, k, s.pool, m) /\ Since(s.pool, s.state, m)
                     /\ \A i : Done(acc, es, k, s.pool, i) /\ sLog[i].block = s.state.block => i <= m
        BY <2>2 DEF FoldInv, FoldCopies, CopyOf
      <3>2. Done(new, es, n, s.pool, m)
        BY <1>6, <3>1
      <3>3. ASSUME NEW i, Done(new, es, n, s.pool, i), sLog[i].block = s.state.block PROVE i <= m
        <4>1. ~ (i = n /\ s.pool = p)
          BY <1>11, <2>2, <3>3
        <4> QED
          BY <1>6, <3>1, <3>3, <4>1
      <3> QED
        BY <3>1, <3>2, <3>3 DEF CopyOf
    <2> QED
      BY <1>10, <2>1, <2>2
  <1> QED
    BY <1>12, <1>13, <1>14, <1>15, <1>16 DEF FoldInv
LEMMA TouchedIs ==
  ASSUME NEW es, NEW acc \in Accumulators(es), NEW p \in Tracked, enabled \subseteq Loop!SealedPools,
         NEW st \in Loop!State, NEW new, new = Loop!Touched(acc, p, st)
  PROVE  AfterTouch(new, acc, es, p, st) /\ new.jobs = acc.jobs
  <1> DEFINE sts == [acc.states EXCEPT ![p] = st]
             ch  == acc.changed \cup {p}
             sn  == Loop!Snapshots(acc.snaps, {[pool |-> p, state |-> st]})
             a   == [acc EXCEPT !.states = sts]
             b   == [a EXCEPT !.changed = ch]
  <1>p. p \in enabled
    BY DEF Tracked
  <1>1. sts \in [Loop!SealedPools -> Loop!State \cup {None}]
    BY DEF Accumulators
  <1>2. ch \in SUBSET Tracked
    BY DEF Accumulators
  <1>3. sn \in SUBSET Copies
    BY <1>p DEF Loop!Snapshots, Copies, Accumulators
  <1>4. /\ a.changed = acc.changed /\ b.snaps = acc.snaps
        /\ new = [b EXCEPT !.snaps = sn]
    BY DEF Loop!Touched, Accumulators
  <1> HIDE DEF sts, ch, sn
  <1>5. /\ a \in Accumulators(es) /\ a.states = sts /\ a.snaps = acc.snaps
        /\ a.missed = acc.missed /\ a.jobs = acc.jobs /\ a.stopped = acc.stopped
    BY <1>1 DEF Accumulators
  <1> HIDE DEF a
  <1>6. /\ b \in Accumulators(es) /\ b.states = sts /\ b.changed = ch
        /\ b.missed = acc.missed /\ b.jobs = acc.jobs /\ b.stopped = acc.stopped
    BY <1>2, <1>5 DEF Accumulators
  <1> HIDE DEF b
  <1>7. /\ new \in Accumulators(es) /\ new.states = sts /\ new.changed = ch /\ new.snaps = sn
        /\ new.missed = acc.missed /\ new.jobs = acc.jobs /\ new.stopped = acc.stopped
    BY <1>3, <1>4, <1>6 DEF Accumulators
  <1> QED
    BY <1>7 DEF sts, ch, sn, AfterTouch

LEMMA DueIs ==
  ASSUME NEW es, NEW acc \in Accumulators(es), NEW js \in [Loop!SealedPools -> Nat],
         NEW new, new = [acc EXCEPT !.jobs = js]
  PROVE  /\ new \in Accumulators(es) /\ new.jobs = js
         /\ new.states = acc.states /\ new.changed = acc.changed /\ new.snaps = acc.snaps
         /\ new.missed = acc.missed /\ new.stopped = acc.stopped
  BY DEF Accumulators

LEMMA MissedIs ==
  ASSUME NEW es, NEW acc \in Accumulators(es), NEW n \in es,
         NEW new, new = [acc EXCEPT !.missed = acc.missed \cup {n}]
  PROVE  /\ new \in Accumulators(es) /\ new.missed = acc.missed \cup {n}
         /\ new.states = acc.states /\ new.changed = acc.changed /\ new.snaps = acc.snaps
         /\ new.jobs = acc.jobs /\ new.stopped = acc.stopped
  BY DEF Accumulators

LEMMA OwnBlock ==
  ASSUME NEW l, NEW h, WellFormed(l, h), NEW n \in DOMAIN l, NEW b, b = l[n].block
  PROVE  UpTo(l, b) \in 0..Len(l) /\ n <= UpTo(l, b)
  <1>1. b \in Nat /\ b <= b
    BY LogFacts
  <1>2. UpTo(l, b) \in 0..Len(l) /\ \A i \in DOMAIN l : i <= UpTo(l, b) <=> l[i].block <= b
    BY <1>1, UpToIs
  <1> QED
    BY <1>1, <1>2

\* The words of a log are the chain's after it.
LEMMA FromLogIs ==
  ASSUME LoopTypes, NEW n \in DOMAIN sLog, sLog[n].kind \in {"sync", "swap"}, NEW p, p = sLog[n].pool,
         NEW old \in Loop!State, p \in Classic => old.depth = Word0
  PROVE  /\ Loop!FromLog(old, n) \in Loop!State /\ Since(p, Loop!FromLog(old, n), n)
         /\ p \in Classic => Loop!FromLog(old, n).depth = Word0
  <1>1. /\ WellFormed(sLog, sHead) /\ Len(sLog) \in Nat /\ DOMAIN sLog = 1..Len(sLog)
        /\ p \in Loop!SealedPools /\ sLog[n].block \in Nat /\ sLog[n].kind \in Loop!Kinds(p)
    <2>1. WellFormed(sLog, sHead)
      BY DEF LoopTypes
    <2> QED
      BY <2>1, LogFacts DEF WellFormed
  <1>2. n \in 0..Len(sLog)
    BY <1>1
  <1>3. /\ PriceAt(sLog, p, n) \in Words /\ DepthAt(sLog, p, n) \in Words
        /\ p \in Classic => DepthAt(sLog, p, n) = Word0
    BY <1>1, <1>2, ValuesTyped
  <1>4. old.fee \in Fees
    BY DEF Loop!State
  <1>5. sLog[n].kind = "swap" \/ p \in Classic
    BY <1>1, KindsOf
  <1>6. Loop!FromLog(old, n) = [price |-> PriceAt(sLog, p, n), depth |-> DepthAt(sLog, p, n),
                                fee |-> old.fee, block |-> sLog[n].block]
    <2>1. Loop!FromLog(old, n) = [price |-> PriceAt(sLog, p, n),
                                  depth |-> IF sLog[n].kind = "swap" THEN DepthAt(sLog, p, n) ELSE old.depth,
                                  fee |-> old.fee, block |-> sLog[n].block]
      <3>1. Loop!PriceAfter(p, n) = PriceAt(sLog, p, n) /\ Loop!DepthAfter(p, n) = DepthAt(sLog, p, n)
        BY OfTheLog
      <3>2. Loop!FromLog(old, n) = [old EXCEPT !.price = PriceAt(sLog, p, n),
                                               !.depth = IF sLog[n].kind = "swap" THEN DepthAt(sLog, p, n) ELSE @,
                                               !.block = sLog[n].block]
        BY <3>1 DEF Loop!FromLog
      <3> QED
        BY <3>2 DEF Loop!State
    <2>2. (IF sLog[n].kind = "swap" THEN DepthAt(sLog, p, n) ELSE old.depth) = DepthAt(sLog, p, n)
      BY <1>3, <1>5
    <2> QED
      BY <2>1, <2>2
  <1>7. Loop!FromLog(old, n) \in Loop!State
    BY <1>1, <1>3, <1>4, <1>6 DEF Loop!State
  <1>8. n \in n..UpTo(sLog, sLog[n].block)
    <2>3. UpTo(sLog, sLog[n].block) \in 0..Len(sLog) /\ n <= UpTo(sLog, sLog[n].block)
      BY <1>1, OwnBlock
    <2> QED
      BY <1>1, <2>3
  <1>9. Since(p, Loop!FromLog(old, n), n)
    BY <1>6, <1>8 DEF Since, HasWords
  <1> QED
    BY <1>3, <1>6, <1>7, <1>9

\* One log of the loop over a chunk.
LEMMA FoldStep ==
  ASSUME LoopTypes, NEW acc, NEW es, Fetched(es), NEW k \in Nat, FoldInv(acc, es, k), NEW down,
         NEW n, n = k + 1
  PROVE  FoldInv(IF n \in es THEN Loop!ApplyLog(acc, n, down) ELSE acc, es, n)
  <1> DEFINE p == sLog[n].pool
  <1>p. p = sLog[n].pool
    OBVIOUS
  <1> HIDE DEF p
  <1>1. WellFormed(sLog, sHead) /\ Len(sLog) \in Nat /\ DOMAIN sLog = 1..Len(sLog)
    <2>1. WellFormed(sLog, sHead)
      BY DEF LoopTypes
    <2> QED
      BY <2>1, LogFacts
  <1>2. es \subseteq DOMAIN sLog /\ es \subseteq Nat
    BY <1>1 DEF Fetched
  <1>3. CASE n \notin es
    BY <1>2, <1>3, FoldIdle
  <1>4. CASE n \in es
    <2>1. acc \in Accumulators(es)
      BY DEF FoldInv, FoldTypes
    <2>2. /\ n \in DOMAIN sLog /\ p \in Tracked /\ enabled \subseteq Loop!SealedPools /\ p \in Loop!SealedPools
          /\ sLog[n].block \in Nat /\ sLog[n].kind \in Moving /\ sLog[n].kind \in Loop!Kinds(p)
      <3>1. n \in DOMAIN sLog /\ sLog[n].kind \in Moving
        BY <1>4 DEF Fetched
      <3>2. p \in Tracked /\ enabled \subseteq Loop!SealedPools /\ p \in Loop!SealedPools
        BY <1>p, <1>4, <3>1 DEF LoopTypes, Fetched, Tracked
      <3>3. sLog[n].block \in Nat /\ sLog[n].kind \in Loop!Kinds(p)
        BY <1>p, <1>1, <3>1, LogFacts DEF WellFormed
      <3> QED
        BY <3>1, <3>2, <3>3
    <2>3. Loop!IsLiquidity(n) <=> sLog[n].kind = "mint"
      BY <2>2, KindsOf, <1>p DEF Loop!IsLiquidity
    <2>4. /\ acc.states[p] \in Loop!State /\ (p \in Classic => acc.states[p].depth = Word0)
          /\ acc.jobs \in [Loop!SealedPools -> Nat] /\ acc.stopped \in BOOLEAN
      BY <2>1, <2>2 DEF FoldInv, FoldTypes, Accumulators
    <2>5. ASSUME acc.stopped \/ sLog[n].kind = "mint"
          PROVE  FoldInv([acc EXCEPT !.missed = acc.missed \cup {n}], es, n)
      <3> DEFINE new == [acc EXCEPT !.missed = acc.missed \cup {n}]
      <3>1. new = [acc EXCEPT !.missed = acc.missed \cup {n}]
        OBVIOUS
      <3> HIDE DEF new
      <3>2. /\ new \in Accumulators(es) /\ new.missed = acc.missed \cup {n}
            /\ new.states = acc.states /\ new.changed = acc.changed /\ new.snaps = acc.snaps
            /\ new.jobs = acc.jobs /\ new.stopped = acc.stopped
        BY <1>4, <2>1, <3>1, MissedIs
      <3>3. acc.stopped => new.stopped
        BY <3>2
      <3>4. FoldInv(new, es, n)
        BY <1>2, <1>4, <2>5, <3>2, <3>3, FoldMissed, Zenon
      <3> QED
        BY <3>4 DEF new
    <2>6. ASSUME sLog[n].kind = "mint", NEW stop \in BOOLEAN, acc.stopped => stop
          PROVE  FoldInv([acc EXCEPT !.stopped = stop, !.missed = acc.missed \cup {n}], es, n)
      <3> DEFINE new == [acc EXCEPT !.stopped = stop, !.missed = acc.missed \cup {n}]
      <3>1. new = [acc EXCEPT !.stopped = stop, !.missed = acc.missed \cup {n}]
        OBVIOUS
      <3> HIDE DEF new
      <3>2. /\ new \in Accumulators(es) /\ new.missed = acc.missed \cup {n}
            /\ new.states = acc.states /\ new.changed = acc.changed /\ new.snaps = acc.snaps
            /\ new.jobs = acc.jobs /\ new.stopped = stop
        <4> DEFINE end == [acc EXCEPT !.stopped = stop]
        <4>1. /\ end \in Accumulators(es) /\ end.stopped = stop
              /\ end.states = acc.states /\ end.changed = acc.changed /\ end.snaps = acc.snaps
              /\ end.missed = acc.missed /\ end.jobs = acc.jobs
          BY <2>1, <2>6 DEF Accumulators
        <4>2. new = [end EXCEPT !.missed = end.missed \cup {n}]
          BY <3>1, <4>1
        <4> HIDE DEF end
        <4> QED
          BY <1>4, <4>1, <4>2 DEF Accumulators
      <3>3. acc.stopped => new.stopped
        BY <2>6, <3>2
      <3>4. FoldInv(new, es, n)
        BY <1>2, <1>4, <2>6, <3>2, <3>3, FoldMissed, Zenon
      <3> QED
        BY <3>4 DEF new
    <2>7. CASE acc.stopped
      <3>1. Loop!ApplyLog(acc, n, down) = [acc EXCEPT !.missed = acc.missed \cup {n}]
        BY <2>7 DEF Loop!ApplyLog, p
      <3> QED
        BY <1>4, <2>5, <2>7, <3>1
    <2>8. CASE ~acc.stopped /\ sLog[n].kind = "mint" /\ n \in recent
      <3>1. Loop!ApplyLog(acc, n, down) = [acc EXCEPT !.stopped = TRUE, !.missed = acc.missed \cup {n}]
        BY <2>3, <2>8 DEF Loop!ApplyLog, p
      <3>2. FoldInv([acc EXCEPT !.stopped = TRUE, !.missed = acc.missed \cup {n}], es, n)
        BY <2>6, <2>8
      <3> QED
        BY <1>4, <3>1, <3>2
    <2>9. CASE ~acc.stopped /\ sLog[n].kind = "mint" /\ n \notin recent /\ n \in down
      <3>1. Loop!ApplyLog(acc, n, down) = [acc EXCEPT !.missed = acc.missed \cup {n}]
        BY <2>3, <2>9 DEF Loop!ApplyLog, p
      <3> QED
        BY <1>4, <2>5, <2>9, <3>1
    <2>10. CASE ~acc.stopped /\ sLog[n].kind = "mint" /\ n \notin recent /\ n \notin down
      <3> DEFINE st  == Loop!Refreshed(acc.states[p], p, sLog[n].block)
                 new == Loop!Touched(acc, p, st)
      <3>1. Loop!ApplyLog(acc, n, down) = new
        BY <2>3, <2>10 DEF Loop!ApplyLog, p
      <3>2. /\ st \in Loop!State /\ st.block = sLog[n].block
            /\ HasWords(sLog, p, st, UpTo(sLog, sLog[n].block))
            /\ p \in Classic => st.depth = Word0
            /\ p \in Loop!Aerodrome => st.fee = FeeAt(sLog, p, UpTo(sLog, sLog[n].block))
        <4>1. acc.states[p].fee \in Fees
          BY <2>4 DEF Loop!State
        <4> QED
          BY <2>2, <4>1, StateRead DEF Loop!Refreshed
      <3>3. Since(p, st, n)
        <4>1. UpTo(sLog, sLog[n].block) \in 0..Len(sLog) /\ n <= UpTo(sLog, sLog[n].block)
          BY <1>1, <2>2, OwnBlock
        <4>2. UpTo(sLog, sLog[n].block) \in n..UpTo(sLog, sLog[n].block)
          BY <1>1, <4>1
        <4> QED
          BY <3>2, <4>2 DEF Since
      <3> HIDE DEF st
      <3>4. AfterTouch(new, acc, es, p, st) /\ new.jobs = acc.jobs
        <4>1. new = Loop!Touched(acc, p, st)
          OBVIOUS
        <4> HIDE DEF new
        <4>2. acc \in Accumulators(es) /\ p \in Tracked /\ enabled \subseteq Loop!SealedPools /\ st \in Loop!State
          BY <2>1, <2>2, <3>2
        <4> QED
          BY <4>1, <4>2, TouchedIs
      <3> HIDE DEF new
      <3>5. new.jobs = IF sLog[n].kind = "mint" THEN acc.jobs ELSE Loop!Due(acc.jobs, p, sLog[n].block)
        BY <2>10, <3>4
      <3>6. FoldInv(new, es, n)
        BY <1>2, <1>4, <2>2, <2>10, <3>2, <3>3, <3>4, <3>5, <1>p, FoldTouched
      <3> QED
        BY <1>4, <3>1, <3>6
    <2>11. CASE ~acc.stopped /\ sLog[n].kind # "mint"
      <3> DEFINE st  == Loop!FromLog(acc.states[p], n)
                 js  == Loop!Due(acc.jobs, p, sLog[n].block)
                 read == Loop!Touched(acc, p, st)
                 new == [read EXCEPT !.jobs = js]
      <3>1. st \in Loop!State /\ Since(p, st, n) /\ (p \in Classic => st.depth = Word0)
        <4>1. sLog[n].kind \in {"sync", "swap"}
          BY <2>2, <2>11 DEF Moving
        <4> QED
          BY <1>p, <2>2, <2>4, <4>1, FromLogIs
      <3>2. js \in [Loop!SealedPools -> Nat]
        BY <2>2, <2>4 DEF Loop!Due
      <3>3. read = Loop!Touched(acc, p, st) /\ new = [read EXCEPT !.jobs = js]
        OBVIOUS
      <3>4. Loop!ApplyLog(acc, n, down) = [read EXCEPT !.jobs = Loop!Due(read.jobs, p, sLog[n].block)]
        BY <2>3, <2>11 DEF Loop!ApplyLog, p
      <3> HIDE DEF st, read
      <3>5. AfterTouch(read, acc, es, p, st) /\ read.jobs = acc.jobs
        <4>1. acc \in Accumulators(es) /\ p \in Tracked /\ enabled \subseteq Loop!SealedPools /\ st \in Loop!State
          BY <2>1, <2>2, <3>1
        <4> QED
          BY <3>3, <4>1, TouchedIs
      <3>6. Loop!ApplyLog(acc, n, down) = new
        BY <3>4, <3>5
      <3> HIDE DEF js, new
      <3>7. /\ new \in Accumulators(es) /\ new.jobs = js
            /\ new.states = read.states /\ new.changed = read.changed /\ new.snaps = read.snaps
            /\ new.missed = read.missed /\ new.stopped = read.stopped
        BY <3>2, <3>3, <3>5, DueIs DEF AfterTouch
      <3>8. AfterTouch(new, acc, es, p, st)
        BY <3>5, <3>7, Zenon DEF AfterTouch
      <3>9. new.jobs = IF sLog[n].kind = "mint" THEN acc.jobs ELSE Loop!Due(acc.jobs, p, sLog[n].block)
        BY <2>11, <3>7 DEF js
      <3>10. FoldInv(new, es, n)
        BY <1>2, <1>4, <2>2, <2>11, <3>1, <3>8, <3>9, <1>p, FoldTouched
      <3> QED
        BY <1>4, <3>6, <3>10
    <2> QED
      BY <2>7, <2>8, <2>9, <2>10, <2>11
  <1> QED
    BY <1>3, <1>4

\* The whole loop over a chunk, by the least number of logs after which the invariant
\* would fail.
LEMMA FoldDone ==
  ASSUME LoopTypes, NEW es, Fetched(es), NEW down
  PROVE  FoldInv(Loop!Applied(es, down), es, Len(sLog))
  <1>1. Len(sLog) \in Nat
    BY LogFacts DEF LoopTypes
  <1>2. PICK f : Steps(f, es, down) /\ Loop!Applied(es, down) = f[Len(sLog)]
    BY <1>1, AppliedSteps
  <1> DEFINE T == {k \in 0..Len(sLog) : ~FoldInv(f[k], es, k)}
  <1>3. T = {}
    <2> SUFFICES ASSUME T # {} PROVE FALSE
      OBVIOUS
    <2>1. T \in SUBSET Nat
      OBVIOUS
    <2>2. PICK m \in T : \A k \in T : m <= k
      BY <2>1, Minimum
    <2>3. m \in 0..Len(sLog) /\ ~FoldInv(f[m], es, m)
      BY <2>2
    <2>4. CASE m = 0
      <3>1. f[0] = Loop!Begun
        BY <1>2 DEF Steps
      <3>2. FoldInv(Loop!Begun, es, 0)
        BY FoldBegun DEF Fetched
      <3> QED
        BY <2>3, <2>4, <3>1, <3>2
    <2>5. CASE m # 0
      <3>1. m - 1 \in Nat /\ m - 1 \in 0..Len(sLog) /\ m = (m - 1) + 1 /\ m \in 1..Len(sLog) /\ ~ (m <= m - 1)
        BY <1>1, <2>3, <2>5
      <3>2. m - 1 \notin T
        BY <2>2, <3>1
      <3>3. FoldInv(f[m - 1], es, m - 1)
        BY <3>1, <3>2
      <3>4. f[m] = IF m \in es THEN Loop!ApplyLog(f[m - 1], m, down) ELSE f[m - 1]
        BY <1>2, <3>1 DEF Steps
      <3>5. FoldInv(IF m \in es THEN Loop!ApplyLog(f[m - 1], m, down) ELSE f[m - 1], es, m)
        BY <3>1, <3>3, FoldStep
      <3>6. FoldInv(f[m], es, m)
        BY <3>4, <3>5
      <3> QED
        BY <2>3, <3>6
    <2> QED
      BY <2>4, <2>5
  <1>4. FoldInv(f[Len(sLog)], es, Len(sLog))
    BY <1>1, <1>3
  <1> QED
    BY <1>2, <1>4
\* What is missed after the chunk, up to block u: the logs of es are its own.
Window(acc, es, u, miss) ==
  /\ u \in Nat /\ seen < u /\ u <= sHead
  /\ es = {i \in DOMAIN sLog : /\ seen < sLog[i].block /\ sLog[i].block <= u /\ sLog[i].kind \in Moving
                              /\ sLog[i].pool \in Tracked}
  /\ miss = (missed \ es) \cup acc.missed
  /\ FoldInv(acc, es, Len(sLog))

LEMMA WindowFacts ==
  ASSUME LoopTypes, NEW acc, NEW es, NEW u, NEW miss, Window(acc, es, u, miss)
  PROVE  /\ WellFormed(sLog, sHead) /\ Len(sLog) \in Nat /\ DOMAIN sLog = 1..Len(sLog)
         /\ seen \in Nat /\ sHead \in Nat /\ u \in Nat /\ seen < u /\ u <= sHead
         /\ \A i \in DOMAIN sLog : sLog[i].block \in Nat /\ sLog[i].pool \in enabled
         /\ \A i, j \in DOMAIN sLog : i <= j => sLog[i].block <= sLog[j].block
         /\ \A i : i \in es <=> /\ i \in DOMAIN sLog /\ sLog[i].kind \in Moving
                                /\ seen < sLog[i].block /\ sLog[i].block <= u
                                /\ sLog[i].pool \in Tracked
         /\ \A i \in es : i \in miss <=> i \in acc.missed
         /\ \A i : i \notin es => (i \in miss <=> i \in missed)
         /\ \A p, i : Done(acc, es, Len(sLog), p, i) <=> i \in es /\ sLog[i].pool = p /\ i \notin miss
  <1>1. WellFormed(sLog, sHead) /\ sHead \in Nat /\ seen \in Nat /\ \A i \in DOMAIN sLog : sLog[i].pool \in enabled
    BY CacheConstants DEF LoopTypes
  <1>2. Len(sLog) \in Nat /\ DOMAIN sLog = 1..Len(sLog) /\ \A i \in DOMAIN sLog : sLog[i].block \in Nat
    BY <1>1, LogFacts
  <1>3. \A i, j \in DOMAIN sLog : i <= j => sLog[i].block <= sLog[j].block
    BY <1>1 DEF WellFormed
  <1>4. acc.missed \subseteq es
    BY DEF Window, FoldInv, FoldTypes, Accumulators
  <1>5. \A i : i \in es <=> /\ i \in DOMAIN sLog /\ sLog[i].kind \in Moving
                            /\ seen < sLog[i].block /\ sLog[i].block <= u
                            /\ sLog[i].pool \in Tracked
    BY DEF Window
  <1>6. \A i \in es : i <= Len(sLog)
    BY <1>2, <1>5
  <1>7. /\ \A i \in es : i \in miss <=> i \in acc.missed
        /\ \A i : i \notin es => (i \in miss <=> i \in missed)
    BY <1>4 DEF Window
  <1>8. \A p, i : Done(acc, es, Len(sLog), p, i) <=> i \in es /\ sLog[i].pool = p /\ i \notin miss
    BY <1>6, <1>7 DEF Done
  <1> QED
    BY <1>1, <1>2, <1>3, <1>5, <1>7, <1>8 DEF Window

LEMMA ChunkWords ==
  ASSUME LoopTypes, NEW acc, NEW es, NEW u, NEW miss, Window(acc, es, u, miss),
         NEW p \in Tracked, p \in Loop!SealedPools,
         WordsRight(sLog, sHead, orphans, p, seen, missed, states[p])
  PROVE  WordsRight(sLog, sHead, orphans, p, u, miss, acc.states[p])
  <1> DEFINE top == UpTo(sLog, u)
             low == UpTo(sLog, seen)
             L   == LastIn(sLog, p, Moving, top)
  <1> SUFFICES ASSUME ~Ahead(sLog, sHead, orphans, p, u), L \notin miss
               PROVE  HasWords(sLog, p, acc.states[p], top)
    BY DEF WordsRight
  <1>1. /\ WellFormed(sLog, sHead) /\ Len(sLog) \in Nat /\ DOMAIN sLog = 1..Len(sLog)
        /\ seen \in Nat /\ sHead \in Nat /\ u \in Nat /\ seen < u /\ u <= sHead
        /\ \A i \in DOMAIN sLog : sLog[i].block \in Nat
        /\ \A i, j \in DOMAIN sLog : i <= j => sLog[i].block <= sLog[j].block
    BY WindowFacts
  <1>2. /\ \A i : i \in es <=> /\ i \in DOMAIN sLog /\ sLog[i].kind \in Moving
                               /\ seen < sLog[i].block /\ sLog[i].block <= u
                               /\ sLog[i].pool \in Tracked
        /\ \A i : i \notin es => (i \in miss <=> i \in missed)
        /\ \A i : Done(acc, es, Len(sLog), p, i) <=> i \in es /\ sLog[i].pool = p /\ i \notin miss
    BY WindowFacts
  <1>3. /\ top \in 0..Len(sLog) /\ \A i \in DOMAIN sLog : i <= top <=> sLog[i].block <= u
        /\ low \in 0..Len(sLog) /\ \A i \in DOMAIN sLog : i <= low <=> sLog[i].block <= seen
    BY <1>1, UpToIs
  <1>4. /\ top \in Nat /\ low \in Nat /\ low <= top
        /\ \A i \in 1..top : i \in DOMAIN sLog /\ sLog[i].block <= u
        /\ \A i \in DOMAIN sLog : i \in Nat /\ (sLog[i].block <= u => i \in 1..top)
    <2>1. low <= top
      BY <1>1, UpToMonotone
    <2> QED
      BY <1>1, <1>3, <2>1
  <1> HIDE DEF top, low
  <1>5. /\ L \in 0..top /\ (L # 0 => sLog[L].pool = p /\ sLog[L].kind \in Moving)
        /\ \A i \in 1..top : sLog[i].pool = p /\ sLog[i].kind \in Moving => i <= L
    BY <1>4, LastInIs
  <1> HIDE DEF L
  <1>6. CASE p \in acc.changed
    <2>1. PICK m : /\ Done(acc, es, Len(sLog), p, m)
                   /\ \A i : Done(acc, es, Len(sLog), p, i) => i <= m
                   /\ Since(p, acc.states[p], m)
      BY <1>6 DEF Window, FoldInv, FoldStates
    <2>2. m \in DOMAIN sLog /\ m \in 1..top /\ m <= L /\ sLog[m].block <= u /\ seen < sLog[m].block
      BY <1>2, <1>4, <1>5, <2>1
    <2>3. L \in 1..top /\ L \in DOMAIN sLog
      BY <1>4, <1>5, <2>2
    <2>4. sLog[m].block <= sLog[L].block /\ sLog[L].block \in Nat /\ sLog[m].block \in Nat /\ sLog[L].block <= u
      BY <1>1, <1>4, <2>2, <2>3
    <2>5. seen < sLog[L].block
      BY <1>1, <2>2, <2>4
    <2>6. L \in es
      BY <1>2, <1>5, <2>3, <2>4, <2>5
    <2>7. L <= m
      BY <1>2, <1>5, <2>1, <2>3, <2>6
    <2>8. PICK x \in m..UpTo(sLog, sLog[m].block) : HasWords(sLog, p, acc.states[p], x)
      BY <2>1 DEF Since
    <2>9. UpTo(sLog, sLog[m].block) \in 0..Len(sLog) /\ UpTo(sLog, sLog[m].block) <= top
      BY <1>1, <2>2, <2>4, UpToIs, UpToMonotone DEF top
    <2>10. x \in Nat /\ m <= x /\ x <= top /\ L \in Nat
      BY <1>1, <1>4, <2>2, <2>3, <2>8, <2>9
    <2>11. \A i \in 1..top : i > x => ~ (sLog[i].pool = p /\ sLog[i].kind \in Moving)
      BY <1>4, <1>5, <2>2, <2>7, <2>10
    <2>12. \A i \in 1..x : ~ (i > top)
      BY <1>4, <2>10
    <2> QED
      BY <1>4, <2>8, <2>10, <2>11, <2>12, SameMoving
  <1>7. CASE p \notin acc.changed
    <2>1. acc.states[p] = states[p] /\ \A i : ~Done(acc, es, Len(sLog), p, i)
      BY <1>7 DEF Window, FoldInv, FoldStates
    <2>2. L <= low
      <3> SUFFICES ASSUME L > low PROVE FALSE
        BY <1>4, <1>5
      <3>1. L \in 1..top /\ L # 0
        BY <1>4, <1>5
      <3>2. L \in DOMAIN sLog /\ sLog[L].block <= u /\ ~ (L <= low)
        BY <1>4, <1>5, <3>1
      <3>3. seen < sLog[L].block
        BY <1>1, <1>3, <3>2
      <3>4. L \in es
        BY <1>2, <1>5, <3>1, <3>2, <3>3
      <3> QED
        BY <1>2, <1>5, <2>1, <3>1, <3>4
    <2>3. \A i \in 1..top : i > low => ~ (sLog[i].pool = p /\ sLog[i].kind \in Moving)
      BY <1>4, <1>5, <2>2
    <2>4. \A i \in 1..low : ~ (i > top)
      BY <1>4
    <2>5. /\ LastIn(sLog, p, Moving, low) = LastIn(sLog, p, Moving, top)
          /\ \A s : HasWords(sLog, p, s, low) <=> HasWords(sLog, p, s, top)
      BY <1>4, <2>3, <2>4, SameMoving
    <2>6. L \notin es
      <3> SUFFICES ASSUME L \in es PROVE FALSE
        OBVIOUS
      <3>1. L \in DOMAIN sLog /\ seen < sLog[L].block /\ sLog[L].block \in Nat
        BY <1>1, <1>2
      <3>2. sLog[L].block <= seen
        BY <1>3, <2>2, <3>1
      <3> QED
        BY <1>1, <3>1, <3>2
    <2>7. LastIn(sLog, p, Moving, low) \notin missed
      BY <1>2, <2>5, <2>6 DEF L
    <2>8. ~Ahead(sLog, sHead, orphans, p, seen)
      <3> SUFFICES ASSUME Ahead(sLog, sHead, orphans, p, seen) PROVE FALSE
        OBVIOUS
      <3>1. PICK i \in DOMAIN sLog : /\ sLog[i].pool = p /\ sLog[i].kind \in Moving /\ sLog[i].block > seen
                                     /\ orphans = {} => sLog[i].block <= sHead
        BY DEF Ahead
      <3>2. sLog[i].block <= u
        BY <1>1, <3>1 DEF Ahead
      <3>3. i \in 1..top /\ i > low
        BY <1>3, <1>4, <1>1, <3>1, <3>2
      <3> QED
        BY <2>3, <3>1, <3>3
    <2>9. HasWords(sLog, p, states[p], low)
      BY <2>7, <2>8 DEF WordsRight, low
    <2> QED
      BY <2>1, <2>5, <2>9
  <1> QED
    BY <1>6, <1>7 DEF top
LEMMA ChunkFees ==
  ASSUME LoopTypes, NEW acc, NEW es, NEW u, NEW miss, Window(acc, es, u, miss),
         NEW p \in Loop!Aerodrome \cap Tracked, p \in Loop!SealedPools, acc.jobs[p] = 0,
         FeeRight(sLog, sHead, orphans, p, seen, missed, states[p].fee)
  PROVE  FeeRight(sLog, sHead, orphans, p, u, miss, acc.states[p].fee)
  <1>1. /\ WellFormed(sLog, sHead) /\ Len(sLog) \in Nat /\ DOMAIN sLog = 1..Len(sLog)
        /\ seen \in Nat /\ sHead \in Nat /\ u \in Nat /\ seen < u /\ u <= sHead
        /\ \A i \in DOMAIN sLog : sLog[i].block \in Nat
        /\ \A i, j \in DOMAIN sLog : i <= j => sLog[i].block <= sLog[j].block
    BY WindowFacts
  <1>2. /\ \A i : i \in es <=> /\ i \in DOMAIN sLog /\ sLog[i].kind \in Moving
                               /\ seen < sLog[i].block /\ sLog[i].block <= u
                               /\ sLog[i].pool \in Tracked
        /\ \A i : i \notin es => (i \in miss <=> i \in missed)
        /\ \A i : Done(acc, es, Len(sLog), p, i) <=> i \in es /\ sLog[i].pool = p /\ i \notin miss
    BY WindowFacts
  <1>3. ASSUME NEW i, NEW j, Followed(sLog, p, u, miss, i, j), sLog[j].block > seen
        PROVE  Done(acc, es, Len(sLog), p, j)
    BY <1>2, <1>3 DEF Followed
  <1>4. CASE p \in acc.changed
    <2>1. PICK m : /\ Done(acc, es, Len(sLog), p, m)
                   /\ \A i : Done(acc, es, Len(sLog), p, i) => i <= m
                   /\ acc.states[p].fee = FeeAt(sLog, p, UpTo(sLog, sLog[m].block))
      BY <1>4 DEF Window, FoldInv, FoldStates
    <2>2. m \in DOMAIN sLog /\ sLog[m].block \in Nat /\ seen < sLog[m].block /\ sLog[m].block <= sHead
      BY <1>1, <1>2, <2>1
    <2>3. UpTo(sLog, sLog[m].block) \in 0..Len(sLog) /\ UpTo(sLog, sLog[m].block) <= UpTo(sLog, sHead)
      BY <1>1, <2>2, UpToIs, UpToMonotone
    <2>4. ASSUME NEW i, NEW j, Followed(sLog, p, u, miss, i, j)
          PROVE  UpTo(sLog, sLog[i].block) <= UpTo(sLog, sLog[m].block)
      <3>1. /\ i \in DOMAIN sLog /\ j \in DOMAIN sLog /\ i <= j
            /\ sLog[i].block \in Nat /\ sLog[j].block \in Nat /\ sLog[i].block <= sLog[j].block
        BY <1>1, <2>4 DEF Followed
      <3>2. sLog[i].block <= sLog[m].block
        <4>1. CASE sLog[j].block > seen
          <5>1. j <= m
            BY <1>3, <2>1, <2>4, <4>1
          <5>2. sLog[j].block <= sLog[m].block
            BY <1>1, <2>2, <3>1, <5>1
          <5> QED
            BY <2>2, <3>1, <5>2
        <4>2. CASE ~ (sLog[j].block > seen)
          BY <1>1, <2>2, <3>1, <4>2
        <4> QED
          BY <4>1, <4>2
      <3> QED
        BY <1>1, <2>2, <3>1, <3>2, UpToMonotone
    <2> QED
      BY <2>1, <2>3, <2>4 DEF FeeRight
  <1>5. CASE p \notin acc.changed
    <2>1. acc.states[p] = states[p] /\ \A i : ~Done(acc, es, Len(sLog), p, i)
      BY <1>5 DEF Window, FoldInv, FoldStates
    <2>2. ASSUME NEW i, NEW j, Followed(sLog, p, u, miss, i, j)
          PROVE  Followed(sLog, p, seen, missed, i, j)
      <3>1. ~ (sLog[j].block > seen) /\ j \in DOMAIN sLog /\ sLog[j].block \in Nat
        BY <1>1, <1>3, <2>1, <2>2 DEF Followed
      <3>2. j \notin es
        BY <1>2, <3>1
      <3>3. j \notin missed /\ sLog[j].block <= seen
        BY <1>1, <1>2, <2>2, <3>1, <3>2 DEF Followed
      <3> QED
        BY <2>2, <3>3 DEF Followed
    <2> QED
      BY <2>1, <2>2 DEF FeeRight
  <1> QED
    BY <1>4, <1>5

LEMMA ChunkJobs ==
  ASSUME LoopTypes, NEW acc, NEW es, NEW u, NEW miss, Window(acc, es, u, miss),
         NEW p \in Loop!SealedPools, acc.jobs[p] > 0
  PROVE  /\ p \in Loop!Aerodrome \cap Tracked /\ acc.jobs[p] \in Nat /\ seen < acc.jobs[p] /\ acc.jobs[p] <= u
         /\ p \in acc.changed /\ [pool |-> p, state |-> acc.states[p]] \in acc.snaps
         /\ JobRight(sLog, p, u, miss, acc.jobs[p])
  <1>1. /\ WellFormed(sLog, sHead) /\ Len(sLog) \in Nat /\ DOMAIN sLog = 1..Len(sLog)
        /\ seen \in Nat /\ sHead \in Nat /\ u \in Nat /\ seen < u /\ u <= sHead
        /\ \A i \in DOMAIN sLog : sLog[i].block \in Nat /\ sLog[i].pool \in enabled
        /\ \A i, j \in DOMAIN sLog : i <= j => sLog[i].block <= sLog[j].block
    BY WindowFacts
  <1>2. /\ \A i : i \in es <=> /\ i \in DOMAIN sLog /\ sLog[i].kind \in Moving
                               /\ seen < sLog[i].block /\ sLog[i].block <= u
                               /\ sLog[i].pool \in Tracked
        /\ \A i \in es : i \in miss <=> i \in acc.missed
        /\ \A i : Done(acc, es, Len(sLog), p, i) <=> i \in es /\ sLog[i].pool = p /\ i \notin miss
    BY WindowFacts
  <1>3. PICK k : Done(acc, es, Len(sLog), p, k) /\ acc.jobs[p] = sLog[k].block
    BY DEF Window, FoldInv, FoldJobs
  <1>4. p \in Loop!Aerodrome
    BY DEF Window, FoldInv, FoldJobs
  <1>5. /\ k \in DOMAIN sLog /\ acc.jobs[p] \in Nat /\ seen < acc.jobs[p] /\ acc.jobs[p] <= u
        /\ p \in Tracked
    BY <1>1, <1>2, <1>3
  <1>6. p \in acc.changed
    BY <1>3 DEF Window, FoldInv, FoldStates
  <1>7. [pool |-> p, state |-> acc.states[p]] \in acc.snaps
    BY <1>6 DEF Window, FoldInv, FoldStates
  <1>8. ASSUME NEW i, NEW j, Followed(sLog, p, u, miss, i, j)
        PROVE  sLog[i].block <= acc.jobs[p]
    <2>1. /\ i \in DOMAIN sLog /\ j \in DOMAIN sLog /\ i <= j /\ j <= Len(sLog) /\ sLog[j].block <= u
          /\ sLog[i].block \in Nat /\ sLog[j].block \in Nat /\ sLog[i].block <= sLog[j].block
      BY <1>1, <1>8 DEF Followed
    <2>p. sLog[i].pool = p /\ sLog[j].pool = p /\ p \in Tracked
      BY <1>5, <1>8 DEF Followed
    <2>2. CASE sLog[i].block > seen
      <3>1. j \in es /\ j \notin acc.missed
        <4>1. seen < sLog[j].block
          BY <1>1, <2>1, <2>2
        <4>2. j \in es
          BY <1>2, <1>8, <2>1, <2>p, <4>1 DEF Followed
        <4> QED
          BY <1>2, <1>8, <4>2 DEF Followed
      <3>2. sLog[i].kind \in Moving /\ sLog[i].kind # "mint" /\ sLog[i].block <= u /\ sLog[i].pool = p
        BY <1>1, <1>8, <2>1 DEF Followed, Moving
      <3>3. i \in es
        BY <1>2, <2>1, <2>2, <2>p, <3>2
      <3>4. i \notin acc.missed
        BY <2>1, <3>1, <3>2 DEF Window, FoldInv, FoldStops
      <3>5. Done(acc, es, Len(sLog), p, i)
        BY <1>2, <3>2, <3>3, <3>4
      <3> QED
        BY <1>4, <3>2, <3>5 DEF Window, FoldInv, FoldJobs
    <2>3. CASE ~ (sLog[i].block > seen)
      BY <1>1, <1>5, <2>1, <2>3
    <2> QED
      BY <2>2, <2>3
  <1> QED
    BY <1>4, <1>5, <1>6, <1>7, <1>8 DEF JobRight

LEMMA ChunkCopies ==
  ASSUME LoopTypes, NEW acc, NEW es, NEW u, NEW miss, Window(acc, es, u, miss), NEW s \in acc.snaps
  PROVE  CopyRight(sLog, orphans, miss, s) /\ s.state.block \in Nat /\ s.state.block <= u
  <1> DEFINE p == s.pool
             b == s.state.block
             top == UpTo(sLog, b)
  <1>1. /\ WellFormed(sLog, sHead) /\ Len(sLog) \in Nat /\ DOMAIN sLog = 1..Len(sLog)
        /\ seen \in Nat /\ sHead \in Nat /\ u \in Nat /\ seen < u /\ u <= sHead
        /\ \A i \in DOMAIN sLog : sLog[i].block \in Nat
        /\ \A i, j \in DOMAIN sLog : i <= j => sLog[i].block <= sLog[j].block
    BY WindowFacts
  <1>2. /\ \A i : i \in es <=> /\ i \in DOMAIN sLog /\ sLog[i].kind \in Moving
                               /\ seen < sLog[i].block /\ sLog[i].block <= u
                               /\ sLog[i].pool \in Tracked
        /\ \A i : Done(acc, es, Len(sLog), p, i) <=> i \in es /\ sLog[i].pool = p /\ i \notin miss
    BY WindowFacts
  <1>3. PICK m : /\ Done(acc, es, Len(sLog), p, m) /\ Since(p, s.state, m)
                 /\ \A i : Done(acc, es, Len(sLog), p, i) /\ sLog[i].block = b => i <= m
    BY DEF Window, FoldInv, FoldCopies, CopyOf
  <1>4. m \in DOMAIN sLog /\ b = sLog[m].block /\ b \in Nat /\ seen < b /\ b <= u
        /\ p \in Tracked
    BY <1>1, <1>2, <1>3 DEF Since
  <1>5. PICK x \in m..top : HasWords(sLog, p, s.state, x)
    BY <1>3, <1>4 DEF Since
  <1>6. top \in 0..Len(sLog) /\ \A i \in DOMAIN sLog : i <= top <=> sLog[i].block <= b
    BY <1>1, <1>4, UpToIs
  <1> HIDE DEF top, b, p
  <1>7. /\ x \in Nat /\ top \in Nat /\ m <= x /\ x <= top
        /\ \A i \in 1..top : i \in DOMAIN sLog /\ sLog[i].block <= b /\ sLog[i].block \in Nat
    BY <1>1, <1>4, <1>5, <1>6
  <1>8. CASE \E i \in 1..top : i > x /\ sLog[i].pool = p /\ sLog[i].kind \in Moving
    <2>1. PICK i \in 1..top : i > x /\ sLog[i].pool = p /\ sLog[i].kind \in Moving
      BY <1>8
    <2>2. i \in DOMAIN sLog /\ m <= i /\ ~ (i <= m) /\ sLog[i].block \in Nat
      BY <1>1, <1>4, <1>7, <2>1
    <2>3. sLog[i].block = b
      <3>1. b <= sLog[i].block
        BY <1>1, <1>4, <2>2
      <3> QED
        BY <1>4, <1>7, <2>1, <2>2, <3>1
    <2>4. i \in es
      BY <1>2, <1>4, <2>1, <2>2, <2>3
    <2>5. i \in miss
      BY <1>2, <1>3, <2>1, <2>2, <2>3, <2>4
    <2>6. Skipped(sLog, miss, p, b)
      BY <2>1, <2>3, <2>5 DEF Skipped
    <2> QED
      BY <1>4, <2>6 DEF CopyRight, p, b
  <1>9. CASE ~ \E i \in 1..top : i > x /\ sLog[i].pool = p /\ sLog[i].kind \in Moving
    <2>1. \A i \in 1..top : i > x => ~ (sLog[i].pool = p /\ sLog[i].kind \in Moving)
      BY <1>9
    <2>2. \A i \in 1..x : ~ (i > top)
      BY <1>7
    <2>3. HasWords(sLog, p, s.state, top)
      BY <1>5, <1>7, <2>1, <2>2, SameMoving
    <2> QED
      BY <1>4, <2>3 DEF CopyRight, p, b, top
  <1> QED
    BY <1>8, <1>9

\* What was skipped before the chunk still is.
LEMMA ChunkSkipped ==
  ASSUME LoopTypes, NEW acc, NEW es, NEW u, NEW miss, Window(acc, es, u, miss),
         NEW p, NEW b \in Nat, b <= seen, Skipped(sLog, missed, p, b)
  PROVE  Skipped(sLog, miss, p, b)
  <1>1. PICK i \in missed : sLog[i].pool = p /\ sLog[i].block = b
    BY DEF Skipped
  <1>2. seen \in Nat /\ i \notin es
    <2>1. seen \in Nat /\ (i \in es => seen < sLog[i].block)
      BY WindowFacts
    <2> QED
      BY <1>1, <2>1
  <1>3. i \in miss
    BY <1>2, WindowFacts
  <1> QED
    BY <1>1, <1>3 DEF Skipped
LEMMA ChunkKeeps ==
  ASSUME LoopInv, Loop!Chunk
  PROVE  LoopInv'
  <1>1. LoopTypes
    BY DEF LoopInv
  <1> DEFINE u  == IF sUpto > 0 THEN sUpto ELSE Loop!LatestBlock
             es == Loop!Events(seen + 1, u)
  <1>2. /\ sPc = "poll" /\ sPc' = "fees" /\ (sUpto > 0 \/ sHead > seen) /\ sUpto' = u
        /\ UNCHANGED <<sHead, sLog, orphans, enabled, sCurrent, sRedis, todo, half, seen, pending, verdict,
                       feeLost, unread>>
    BY DEF Loop!Chunk, Loop!chainVars, Loop!redisVars, Loop!loadVars
  <1>3. PICK down : LET acc == Loop!Applied(es, down)
                    IN /\ states' = acc.states /\ sChanged' = acc.changed
                       /\ snaps' = acc.snaps /\ jobs' = acc.jobs
                       /\ missed' = (missed \ es) \cup acc.missed
                       /\ recent' = recent \cup es
    BY DEF Loop!Chunk
  <1> DEFINE acc == Loop!Applied(es, down)
  <1>4. /\ states' = acc.states /\ sChanged' = acc.changed /\ snaps' = acc.snaps /\ jobs' = acc.jobs
        /\ missed' = (missed \ es) \cup acc.missed /\ recent' = recent \cup es
    BY <1>3
  <1>5. /\ WellFormed(sLog, sHead) /\ sHead \in Nat /\ sHead >= 1 /\ sHead <= MaxBlock /\ seen \in Nat
        /\ MaxBlock \in Nat /\ todo = {}
    BY <1>1, <1>2, CacheConstants DEF LoopTypes
  <1>6. u \in Nat /\ seen < u /\ u <= sHead
    <2>1. Span \in Nat /\ Span > 0
      BY SealedConstants
    <2>2. sUpto \in 0..sHead /\ (sUpto > 0 => seen < sUpto)
      BY <1>1 DEF LoopTypes
    <2> QED
      BY <1>2, <1>5, <2>1, <2>2 DEF Loop!LatestBlock
  <1> HIDE DEF u
  <1>7. es = {i \in DOMAIN sLog : /\ seen < sLog[i].block /\ sLog[i].block <= u /\ sLog[i].kind \in Moving
                                /\ sLog[i].pool \in Tracked}
    <2>1. \A i \in DOMAIN sLog : sLog[i].block \in Nat /\ sLog[i].kind \in {"sync", "swap", "mint", "fee"}
      <3>1. \A i \in DOMAIN sLog : sLog[i] \in ChainEntry
        <4>1. sLog \in Seq(ChainEntry)
          BY <1>5 DEF WellFormed
        <4> QED
          BY <4>1
      <3> QED
        BY <3>1 DEF ChainEntry
    <2>2. \A b \in Nat : b \in (seen + 1)..u <=> seen < b /\ b <= u
      BY <1>5, <1>6
    <2>3. \A i \in DOMAIN sLog : sLog[i].pool \in Tracked <=> states[sLog[i].pool] # None
      BY <1>1 DEF LoopTypes, Tracked
    <2> QED
      BY <2>1, <2>2, <2>3 DEF Loop!Events, Moving
  <1> HIDE DEF es
  <1>8. Fetched(es)
    <2>1. \A i \in DOMAIN sLog : sLog[i].block \in Nat
      BY <1>5, LogFacts
    <2> QED
      BY <1>5, <1>6, <1>7, <2>1 DEF Fetched
  <1>9. FoldInv(acc, es, Len(sLog))
    BY <1>1, <1>8, FoldDone
  <1> HIDE DEF acc
  <1>10. Window(acc, es, u, missed')
    BY <1>4, <1>6, <1>7, <1>9 DEF Window
  <1>11. Horizon = seen /\ Horizon' = u /\ Loaded = Tracked
    BY <1>2, <1>5 DEF Horizon, Loaded
  <1>12. enabled \subseteq Loop!SealedPools /\ acc \in Accumulators(es)
    BY <1>1, <1>9 DEF LoopTypes, FoldInv, FoldTypes
  <1>t. Tracked' = Tracked /\ Loaded' = Loaded
        /\ \A p \in enabled : states'[p] = None <=> states[p] = None
    <2>1. \A p \in Tracked : states'[p] # None /\ states[p] # None
      BY <1>4, <1>9, SealedConstants DEF FoldInv, FoldTypes, Loop!State, Tracked
    <2>2. \A p \in enabled \ Tracked : states'[p] = states[p]
      BY <1>4, <1>9, <1>12 DEF FoldInv, FoldStates, Accumulators
    <2>3. \A p \in enabled : states'[p] = None <=> states[p] = None
      BY <2>1, <2>2
    <2> QED
      BY <1>2, <2>3 DEF Tracked, Loaded
  <1>13. es \subseteq DOMAIN sLog
    BY <1>7
  <1>14. \A s \in snaps' : CopyRight(sLog, orphans, missed', s) /\ s.state.block \in Nat /\ s.state.block <= u
    BY <1>1, <1>4, <1>10, ChunkCopies
  <1>15. \A s \in pending : s \in Copies /\ s.state.block <= seen /\ s.state.block \in Nat
    <2>1. \A s \in pending : s \in Copies /\ s.state.block <= seen
      BY <1>1, <1>11 DEF LoopTypes
    <2> QED
      BY <2>1 DEF Copies, Loop!State
  <1>16. LoopTypes'
    <2>1. states' \in [Loop!SealedPools -> Loop!State \cup {None}] /\ sChanged' \subseteq Tracked
          /\ snaps' \subseteq Copies /\ jobs' \in [Loop!SealedPools -> Nat] /\ acc.missed \subseteq es
      BY <1>4, <1>12 DEF Accumulators
    <2>2. missed' \subseteq DOMAIN sLog /\ recent' \subseteq DOMAIN sLog
      BY <1>1, <1>4, <1>13, <2>1 DEF LoopTypes
    <2>3. \A p \in Loop!SealedPools : jobs'[p] > 0 => /\ p \in Loop!Aerodrome \cap Tracked
                                                      /\ seen < jobs'[p] /\ jobs'[p] <= u
      BY <1>1, <1>4, <1>10, ChunkJobs
    <2>4. jobs' \in [Loop!SealedPools -> 0..MaxBlock]
      <3>1. ASSUME NEW p \in Loop!SealedPools PROVE jobs'[p] \in 0..MaxBlock
        <4>1. jobs'[p] \in Nat
          BY <2>1
        <4> QED
          BY <1>5, <1>6, <2>3, <4>1
      <3> QED
        BY <2>1, <3>1
    <2>5. ASSUME NEW p \in Tracked
          PROVE  /\ states'[p] \in Loop!State /\ states'[p].block <= sHead
                 /\ p \in Classic => states'[p].depth = Word0
      <3>1. states'[p] \in Loop!State /\ (p \in Classic => states'[p].depth = Word0)
        BY <1>4, <1>9 DEF FoldInv, FoldTypes
      <3>2. CASE p \in acc.changed
        <4>1. [pool |-> p, state |-> states'[p]] \in snaps'
          BY <1>4, <1>9, <3>2 DEF FoldInv, FoldStates
        <4>2. states'[p].block \in Nat /\ states'[p].block <= u
          BY <1>14, <4>1
        <4> QED
          BY <1>5, <1>6, <3>1, <4>2
      <3>3. CASE p \notin acc.changed
        <4>1. states'[p] = states[p]
          BY <1>4, <1>9, <1>12, <3>3 DEF FoldInv, FoldStates, Tracked
        <4> QED
          BY <1>1, <1>11, <3>1, <4>1 DEF LoopTypes
      <3> QED
        BY <3>2, <3>3
    <2>6. \A s \in snaps' \cup pending : s.state.block <= u
      BY <1>5, <1>6, <1>14, <1>15
    <2>7. sUpto' \in 0..sHead
      BY <1>2, <1>5, <1>6
    <2> QED
      BY <1>1, <1>2, <1>5, <1>6, <1>11, <1>15, <1>t, <2>1, <2>2, <2>3, <2>4, <2>5, <2>6, <2>7 DEF LoopTypes, Copies
  <1>17. WordsInv'
    <2> SUFFICES ASSUME NEW p \in Tracked
                 PROVE  WordsRight(sLog, sHead, orphans, p, u, missed', acc.states[p])
      BY <1>2, <1>4, <1>11, <1>t DEF WordsInv
    <2>1. WordsRight(sLog, sHead, orphans, p, seen, missed, states[p])
      BY <1>11 DEF LoopInv, WordsInv
    <2>2. p \in Loop!SealedPools
      BY <1>12 DEF Tracked
    <2> QED
      BY <1>1, <1>10, <2>1, <2>2, ChunkWords
  <1>18. FeeInv'
    <2> SUFFICES ASSUME NEW p \in (Loop!Aerodrome \cap Tracked) \ feeLost, acc.jobs[p] = 0
                 PROVE  FeeRight(sLog, sHead, orphans, p, u, missed', acc.states[p].fee)
      BY <1>2, <1>4, <1>11, <1>t DEF FeeInv
    <2>1. FeeRight(sLog, sHead, orphans, p, seen, missed, states[p].fee)
      BY <1>2, <1>11 DEF LoopInv, FeeInv
    <2>2. p \in Loop!SealedPools
      BY <1>12 DEF Tracked
    <2> QED
      BY <1>1, <1>10, <2>1, <2>2, ChunkFees
  <1>19. JobInv'
    <2> SUFFICES ASSUME NEW p \in Loop!SealedPools, acc.jobs[p] > 0
                 PROVE  /\ p \in acc.changed /\ [pool |-> p, state |-> acc.states[p]] \in acc.snaps
                        /\ JobRight(sLog, p, u, missed', acc.jobs[p])
      BY <1>2, <1>4 DEF JobInv
    <2> QED
      BY <1>1, <1>10, ChunkJobs
  <1>20. PublishedInv'
    <2>1. \A p \in Loaded : sRedis[p] = states[p] /\ p \in Loop!SealedPools
      BY <1>2, <1>12 DEF LoopInv, PublishedInv, Loaded, Tracked
    <2>2. \A p \in Loop!SealedPools \ acc.changed : acc.states[p] = states[p]
      BY <1>9 DEF FoldInv, FoldStates
    <2> QED
      BY <1>2, <1>4, <1>t, <2>1, <2>2 DEF PublishedInv
  <1>21. ASSUME NEW p, NEW b \in Nat, b <= seen, Skipped(sLog, missed, p, b)
         PROVE  Skipped(sLog, missed', p, b)
    BY <1>1, <1>10, <1>21, ChunkSkipped
  <1>22. CopyInv'
    <2> SUFFICES ASSUME NEW s \in snaps' \cup pending PROVE CopyRight(sLog, orphans, missed', s)
      BY <1>2 DEF CopyInv
    <2>1. CASE s \in snaps'
      BY <1>14, <2>1
    <2>2. CASE s \in pending
      <3>1. CopyRight(sLog, orphans, missed, s) /\ s.state.block \in Nat /\ s.state.block <= seen
        BY <1>15, <2>2 DEF LoopInv, CopyInv
      <3>2. Skipped(sLog, missed, s.pool, s.state.block) => Skipped(sLog, missed', s.pool, s.state.block)
        BY <1>21, <3>1
      <3> QED
        BY <3>1, <3>2 DEF CopyRight
    <2> QED
      BY <2>1, <2>2
  <1>23. VerdictInv'
    <2> SUFFICES ASSUME verdict # None
                 PROVE  Loop!VerdictsRight' /\ verdict.local.block \in Nat /\ verdict.local.block <= u
      BY <1>2, <1>11 DEF VerdictInv, Loop!VerdictsRight
    <2>1. Loop!VerdictsRight /\ verdict.local.block \in Nat /\ verdict.local.block <= seen
      BY <1>11 DEF LoopInv, VerdictInv
    <2>2. (\E i \in missed : sLog[i].pool = verdict.pool /\ sLog[i].block = verdict.local.block)
            => \E i \in missed' : sLog[i].pool = verdict.pool /\ sLog[i].block = verdict.local.block
      BY <1>21, <2>1 DEF Skipped
    <2>3. verdict.local.block <= u
      BY <1>5, <1>6, <2>1
    <2> QED
      BY <1>2, <2>1, <2>2, <2>3 DEF Loop!VerdictsRight
  <1> QED
    BY <1>16, <1>17, <1>18, <1>19, <1>20, <1>22, <1>23 DEF LoopInv

------------------------------------------------------------------------------
(* The step of the loop, and what its invariant says *)

LEMMA LoopStep ==
  ASSUME LoopInv, [Loop!Next]_(Loop!vars)
  PROVE  LoopInv'
  <1>1. CASE UNCHANGED Loop!vars
    <2>1. UNCHANGED <<sHead, sLog, orphans, enabled, sCurrent, sRedis, sPc, states, todo, half, seen, sUpto,
                      sChanged, snaps, jobs, recent, pending, verdict, missed, feeLost, unread>>
      BY <1>1 DEF Loop!vars, Loop!chainVars, Loop!redisVars, Loop!loadVars, Loop!chunkVars, Loop!pastVars
    <2>2. Horizon' = Horizon /\ Tracked' = Tracked /\ Loaded' = Loaded
      BY <2>1 DEF Horizon, Tracked, Loaded
    <2> QED
      BY <2>1, <2>2 DEF LoopInv, LoopTypes, Copies, WordsInv, FeeInv, JobInv, PublishedInv, CopyInv,
                        VerdictInv, Loop!VerdictsRight
  <1>2. CASE Loop!Next
    <2>1. CASE Loop!Chain
      BY <2>1, ChainKeeps
    <2>2. CASE Loop!Crash
      BY <2>2, CrashKeeps
    <2>3. ASSUME NEW down \in BOOLEAN, Loop!LoadWords(down) PROVE LoopInv'
      BY <2>3, LoadWordsKeeps
    <2>4. ASSUME NEW down \in BOOLEAN, Loop!LoadRest(down) PROVE LoopInv'
      BY <2>4, LoadRestKeeps
    <2>5. CASE Loop!Synchronize
      BY <2>5, SynchronizeKeeps
    <2>6. CASE Loop!Chunk
      BY <2>6, ChunkKeeps
    <2>7. CASE Loop!RefreshFees
      BY <2>7, RefreshFeesKeeps
    <2>8. CASE Loop!PublishStates
      BY <2>8, PublishStatesKeeps
    <2>9. CASE Loop!Advance
      BY <2>9, AdvanceKeeps
    <2>10. ASSUME NEW s \in pending, NEW feeDown \in BOOLEAN, Loop!Validate(s, feeDown)
           PROVE  LoopInv'
      BY <2>10, ValidateKeeps
    <2>11. CASE Loop!Reload
      BY <2>11, ReloadKeeps
    <2>12. CASE Loop!EndReload
      BY <2>12, EndReloadKeeps
    <2> QED
      BY <1>2, <2>1, <2>2, <2>3, <2>4, <2>5, <2>6, <2>7, <2>8, <2>9, <2>10, <2>11, <2>12
         DEF Loop!Next, Loop!Service
  <1> QED
    BY <1>1, <1>2

\* At the head, the words and the fee of a pool that is not excused are exact.
LEMMA LoopExact ==
  ASSUME LoopInv
  PROVE  Loop!TypeOK /\ Loop!WordsExact /\ Loop!FeeFromLastEvent
  <1>1. LoopTypes
    BY DEF LoopInv
  <1>2. /\ WellFormed(sLog, sHead) /\ sHead \in Nat /\ sHead >= 1 /\ sHead \in 1..MaxBlock /\ MaxBlock \in Nat
        /\ enabled \subseteq Loop!SealedPools
    BY <1>1, CacheConstants DEF LoopTypes
  <1>3. /\ Len(sLog) \in Nat /\ DOMAIN sLog = 1..Len(sLog)
        /\ \A i \in DOMAIN sLog : sLog[i].block \in Nat
    BY <1>2, LogFacts
  <1>4. Loop!TypeOK
    <2>1. sCurrent \in 1..MaxBlock /\ seen \in 0..MaxBlock /\ sUpto \in 0..MaxBlock
      BY <1>1, <1>2 DEF LoopTypes
    <2>2. \A s \in snaps \cup pending : s.pool \in Loop!SealedPools /\ s.state \in Loop!State
      BY <1>1, <1>2 DEF LoopTypes, Copies
    <2>3. sChanged \subseteq Loop!SealedPools /\ half \in Loop!SealedPools \cup {None}
      BY <1>1, <1>2 DEF LoopTypes, Loaded, Tracked
    <2> QED
      BY <1>1, <1>2, <2>1, <2>2, <2>3 DEF LoopTypes, Loop!TypeOK
  <1> SUFFICES ASSUME Loop!CaughtUp PROVE Loop!WordsExact /\ Loop!FeeFromLastEvent
    BY <1>4 DEF Loop!WordsExact, Loop!FeeFromLastEvent
  <1> DEFINE top == UpTo(sLog, sHead)
  <1>5. /\ sPc = "poll" /\ seen = sHead /\ Horizon = sHead /\ Loaded = Tracked
        /\ \A p \in enabled \ unread : p \in Tracked
    BY <1>1 DEF Loop!CaughtUp, Horizon, LoopTypes, Loaded, Tracked
  <1>6. /\ top \in 0..Len(sLog) /\ \A i \in DOMAIN sLog : i <= top <=> sLog[i].block <= sHead
        /\ top \in Nat /\ Loop!Through(sHead) = top
    <2>1. top \in 0..Len(sLog) /\ \A i \in DOMAIN sLog : i <= top <=> sLog[i].block <= sHead
      BY <1>2, UpToIs
    <2> QED
      BY <1>3, <2>1, OfTheLog
  <1> HIDE DEF top
  <1>7. ASSUME NEW p, ~Loop!Excused(p)
        PROVE  /\ ~Ahead(sLog, sHead, orphans, p, sHead)
               /\ LastIn(sLog, p, Moving, top) \notin missed
               /\ orphans # {} => \A i \in DOMAIN sLog : sLog[i].pool = p => sLog[i].block <= sHead
    <2>1. Loop!LastSealed(p, {"sync", "swap", "mint"}) = LastIn(sLog, p, Moving, top)
      BY <1>6, OfTheLog DEF Loop!LastSealed, Moving
    <2>2. orphans # {} => \A i \in DOMAIN sLog : sLog[i].pool = p => ~ (sLog[i].block > sHead)
      BY <1>7 DEF Loop!Excused
    <2>3. ~Ahead(sLog, sHead, orphans, p, sHead)
      <3> SUFFICES ASSUME Ahead(sLog, sHead, orphans, p, sHead) PROVE FALSE
        OBVIOUS
      <3>1. PICK i \in DOMAIN sLog : /\ sLog[i].pool = p /\ sLog[i].block > sHead
                                     /\ orphans = {} => sLog[i].block <= sHead
        BY DEF Ahead
      <3> QED
        BY <1>2, <1>3, <2>2, <3>1
    <2> QED
      BY <1>2, <1>3, <1>7, <2>1, <2>2, <2>3 DEF Loop!Excused
  <1>8. Loop!WordsExact
    <2> SUFFICES ASSUME NEW p \in enabled \ unread, ~Loop!Excused(p)
                 PROVE  /\ sRedis[p] = states[p]
                        /\ states[p].price = Loop!PriceAfter(p, Loop!Through(sHead))
                        /\ states[p].depth = Loop!DepthAfter(p, Loop!Through(sHead))
      BY DEF Loop!WordsExact
    <2>1. sRedis[p] = states[p]
      BY <1>5 DEF LoopInv, PublishedInv
    <2>2. WordsRight(sLog, sHead, orphans, p, sHead, missed, states[p])
      BY <1>5 DEF LoopInv, WordsInv
    <2>3. HasWords(sLog, p, states[p], top)
      BY <1>7, <2>2 DEF WordsRight, top
    <2> QED
      BY <1>6, <2>1, <2>3, OfTheLog DEF HasWords
  <1>9. Loop!FeeFromLastEvent
    <2> SUFFICES ASSUME NEW p \in (Loop!Aerodrome \cap enabled) \ (feeLost \cup unread), ~Loop!Excused(p)
                 PROVE  LET i == Loop!LastSealed(p, {"sync", "swap"})
                        IN  \E n \in Loop!Through(IF i = 0 THEN 1 ELSE sLog[i].block)..Loop!Through(sHead) :
                              states[p].fee = Loop!FeeAfter(p, n)
      BY DEF Loop!FeeFromLastEvent
    <2> DEFINE i == LastIn(sLog, p, {"sync", "swap"}, top)
               b == IF i = 0 THEN 1 ELSE sLog[i].block
    <2>1. Loop!LastSealed(p, {"sync", "swap"}) = i
      BY <1>6, OfTheLog DEF Loop!LastSealed
    <2>2. FeeRight(sLog, sHead, orphans, p, sHead, missed, states[p].fee)
      BY <1>5 DEF LoopInv, FeeInv
    <2>3. PICK n \in 0..Len(sLog) :
            /\ states[p].fee = FeeAt(sLog, p, n)
            /\ n <= top \/ orphans # {}
            /\ \A k, j : Followed(sLog, p, sHead, missed, k, j) => UpTo(sLog, sLog[k].block) <= n
      BY <2>2 DEF FeeRight, top
    <2> DEFINE L == LastIn(sLog, p, Moving, top)
    <2>4. /\ i \in 0..top /\ (i # 0 => sLog[i].pool = p /\ sLog[i].kind \in {"sync", "swap"})
      BY <1>6, LastInIs
    <2>5. /\ L \in 0..top /\ (L # 0 => sLog[L].pool = p /\ sLog[L].kind \in Moving)
          /\ \A k \in 1..top : sLog[k].pool = p /\ sLog[k].kind \in Moving => k <= L
      BY <1>6, LastInIs
    <2>6. L \notin missed
      BY <1>7
    <2> HIDE DEF i, L
    <2>7. b \in Nat /\ UpTo(sLog, b) <= n /\ UpTo(sLog, b) <= top /\ UpTo(sLog, b) \in Nat
      <3>1. CASE i = 0
        <4>1. b = 1
          BY <3>1
        <4>2. UpTo(sLog, 1) \in 0..Len(sLog) /\ \A k \in DOMAIN sLog : k <= UpTo(sLog, 1) <=> sLog[k].block <= 1
          BY <1>2, UpToIs
        <4>3. \A k \in DOMAIN sLog : sLog[k].block \in 2..sHead + 1
          BY <1>2 DEF WellFormed
        <4>4. UpTo(sLog, 1) = 0
          <5> SUFFICES ASSUME UpTo(sLog, 1) # 0 PROVE FALSE
            OBVIOUS
          <5>1. UpTo(sLog, 1) \in DOMAIN sLog /\ UpTo(sLog, 1) <= UpTo(sLog, 1)
            BY <1>3, <4>2
          <5>2. sLog[UpTo(sLog, 1)].block <= 1
            BY <4>2, <5>1
          <5> QED
            BY <1>2, <4>3, <5>1, <5>2
        <4> QED
          BY <1>3, <1>6, <2>3, <4>1, <4>4
      <3>2. CASE i # 0
        <4>1. i \in DOMAIN sLog /\ i \in 1..top /\ sLog[i].kind \in Moving /\ sLog[i].pool = p
              /\ b = sLog[i].block
          BY <1>3, <1>6, <2>4, <3>2 DEF Moving
        <4>2. i <= L /\ L \in DOMAIN sLog /\ L # 0
          BY <1>3, <1>6, <2>5, <4>1
        <4>3. sLog[L].block <= sHead
          BY <1>6, <2>5, <4>2
        <4>4. Followed(sLog, p, sHead, missed, i, L)
          BY <2>4, <2>5, <2>6, <3>2, <4>1, <4>2, <4>3 DEF Followed
        <4>5. b \in Nat /\ b <= sHead
          BY <1>3, <1>6, <4>1
        <4>6. UpTo(sLog, b) <= top /\ UpTo(sLog, b) \in 0..Len(sLog)
          BY <1>2, <4>5, UpToIs, UpToMonotone DEF top
        <4> QED
          BY <1>3, <2>3, <4>1, <4>4, <4>5, <4>6
      <3> QED
        BY <3>1, <3>2
    <2> HIDE DEF b
    <2>8. CASE n <= top
      <3>1. n \in UpTo(sLog, b)..top
        BY <1>3, <1>6, <2>3, <2>7, <2>8
      <3> QED
        BY <1>6, <2>1, <2>3, <3>1, OfTheLog DEF b
    <2>9. CASE ~ (n <= top)
      <3>1. top \in UpTo(sLog, b)..top
        BY <1>6, <2>7
      <3>2. \A k \in 1..n : k > top => ~ (sLog[k].pool = p /\ sLog[k].kind \in {"fee"})
        <4>1. \A k \in DOMAIN sLog : sLog[k].pool = p => sLog[k].block <= sHead
          BY <1>7, <2>3, <2>9
        <4>2. \A k \in 1..n : k \in DOMAIN sLog
          BY <1>3, <2>3
        <4> QED
          BY <1>3, <1>6, <4>1, <4>2
      <3>3. n \in Nat /\ \A k \in 1..top : k > n => ~ (sLog[k].pool = p /\ sLog[k].kind \in {"fee"})
        BY <1>3, <1>6, <2>3, <2>9
      <3>4. LastIn(sLog, p, {"fee"}, top) = LastIn(sLog, p, {"fee"}, n)
        BY <1>6, <3>2, <3>3, SameLast
      <3>5. states[p].fee = FeeAt(sLog, p, top)
        BY <2>3, <3>4 DEF FeeAt
      <3> QED
        BY <1>6, <2>1, <3>1, <3>5, OfTheLog DEF b
    <2> QED
      BY <2>8, <2>9
  <1> QED
    BY <1>4, <1>8, <1>9

\* A step of either part is a step of the loop, or leaves it as it was.
LEMMA EitherLoop == LoopInv /\ [EitherNext]_<<part, vars, sealedPart>> => LoopInv'
<1> SUFFICES ASSUME LoopInv, [EitherNext]_<<part, vars, sealedPart>> PROVE LoopInv'
  OBVIOUS
<1>1. [Loop!Next]_(Loop!vars)
  <2>1. CASE UNCHANGED sealedPart
    BY <2>1 DEF sealedPart, Loop!vars, Loop!chainVars, Loop!redisVars, Loop!loadVars, Loop!chunkVars,
                Loop!pastVars
  <2>2. CASE Loop!Next
    BY <2>2
  <2> QED
    BY <2>1, <2>2 DEF EitherNext
<1> QED BY <1>1, LoopStep

LEMMA EitherStep ==
  TypeOK /\ LogInv /\ SealedInv /\ LoopInv /\ [EitherNext]_<<part, vars, sealedPart>>
    => (TypeOK /\ LogInv /\ SealedInv /\ LoopInv)'
<1> SUFFICES ASSUME TypeOK, LogInv, SealedInv, LoopInv, [EitherNext]_<<part, vars, sealedPart>>
             PROVE  (TypeOK /\ LogInv /\ SealedInv /\ LoopInv)'
  OBVIOUS
<1>1. [Next]_vars
  BY DEF EitherNext
<1> QED BY <1>1, TypeStep, LogStep, SealedStep, EitherLoop

------------------------------------------------------------------------------
(* The theorems *)

LEMMA Inductive == ~LateLogs => (Spec => []IInv)
<1> SUFFICES ASSUME ~LateLogs PROVE Spec => []IInv
  OBVIOUS
<1>1. Init => IInv
  BY InitInv
<1>2. IInv /\ [Next]_vars => IInv'
  BY TypeStep, LogStep, SealedStep, FlashStep, DrainStep, CoverStep DEF IInv
<1> QED BY <1>1, <1>2, PTL DEF Spec

\* Every variable of the caches keeps its type, whatever arrives late.
THEOREM TypeCorrect == Spec => []TypeOK
<1>1. Init => TypeOK /\ LogInv /\ SealedInv
  BY InitInv DEF IInv
<1>2. TypeOK /\ LogInv /\ SealedInv /\ [Next]_vars => (TypeOK /\ LogInv /\ SealedInv)'
  BY TypeStep, LogStep, SealedStep
<1> QED BY <1>1, <1>2, PTL DEF Spec

\* run_search_cycle hears of every change of a pool without ticks: for any pools,
\* spans and crashes, with or without Flashblocks, if pending logs are dealt with
\* before their block is sealed.
THEOREM ChangesHeard == ~LateLogs => (Spec => []NoChangeMissed)
<1> SUFFICES ASSUME ~LateLogs PROVE Spec => []NoChangeMissed
  OBVIOUS
<1>1. IInv => NoChangeMissed
  BY DEF IInv, CoverInv, Heard, NoChangeMissed
<1> QED BY <1>1, Inductive, PTL

\* At the head, what market-data publishes of a pool is what the chain says, unless its
\* last read at startup or reload failed: for any pools, words, fees, span, delay, failed
\* calls, crashes and replaced blocks.
THEOREM StatesStayExact == EitherSpec => []StatesExact
<1> DEFINE Both == TypeOK /\ LogInv /\ SealedInv /\ LoopInv
<1>1. EitherInit => Both
  BY InitInv, LoopInit DEF EitherInit, IInv
<1>2. Both /\ [EitherNext]_<<part, vars, sealedPart>> => Both'
  BY EitherStep
<1>3. Both => StatesExact
  BY LoopExact DEF StatesExact, Loop!StatesExact
<1> HIDE DEF Both
<1> QED BY <1>1, <1>2, <1>3, PTL DEF EitherSpec

\* The delayed validation accuses no state whose words are the chain's and passes none
\* that is wrong, unless a log was left out or a block replaced.
THEOREM VerdictsStayRight == EitherSpec => []VerdictsRight
<1>1. EitherInit => LoopInv
  BY LoopInit DEF EitherInit
<1>2. LoopInv /\ [EitherNext]_<<part, vars, sealedPart>> => LoopInv'
  BY EitherLoop
<1>3. LoopInv => VerdictsRight
  BY DEF LoopInv, VerdictInv, VerdictsRight
<1> QED BY <1>1, <1>2, <1>3, PTL DEF EitherSpec
==============================================================================

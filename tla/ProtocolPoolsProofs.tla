-------------------------- MODULE ProtocolPoolsProofs --------------------------
(***************************************************************************)
(* The safety of ProtocolPools for any logs, processes and failures: an    *)
(* inductive invariant, and what follows from it.                          *)
(***************************************************************************)
EXTENDS ProtocolPools, WellFoundedInduction, TLAPS

------------------------------------------------------------------------------
(* The inductive invariant *)

\* States on their way to Redis are no newer than their rows.
Inflight(w) == prom[w].rows \cup prom[w].done \cup ({prom[w].row} \cap State)

BoundInv ==
  /\ \A w \in Promoters : \A s \in Inflight(w) : s.block <= obs[s.pool].latest
  /\ \A r \in queue : r[3] <= obs[r[2]].latest
  /\ hyd.logs \subseteq LogsIn(1, head) /\ m.inbox \subseteq LogsIn(1, m.upto)

\* Between the pool and the status of a row, the pool is in the registry.
MarkInv ==
  \A w \in Promoters : prom[w].at = "mark" => prom[w].row \in State /\ prom[w].row.pool \in registry

\* Records are of published pools.
RecordInv == \A r \in queue : redis[r[2]] # NoState

\* What a log says has been taken over, by market-data, or was before its start.
Handled(l) == l.block <= m.upto /\ l \notin m.inbox

\* The price of a state is one of its block.
RightPrice(s) ==
  s.pool \in V4 => /\ Prices[s.pool][s.block - 1] <= s.price
                   /\ s.price <= Prices[s.pool][s.block]

\* No log is lost, replayed or hydrated over a newer one.
Undisturbed == "hydrator" \notin on /\ crashes = 0 /\ faults = 0

\* Logs are handled in their order.
OrderInv ==
  /\ m.at # "logs" => m.inbox = {}
  /\ m.at = "poll" => m.seen = m.upto
  /\ \A l \in m.inbox, k \in Logs : Handled(k) => k.stamp < l.stamp

\* The price of a row is that of the last log with a price, and the row is as new
\* as the last log.
RowInv ==
  \A p \in V4 :
    /\ obs[p].latest > 0 => \E l \in Logs : Handled(l) /\ l.pool = p /\ l.block = obs[p].latest
    /\ obs[p].price > 0 =>
         /\ \E l \in Logs : /\ Handled(l) /\ l.pool = p /\ HasPrice(l)
                            /\ l.stamp = obs[p].price /\ l.block <= obs[p].latest
         /\ \A l \in Logs : Handled(l) /\ l.pool = p /\ HasPrice(l) => l.stamp <= obs[p].price

\* So are the prices in Redis, and those on their way.
RedisRight == \A p \in Pools : redis[p] # NoState => RightPrice(redis[p])
FlightRight == \A w \in Promoters : \A s \in Inflight(w) : RightPrice(s)

PriceInv == Undisturbed => hyd = NoScan /\ OrderInv /\ RowInv /\ RedisRight /\ FlightRight

\* A state is under the name of its pool.
NamedInv == \A p \in Pools : redis[p] # NoState => redis[p].pool = p

IInv ==
  /\ TypeOK /\ BoundInv /\ MarkInv /\ RecordInv
  /\ ImportedInRegistry /\ RecordedIsPublished /\ NamedInv /\ PriceInv

------------------------------------------------------------------------------
(* Numbers *)

\* A nonempty set of naturals has a least element.
LEMMA Least ==
  ASSUME NEW S \in SUBSET Nat, S # {}
  PROVE  \E m0 \in S : \A k \in S : m0 <= k
<1>1. PICK m0 \in S : \A k \in S : ~ (<<k, m0>> \in OpToRel(<, Nat))
  BY NatLessThanWellFounded, WFMin
<1>2. \A k \in S : ~ (k < m0)
  BY <1>1 DEF OpToRel
<1> QED BY <1>2, SMT

\* A nonempty set of naturals up to n has a Max, which is one of them.
LEMMA MaxFacts ==
  ASSUME NEW n \in Nat, NEW S \in SUBSET (0..n), S # {}
  PROVE  Max(S) \in S /\ \A k \in S : k <= Max(S)
<1> DEFINE T == {n - i : i \in S}
<1>1. \A i \in S : i \in 0..n /\ n - i \in Nat
  OBVIOUS
<1>2. T \in SUBSET Nat /\ T # {}
  BY <1>1
<1>3. PICK t \in T : \A k \in T : t <= k
  BY <1>2, Least
<1>4. PICK j \in S : t = n - j
  OBVIOUS
<1>5. ASSUME NEW k \in S PROVE j >= k
  <2>1. n - j <= n - k
    BY <1>3, <1>4
  <2>2. j \in 0..n /\ k \in 0..n
    OBVIOUS
  <2> HIDE DEF T
  <2> QED BY <2>1, <2>2
<1> HIDE DEF T
<1>6. Max(S) \in S /\ \A k \in S : Max(S) >= k
  BY <1>5, Zenon DEF Max
<1> QED BY <1>6

LEMMA PairFacts ==
  ASSUME NEW a \in Nat, NEW b \in Nat
  PROVE  /\ Max({a, b}) \in {a, b} /\ a <= Max({a, b}) /\ b <= Max({a, b})
         /\ Min({a, b}) \in {a, b} /\ Min({a, b}) <= a /\ Min({a, b}) <= b
<1>1. \E x \in {a, b} : \A y \in {a, b} : x >= y
  OBVIOUS
<1>2. Max({a, b}) \in {a, b} /\ \A y \in {a, b} : Max({a, b}) >= y
  BY <1>1, Zenon DEF Max
<1>3. \E x \in {a, b} : \A y \in {a, b} : x =< y
  OBVIOUS
<1>4. Min({a, b}) \in {a, b} /\ \A y \in {a, b} : Min({a, b}) =< y
  BY <1>3, Zenon DEF Min
<1> QED BY <1>2, <1>4

------------------------------------------------------------------------------
(* Logs *)

LEMMA LogFacts ==
  ASSUME NEW l \in Logs
  PROVE  \E b \in Blocks : \E i \in 1..Len(LogsAt[b]) :
           /\ l = [kind |-> LogsAt[b][i][1], pool |-> LogsAt[b][i][2], block |-> b, stamp |-> Stamp(b, i)]
           /\ LogsAt[b][i] \in {"initialize", "swap", "modify"} \X Pools
           /\ i \in Nat /\ i < Width /\ b \in Nat /\ Width \in Nat
           /\ Stamp(b, i) = b * Width + i
<1>1. PICK b \in Blocks : \E i \in 1..Len(LogsAt[b]) :
        l = [kind |-> LogsAt[b][i][1], pool |-> LogsAt[b][i][2], block |-> b, stamp |-> Stamp(b, i)]
  BY DEF Logs
<1>2. PICK i \in 1..Len(LogsAt[b]) :
        l = [kind |-> LogsAt[b][i][1], pool |-> LogsAt[b][i][2], block |-> b, stamp |-> Stamp(b, i)]
  BY <1>1
<1>3. LogsAt[b] \in Seq({"initialize", "swap", "modify"} \X Pools) /\ b \in Nat
  BY ProtocolAssumption DEF Blocks
<1>4. Len(LogsAt[b]) < Width /\ Width \in Nat /\ Len(LogsAt[b]) \in Nat
  BY <1>3, ProtocolAssumption
<1>5. LogsAt[b][i] \in {"initialize", "swap", "modify"} \X Pools
  BY <1>3, <1>4
<1>6. Stamp(b, i) = b * Width + i
  BY DEF Stamp
<1>7. i \in Nat /\ i < Width
  BY <1>4
<1> QED BY <1>2, <1>3, <1>4, <1>5, <1>6, <1>7

LEMMA LogType ==
  ASSUME NEW l \in Logs
  PROVE  /\ l.pool \in Pools /\ l.block \in Blocks /\ l.block \in Nat /\ l.block > 0
         /\ l.stamp \in Nat
         /\ l.kind \in {"initialize", "swap", "modify"}
<1>1. PICK b \in Blocks : \E i \in 1..Len(LogsAt[b]) :
        /\ l = [kind |-> LogsAt[b][i][1], pool |-> LogsAt[b][i][2], block |-> b, stamp |-> Stamp(b, i)]
        /\ LogsAt[b][i] \in {"initialize", "swap", "modify"} \X Pools
        /\ i \in Nat /\ i < Width /\ b \in Nat /\ Width \in Nat
        /\ Stamp(b, i) = b * Width + i
  BY LogFacts
<1>2. PICK i \in 1..Len(LogsAt[b]) :
        /\ l = [kind |-> LogsAt[b][i][1], pool |-> LogsAt[b][i][2], block |-> b, stamp |-> Stamp(b, i)]
        /\ LogsAt[b][i] \in {"initialize", "swap", "modify"} \X Pools
        /\ i \in Nat /\ i < Width /\ b \in Nat /\ Width \in Nat
        /\ Stamp(b, i) = b * Width + i
  BY <1>1
<1>3. b > 0 /\ b \in Nat
  BY DEF Blocks
<1>4. b * Width + i \in Nat
  BY <1>2
<1> QED BY <1>2, <1>3, <1>4

\* A log of an earlier block has a smaller stamp, and a stamp has one log.
LEMMA StampOrder ==
  ASSUME NEW k \in Logs, NEW l \in Logs
  PROVE  /\ k.block < l.block => k.stamp < l.stamp
         /\ k.stamp = l.stamp => k = l
<1>1. PICK b \in Blocks : \E i \in 1..Len(LogsAt[b]) :
        /\ k = [kind |-> LogsAt[b][i][1], pool |-> LogsAt[b][i][2], block |-> b, stamp |-> Stamp(b, i)]
        /\ i \in Nat /\ i < Width /\ b \in Nat /\ Width \in Nat /\ Stamp(b, i) = b * Width + i
  BY LogFacts
<1>2. PICK i \in 1..Len(LogsAt[b]) :
        /\ k = [kind |-> LogsAt[b][i][1], pool |-> LogsAt[b][i][2], block |-> b, stamp |-> Stamp(b, i)]
        /\ i \in Nat /\ i < Width /\ b \in Nat /\ Width \in Nat /\ Stamp(b, i) = b * Width + i
  BY <1>1
<1>3. PICK c \in Blocks : \E j \in 1..Len(LogsAt[c]) :
        /\ l = [kind |-> LogsAt[c][j][1], pool |-> LogsAt[c][j][2], block |-> c, stamp |-> Stamp(c, j)]
        /\ j \in Nat /\ j < Width /\ c \in Nat /\ Width \in Nat /\ Stamp(c, j) = c * Width + j
  BY LogFacts
<1>4. PICK j \in 1..Len(LogsAt[c]) :
        /\ l = [kind |-> LogsAt[c][j][1], pool |-> LogsAt[c][j][2], block |-> c, stamp |-> Stamp(c, j)]
        /\ j \in Nat /\ j < Width /\ c \in Nat /\ Width \in Nat /\ Stamp(c, j) = c * Width + j
  BY <1>3
<1>5. ASSUME NEW x \in Nat, NEW y \in Nat, NEW u \in Nat, NEW v \in Nat, x < y, u < Width
      PROVE  x * Width + u < y * Width + v
  <2> DEFINE d == y - (x + 1)
  <2>1. d \in Nat /\ y = x + 1 + d BY <1>5
  <2>2. Width \in Nat BY <1>2
  <2>3. d * Width \in Nat /\ x * Width \in Nat BY <2>1, <2>2
  <2>4. y * Width = x * Width + Width + d * Width BY <2>1, <2>2
  <2> HIDE DEF d
  <2> QED BY <1>5, <2>2, <2>3, <2>4
<1>6. b < c => k.stamp < l.stamp
  BY <1>2, <1>4, <1>5
<1>7. c < b => l.stamp < k.stamp
  BY <1>2, <1>4, <1>5
<1>8. ASSUME k.stamp = l.stamp PROVE k = l
  <2>1. b = c
    <3>1. k.stamp \in Nat /\ l.stamp \in Nat BY LogType
    <3>2. ~ (b < c) /\ ~ (c < b) BY <1>6, <1>7, <1>8, <3>1
    <3> QED BY <1>2, <1>4, <3>2
  <2> DEFINE z == b * Width
  <2>2. z \in Int BY <1>2
  <2>3. z + i = z + j BY <1>2, <1>4, <1>8, <2>1
  <2> HIDE DEF z
  <2>4. i = j BY <1>2, <1>4, <2>2, <2>3
  <2> QED BY <1>2, <1>4, <2>1, <2>4
<1>9. k.block = b /\ l.block = c
  BY <1>2, <1>4
<1> QED BY <1>6, <1>8, <1>9

------------------------------------------------------------------------------
(* Type correctness *)

LEMMA UpsertedFacts ==
  ASSUME NEW row \in Row, row.first <= row.latest, NEW l \in Logs
  PROVE  LET new == Upserted(row, l)
         IN /\ new \in Row /\ new.first <= new.latest
            /\ row.latest <= new.latest /\ new.latest \in {row.latest, l.block}
            /\ l.block <= new.latest
            /\ new.status # "imported"
            /\ new.price = IF HasPrice(l) THEN l.stamp ELSE row.price
<1> DEFINE new == Upserted(row, l)
<1>1. l.block \in Nat /\ l.stamp \in Nat
  BY LogType
<1>2. row.latest \in Nat /\ row.first \in Nat /\ row.price \in Nat /\ row.liquidity \in Nat
      /\ row.meta \in BOOLEAN
  BY DEF Row
<1>3. HasMeta(l) \in BOOLEAN
  BY DEF HasMeta
<1>4. /\ Max({row.latest, l.block}) \in {row.latest, l.block}
      /\ row.latest <= Max({row.latest, l.block}) /\ l.block <= Max({row.latest, l.block})
      /\ Min({row.first, l.block}) \in {row.first, l.block}
      /\ Min({row.first, l.block}) <= l.block /\ Min({row.first, l.block}) <= row.first
  BY <1>1, <1>2, PairFacts
<1>5. (row.meta \/ HasMeta(l)) \in BOOLEAN
  BY <1>2, <1>3
<1> DEFINE first == IF row = NoRow THEN l.block ELSE Min({row.first, l.block})
           latest == Max({row.latest, l.block})
           price == IF HasPrice(l) THEN l.stamp ELSE row.price
           liquidity == IF HasLiquidity(l) THEN l.stamp ELSE row.liquidity
           meta == row.meta \/ HasMeta(l)
<1>6. first \in Nat /\ latest \in Nat /\ first <= latest /\ price \in Nat /\ liquidity \in Nat
  BY <1>1, <1>2, <1>4
<1>7. new = [status |-> "observed", meta |-> meta, price |-> price, liquidity |-> liquidity,
             first |-> first, latest |-> latest]
  BY DEF Upserted
<1>8. row.latest <= latest /\ latest \in {row.latest, l.block} /\ l.block <= latest
  BY <1>4
<1>9. price = IF HasPrice(l) THEN l.stamp ELSE row.price
  OBVIOUS
<1>10. meta \in BOOLEAN
  BY <1>5
<1> HIDE DEF first, latest, price, liquidity, meta, new
<1>11. new \in Row /\ new.first = first /\ new.latest = latest /\ new.status = "observed"
       /\ new.price = price
  BY <1>6, <1>7, <1>10 DEF Row
<1>12. new.status # "imported"
  BY <1>11
<1> QED BY <1>6, <1>8, <1>9, <1>11, <1>12 DEF new

\* An upsert keeps the rows well formed and makes none of them older.
LEMMA UpsertFacts ==
  ASSUME TypeOK, NEW l \in Logs, l.block <= head, Upsert(l)
  PROVE  /\ obs' \in [Pools -> Row]
         /\ \A p \in Pools : /\ obs'[p].first <= obs'[p].latest /\ obs'[p].latest <= head
                             /\ obs[p].latest <= obs'[p].latest
                             /\ obs'[p].status = "imported" => obs[p].status = "imported"
         /\ obs'[l.pool] = Upserted(obs[l.pool], l)
         /\ \A p \in Pools : p # l.pool => obs'[p] = obs[p]
<1>1. obs \in [Pools -> Row] /\ l.pool \in Pools /\ l.block \in Nat /\ head \in Nat
  BY LogType, ProtocolAssumption DEF TypeOK
<1>2. obs' = [obs EXCEPT ![l.pool] = Upserted(obs[l.pool], l)]
  BY DEF Upsert
<1>3. obs[l.pool] \in Row /\ obs[l.pool].first <= obs[l.pool].latest /\ obs[l.pool].latest <= head
  BY <1>1 DEF TypeOK
<1> DEFINE new == Upserted(obs[l.pool], l)
<1>4. /\ new \in Row /\ new.first <= new.latest
      /\ obs[l.pool].latest <= new.latest /\ new.latest \in {obs[l.pool].latest, l.block}
      /\ new.status # "imported"
  BY <1>3, UpsertedFacts
<1>5. new.latest <= head
  BY <1>3, <1>4
<1>6. obs'[l.pool] = new /\ obs' \in [Pools -> Row]
  BY <1>1, <1>2, <1>4
<1>7. \A p \in Pools : p # l.pool => obs'[p] = obs[p]
  BY <1>1, <1>2
<1> HIDE DEF new
<1>8. ASSUME NEW p \in Pools
      PROVE  /\ obs'[p].first <= obs'[p].latest /\ obs'[p].latest <= head
             /\ obs[p].latest <= obs'[p].latest
             /\ obs'[p].status = "imported" => obs[p].status = "imported"
  <2>1. CASE p = l.pool
    BY <2>1, <1>4, <1>5, <1>6
  <2>2. CASE p # l.pool
    <3>1. obs[p] \in Row /\ obs[p].first <= obs[p].latest /\ obs[p].latest <= head
      BY DEF TypeOK
    <3>2. obs[p].latest \in Nat
      BY <3>1 DEF Row
    <3> QED BY <2>2, <1>7, <3>1, <3>2
  <2> QED BY <2>1, <2>2
<1> QED BY <1>6, <1>7, <1>8 DEF new

LEMMA HeadNat == TypeOK => head \in Nat /\ Len(LogsAt) \in Nat /\ head <= Len(LogsAt)
<1>1. Len(LogsAt) \in Nat
  BY ProtocolAssumption
<1> QED BY <1>1 DEF TypeOK

\* What may be published is a state of a complete row, under its block.
LEMMA SelectedFacts ==
  ASSUME TypeOK, NEW kind, NEW min, NEW p \in Selected(kind, min)
  PROVE  /\ p \in Pools /\ StateOf(p) \in State /\ StateOf(p).pool = p
         /\ StateOf(p).block = obs[p].latest /\ Quoteable(p)
         /\ p \in V4 => StateOf(p).price = obs[p].price /\ obs[p].price > 0
<1>1. p \in Pools /\ Quoteable(p) /\ obs[p].latest > recorded[p]
  BY DEF Selected, Pools
<1>2. obs[p] \in Row /\ recorded[p] \in Nat /\ obs[p].latest <= head
  BY <1>1 DEF TypeOK
<1>3. obs[p].latest \in Nat /\ obs[p].price \in Nat
  BY <1>2 DEF Row
<1>4. obs[p].latest \in Blocks
  BY <1>1, <1>2, <1>3, HeadNat DEF Blocks
<1>5. p \notin V4 => model[p] \in Nat
  BY <1>1 DEF TypeOK, Pools
<1>6. StateOf(p).price \in Nat
  BY <1>3, <1>5 DEF StateOf
<1>7. p \in V4 => obs[p].price > 0
  BY <1>1 DEF Quoteable
<1>8. StateOf(p) \in State
  BY <1>1, <1>3, <1>4, <1>5 DEF StateOf, State
<1> QED BY <1>1, <1>7, <1>8 DEF StateOf

LEMMA TypeInit == Init => TypeOK /\ BoundInv
<1> SUFFICES ASSUME Init PROVE TypeOK /\ BoundInv
  OBVIOUS
<1>1. Len(LogsAt) \in Nat /\ head \in 0..Len(LogsAt) /\ on \in Scenarios
  BY ProtocolAssumption DEF Init
<1>2. obs \in [Pools -> Row] /\ \A p \in Pools : obs[p].first = 0 /\ obs[p].latest = 0
  BY DEF Init, NoRow, Row
<1>3. prom \in [Promoters -> Promotion]
  BY DEF Init, NoPromotion, Promotion
<1>4. m \in [at : {"poll", "logs", "promote"}, seen : 0..head, upto : 0..head,
             inbox : SUBSET Logs, observed : BOOLEAN] /\ m.inbox = {}
  BY <1>1 DEF Init, Polling
<1>5. hyd \in [pending : SUBSET V4, logs : SUBSET Logs] /\ hyd.logs = {}
  BY DEF Init, NoScan
<1>6. Scans[on] \in Nat /\ Failures \in Nat
  BY <1>1, ProtocolAssumption
<1>7. TypeOK
  BY <1>1, <1>2, <1>3, <1>4, <1>5, <1>6, ProtocolAssumption DEF Init, TypeOK, Pools
<1>8. ASSUME NEW w \in Promoters PROVE Inflight(w) = {}
  BY NoStateIsNone DEF Init, NoPromotion, Inflight
<1>9. BoundInv
  BY <1>4, <1>5, <1>8 DEF Init, BoundInv
<1> QED BY <1>7, <1>9

\* States in flight stay bounded while rows only get newer.
LEMMA BoundKept ==
  ASSUME TypeOK, BoundInv, TypeOK',
         \A p \in Pools : obs[p].latest <= obs'[p].latest,
         prom' = prom, queue' \subseteq queue, hyd'.logs \subseteq hyd.logs,
         m'.inbox \subseteq m.inbox, m'.upto = m.upto, head' = head
  PROVE  BoundInv'
<1>1. ASSUME NEW p \in Pools PROVE obs[p].latest \in Nat /\ obs'[p].latest \in Nat
  BY DEF TypeOK, Row
<1>2. ASSUME NEW w \in Promoters, NEW s \in Inflight(w)' PROVE s.block <= obs'[s.pool].latest
  <2>1. s \in Inflight(w)
    BY DEF Inflight
  <2>2. s \in State
    BY <2>1 DEF Inflight, TypeOK, Promotion
  <2>3. s.block \in Nat /\ s.pool \in Pools
    BY <2>2 DEF State, Blocks
  <2>4. s.block <= obs[s.pool].latest
    BY <2>1 DEF BoundInv
  <2> QED BY <1>1, <2>3, <2>4
<1>3. ASSUME NEW r \in queue' PROVE r[3] <= obs'[r[2]].latest
  <2>1. r \in queue /\ r \in Promoters \X Pools \X Blocks
    BY DEF TypeOK
  <2>2. r[2] \in Pools /\ r[3] \in Nat
    BY <2>1 DEF Blocks
  <2>3. r[3] <= obs[r[2]].latest
    BY <2>1 DEF BoundInv
  <2> QED BY <1>1, <2>2, <2>3
<1>4. hyd'.logs \subseteq LogsIn(1, head') /\ m'.inbox \subseteq LogsIn(1, m'.upto)
  BY DEF BoundInv
<1> QED BY <1>2, <1>3, <1>4 DEF BoundInv

\* A flush records nothing but what is in its batch.
LEMMA InsertedFacts ==
  ASSUME TypeOK, BoundInv, NEW batch \in Batches, NEW p \in Pools
  PROVE  /\ Inserted(batch)[p] \in Nat /\ Inserted(batch)[p] <= obs[p].latest
         /\ Inserted(batch)[p] = recorded[p] \/ \E r \in batch : r[2] = p
<1> DEFINE S == {recorded[p]} \cup {r[3] : r \in {q \in batch : q[2] = p}}
<1>0. obs[p].latest \in Nat /\ recorded[p] \in Nat
  BY DEF TypeOK, Row
<1>1. ASSUME NEW r \in batch, r[2] = p PROVE r[3] \in 0..obs[p].latest
  <2>1. r \in Promoters \X Pools \X Blocks /\ r[3] <= obs[r[2]].latest
    BY DEF TypeOK, BoundInv, Batches
  <2>2. r[3] \in Nat
    BY <2>1 DEF Blocks
  <2> QED BY <1>0, <1>1, <2>1, <2>2
<1>2. recorded[p] \in 0..obs[p].latest
  BY <1>0 DEF TypeOK
<1>3. S \in SUBSET (0..obs[p].latest) /\ S # {}
  BY <1>1, <1>2
<1>4. Inserted(batch)[p] = Max(S)
  BY DEF Inserted
<1>5. \A x \in S : x = recorded[p] \/ \E r \in batch : r[2] = p
  OBVIOUS
<1> HIDE DEF S
<1>6. Max(S) \in S
  BY <1>0, <1>3, MaxFacts
<1>7. Max(S) \in 0..obs[p].latest
  BY <1>3, <1>6
<1> QED BY <1>0, <1>4, <1>5, <1>6, <1>7

\* Every action keeps the types, and the states in flight below their rows.
LEMMA TypeStep == TypeOK /\ BoundInv /\ MarkInv /\ [Next]_vars => TypeOK' /\ BoundInv'
<1> SUFFICES ASSUME TypeOK, BoundInv, MarkInv, [Next]_vars PROVE TypeOK' /\ BoundInv'
  OBVIOUS
<1> USE HeadNat
<1>0. /\ \A p \in Pools : obs[p] \in Row /\ obs[p].latest \in Nat /\ obs[p].latest <= head
      /\ \A w \in Promoters : prom[w] \in Promotion
      /\ NoPromotion \in Promotion
      /\ \A p \in Pools : recorded[p] \in Nat
  BY DEF TypeOK, Row, NoPromotion, Promotion
<1>1. CASE NewBlock
  <2>1. head' \in 0..Len(LogsAt) /\ head <= head' /\ head' = head + 1
    BY <1>1 DEF NewBlock
  <2>2. \A p \in Pools : obs[p].latest <= head'
    BY <1>0, <2>1
  <2>3. m \in [at : {"poll", "logs", "promote"}, seen : 0..head', upto : 0..head',
               inbox : SUBSET Logs, observed : BOOLEAN]
    BY <2>1 DEF TypeOK
  <2>4. hyd.logs \subseteq LogsIn(1, head')
    <3>1. ASSUME NEW l \in hyd.logs PROVE l \in LogsIn(1, head')
      <4>1. l \in Logs /\ l.block <= head /\ 1 <= l.block
        BY DEF BoundInv, LogsIn
      <4>2. l.block \in Nat
        BY <4>1, LogType
      <4> QED BY <4>1, <4>2, <2>1 DEF LogsIn
    <3> QED BY <3>1
  <2>5. watermark \in 0..head'
    BY <2>1 DEF TypeOK
  <2>6. UNCHANGED <<on, obs, model, registry, redis, recorded, queue, watermark, m, prom, hyd,
                    faults, crashes, scans>>
    BY <1>1 DEF NewBlock, rowVars, storeVars
  <2>7. TypeOK'
    BY <2>1, <2>2, <2>3, <2>5, <2>6 DEF TypeOK
  <2>8. BoundInv'
    BY <2>4, <2>6 DEF BoundInv, Inflight
  <2> QED BY <2>7, <2>8
<1>2. ASSUME NEW w \in Promoters, SelectRows(w) PROVE TypeOK' /\ BoundInv'
  <2> DEFINE rows == {StateOf(p) : p \in Selected(prom[w].kind, prom[w].min)}
             new == [prom[w] EXCEPT !.at = IF rows = {} THEN "publish" ELSE "pool", !.rows = rows]
  <2>1. \A s \in rows : s \in State /\ s.block <= obs[s.pool].latest
    BY <1>0, SelectedFacts
  <2>2. prom' = [prom EXCEPT ![w] = new]
    BY <1>2 DEF SelectRows
  <2>3. rows \in SUBSET State
    BY <2>1
  <2> HIDE DEF rows
  <2>4. new \in Promotion /\ new.rows = rows /\ new.row = prom[w].row /\ new.done = prom[w].done
    BY <1>0, <2>3 DEF Promotion
  <2> HIDE DEF new
  <2>5. prom' \in [Promoters -> Promotion] /\ prom'[w] = new
        /\ \A v \in Promoters : v # w => prom'[v] = prom[v]
    BY <2>2, <2>4 DEF TypeOK
  <2>6. UNCHANGED <<on, head, obs, model, registry, redis, recorded, queue, watermark, m, hyd,
                    faults, crashes, scans>>
    BY <1>2 DEF SelectRows, rowVars, storeVars
  <2>7. TypeOK'
    BY <2>5, <2>6 DEF TypeOK
  <2>8. ASSUME NEW v \in Promoters, NEW s \in Inflight(v)' PROVE s.block <= obs[s.pool].latest
    BY <2>1, <2>4, <2>5 DEF BoundInv, Inflight
  <2>9. BoundInv'
    BY <2>6, <2>8 DEF BoundInv
  <2> QED BY <2>7, <2>9
<1>3. ASSUME NEW w \in Promoters, WritePool(w) PROVE TypeOK' /\ BoundInv'
  <2>1. PICK s \in prom[w].rows :
          /\ registry' = registry \cup {s.pool}
          /\ prom' = [prom EXCEPT ![w].at = "mark", ![w].row = s, ![w].rows = @ \ {s}]
    BY <1>3 DEF WritePool
  <2>2. s \in State
    BY <1>0, <2>1 DEF Promotion
  <2> DEFINE new == [prom[w] EXCEPT !.at = "mark", !.row = s, !.rows = @ \ {s}]
  <2>3. prom' = [prom EXCEPT ![w] = new]
    BY <2>1
  <2>4. new \in Promotion /\ new.rows = prom[w].rows \ {s} /\ new.row = s
        /\ new.done = prom[w].done
    BY <1>0, <2>2 DEF Promotion
  <2> HIDE DEF new
  <2>5. prom' \in [Promoters -> Promotion] /\ prom'[w] = new
        /\ \A v \in Promoters : v # w => prom'[v] = prom[v]
    BY <2>3, <2>4 DEF TypeOK
  <2>6. UNCHANGED <<on, head, obs, model, redis, recorded, queue, watermark, m, hyd,
                    faults, crashes, scans>>
    BY <1>3 DEF WritePool, storeVars
  <2>7. registry' \subseteq Pools
    BY <2>1, <2>2 DEF TypeOK, State
  <2>8. TypeOK'
    BY <2>5, <2>6, <2>7 DEF TypeOK
  <2>9. ASSUME NEW v \in Promoters, NEW t \in Inflight(v)' PROVE t.block <= obs[t.pool].latest
    BY <2>1, <2>4, <2>5 DEF BoundInv, Inflight
  <2>10. BoundInv'
    BY <2>6, <2>9 DEF BoundInv
  <2> QED BY <2>8, <2>10
<1>4. ASSUME NEW w \in Promoters, MarkImported(w) PROVE TypeOK' /\ BoundInv'
  <2> DEFINE new == [prom[w] EXCEPT !.row = NoState, !.done = @ \cup {prom[w].row},
                                    !.at = IF prom[w].rows = {} THEN "publish" ELSE "pool"]
             p == prom[w].row.pool
  <2>1. prom[w].row \in State /\ p \in Pools
    BY <1>4 DEF MarkImported, Promoting, MarkInv, State
  <2>2. prom' = [prom EXCEPT ![w] = new]
    BY <1>4 DEF MarkImported, NextRow
  <2>3. new \in Promotion /\ new.rows = prom[w].rows /\ new.row = NoState
        /\ new.done = prom[w].done \cup {prom[w].row}
    BY <1>0, <2>1 DEF Promotion
  <2> HIDE DEF new
  <2>4. prom' \in [Promoters -> Promotion] /\ prom'[w] = new
        /\ \A v \in Promoters : v # w => prom'[v] = prom[v]
    BY <2>2, <2>3 DEF TypeOK
  <2>5. UNCHANGED <<on, head, model, registry, redis, recorded, queue, watermark, m, hyd,
                    faults, crashes, scans>>
    BY <1>4 DEF MarkImported, storeVars
  <2>6. obs' = [obs EXCEPT ![p].status = "imported"]
    BY <1>4 DEF MarkImported
  <2>7. obs' \in [Pools -> Row]
        /\ \A q \in Pools : obs'[q].first = obs[q].first /\ obs'[q].latest = obs[q].latest
    <3> DEFINE row == [obs[p] EXCEPT !.status = "imported"]
    <3>1. row \in Row /\ row.first = obs[p].first /\ row.latest = obs[p].latest
      BY <1>0, <2>1 DEF Row
    <3>2. obs' = [obs EXCEPT ![p] = row] /\ obs \in [Pools -> Row]
      BY <2>6 DEF TypeOK
    <3> HIDE DEF row, p
    <3> QED BY <2>1, <3>1, <3>2
  <2>8. TypeOK'
    BY <2>4, <2>5, <2>7 DEF TypeOK
  <2>9. ASSUME NEW v \in Promoters, NEW s \in Inflight(v)' PROVE s.block <= obs'[s.pool].latest
    <3>1. s \in Inflight(v)
      BY <2>1, <2>3, <2>4, NoStateIsNone DEF Inflight
    <3>2. s \in State
      BY <1>0, <3>1 DEF Inflight, Promotion
    <3> QED BY <2>7, <3>1, <3>2 DEF BoundInv, State
  <2>10. ASSUME NEW r \in queue' PROVE r[3] <= obs'[r[2]].latest
    <3>1. r \in queue /\ r[2] \in Pools
      BY <2>5 DEF TypeOK
    <3> QED BY <2>7, <3>1 DEF BoundInv
  <2>11. BoundInv'
    BY <2>5, <2>9, <2>10 DEF BoundInv
  <2> QED BY <2>8, <2>11
<1>5. ASSUME NEW w \in Promoters, NEW dropped \in BOOLEAN, PublishPromoted(w, dropped)
      PROVE  TypeOK' /\ BoundInv'
  <2> DEFINE done == prom[w].done
  <2>1. done \subseteq State
    BY <1>0 DEF Promotion
  <2>2. \A s \in done : s.block \in Nat /\ s.pool \in Pools /\ s.block <= obs[s.pool].latest
                       /\ s.block \in Blocks
    BY <2>1 DEF State, Blocks, BoundInv, Inflight
  <2>3. redis' \in [Pools -> State \cup {NoState}]
    <3>1. redis' = [p \in Pools |-> IF \E s \in done : s.pool = p
                                   THEN CHOOSE s \in done : s.pool = p ELSE redis[p]]
      BY <1>5 DEF PublishPromoted
    <3>2. ASSUME NEW p \in Pools, \E s \in done : s.pool = p
          PROVE  (CHOOSE s \in done : s.pool = p) \in State
      BY <2>1, <3>2
    <3>3. redis \in [Pools -> State \cup {NoState}]
      BY DEF TypeOK
    <3> HIDE DEF done
    <3> QED BY <3>1, <3>2, <3>3
  <2>4. watermark' \in 0..head
    <3> DEFINE S == {watermark} \cup {s.block : s \in done}
    <3>1. ASSUME NEW s \in done PROVE s.block \in 0..head
      BY <1>0, <2>2
    <3>2. S \in SUBSET (0..head) /\ S # {}
      BY <3>1 DEF TypeOK
    <3>3. watermark' = Max(S)
      BY <1>5 DEF PublishPromoted
    <3> HIDE DEF S
    <3>4. Max(S) \in S
      BY <3>2, MaxFacts
    <3> QED BY <3>2, <3>3, <3>4
  <2>5. queue' \subseteq queue \cup {<<w, s.pool, s.block>> : s \in done}
    BY <1>5 DEF PublishPromoted, Enqueued
  <2>6. queue' \subseteq Promoters \X Pools \X Blocks /\ \A r \in queue' : r[3] <= obs[r[2]].latest
    <3>1. ASSUME NEW r \in queue'
          PROVE  r \in Promoters \X Pools \X Blocks /\ r[3] <= obs[r[2]].latest
      <4>1. CASE r \in queue
        BY <4>1 DEF TypeOK, BoundInv
      <4>2. ASSUME NEW s \in done, r = <<w, s.pool, s.block>>
            PROVE  r \in Promoters \X Pools \X Blocks /\ r[3] <= obs[r[2]].latest
        BY <4>2, <2>2
      <4> QED BY <2>5, <4>1, <4>2
    <3> QED BY <3>1
  <2> DEFINE new == IF prom[w].kind = "v4" THEN Begin("balancer", prom[w].min) ELSE NoPromotion
  <2>7. prom' = [prom EXCEPT ![w] = new]
    BY <1>5 DEF PublishPromoted, AfterKind
  <2>8. new \in Promotion /\ new.rows = {} /\ new.row = NoState /\ new.done = {}
    BY <1>0 DEF Promotion, Begin, NoPromotion
  <2> HIDE DEF new
  <2>9. prom' \in [Promoters -> Promotion] /\ prom'[w] = new
        /\ \A v \in Promoters : v # w => prom'[v] = prom[v]
    BY <2>7, <2>8 DEF TypeOK
  <2>10. UNCHANGED <<on, head, obs, model, registry, recorded, m, hyd, crashes, scans>>
    BY <1>5 DEF PublishPromoted, rowVars
  <2>11. faults' \in Nat /\ faults' + crashes <= Failures
    BY SMTT(20), <1>5 DEF PublishPromoted, Fault, TypeOK
  <2>12. TypeOK'
    BY <2>3, <2>4, <2>6, <2>9, <2>10, <2>11 DEF TypeOK
  <2>13. ASSUME NEW v \in Promoters, NEW s \in Inflight(v)' PROVE s.block <= obs[s.pool].latest
    BY <2>8, <2>9, NoStateIsNone DEF BoundInv, Inflight
  <2>14. BoundInv'
    BY <2>6, <2>10, <2>13 DEF BoundInv
  <2> QED BY <2>12, <2>14
<1>6. CASE PromotionFails
  <2>1. prom' = [prom EXCEPT !["discovery"] = NoPromotion] /\ queue' \subseteq queue
    BY <1>6 DEF PromotionFails
  <2>2. UNCHANGED <<on, head, obs, model, registry, redis, recorded, watermark, m, hyd, crashes, scans>>
    BY <1>6 DEF PromotionFails, rowVars
  <2>3. prom' \in [Promoters -> Promotion] /\ prom'["discovery"] = NoPromotion
        /\ \A v \in Promoters : v # "discovery" => prom'[v] = prom[v]
    BY <1>0, <2>1 DEF TypeOK, Promoters
  <2>4. faults' \in Nat /\ faults' + crashes <= Failures
    BY <1>6 DEF PromotionFails, Fault, TypeOK
  <2>5. TypeOK'
    BY <2>1, <2>2, <2>3, <2>4 DEF TypeOK
  <2>6. ASSUME NEW v \in Promoters, NEW s \in Inflight(v)' PROVE s.block <= obs[s.pool].latest
    BY <2>3, NoStateIsNone DEF BoundInv, Inflight, NoPromotion
  <2>7. BoundInv'
    BY <2>1, <2>2, <2>6 DEF BoundInv
  <2> QED BY <2>5, <2>7
<1>7. ASSUME NEW batch \in Batches, NEW failed \in BOOLEAN, Flush(batch, failed)
      PROVE  TypeOK' /\ BoundInv'
  <2>1. batch \subseteq queue
    BY DEF Batches
  <2>3. Inserted(batch) \in [Pools -> Nat] /\ \A p \in Pools : Inserted(batch)[p] <= obs[p].latest
    BY InsertedFacts DEF Inserted
  <2>4. UNCHANGED <<on, head, obs, model, registry, redis, watermark, m, prom, hyd, crashes, scans>>
        /\ queue' \subseteq queue
    BY <1>7 DEF Flush, rowVars
  <2>5. recorded' \in [Pools -> Nat] /\ \A p \in Pools : recorded'[p] <= obs[p].latest
    BY <1>7, <2>3 DEF Flush, TypeOK
  <2>6. faults' \in Nat /\ faults' + crashes <= Failures
    BY <1>7 DEF Flush, Fault, TypeOK
  <2>7. TypeOK'
    BY <2>4, <2>5, <2>6 DEF TypeOK
  <2>8. BoundInv'
    BY <1>0, <2>4, <2>7, BoundKept
  <2> QED BY <2>7, <2>8
<1>8. CASE DiscoveryTick
  <2> DEFINE new == Begin("v4", 0)
  <2>1. new \in Promotion /\ new.rows = {} /\ new.row = NoState /\ new.done = {}
    BY <1>0 DEF Promotion, Begin, NoPromotion
  <2>2. prom' = [prom EXCEPT !["discovery"] = new]
    BY <1>8 DEF DiscoveryTick
  <2> HIDE DEF new
  <2>3. prom' \in [Promoters -> Promotion] /\ prom'["discovery"] = new
        /\ \A v \in Promoters : v # "discovery" => prom'[v] = prom[v]
    BY <2>1, <2>2 DEF TypeOK, Promoters
  <2>4. UNCHANGED <<on, head, obs, model, registry, redis, recorded, queue, watermark, m, hyd,
                    faults, crashes, scans>>
    BY <1>8 DEF DiscoveryTick, rowVars, storeVars
  <2>5. TypeOK'
    BY <2>3, <2>4 DEF TypeOK
  <2>6. ASSUME NEW v \in Promoters, NEW s \in Inflight(v)' PROVE s.block <= obs[s.pool].latest
    BY <2>1, <2>3, NoStateIsNone DEF BoundInv, Inflight
  <2>7. BoundInv'
    BY <2>4, <2>6 DEF BoundInv
  <2> QED BY <2>5, <2>7
<1>9. ASSUME NEW failed \in BOOLEAN, MarketPoll(failed) PROVE TypeOK' /\ BoundInv'
  <2> DEFINE upto == Min({head, m.seen + Span})
             logs == IF failed THEN {} ELSE LogsIn(m.seen + 1, upto)
  <2>1. m.seen \in 0..head /\ m.seen + Span \in Nat /\ m.seen + Span > m.seen /\ m.seen < head
    <3>1. m.seen \in 0..head /\ m.seen < head
      BY <1>9 DEF TypeOK, MarketPoll
    <3>2. Span \in Nat /\ Span > 0
      BY ProtocolAssumption
    <3> QED BY <3>1, <3>2
  <2>2. upto \in 0..head /\ m.seen < upto
    BY <2>1, PairFacts
  <2> HIDE DEF upto
  <2>3. logs \subseteq LogsIn(1, upto) /\ logs \in SUBSET Logs
    <3>1. ASSUME NEW l \in LogsIn(m.seen + 1, upto) PROVE l \in LogsIn(1, upto) /\ l \in Logs
      BY LogType DEF LogsIn
    <3> QED BY <3>1
  <2> HIDE DEF logs
  <2>4. m' = [m EXCEPT !.at = "logs", !.upto = upto, !.inbox = logs, !.observed = (logs # {})]
    BY <1>9 DEF MarketPoll, upto, logs
  <2>5. m' \in [at : {"poll", "logs", "promote"}, seen : 0..head, upto : 0..head,
               inbox : SUBSET Logs, observed : BOOLEAN]
        /\ m'.inbox = logs /\ m'.upto = upto
    BY <2>2, <2>3, <2>4 DEF TypeOK
  <2>6. UNCHANGED <<on, head, obs, model, registry, redis, recorded, queue, watermark, prom, hyd,
                    crashes, scans>>
    BY <1>9 DEF MarketPoll, rowVars, storeVars
  <2>7. faults' \in Nat /\ faults' + crashes <= Failures
    BY <1>9 DEF MarketPoll, Fault, TypeOK
  <2>8. TypeOK'
    BY <2>5, <2>6, <2>7 DEF TypeOK
  <2>9. BoundInv'
    BY <2>3, <2>5, <2>6 DEF BoundInv, Inflight
  <2> QED BY <2>8, <2>9
<1>10. CASE MarketLog
  <2>1. PICK l \in Earliest(m.inbox) : Upsert(l) /\ m' = [m EXCEPT !.inbox = @ \ {l}]
    BY <1>10 DEF MarketLog
  <2>2. l \in Logs /\ l.block <= head
    <3>1. l \in LogsIn(1, m.upto) /\ m.upto \in 0..head
      BY DEF Earliest, BoundInv, TypeOK
    <3>2. l \in Logs /\ l.block <= m.upto
      BY <3>1 DEF LogsIn
    <3> QED BY <3>1, <3>2, LogType
  <2>3. UNCHANGED <<on, head, model, registry, redis, recorded, queue, watermark, prom, hyd,
                    faults, crashes, scans>>
    BY <1>10 DEF MarketLog, storeVars
  <2>4. m' \in [at : {"poll", "logs", "promote"}, seen : 0..head, upto : 0..head,
                inbox : SUBSET Logs, observed : BOOLEAN]
        /\ m'.inbox \subseteq m.inbox /\ m'.upto = m.upto
    BY <2>1 DEF TypeOK
  <2>5. /\ obs' \in [Pools -> Row]
        /\ \A p \in Pools : /\ obs'[p].first <= obs'[p].latest /\ obs'[p].latest <= head
                            /\ obs[p].latest <= obs'[p].latest
    BY <2>1, <2>2, UpsertFacts
  <2>6. \A p \in Pools : obs'[p].latest \in Nat
    BY <2>5 DEF Row
  <2>7. \A p \in Pools : recorded[p] <= obs'[p].latest
    BY <1>0, <2>5, <2>6 DEF TypeOK
  <2>8. TypeOK'
    BY <2>3, <2>4, <2>5, <2>7 DEF TypeOK
  <2>9. BoundInv'
    BY <2>3, <2>4, <2>5, <2>8, BoundKept
  <2> QED BY <2>8, <2>9
<1>11. CASE MarketPromote
  <2> DEFINE new == IF m.observed THEN Begin("v4", m.seen + 1) ELSE NoPromotion
  <2>1. m.seen + 1 \in Nat
    BY DEF TypeOK
  <2>2. new \in Promotion /\ new.rows = {} /\ new.row = NoState /\ new.done = {}
    BY <1>0, <2>1 DEF Promotion, Begin, NoPromotion
  <2>3. prom' = [prom EXCEPT !["market"] = new]
    BY <1>11 DEF MarketPromote
  <2> HIDE DEF new
  <2>4. prom' \in [Promoters -> Promotion] /\ prom'["market"] = new
        /\ \A v \in Promoters : v # "market" => prom'[v] = prom[v]
    BY <2>2, <2>3 DEF TypeOK, Promoters
  <2>5. m' \in [at : {"poll", "logs", "promote"}, seen : 0..head, upto : 0..head,
                inbox : SUBSET Logs, observed : BOOLEAN]
        /\ m'.inbox = m.inbox /\ m'.upto = m.upto
    BY <1>11 DEF MarketPromote, TypeOK
  <2>6. UNCHANGED <<on, head, obs, model, registry, redis, recorded, queue, watermark, hyd,
                    faults, crashes, scans>>
    BY <1>11 DEF MarketPromote, rowVars, storeVars
  <2>7. TypeOK'
    BY <2>4, <2>5, <2>6 DEF TypeOK
  <2>8. ASSUME NEW v \in Promoters, NEW s \in Inflight(v)' PROVE s.block <= obs[s.pool].latest
    BY <2>2, <2>4, NoStateIsNone DEF BoundInv, Inflight
  <2>9. BoundInv'
    BY <2>5, <2>6, <2>8 DEF BoundInv
  <2> QED BY <2>7, <2>9
<1>12. CASE MarketAdvance
  <2>1. m' = [m EXCEPT !.at = "poll", !.seen = m.upto]
    BY <1>12 DEF MarketAdvance
  <2>2. m' \in [at : {"poll", "logs", "promote"}, seen : 0..head, upto : 0..head,
                inbox : SUBSET Logs, observed : BOOLEAN]
        /\ m'.inbox = m.inbox /\ m'.upto = m.upto
    BY <2>1 DEF TypeOK
  <2>3. watermark \in 0..head /\ m.upto \in 0..head
    BY DEF TypeOK
  <2>4. watermark' = Max({watermark, m.upto})
    BY <1>12 DEF MarketAdvance
  <2>5. watermark' \in 0..head
    <3>1. watermark \in Nat /\ m.upto \in Nat
      BY <2>3
    <3> QED BY <2>3, <2>4, <3>1, PairFacts
  <2>6. UNCHANGED <<on, head, obs, model, registry, redis, recorded, queue, prom, hyd,
                    faults, crashes, scans>>
    BY <1>12 DEF MarketAdvance, rowVars
  <2>7. TypeOK'
    BY <2>2, <2>5, <2>6 DEF TypeOK
  <2>8. BoundInv'
    BY <2>2, <2>6 DEF BoundInv, Inflight
  <2> QED BY <2>7, <2>8
<1>13. CASE MarketRestart
  <2>1. prom' = [prom EXCEPT !["market"] = NoPromotion] /\ queue' \subseteq queue
        /\ m' = Polling(watermark) /\ crashes' = crashes + 1 /\ crashes + faults < Failures
    BY <1>13 DEF MarketRestart
  <2>2. UNCHANGED <<on, head, obs, model, registry, redis, recorded, watermark, hyd, faults, scans>>
    BY <1>13 DEF MarketRestart, rowVars
  <2>3. prom' \in [Promoters -> Promotion] /\ prom'["market"] = NoPromotion
        /\ \A v \in Promoters : v # "market" => prom'[v] = prom[v]
    BY <1>0, <2>1 DEF TypeOK, Promoters
  <2>4. watermark \in 0..head
    BY DEF TypeOK
  <2>5. m' \in [at : {"poll", "logs", "promote"}, seen : 0..head, upto : 0..head,
                inbox : SUBSET Logs, observed : BOOLEAN]
        /\ m'.inbox = {}
    BY <2>1, <2>4 DEF Polling
  <2>6. crashes' \in Nat /\ faults + crashes' <= Failures
    BY <2>1, ProtocolAssumption DEF TypeOK
  <2>7. TypeOK'
    BY <2>1, <2>2, <2>3, <2>5, <2>6 DEF TypeOK
  <2>8. ASSUME NEW v \in Promoters, NEW s \in Inflight(v)' PROVE s.block <= obs[s.pool].latest
    BY <2>3, NoStateIsNone DEF BoundInv, Inflight, NoPromotion
  <2>9. BoundInv'
    BY <2>1, <2>2, <2>5, <2>8 DEF BoundInv
  <2> QED BY <2>7, <2>9
<1>14. CASE HydratePass \/ HydrateManager
  <2>1. ASSUME NEW from, NEW wanted
        PROVE  InitializesFrom(from, wanted) \subseteq LogsIn(1, head)
    <3>1. ASSUME NEW l \in InitializesFrom(from, wanted) PROVE l \in LogsIn(1, head)
      <4>1. l \in Logs /\ l.block <= head
        BY DEF InitializesFrom, LogsIn
      <4> QED BY <4>1, LogType DEF LogsIn
    <3> QED BY <3>1
  <2>2. LogsIn(1, head) \subseteq Logs /\ Missing \subseteq V4
    BY DEF LogsIn, Missing
  <2>3. hyd' \in [pending : SUBSET V4, logs : SUBSET Logs] /\ hyd'.logs \subseteq LogsIn(1, head)
        /\ faults' \in Nat /\ faults' + crashes <= Failures /\ scans' \in 0..Scans[on]
    <3>1. CASE HydratePass
      <4>1. PICK wanted \in WantedRows :
              LET from == Min({head - Lookback} \cup {obs[p].first - 1 : p \in wanted})
                  logs == InitializesFrom(from, wanted)
              IN  \E got \in Prefixes(logs) :
                    /\ Fault(got # logs)
                    /\ hyd' = [pending |-> IF got # logs THEN {} ELSE wanted, logs |-> got]
        BY <3>1 DEF HydratePass
      <4> DEFINE from == Min({head - Lookback} \cup {obs[p].first - 1 : p \in wanted})
                 logs == InitializesFrom(from, wanted)
      <4>2. PICK got \in Prefixes(logs) :
              /\ Fault(got # logs)
              /\ hyd' = [pending |-> IF got # logs THEN {} ELSE wanted, logs |-> got]
        BY <4>1
      <4> HIDE DEF from
      <4>3. hyd' \in [pending : SUBSET V4, logs : SUBSET Logs] /\ hyd'.logs \subseteq LogsIn(1, head)
        <5>1. got \subseteq LogsIn(1, head)
          BY <2>1 DEF Prefixes
        <5>2. wanted \subseteq V4
          BY <2>2 DEF WantedRows
        <5> QED BY <2>2, <4>2, <5>1, <5>2
      <4>4. faults' \in Nat /\ faults' + crashes <= Failures
        BY <4>2 DEF Fault, TypeOK
      <4> QED BY <3>1, <4>3, <4>4 DEF HydratePass, TypeOK
    <3>2. CASE HydrateManager
      <4>1. hyd' = [pending |-> {}, logs |-> InitializesFrom(head - Lookback, V4)]
        BY <3>2 DEF HydrateManager
      <4>2. hyd' \in [pending : SUBSET V4, logs : SUBSET Logs] /\ hyd'.logs \subseteq LogsIn(1, head)
        BY <2>1, <2>2, <4>1
      <4>3. faults' = faults /\ scans' = scans + 1 /\ scans < Scans[on] /\ crashes' = crashes
        BY <3>2 DEF HydrateManager
      <4>4. Scans[on] \in Nat
        BY ProtocolAssumption DEF TypeOK
      <4> QED BY <4>2, <4>3, <4>4 DEF TypeOK
    <3> QED BY <1>14, <3>1, <3>2
  <2>4. UNCHANGED <<on, head, obs, model, registry, redis, recorded, queue, watermark, m, prom, crashes>>
    BY <1>14 DEF HydratePass, HydrateManager, rowVars, storeVars
  <2>5. TypeOK'
    BY <2>3, <2>4 DEF TypeOK
  <2>6. BoundInv'
    BY <2>3, <2>4 DEF BoundInv, Inflight
  <2> QED BY <2>5, <2>6
<1>15. CASE HydrateLog
  <2>1. PICK l \in Earliest(hyd.logs) :
          Upsert(l) /\ hyd' = [pending |-> hyd.pending \ {l.pool}, logs |-> hyd.logs \ {l}]
    BY <1>15 DEF HydrateLog
  <2>2. l \in Logs /\ l.block <= head
    BY DEF Earliest, BoundInv, LogsIn
  <2>3. UNCHANGED <<on, head, model, registry, redis, recorded, queue, watermark, prom, m,
                    faults, crashes, scans>>
    BY <1>15 DEF HydrateLog, storeVars
  <2>4. hyd' \in [pending : SUBSET V4, logs : SUBSET Logs] /\ hyd'.logs \subseteq hyd.logs
    BY <2>1 DEF TypeOK
  <2>5. /\ obs' \in [Pools -> Row]
        /\ \A p \in Pools : /\ obs'[p].first <= obs'[p].latest /\ obs'[p].latest <= head
                            /\ obs[p].latest <= obs'[p].latest
    BY <2>1, <2>2, UpsertFacts
  <2>6. \A p \in Pools : obs'[p].latest \in Nat
    BY <2>5 DEF Row
  <2>7. \A p \in Pools : recorded[p] <= obs'[p].latest
    BY <1>0, <2>5, <2>6 DEF TypeOK
  <2>8. TypeOK'
    BY <2>3, <2>4, <2>5, <2>7 DEF TypeOK
  <2>9. BoundInv'
    BY <2>3, <2>4, <2>5, <2>8, BoundKept
  <2> QED BY <2>8, <2>9
<1>16. ASSUME NEW mark \in BOOLEAN, HydrateEnd(mark) PROVE TypeOK' /\ BoundInv'
  <2>1. obs' = [p \in Pools |-> IF mark /\ p \in hyd.pending /\ obs[p] # NoRow
                               THEN [obs[p] EXCEPT !.status = "not found"] ELSE obs[p]]
    BY <1>16 DEF HydrateEnd
  <2>2. ASSUME NEW p \in Pools
        PROVE  obs'[p] \in Row /\ obs'[p].first = obs[p].first /\ obs'[p].latest = obs[p].latest
    BY <1>0, <2>1 DEF Row
  <2>3. obs' \in [Pools -> Row]
    BY <2>1, <2>2
  <2>4. UNCHANGED <<on, head, model, registry, redis, recorded, queue, watermark, m, prom,
                    faults, crashes>>
    BY <1>16 DEF HydrateEnd, storeVars
  <2>5. scans' \in 0..Scans[on]
    <3>1. Scans[on] \in Nat
      BY ProtocolAssumption DEF TypeOK
    <3>2. scans \in 0..Scans[on]
      BY DEF TypeOK
    <3>3. CASE mark
      <4>1. scans' = scans + 1 /\ scans < Scans[on]
        BY <1>16, <3>3 DEF HydrateEnd
      <4> QED BY <3>1, <3>2, <4>1
    <3>4. CASE ~mark
      <4>1. scans' = scans + 0
        BY <1>16, <3>4 DEF HydrateEnd
      <4> QED BY <3>1, <3>2, <4>1
    <3> QED BY <3>3, <3>4
  <2>6. hyd' = [pending |-> {}, logs |-> {}]
    BY <1>16 DEF HydrateEnd, NoScan
  <2>7. TypeOK'
    BY <2>2, <2>3, <2>4, <2>5, <2>6 DEF TypeOK
  <2>8. BoundInv'
    BY <1>0, <2>2, <2>4, <2>6, <2>7, BoundKept
  <2> QED BY <2>7, <2>8
<1>17. ASSUME NEW p \in Balancer, Classify(p) PROVE TypeOK' /\ BoundInv'
  <2>1. model' = [model EXCEPT ![p] = IF p \in Weighted THEN Stamp(head, 0) ELSE 0]
        /\ scans < Scans[on] /\ scans' = scans + 1
    BY <1>17 DEF Classify
  <2>2. Stamp(head, 0) \in Nat
    BY ProtocolAssumption DEF Stamp
  <2>3. model' \in [Balancer -> Nat]
    BY <2>1, <2>2 DEF TypeOK
  <2>4. Scans[on] \in Nat
    BY ProtocolAssumption DEF TypeOK
  <2>5. scans' \in 0..Scans[on]
    BY <2>1, <2>4 DEF TypeOK
  <2>6. UNCHANGED <<on, head, obs, registry, redis, recorded, queue, watermark, m, prom, hyd,
                    faults, crashes>>
    BY <1>17 DEF Classify, storeVars
  <2>7. TypeOK'
    BY <2>3, <2>5, <2>6 DEF TypeOK
  <2>8. BoundInv'
    BY <2>6 DEF BoundInv, Inflight
  <2> QED BY <2>7, <2>8
<1>18. CASE UNCHANGED vars
  BY <1>18 DEF vars, rowVars, storeVars, TypeOK, BoundInv, Inflight
<1> QED
  BY <1>1, <1>2, <1>3, <1>4, <1>5, <1>6, <1>7, <1>8, <1>9, <1>10, <1>11, <1>12, <1>13, <1>14,
     <1>15, <1>16, <1>17, <1>18
  DEF Next, Market, Promote, Promoters, Hydrate, Record, RecordFails

------------------------------------------------------------------------------
(* The order of the statements of a promotion *)

\* A pool is in the registry before its row says that it is imported.
LEMMA MarkStep ==
  TypeOK /\ BoundInv /\ MarkInv /\ ImportedInRegistry /\ [Next]_vars => MarkInv' /\ ImportedInRegistry'
<1> SUFFICES ASSUME TypeOK, BoundInv, MarkInv, ImportedInRegistry, [Next]_vars
             PROVE  MarkInv' /\ ImportedInRegistry'
  OBVIOUS
<1>0. prom \in [Promoters -> Promotion] /\ obs \in [Pools -> Row]
  BY DEF TypeOK
<1>1. CASE UNCHANGED <<prom, obs, registry>>
  BY <1>1 DEF MarkInv, ImportedInRegistry
<1>2. ASSUME NEW w \in Promoters, SelectRows(w) PROVE MarkInv' /\ ImportedInRegistry'
  <2>1. prom'[w].at \in {"publish", "pool"} /\ \A v \in Promoters : v # w => prom'[v] = prom[v]
    BY <1>0, <1>2 DEF SelectRows, Promotion
  <2>2. UNCHANGED <<obs, registry>>
    BY <1>2 DEF SelectRows, rowVars
  <2> QED BY <2>1, <2>2 DEF MarkInv, ImportedInRegistry
<1>3. ASSUME NEW w \in Promoters, WritePool(w) PROVE MarkInv' /\ ImportedInRegistry'
  <2>1. PICK s \in prom[w].rows :
          /\ registry' = registry \cup {s.pool}
          /\ prom' = [prom EXCEPT ![w].at = "mark", ![w].row = s, ![w].rows = @ \ {s}]
    BY <1>3 DEF WritePool
  <2>2. s \in State
    BY <1>0, <2>1 DEF Promotion
  <2>3. prom'[w].row = s /\ \A v \in Promoters : v # w => prom'[v] = prom[v]
    BY <1>0, <2>1 DEF Promotion
  <2>4. obs' = obs /\ s.pool \in registry' /\ registry \subseteq registry'
    BY <1>3, <2>1 DEF WritePool
  <2>5. ImportedInRegistry'
    BY <2>4 DEF ImportedInRegistry
  <2>6. ASSUME NEW v \in Promoters, prom'[v].at = "mark"
        PROVE  prom'[v].row \in State /\ prom'[v].row.pool \in registry'
    BY <2>2, <2>3, <2>4, <2>6 DEF MarkInv
  <2> QED BY <2>5, <2>6 DEF MarkInv
<1>4. ASSUME NEW w \in Promoters, MarkImported(w) PROVE MarkInv' /\ ImportedInRegistry'
  <2> DEFINE p == prom[w].row.pool
  <2>1. p \in registry /\ p \in Pools /\ prom[w].at = "mark"
    BY <1>4 DEF MarkImported, Promoting, MarkInv, State
  <2>2. prom'[w].at \in {"publish", "pool"} /\ \A v \in Promoters : v # w => prom'[v] = prom[v]
    BY <1>0, <1>4 DEF MarkImported, NextRow, Promotion
  <2>3. obs' = [obs EXCEPT ![p].status = "imported"] /\ registry' = registry
    BY <1>4 DEF MarkImported
  <2>4. \A q \in Pools : q # p => obs'[q] = obs[q]
    BY <1>0, <2>3
  <2>5. MarkInv'
    BY <2>2, <2>3 DEF MarkInv
  <2>6. ImportedInRegistry'
    BY <2>1, <2>3, <2>4 DEF ImportedInRegistry
  <2> QED BY <2>5, <2>6
<1>5. ASSUME NEW w \in Promoters, NEW new, new.at = "select",
             prom' = [prom EXCEPT ![w] = new], UNCHANGED <<obs, registry>>
      PROVE  MarkInv' /\ ImportedInRegistry'
  <2>1. prom'[w].at = "select" /\ \A v \in Promoters : v # w => prom'[v] = prom[v]
    BY <1>0, <1>5
  <2> QED BY <1>5, <2>1 DEF MarkInv, ImportedInRegistry
<1>6. NoPromotion.at = "select" /\ \A kind, min : Begin(kind, min).at = "select"
  BY DEF NoPromotion, Begin
<1>7. ASSUME NEW w \in Promoters, NEW dropped \in BOOLEAN, PublishPromoted(w, dropped)
      PROVE  MarkInv' /\ ImportedInRegistry'
  <2>1. prom' = [prom EXCEPT ![w] = IF prom[w].kind = "v4" THEN Begin("balancer", prom[w].min)
                                    ELSE NoPromotion]
        /\ UNCHANGED <<obs, registry>>
    BY <1>7 DEF PublishPromoted, AfterKind, rowVars
  <2> QED BY <1>5, <1>6, <2>1
<1>8. CASE PromotionFails \/ MarketRestart
  BY <1>5, <1>6, <1>8 DEF PromotionFails, MarketRestart, Promoters, rowVars
<1>9. CASE DiscoveryTick
  BY ZenonT(40), <1>5, <1>6, <1>9 DEF DiscoveryTick, Promoters, rowVars
<1>10. CASE MarketPromote
  <2>1. prom' = [prom EXCEPT !["market"] = IF m.observed THEN Begin("v4", m.seen + 1) ELSE NoPromotion]
        /\ UNCHANGED <<obs, registry>>
    BY <1>10 DEF MarketPromote, rowVars
  <2> QED BY <1>5, <1>6, <2>1 DEF Promoters
<1>11. ASSUME NEW l \in Logs, l.block <= head, Upsert(l), UNCHANGED <<prom, registry>>
       PROVE  MarkInv' /\ ImportedInRegistry'
  <2>1. \A p \in Pools : obs'[p].status = "imported" => obs[p].status = "imported"
    BY <1>11, UpsertFacts
  <2> QED BY <1>11, <2>1 DEF MarkInv, ImportedInRegistry
<1>12. CASE MarketLog
  <2>1. PICK l \in Earliest(m.inbox) : Upsert(l)
    BY <1>12 DEF MarketLog
  <2>2. l \in Logs /\ l.block <= head
    <3>1. l \in LogsIn(1, m.upto) /\ m.upto \in 0..head
      BY DEF Earliest, BoundInv, TypeOK
    <3>2. l \in Logs /\ l.block <= m.upto
      BY <3>1 DEF LogsIn
    <3> QED BY <3>1, <3>2, LogType, HeadNat
  <2> QED BY <1>11, <1>12, <2>1, <2>2 DEF MarketLog
<1>13. CASE HydrateLog
  <2>1. PICK l \in Earliest(hyd.logs) : Upsert(l)
    BY <1>13 DEF HydrateLog
  <2>2. l \in Logs /\ l.block <= head
    BY DEF Earliest, BoundInv, LogsIn
  <2> QED BY <1>11, <1>13, <2>1, <2>2 DEF HydrateLog
<1>14. ASSUME NEW mark \in BOOLEAN, HydrateEnd(mark) PROVE MarkInv' /\ ImportedInRegistry'
  <2>1. obs' = [p \in Pools |-> IF mark /\ p \in hyd.pending /\ obs[p] # NoRow
                               THEN [obs[p] EXCEPT !.status = "not found"] ELSE obs[p]]
        /\ UNCHANGED <<prom, registry>>
    BY <1>14 DEF HydrateEnd
  <2>2. ASSUME NEW p \in Pools, obs'[p].status = "imported" PROVE obs[p].status = "imported"
    BY <1>0, <2>1, <2>2 DEF Row
  <2> QED BY <2>1, <2>2 DEF MarkInv, ImportedInRegistry
<1>15. CASE NewBlock \/ MarketAdvance \/ HydratePass \/ HydrateManager
            \/ (\E failed \in BOOLEAN : MarketPoll(failed)) \/ (\E p \in Balancer : Classify(p))
            \/ (\E batch \in Batches, failed \in BOOLEAN : Flush(batch, failed)) \/ UNCHANGED vars
  BY <1>1, <1>15
  DEF NewBlock, MarketAdvance, HydratePass, HydrateManager, MarketPoll, Classify, Flush, vars, rowVars
<1> QED
  BY <1>2, <1>3, <1>4, <1>7, <1>8, <1>9, <1>10, <1>12, <1>13, <1>14, <1>15
  DEF Next, Market, Promote, Promoters, Hydrate, Record, RecordFails

\* A record is enqueued after its state is published, and states stay published.
LEMMA RecordStep ==
  TypeOK /\ BoundInv /\ RecordInv /\ RecordedIsPublished /\ NamedInv /\ [Next]_vars
    => RecordInv' /\ RecordedIsPublished' /\ NamedInv'
<1> SUFFICES ASSUME TypeOK, BoundInv, RecordInv, RecordedIsPublished, NamedInv, [Next]_vars
             PROVE  RecordInv' /\ RecordedIsPublished' /\ NamedInv'
  OBVIOUS
<1>1. CASE redis' = redis /\ recorded' = recorded /\ queue' \subseteq queue
  BY <1>1 DEF RecordInv, RecordedIsPublished, NamedInv
<1>2. ASSUME NEW w \in Promoters, NEW dropped \in BOOLEAN, PublishPromoted(w, dropped)
      PROVE  RecordInv' /\ RecordedIsPublished' /\ NamedInv'
  <2> DEFINE done == prom[w].done
  <2>1. done \subseteq State
    BY DEF TypeOK, Promotion
  <2>2. redis' = [p \in Pools |-> IF \E s \in done : s.pool = p
                                 THEN CHOOSE s \in done : s.pool = p ELSE redis[p]]
    BY <1>2 DEF PublishPromoted
  <2>3. queue' \subseteq queue \cup {<<w, s.pool, s.block>> : s \in done} /\ recorded' = recorded
    BY <1>2 DEF PublishPromoted, Enqueued
  <2> HIDE DEF done
  <2>4. ASSUME NEW p \in Pools, \E s \in done : s.pool = p
        PROVE  redis'[p] \in State /\ redis'[p].pool = p
    BY <2>1, <2>2, <2>4
  <2>5. ASSUME NEW p \in Pools, ~ \E s \in done : s.pool = p PROVE redis'[p] = redis[p]
    BY <2>2, <2>5
  <2>6. RecordedIsPublished' /\ NamedInv'
    BY <2>3, <2>4, <2>5, NoStateIsNone DEF RecordedIsPublished, NamedInv
  <2>7. ASSUME NEW r \in queue' PROVE redis'[r[2]] # NoState
    <3>1. CASE r \in queue
      <4>1. r[2] \in Pools /\ redis[r[2]] # NoState
        BY <3>1 DEF TypeOK, RecordInv
      <4> QED BY <4>1, <2>4, <2>5, NoStateIsNone
    <3>2. ASSUME NEW s \in done, r = <<w, s.pool, s.block>> PROVE redis'[r[2]] # NoState
      <4>1. s.pool \in Pools
        BY <2>1 DEF State
      <4> QED BY <3>2, <4>1, <2>4, NoStateIsNone
    <3> QED BY <2>3, <3>1, <3>2
  <2> QED BY <2>6, <2>7 DEF RecordInv
<1>3. ASSUME NEW batch \in Batches, NEW failed \in BOOLEAN, Flush(batch, failed)
      PROVE  RecordInv' /\ RecordedIsPublished' /\ NamedInv'
  <2>1. redis' = redis /\ queue' \subseteq queue
    BY <1>3 DEF Flush
  <2>2. ASSUME NEW p \in Pools, recorded'[p] > 0 PROVE redis[p] # NoState
    <3>1. CASE recorded'[p] = recorded[p]
      BY <2>2, <3>1 DEF RecordedIsPublished
    <3>2. CASE \E r \in batch : r[2] = p
      BY <3>2 DEF Batches, RecordInv
    <3>3. recorded'[p] = recorded[p] \/ \E r \in batch : r[2] = p
      BY <1>3, InsertedFacts DEF Flush
    <3> QED BY <3>1, <3>2, <3>3
  <2> QED BY <2>1, <2>2 DEF RecordInv, RecordedIsPublished, NamedInv
<1>4. CASE \/ NewBlock \/ MarketLog \/ MarketPromote \/ MarketAdvance \/ MarketRestart
           \/ DiscoveryTick \/ PromotionFails \/ HydratePass \/ HydrateManager \/ HydrateLog
           \/ (\E mark \in BOOLEAN : HydrateEnd(mark)) \/ UNCHANGED vars
           \/ (\E failed \in BOOLEAN : MarketPoll(failed)) \/ (\E p \in Balancer : Classify(p))
           \/ (\E w \in Promoters : SelectRows(w) \/ WritePool(w) \/ MarkImported(w))
  <2>1. redis' = redis /\ recorded' = recorded /\ queue' \subseteq queue
    BY <1>4
    DEF NewBlock, MarketLog, MarketPromote, MarketAdvance, MarketRestart, DiscoveryTick,
        PromotionFails, HydratePass, HydrateManager, HydrateLog, HydrateEnd, MarketPoll, Classify,
        SelectRows, WritePool, MarkImported, vars, storeVars
  <2> QED BY <1>1, <2>1
<1> QED
  BY <1>2, <1>3, <1>4
  DEF Next, Market, Promote, Promoters, Hydrate, Record, RecordFails

------------------------------------------------------------------------------
(* Prices *)

LEMMA PriceFacts ==
  ASSUME NEW p \in V4, NEW b \in 0..Len(LogsAt)
  PROVE  /\ Prices[p][b] \in PriceStamps(p, b)
         /\ \A x \in PriceStamps(p, b) : x <= Prices[p][b]
<1> DEFINE n == (Len(LogsAt) + 1) * Width
<1>1. Len(LogsAt) \in Nat /\ Width \in Nat
  BY ProtocolAssumption
<1>2. n \in Nat
  BY <1>1
<1>3. ASSUME NEW l \in Logs PROVE l.stamp \in 0..n
  <2>1. PICK c \in Blocks : \E i \in 1..Len(LogsAt[c]) :
          /\ l = [kind |-> LogsAt[c][i][1], pool |-> LogsAt[c][i][2], block |-> c, stamp |-> Stamp(c, i)]
          /\ i \in Nat /\ i < Width /\ c \in Nat /\ Width \in Nat /\ Stamp(c, i) = c * Width + i
    BY LogFacts
  <2>2. PICK i \in 1..Len(LogsAt[c]) :
          /\ l = [kind |-> LogsAt[c][i][1], pool |-> LogsAt[c][i][2], block |-> c, stamp |-> Stamp(c, i)]
          /\ i \in Nat /\ i < Width /\ c \in Nat /\ Width \in Nat /\ Stamp(c, i) = c * Width + i
    BY <2>1
  <2>3. c <= Len(LogsAt) /\ c \in Nat
    BY <1>1 DEF Blocks
  <2> DEFINE d == Len(LogsAt) - c
  <2>4. d \in Nat /\ Len(LogsAt) = c + d
    BY <1>1, <2>3
  <2> DEFINE before == c * Width
             after == d * Width
  <2>5. n = before + after + Width
    BY <1>1, <2>3, <2>4
  <2>6. before \in Nat /\ after \in Nat
    BY <1>1, <2>3, <2>4
  <2>7. l.stamp = before + i
    BY <2>2
  <2>8. i \in Nat /\ i < Width
    BY <2>2
  <2> HIDE DEF d, n, before, after
  <2> QED BY <1>1, <1>2, <2>5, <2>6, <2>7, <2>8
<1> HIDE DEF n
<1>4. PriceStamps(p, b) \in SUBSET (0..n) /\ PriceStamps(p, b) # {}
  BY <1>2, <1>3 DEF PriceStamps
<1>5. Prices[p][b] = Max(PriceStamps(p, b))
  BY DEF Prices
<1> QED BY <1>2, <1>4, <1>5, MaxFacts

\* A price is right for a block when it is that of a log up to the block, and no
\* log of an earlier block has a later one.
LEMMA PriceRight ==
  ASSUME NEW p \in V4, NEW b \in Blocks, NEW price \in Nat,
         \E l \in Logs : l.pool = p /\ HasPrice(l) /\ l.stamp = price /\ l.block <= b,
         \A k \in Logs : k.pool = p /\ HasPrice(k) /\ k.block <= b - 1 => k.stamp <= price
  PROVE  Prices[p][b - 1] <= price /\ price <= Prices[p][b]
<1>1. b - 1 \in 0..Len(LogsAt) /\ b \in 0..Len(LogsAt)
  BY ProtocolAssumption DEF Blocks
<1>2. Prices[p][b - 1] \in PriceStamps(p, b - 1)
  BY <1>1, PriceFacts
<1>3. \A x \in PriceStamps(p, b - 1) : x <= price
  BY DEF PriceStamps
<1>4. price \in PriceStamps(p, b)
  BY DEF PriceStamps
<1>5. price <= Prices[p][b]
  BY <1>1, <1>4, PriceFacts
<1> QED BY <1>2, <1>3, <1>5

\* What market-data's order of logs says of the rows.
LEMMA RowPrice ==
  ASSUME TypeOK, BoundInv, OrderInv, RowInv, NEW kind, NEW min, NEW p \in Selected(kind, min)
  PROVE  RightPrice(StateOf(p))
<1> SUFFICES ASSUME p \in V4 PROVE RightPrice(StateOf(p))
  BY SelectedFacts DEF RightPrice
<1>1. /\ StateOf(p) \in State /\ StateOf(p).pool = p /\ StateOf(p).block = obs[p].latest
      /\ StateOf(p).price = obs[p].price /\ obs[p].price > 0 /\ p \in Pools
  BY SelectedFacts
<1>2. obs[p].latest \in Blocks /\ obs[p].price \in Nat /\ obs[p].latest > 0 /\ obs[p].latest \in Nat
  BY <1>1 DEF State, Blocks
<1>3. PICK d \in Logs : Handled(d) /\ d.pool = p /\ d.block = obs[p].latest
  BY <1>2 DEF RowInv
<1>4. ASSUME NEW k \in Logs, k.pool = p, HasPrice(k), k.block <= obs[p].latest - 1
      PROVE  k.stamp <= obs[p].price
  <2>1. k.block \in Nat /\ k.block < d.block /\ k.stamp \in Nat /\ d.stamp \in Nat /\ d.block \in Nat
    BY <1>2, <1>3, <1>4, LogType
  <2>2. k.stamp < d.stamp
    BY <2>1, StampOrder
  <2>3. k \notin m.inbox
    BY <1>3, <2>1, <2>2 DEF OrderInv
  <2>4. m.upto \in Nat
    BY HeadNat DEF TypeOK
  <2>5. Handled(k)
    BY <1>3, <2>1, <2>3, <2>4 DEF Handled
  <2> QED BY <1>1, <1>4, <2>5 DEF RowInv
<1>5. \E l \in Logs : l.pool = p /\ HasPrice(l) /\ l.stamp = obs[p].price /\ l.block <= obs[p].latest
  BY <1>1 DEF RowInv
<1>6. Prices[p][obs[p].latest - 1] <= obs[p].price /\ obs[p].price <= Prices[p][obs[p].latest]
  BY <1>2, <1>4, <1>5, PriceRight
<1> QED BY <1>1, <1>6 DEF RightPrice

\* The market takes the logs of a block in their order, and its rows with them.
LEMMA OrderStep ==
  ASSUME TypeOK, BoundInv, OrderInv, RowInv, MarketLog
  PROVE  OrderInv' /\ RowInv'
<1>0. /\ \A p \in V4 : p \in Pools /\ obs[p] \in Row
      /\ \A p \in V4 : obs[p].latest \in Nat /\ obs[p].price \in Nat
  BY DEF TypeOK, Row, Pools
<1>1. PICK l \in Earliest(m.inbox) : Upsert(l) /\ m' = [m EXCEPT !.inbox = @ \ {l}]
  BY DEF MarketLog
<1>2. l \in Logs /\ l \in m.inbox /\ l.block <= m.upto /\ m.upto \in Nat /\ m.upto <= head
      /\ m.inbox \subseteq Logs /\ \A k \in m.inbox : l.stamp <= k.stamp
  BY HeadNat DEF Earliest, BoundInv, LogsIn, TypeOK
<1>3. l.block \in Nat /\ l.block > 0 /\ l.pool \in Pools /\ l.stamp \in Nat /\ l.block <= head
  BY <1>2, LogType, HeadNat
<1>4. m'.inbox = m.inbox \ {l} /\ m'.upto = m.upto /\ m'.at = "logs"
  BY <1>1 DEF TypeOK, MarketLog
<1>5. \A k \in Logs : Handled(k)' <=> Handled(k) \/ k = l
  BY <1>2, <1>4 DEF Handled
<1>6. OrderInv'
  <2>1. ASSUME NEW j \in m'.inbox, NEW k \in Logs, Handled(k)' PROVE k.stamp < j.stamp
    <3>1. CASE Handled(k)
      BY <1>4, <2>1, <3>1 DEF OrderInv
    <3>2. CASE k = l
      <4>1. l.stamp <= j.stamp /\ j # l /\ j \in Logs
        BY <1>2, <1>4
      <4> QED BY <1>2, <3>2, <4>1, StampOrder, LogType
    <3> QED BY <1>5, <2>1, <3>1, <3>2
  <2> QED BY <1>4, <2>1 DEF OrderInv
<1>7. /\ obs'[l.pool] = Upserted(obs[l.pool], l)
      /\ \A p \in Pools : p # l.pool => obs'[p] = obs[p]
  BY <1>1, <1>2, <1>3, UpsertFacts
<1>8. ASSUME NEW p \in V4
      PROVE  /\ obs'[p].latest > 0 =>
                  \E d \in Logs : Handled(d)' /\ d.pool = p /\ d.block = obs'[p].latest
             /\ obs'[p].price > 0 =>
                  /\ \E d \in Logs : /\ Handled(d)' /\ d.pool = p /\ HasPrice(d)
                                     /\ d.stamp = obs'[p].price /\ d.block <= obs'[p].latest
                  /\ \A d \in Logs : Handled(d)' /\ d.pool = p /\ HasPrice(d) => d.stamp <= obs'[p].price
  <2>1. CASE p # l.pool
    <3>1. obs'[p] = obs[p]
      BY <1>0, <1>7, <2>1
    <3> QED BY <1>5, <2>1, <3>1 DEF RowInv
  <2>2. CASE p = l.pool
    <3> DEFINE new == obs'[p]
    <3>1. obs[p] \in Row /\ obs[p].first <= obs[p].latest
      BY <1>0 DEF TypeOK
    <3>2. new = Upserted(obs[p], l)
      BY <1>7, <2>2
    <3>3. /\ obs[p].latest <= new.latest /\ new.latest \in {obs[p].latest, l.block}
          /\ l.block <= new.latest
          /\ new.price = IF HasPrice(l) THEN l.stamp ELSE obs[p].price
      BY <1>2, <3>1, <3>2, UpsertedFacts
    <3> HIDE DEF new
    <3>4. new.latest > 0 => \E d \in Logs : Handled(d)' /\ d.pool = p /\ d.block = new.latest
      <4>1. CASE new.latest = l.block
        BY <1>2, <1>5, <2>2, <4>1
      <4>2. CASE new.latest = obs[p].latest
        BY <1>5, <4>2 DEF RowInv
      <4> QED BY <3>3, <4>1, <4>2
    <3>5. CASE HasPrice(l)
      <4>1. new.price = l.stamp
        BY <3>3, <3>5
      <4>2. \A d \in Logs : Handled(d)' => d.stamp <= l.stamp
        <5>1. ASSUME NEW d \in Logs, Handled(d) PROVE d.stamp <= l.stamp
          <6>1. d.stamp < l.stamp
            BY <1>2, <5>1 DEF OrderInv
          <6> QED BY <1>3, <6>1, LogType
        <5> QED BY <1>3, <1>5, <5>1
      <4>3. \E d \in Logs : /\ Handled(d)' /\ d.pool = p /\ HasPrice(d)
                            /\ d.stamp = new.price /\ d.block <= new.latest
        BY <1>2, <1>5, <2>2, <3>3, <3>5, <4>1
      <4> QED BY <3>4, <4>1, <4>2, <4>3 DEF new
    <3>6. CASE ~HasPrice(l)
      <4>1. new.price = obs[p].price
        BY <3>3, <3>6
      <4>2. ASSUME new.price > 0
            PROVE  /\ \E d \in Logs : /\ Handled(d)' /\ d.pool = p /\ HasPrice(d)
                                      /\ d.stamp = new.price /\ d.block <= new.latest
                   /\ \A d \in Logs : Handled(d)' /\ d.pool = p /\ HasPrice(d) => d.stamp <= new.price
        <5>1. PICK d \in Logs : /\ Handled(d) /\ d.pool = p /\ HasPrice(d)
                                /\ d.stamp = new.price /\ d.block <= obs[p].latest
          BY <4>1, <4>2 DEF RowInv
        <5>2. d.block <= new.latest
          <6>1. d.block \in Nat /\ obs[p].latest \in Nat /\ new.latest \in Nat
            BY <1>0, <1>3, <3>3, LogType
          <6> QED BY <3>3, <5>1, <6>1
        <5>3. \A k \in Logs : Handled(k)' /\ k.pool = p /\ HasPrice(k) => k.stamp <= new.price
          BY <1>5, <3>6, <4>1, <4>2 DEF RowInv
        <5> QED BY <1>5, <5>1, <5>2, <5>3
      <4> QED BY <3>4, <4>2 DEF new
    <3> QED BY <3>5, <3>6
  <2> QED BY <2>1, <2>2
<1> QED BY <1>6, <1>8 DEF RowInv

\* A poll puts the logs of new blocks after those that have been handled.
LEMMA PollOrder ==
  ASSUME TypeOK, OrderInv, RowInv, MarketPoll(FALSE)
  PROVE  OrderInv' /\ RowInv'
<1> DEFINE upto == Min({head, m.seen + Span})
<1>1. m.seen \in Nat /\ m.seen = m.upto /\ m.inbox = {} /\ m.seen < head /\ head \in Nat
  BY HeadNat DEF MarketPoll, OrderInv, TypeOK
<1>2. Span \in Nat /\ Span > 0
  BY ProtocolAssumption
<1>3. upto \in Nat /\ m.seen < upto
  <2>1. m.seen + Span \in Nat /\ m.seen < m.seen + Span
    BY <1>1, <1>2
  <2>2. upto \in {head, m.seen + Span}
    BY <1>1, <2>1, PairFacts
  <2> QED BY <1>1, <2>1, <2>2
<1>4. m' = [m EXCEPT !.at = "logs", !.upto = upto, !.inbox = LogsIn(m.seen + 1, upto),
                     !.observed = (LogsIn(m.seen + 1, upto) # {})]
  BY DEF MarketPoll
<1> HIDE DEF upto
<1>5. m'.at = "logs" /\ m'.upto = upto /\ m'.inbox = LogsIn(m.seen + 1, upto)
  BY <1>4 DEF TypeOK
<1>6. ASSUME NEW l \in Logs PROVE Handled(l)' <=> Handled(l)
  <2>1. l.block \in Nat
    BY LogType
  <2> QED BY <1>1, <1>3, <1>5, <2>1 DEF Handled, LogsIn
<1>7. ASSUME NEW l \in m'.inbox, NEW k \in Logs, Handled(k)' PROVE k.stamp < l.stamp
  <2>1. l \in Logs /\ m.seen + 1 <= l.block
    BY <1>5, <1>7 DEF LogsIn
  <2>2. k.block <= m.seen
    BY <1>1, <1>6, <1>7 DEF Handled
  <2>3. k.block < l.block
    BY <1>1, <2>1, <2>2, LogType
  <2> QED BY <2>1, <2>3, StampOrder
<1>8. OrderInv'
  BY <1>5, <1>7 DEF OrderInv
<1>9. obs' = obs
  BY DEF MarketPoll, rowVars
<1>10. RowInv'
  BY <1>6, <1>9 DEF RowInv
<1> QED BY <1>8, <1>10

\* While nothing disturbs the order of the logs, every price is one of its block.
LEMMA PriceStep ==
  TypeOK /\ BoundInv /\ MarkInv /\ PriceInv /\ [Next]_vars => PriceInv'
<1> SUFFICES ASSUME TypeOK, BoundInv, MarkInv, PriceInv, [Next]_vars, Undisturbed' PROVE PriceInv'
  BY DEF PriceInv
<1>0. /\ prom \in [Promoters -> Promotion] /\ obs \in [Pools -> Row]
      /\ faults \in Nat /\ crashes \in Nat
  BY DEF TypeOK
<1>1. Undisturbed /\ hyd = NoScan /\ OrderInv /\ RowInv /\ RedisRight /\ FlightRight
  <2>1. on' = on /\ faults <= faults' /\ crashes <= crashes' /\ faults' \in Nat /\ crashes' \in Nat
    <3>1. ASSUME NEW failed \in BOOLEAN, Fault(failed) PROVE faults <= faults' /\ faults' \in Nat
      BY <1>0, <3>1 DEF Fault
    <3> DEFINE Goal == /\ on' = on /\ faults <= faults' /\ crashes <= crashes'
                       /\ faults' \in Nat /\ crashes' \in Nat
    <3>2. CASE Next
      <4>1. CASE NewBlock \/ DiscoveryTick \/ MarketLog \/ MarketPromote \/ MarketAdvance
                 \/ HydrateManager \/ HydrateLog \/ MarketRestart
        BY <1>0, <4>1 DEF NewBlock, DiscoveryTick, MarketLog, MarketPromote, MarketAdvance,
                          HydrateManager, HydrateLog, MarketRestart
      <4>2. ASSUME NEW w \in Promoters, SelectRows(w) \/ WritePool(w) \/ MarkImported(w) PROVE Goal
        <5>1. UNCHANGED <<on, faults, crashes>>
          <6>1. CASE SelectRows(w)
            BY <6>1 DEF SelectRows
          <6>2. CASE WritePool(w)
            BY <6>2 DEF WritePool
          <6>3. CASE MarkImported(w)
            BY <6>3 DEF MarkImported
          <6> QED BY <4>2, <6>1, <6>2, <6>3
        <5> QED BY <1>0, <5>1
      <4>3. ASSUME NEW w \in Promoters, NEW dropped \in BOOLEAN, PublishPromoted(w, dropped) PROVE Goal
        <5>1. Fault(dropped) /\ UNCHANGED <<on, crashes>>
          BY <4>3 DEF PublishPromoted
        <5> QED BY <1>0, <3>1, <5>1
      <4>4. CASE PromotionFails \/ (\E failed \in BOOLEAN : MarketPoll(failed)) \/ HydratePass
        <5>1. (\E failed \in BOOLEAN : Fault(failed)) /\ UNCHANGED <<on, crashes>>
          BY <4>4 DEF PromotionFails, MarketPoll, HydratePass
        <5> QED BY <1>0, <3>1, <5>1
      <4>5. CASE \E batch \in Batches, failed \in BOOLEAN : Flush(batch, failed)
        <5>1. (\E failed \in BOOLEAN : Fault(failed)) /\ UNCHANGED <<on, crashes>>
          BY <4>5 DEF Flush
        <5> QED BY <1>0, <3>1, <5>1
      <4>6. CASE (\E mark \in BOOLEAN : HydrateEnd(mark)) \/ (\E p \in Balancer : Classify(p))
        <5>1. UNCHANGED <<on, faults, crashes>>
          <6>1. ASSUME NEW mark \in BOOLEAN, HydrateEnd(mark) PROVE UNCHANGED <<on, faults, crashes>>
            BY <6>1 DEF HydrateEnd
          <6>2. CASE \E p \in Balancer : Classify(p)
            BY <6>2 DEF Classify
          <6> QED BY <4>6, <6>1, <6>2
        <5> QED BY <1>0, <5>1
      <4> QED BY <3>2, <4>1, <4>2, <4>3, <4>4, <4>5, <4>6
              DEF Next, Market, Promote, Promoters, Hydrate, Record, RecordFails
    <3>3. CASE UNCHANGED vars
      BY <1>0, <3>3 DEF vars
    <3> QED BY <3>2, <3>3
  <2>2. Undisturbed
    BY <1>0, <2>1 DEF Undisturbed
  <2> QED BY <2>2 DEF PriceInv
<1>2. "hydrator" \notin on /\ crashes = 0 /\ faults = 0 /\ crashes' = 0 /\ faults' = 0
  BY <1>1 DEF Undisturbed
<1>3. ASSUME UNCHANGED <<obs, m>> PROVE OrderInv' /\ RowInv'
  BY <1>1, <1>3 DEF OrderInv, RowInv, Handled
<1>4. ASSUME UNCHANGED redis PROVE RedisRight'
  BY <1>1, <1>4 DEF RedisRight, RightPrice
<1>5. ASSUME UNCHANGED prom PROVE FlightRight'
  BY <1>1, <1>5 DEF FlightRight, Inflight, RightPrice
<1>6. ASSUME NEW w \in Promoters, NEW new, prom' = [prom EXCEPT ![w] = new],
             new.rows = {}, new.done = {}, new.row = NoState
      PROVE  FlightRight'
  <2>1. prom'[w] = new /\ \A v \in Promoters : v # w => prom'[v] = prom[v]
    BY <1>0, <1>6
  <2> QED BY <1>1, <1>6, <2>1, NoStateIsNone DEF FlightRight, Inflight, RightPrice
<1>7. /\ NoPromotion.rows = {} /\ NoPromotion.done = {} /\ NoPromotion.row = NoState
      /\ \A kind, min : /\ Begin(kind, min).rows = {} /\ Begin(kind, min).done = {}
                         /\ Begin(kind, min).row = NoState
  BY DEF NoPromotion, Begin
<1>8. ASSUME NEW w \in Promoters, SelectRows(w)
      PROVE  hyd' = NoScan /\ OrderInv' /\ RowInv' /\ RedisRight' /\ FlightRight'
  <2> DEFINE rows == {StateOf(p) : p \in Selected(prom[w].kind, prom[w].min)}
  <2>1. \A s \in rows : RightPrice(s)
    BY <1>1, RowPrice
  <2> HIDE DEF rows
  <2>2. prom' = [prom EXCEPT ![w].at = IF rows = {} THEN "publish" ELSE "pool", ![w].rows = rows]
    BY <1>8 DEF SelectRows, rows
  <2>3. prom'[w].rows = rows /\ prom'[w].done = prom[w].done /\ prom'[w].row = prom[w].row
        /\ \A v \in Promoters : v # w => prom'[v] = prom[v]
    BY <1>0, <2>2 DEF Promotion
  <2>4. FlightRight'
    BY <1>1, <2>1, <2>3 DEF FlightRight, Inflight, RightPrice
  <2> QED BY <1>1, <1>3, <1>4, <1>8, <2>4 DEF SelectRows, rowVars, storeVars
<1>9. ASSUME NEW w \in Promoters, WritePool(w)
      PROVE  hyd' = NoScan /\ OrderInv' /\ RowInv' /\ RedisRight' /\ FlightRight'
  <2>1. PICK s \in prom[w].rows :
          prom' = [prom EXCEPT ![w].at = "mark", ![w].row = s, ![w].rows = @ \ {s}]
    BY <1>9 DEF WritePool
  <2>2. prom'[w].rows \subseteq prom[w].rows /\ prom'[w].done = prom[w].done /\ prom'[w].row = s
        /\ \A v \in Promoters : v # w => prom'[v] = prom[v]
    BY <1>0, <2>1 DEF Promotion
  <2>3. ASSUME NEW v \in Promoters, NEW t \in Inflight(v)' PROVE RightPrice(t)
    <3>1. t \in Inflight(v)
      <4>1. CASE v = w
        BY <2>1, <2>2, <2>3, <4>1 DEF Inflight
      <4>2. CASE v # w
        BY <2>2, <2>3, <4>2 DEF Inflight
      <4> QED BY <4>1, <4>2
    <3> QED BY <1>1, <3>1 DEF FlightRight
  <2>4. FlightRight'
    BY <2>3 DEF FlightRight, RightPrice
  <2> QED BY <1>1, <1>3, <1>4, <1>9, <2>4 DEF WritePool, storeVars
<1>10. ASSUME NEW w \in Promoters, MarkImported(w)
       PROVE  hyd' = NoScan /\ OrderInv' /\ RowInv' /\ RedisRight' /\ FlightRight'
  <2> DEFINE p == prom[w].row.pool
  <2>1. prom[w].row \in State /\ p \in Pools
    BY <1>10 DEF MarkImported, Promoting, MarkInv, State
  <2>2. prom'[w].rows = prom[w].rows /\ prom'[w].done = prom[w].done \cup {prom[w].row}
        /\ prom'[w].row = NoState /\ \A v \in Promoters : v # w => prom'[v] = prom[v]
    BY <1>0, <1>10 DEF MarkImported, NextRow, Promotion
  <2>3. FlightRight'
    BY <1>1, <2>1, <2>2, NoStateIsNone DEF FlightRight, Inflight, RightPrice
  <2>4. m' = m /\ hyd' = hyd /\ redis' = redis
    BY <1>10 DEF MarkImported, storeVars
  <2>5. \A q \in Pools : obs'[q].latest = obs[q].latest /\ obs'[q].price = obs[q].price
    <3> DEFINE row == [obs[p] EXCEPT !.status = "imported"]
    <3>1. row.latest = obs[p].latest /\ row.price = obs[p].price
      BY <1>0, <2>1 DEF Row
    <3>2. obs' = [obs EXCEPT ![p] = row]
      BY <1>10 DEF MarkImported
    <3> HIDE DEF row, p
    <3> QED BY <1>0, <2>1, <3>1, <3>2
  <2>6. OrderInv'
    BY <1>1, <2>4 DEF OrderInv, Handled
  <2>7. RowInv'
    BY <1>1, <2>4, <2>5 DEF RowInv, Handled, Pools
  <2> QED BY <1>1, <1>4, <2>3, <2>4, <2>6, <2>7
<1>11. ASSUME NEW w \in Promoters, NEW dropped \in BOOLEAN, PublishPromoted(w, dropped)
       PROVE  hyd' = NoScan /\ OrderInv' /\ RowInv' /\ RedisRight' /\ FlightRight'
  <2> DEFINE done == prom[w].done
             new == IF prom[w].kind = "v4" THEN Begin("balancer", prom[w].min) ELSE NoPromotion
  <2>1. prom' = [prom EXCEPT ![w] = new] /\ UNCHANGED <<obs, m, hyd>>
    BY <1>11 DEF PublishPromoted, AfterKind, rowVars
  <2>2. new.rows = {} /\ new.done = {} /\ new.row = NoState
    BY <1>7
  <2> HIDE DEF new
  <2>3. FlightRight'
    BY <1>6, <2>1, <2>2
  <2>4. redis' = [p \in Pools |-> IF \E s \in done : s.pool = p
                                 THEN CHOOSE s \in done : s.pool = p ELSE redis[p]]
    BY <1>11 DEF PublishPromoted
  <2>5. \A s \in done : RightPrice(s)
    BY <1>1 DEF FlightRight, Inflight, RightPrice
  <2> HIDE DEF done
  <2>6. ASSUME NEW p \in Pools, redis'[p] # NoState PROVE RightPrice(redis'[p])
    <3>1. CASE \E s \in done : s.pool = p
      <4>1. redis'[p] \in done
        BY <2>4, <3>1
      <4> QED BY <2>5, <4>1
    <3>2. CASE ~ \E s \in done : s.pool = p
      BY <1>1, <2>4, <2>6, <3>2 DEF RedisRight
    <3> QED BY <3>1, <3>2
  <2>7. RedisRight'
    BY <2>6 DEF RedisRight, RightPrice
  <2> QED BY <1>1, <1>3, <2>1, <2>3, <2>7
<1>12. CASE DiscoveryTick
  <2>1. prom' = [prom EXCEPT !["discovery"] = Begin("v4", 0)] /\ UNCHANGED <<obs, m, hyd, redis>>
    BY <1>12 DEF DiscoveryTick, rowVars, storeVars
  <2> DEFINE new == Begin("v4", 0)
  <2>2. new.rows = {} /\ new.done = {} /\ new.row = NoState
    BY <1>7
  <2> HIDE DEF new
  <2>3. FlightRight'
    BY <1>6, <2>1, <2>2 DEF Promoters, new
  <2> QED BY <1>1, <1>3, <1>4, <2>1, <2>3 DEF PriceInv
<1>13. CASE MarketPromote
  <2> DEFINE new == IF m.observed THEN Begin("v4", m.seen + 1) ELSE NoPromotion
  <2>1. prom' = [prom EXCEPT !["market"] = new] /\ UNCHANGED <<obs, hyd, redis>>
    BY <1>13 DEF MarketPromote, rowVars, storeVars
  <2>2. new.rows = {} /\ new.done = {} /\ new.row = NoState
    BY <1>7
  <2> HIDE DEF new
  <2>3. FlightRight'
    BY <1>6, <2>1, <2>2 DEF Promoters
  <2>4. m'.at = "promote" /\ m'.inbox = {} /\ m'.inbox = m.inbox /\ m'.upto = m.upto
    BY <1>13 DEF MarketPromote, TypeOK
  <2>5. OrderInv' /\ RowInv'
    BY <1>1, <2>1, <2>4 DEF OrderInv, RowInv, Handled
  <2> QED BY <1>1, <1>4, <2>1, <2>3, <2>5 DEF PriceInv
<1>14. CASE MarketAdvance
  <2>1. UNCHANGED <<obs, hyd, redis, prom>>
    BY <1>14 DEF MarketAdvance, rowVars
  <2>2. m.inbox = {} /\ m'.inbox = m.inbox /\ m'.upto = m.upto /\ m'.at = "poll" /\ m'.seen = m.upto
    BY <1>1, <1>14 DEF MarketAdvance, OrderInv, TypeOK
  <2>3. OrderInv' /\ RowInv'
    BY <1>1, <2>1, <2>2 DEF OrderInv, RowInv, Handled
  <2> QED BY <1>1, <1>4, <1>5, <2>1, <2>3 DEF PriceInv
<1>15. ASSUME NEW failed \in BOOLEAN, MarketPoll(failed)
       PROVE  hyd' = NoScan /\ OrderInv' /\ RowInv' /\ RedisRight' /\ FlightRight'
  <2>1. failed = FALSE
    BY <1>2, <1>15 DEF MarketPoll, Fault
  <2>2. OrderInv' /\ RowInv'
    BY <1>1, <1>15, <2>1, PollOrder
  <2>3. UNCHANGED <<hyd, redis, prom>>
    BY <1>15 DEF MarketPoll, storeVars
  <2> QED BY <1>1, <1>4, <1>5, <2>2, <2>3
<1>16. CASE MarketLog
  <2>1. OrderInv' /\ RowInv'
    BY <1>1, <1>16, OrderStep
  <2>2. UNCHANGED <<hyd, redis, prom>>
    BY <1>16 DEF MarketLog, storeVars
  <2> QED BY <1>1, <1>4, <1>5, <2>1, <2>2 DEF PriceInv
<1>17. ~ (\/ MarketRestart \/ PromotionFails \/ HydratePass \/ HydrateManager \/ HydrateLog
          \/ \E mark \in BOOLEAN : HydrateEnd(mark))
  <2>1. ~MarketRestart
    BY <1>2 DEF MarketRestart
  <2>2. ~PromotionFails
    BY <1>2 DEF PromotionFails, Fault
  <2>3. ~HydratePass /\ ~HydrateManager
    BY <1>2 DEF HydratePass, HydrateManager
  <2>4. ~HydrateLog
    BY <1>1 DEF HydrateLog, Earliest, NoScan
  <2>5. ~ \E mark \in BOOLEAN : HydrateEnd(mark)
    BY <1>1 DEF HydrateEnd
  <2> QED BY <2>1, <2>2, <2>3, <2>4, <2>5
<1>18. CASE NewBlock \/ (\E p \in Balancer : Classify(p)) \/ UNCHANGED vars
            \/ (\E batch \in Batches, failed \in BOOLEAN : Flush(batch, failed))
  <2>1. UNCHANGED <<obs, m, hyd, redis, prom>>
    BY <1>18 DEF NewBlock, Classify, Flush, vars, rowVars, storeVars
  <2> QED BY <1>1, <1>3, <1>4, <1>5, <2>1 DEF PriceInv
<1> QED
  BY <1>8, <1>9, <1>10, <1>11, <1>12, <1>13, <1>14, <1>15, <1>16, <1>17, <1>18
  DEF Next, Market, Promote, Promoters, Hydrate, Record, RecordFails, PriceInv

------------------------------------------------------------------------------
(* Theorems *)

LEMMA InvInit == Init => IInv
<1> SUFFICES ASSUME Init PROVE IInv
  OBVIOUS
<1>1. TypeOK /\ BoundInv
  BY TypeInit
<1>2. obs = [p \in Pools |-> NoRow] /\ redis = [p \in Pools |-> NoState]
      /\ recorded = [p \in Pools |-> 0] /\ queue = {} /\ prom = [w \in Promoters |-> NoPromotion]
      /\ hyd = NoScan
  BY DEF Init
<1>3. MarkInv /\ RecordInv /\ ImportedInRegistry /\ RecordedIsPublished /\ NamedInv
  BY <1>2 DEF MarkInv, RecordInv, ImportedInRegistry, RecordedIsPublished, NamedInv, NoPromotion, NoRow
<1>4. OrderInv
  BY DEF Init, Polling, OrderInv
<1>5. RowInv
  BY <1>2 DEF RowInv, NoRow, Pools
<1>6. \A w \in Promoters : Inflight(w) = {}
  BY <1>2, NoStateIsNone DEF NoPromotion, Inflight
<1>7. PriceInv
  BY <1>2, <1>4, <1>5, <1>6 DEF PriceInv, RedisRight, FlightRight
<1> QED BY <1>1, <1>3, <1>7 DEF IInv

LEMMA InvStep == IInv /\ [Next]_vars => IInv'
BY TypeStep, MarkStep, RecordStep, PriceStep DEF IInv

LEMMA Invariance == Spec => []IInv
BY InvInit, InvStep, PTL DEF Spec

\* Types, ImportedInRegistry and RecordedIsPublished hold of every state: of the
\* promotions in promote_quoteable_uniswap_v4_pools and _balancer_v3_pools,
\* whatever fails and whoever else writes the rows.
THEOREM PromotionSound == Spec => []ProtocolSound
<1>1. IInv => ProtocolSound
  BY DEF IInv, ProtocolSound
<1> QED BY <1>1, Invariance, PTL

\* A published price is one of its block (upsert_protocol_pool_observation and
\* both promoters), while no log is lost, replayed or hydrated over a newer one.
THEOREM PricesOfBlock == Spec => []PriceWithinBlock
<1>1. IInv => PriceWithinBlock
  <2> SUFFICES ASSUME IInv, Undisturbed, NEW p \in V4, redis[p] # NoState
               PROVE  /\ Prices[p][redis[p].block - 1] <= redis[p].price
                      /\ redis[p].price <= Prices[p][redis[p].block]
    BY DEF PriceWithinBlock, Undisturbed
  <2>1. redis[p].pool = p /\ RightPrice(redis[p])
    BY DEF IInv, NamedInv, PriceInv, RedisRight, Pools
  <2> QED BY <2>1 DEF RightPrice
<1> QED BY <1>1, Invariance, PTL

=============================================================================

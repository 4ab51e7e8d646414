--------------------------- MODULE TickStoreProofs ---------------------------
(***************************************************************************)
(* Theorems about the ticks of a pool and those who read, change and       *)
(* replace them (TickStore): the searcher hears of every change, the       *)
(* listener's deltas and the hydrator's scans add up to the chain's ticks. *)
(*                                                                         *)
(* BaseInv says where every process and its call are.  FreshInv, CleanInv  *)
(* and ScanInv carry one theorem each; most steps keep them because of     *)
(* what the step leaves alone (Quiet, KeepsSearch, KeepsListener,          *)
(* KeepsScan).                                                             *)
(***************************************************************************)
EXTENDS TickStore, FiniteSetTheorems, WellFoundedInduction, TLAPS

------------------------------------------------------------------------------
(* The chain *)

\* What a block has of the pool.
Event == [keys : Positions, d : {1, -1}]

\* The events of d at t, and those that have t as their lower or upper tick.
At(t, d) == {e \in Event : t \in e.keys /\ e.d = d}
LowerOf(keys, t) == \A u \in keys : t <= u
Low(t, d) == {e \in At(t, d) : LowerOf(e.keys, t)}
High(t, d) == {e \in At(t, d) : ~LowerOf(e.keys, t)}

\* The blocks 1 .. n of the log l with an event in E, and how many they are.
Hits(l, E, n) == {b \in 1..n : l[b] \in E}
Number(l, E, n) == Cardinality(Hits(l, E, n))
More(l, E, F, n) == Number(l, E, n) - Number(l, F, n)

\* Gross liquidity of t, and that of positions with t below or above.
GrossIn(l, t, n) == More(l, At(t, 1), At(t, -1), n)
LowIn(l, t, n) == More(l, Low(t, 1), Low(t, -1), n)
HighIn(l, t, n) == More(l, High(t, 1), High(t, -1), n)
NetIn(l, t, n) == LowIn(l, t, n) - HighIn(l, t, n)
ChainIn(l, n) == [t \in {u \in Tick : GrossIn(l, u, n) > 0} |-> GrossIn(l, t, n)]

\* Every burn has a mint of its own, of the same position and before it.
Burns(l) == {b \in 1..Len(l) : l[b] # None /\ l[b].d = -1}
Mints(l) == {b \in 1..Len(l) : l[b] # None /\ l[b].d = 1}
Pairs(l, j) ==
  /\ j \in [Burns(l) -> Mints(l)]
  /\ \A b \in Burns(l) : j[b] < b /\ l[j[b]].keys = l[b].keys
  /\ \A a, b \in Burns(l) : j[a] = j[b] => a = b
Matched(l) == \E j : Pairs(l, j)

LogOK(l) == l \in Seq(Event \cup {None}) /\ Matched(l)

\* A non-empty set of numbers has a least one.
LEMMA LeastNumber ==
  ASSUME NEW S, S \subseteq Nat, S # {}
  PROVE  \E m \in S : \A k \in S : m <= k
<1>1. PICK m \in S : \A k \in S : <<k, m>> \notin OpToRel(<, Nat)
  BY NatLessThanWellFounded, WFMin
<1>2. \A k \in S : ~(k < m)
  BY <1>1 DEF OpToRel
<1> QED BY <1>2

LEMMA NumberType ==
  ASSUME NEW l, NEW E, NEW n \in Int
  PROVE  /\ IsFiniteSet(Hits(l, E, n))
         /\ Number(l, E, n) \in Nat
         /\ n <= 0 => Number(l, E, n) = 0
<1>1. IsFiniteSet(1..n)
  BY FS_Interval
<1>2. IsFiniteSet(Hits(l, E, n))
  BY <1>1, FS_Subset DEF Hits
<1>3. n <= 0 => Hits(l, E, n) = {}
  BY DEF Hits
<1> QED BY <1>2, <1>3, FS_CardinalityType, FS_EmptySet DEF Number

\* One block more.
LEMMA NumberNext ==
  ASSUME NEW l, NEW E, NEW n \in Nat \ {0}
  PROVE  Number(l, E, n) = Number(l, E, n - 1) + (IF l[n] \in E THEN 1 ELSE 0)
<1>1. IsFiniteSet(Hits(l, E, n - 1)) /\ n \notin Hits(l, E, n - 1)
      /\ Number(l, E, n - 1) \in Nat
  BY NumberType DEF Hits
<1>2. CASE l[n] \in E
  <2>1. Hits(l, E, n) = Hits(l, E, n - 1) \cup {n}
    BY <1>2 DEF Hits
  <2> QED BY <1>1, <1>2, <2>1, FS_AddElement DEF Number
<1>3. CASE l[n] \notin E
  <2>1. Hits(l, E, n) = Hits(l, E, n - 1)
    BY <1>3 DEF Hits
  <2> QED BY <1>1, <1>3, <2>1 DEF Number
<1> QED BY <1>2, <1>3

\* What is appended to the log changes nothing of its past.
LEMMA NumberKept ==
  ASSUME NEW T, NEW l \in Seq(T), NEW e \in T, NEW E, NEW n \in Int, n <= Len(l)
  PROVE  Number(Append(l, e), E, n) = Number(l, E, n)
<1>1. \A b \in 1..n : Append(l, e)[b] = l[b]
  OBVIOUS
<1>2. Hits(Append(l, e), E, n) = Hits(l, E, n)
  BY <1>1 DEF Hits
<1> QED BY <1>2 DEF Number

LEMMA NumberUnion ==
  ASSUME NEW l, NEW E, NEW F, E \cap F = {}, NEW n \in Int
  PROVE  Number(l, E \cup F, n) = Number(l, E, n) + Number(l, F, n)
<1>1. Hits(l, E \cup F, n) = Hits(l, E, n) \cup Hits(l, F, n)
  BY DEF Hits
<1>2. Hits(l, E, n) \cap Hits(l, F, n) = {}
  BY DEF Hits
<1>3. /\ IsFiniteSet(Hits(l, E, n)) /\ IsFiniteSet(Hits(l, F, n))
      /\ Number(l, E, n) \in Nat /\ Number(l, F, n) \in Nat
  BY NumberType
<1>4. \A A, B : IsFiniteSet(A) /\ IsFiniteSet(B) /\ A \cap B = {} =>
               Cardinality(A \cup B) = Cardinality(A) + Cardinality(B) - 0
  BY FS_Union, FS_EmptySet
<1>5. Cardinality(Hits(l, E, n) \cup Hits(l, F, n))
        = Cardinality(Hits(l, E, n)) + Cardinality(Hits(l, F, n)) - 0
  BY <1>2, <1>3, <1>4
<1>6. Number(l, E \cup F, n) = Number(l, E, n) + Number(l, F, n) - 0
  BY <1>1, <1>5, Zenon DEF Number
<1> QED BY <1>3, <1>6

\* An event of a set of burns has its mint in the set of mints of the same
\* positions, earlier: up to any block there are no fewer of these.
LEMMA MintsFirst ==
  ASSUME NEW l, LogOK(l), NEW n \in Int, n <= Len(l), NEW E \in SUBSET Event, NEW F,
         \A e \in E : e.d = -1,
         \A e \in E, f \in Event : f.d = 1 /\ f.keys = e.keys => f \in F
  PROVE  Number(l, E, n) <= Number(l, F, n)
<1>1. l \in Seq(Event \cup {None}) /\ None \notin Event
  BY TickAssumption DEF LogOK, Event
<1>2. PICK j : Pairs(l, j)
  BY DEF LogOK, Matched
<1> DEFINE jn == [b \in Hits(l, E, n) |-> j[b]]
<1>3. ASSUME NEW b \in Hits(l, E, n)
      PROVE  b \in Burns(l) /\ j[b] \in Hits(l, F, n)
  <2>1. b \in 1..n /\ b \in 1..Len(l) /\ l[b] \in E /\ l[b].d = -1 /\ l[b] # None
    BY <1>1 DEF Hits
  <2>2. b \in Burns(l)
    BY <2>1 DEF Burns
  <2>3. j[b] \in Mints(l) /\ j[b] < b /\ l[j[b]].keys = l[b].keys
    BY <1>2, <2>2 DEF Pairs
  <2>4. j[b] \in 1..Len(l) /\ l[j[b]] # None /\ l[j[b]].d = 1
    BY <2>3 DEF Mints
  <2>5. l[j[b]] \in Event
    BY <1>1, <2>4
  <2>6. l[j[b]] \in F
    BY <2>1, <2>3, <2>4, <2>5
  <2>7. j[b] \in 1..n
    BY <2>1, <2>3, <2>4
  <2> QED BY <2>2, <2>6, <2>7 DEF Hits
<1>4. jn \in Injection(Hits(l, E, n), Hits(l, F, n))
  <2>1. jn \in [Hits(l, E, n) -> Hits(l, F, n)]
    BY <1>3
  <2>2. \A a, b \in Hits(l, E, n) : jn[a] = jn[b] => a = b
    BY <1>2, <1>3 DEF Pairs
  <2> QED BY <2>1, <2>2 DEF Injection, IsInjective
<1>5. IsFiniteSet(Hits(l, F, n))
  BY NumberType
<1> HIDE DEF jn
<1> QED BY <1>4, <1>5, FS_Injection DEF Number

\* Neither side of a tick is ever negative, and the two make up its gross.
LEMMA SidesOfTick ==
  ASSUME NEW l, LogOK(l), NEW n \in Int, n <= Len(l), NEW t
  PROVE  /\ LowIn(l, t, n) \in Nat /\ HighIn(l, t, n) \in Nat
         /\ GrossIn(l, t, n) = LowIn(l, t, n) + HighIn(l, t, n)
<1>1. Number(l, Low(t, -1), n) <= Number(l, Low(t, 1), n)
  <2>1. /\ Low(t, -1) \in SUBSET Event
        /\ \A e \in Low(t, -1) : e.d = -1
        /\ \A e \in Low(t, -1), f \in Event : f.d = 1 /\ f.keys = e.keys => f \in Low(t, 1)
    BY DEF Low, At
  <2> QED BY <2>1, MintsFirst
<1>2. Number(l, High(t, -1), n) <= Number(l, High(t, 1), n)
  <2>1. /\ High(t, -1) \in SUBSET Event
        /\ \A e \in High(t, -1) : e.d = -1
        /\ \A e \in High(t, -1), f \in Event : f.d = 1 /\ f.keys = e.keys => f \in High(t, 1)
    BY DEF High, At
  <2> QED BY <2>1, MintsFirst
<1>3. ASSUME NEW d
      PROVE  Number(l, At(t, d), n) = Number(l, Low(t, d), n) + Number(l, High(t, d), n)
  <2>1. At(t, d) = Low(t, d) \cup High(t, d) /\ Low(t, d) \cap High(t, d) = {}
    BY DEF Low, High
  <2> QED BY <2>1, NumberUnion
<1>4. \A E : Number(l, E, n) \in Nat
  BY NumberType
<1>5. /\ Number(l, At(t, 1), n) = Number(l, Low(t, 1), n) + Number(l, High(t, 1), n)
      /\ Number(l, At(t, -1), n) = Number(l, Low(t, -1), n) + Number(l, High(t, -1), n)
  BY <1>3
<1>6. /\ Number(l, Low(t, 1), n) \in Nat /\ Number(l, High(t, 1), n) \in Nat
      /\ Number(l, Low(t, -1), n) \in Nat /\ Number(l, High(t, -1), n) \in Nat
  BY <1>4
<1> QED BY <1>1, <1>2, <1>5, <1>6 DEF GrossIn, LowIn, HighIn, More

\* A tick without gross liquidity has no net liquidity.
LEMMA GrossAndNet ==
  ASSUME NEW l, LogOK(l), NEW n \in Int, n <= Len(l), NEW t
  PROVE  /\ GrossIn(l, t, n) \in Nat /\ NetIn(l, t, n) \in Int
         /\ GrossIn(l, t, n) = 0 => NetIn(l, t, n) = 0
<1>1. /\ LowIn(l, t, n) \in Nat /\ HighIn(l, t, n) \in Nat
      /\ GrossIn(l, t, n) = LowIn(l, t, n) + HighIn(l, t, n)
  BY SidesOfTick
<1> QED BY <1>1 DEF NetIn

\* What block n adds to how many more events of E there are than of F.
LEMMA MoreNext ==
  ASSUME NEW l, NEW n \in Nat \ {0}, NEW E, NEW F
  PROVE  /\ More(l, E, F, n - 1) \in Int
         /\ l[n] \notin E /\ l[n] \notin F => More(l, E, F, n) = More(l, E, F, n - 1)
         /\ \A d \in {1, -1} :
              (/\ d = 1 => l[n] \in E /\ l[n] \notin F
               /\ d = -1 => l[n] \notin E /\ l[n] \in F)
              => More(l, E, F, n) = More(l, E, F, n - 1) + d
<1>1. /\ Number(l, E, n) = Number(l, E, n - 1) + (IF l[n] \in E THEN 1 ELSE 0)
      /\ Number(l, F, n) = Number(l, F, n - 1) + (IF l[n] \in F THEN 1 ELSE 0)
      /\ Number(l, E, n - 1) \in Nat /\ Number(l, F, n - 1) \in Nat
  BY NumberNext, NumberType
<1> QED BY <1>1 DEF More

\* One block more of gross and net liquidity: without an event of t, and with.
LEMMA LiquidityNext ==
  ASSUME NEW l, LogOK(l), NEW n \in 1..Len(l), NEW t
  PROVE  /\ l[n] = None \/ t \notin l[n].keys =>
              GrossIn(l, t, n) = GrossIn(l, t, n - 1) /\ NetIn(l, t, n) = NetIn(l, t, n - 1)
         /\ l[n] # None /\ t \in l[n].keys =>
              /\ GrossIn(l, t, n) = GrossIn(l, t, n - 1) + l[n].d
              /\ NetIn(l, t, n) = NetIn(l, t, n - 1)
                                  + (IF LowerOf(l[n].keys, t) THEN l[n].d ELSE -l[n].d)
<1>1. n \in Nat \ {0} /\ n - 1 \in Int
  BY DEF LogOK
<1>2. /\ l[n] \in Event \cup {None} /\ None \notin Event
  BY TickAssumption DEF LogOK, Event
<1>3. LowIn(l, t, n - 1) \in Int /\ HighIn(l, t, n - 1) \in Int
  BY <1>1, MoreNext DEF LowIn, HighIn
<1>4. CASE l[n] = None \/ t \notin l[n].keys
  <2>1. /\ l[n] \notin At(t, 1) /\ l[n] \notin At(t, -1) /\ l[n] \notin Low(t, 1)
        /\ l[n] \notin Low(t, -1) /\ l[n] \notin High(t, 1) /\ l[n] \notin High(t, -1)
    BY <1>2, <1>4 DEF At, Low, High
  <2>2. GrossIn(l, t, n) = GrossIn(l, t, n - 1)
    BY <1>1, <2>1, MoreNext DEF GrossIn
  <2>3. LowIn(l, t, n) = LowIn(l, t, n - 1) /\ HighIn(l, t, n) = HighIn(l, t, n - 1)
    BY <1>1, <2>1, MoreNext DEF LowIn, HighIn
  <2> QED BY <1>2, <1>4, <2>2, <2>3 DEF NetIn
<1>5. CASE l[n] # None /\ t \in l[n].keys
  <2>1. l[n] \in Event /\ l[n].d \in {1, -1}
    BY <1>2, <1>5 DEF Event
  <2>2. GrossIn(l, t, n) = GrossIn(l, t, n - 1) + l[n].d
    <3>1. /\ l[n].d = 1 => l[n] \in At(t, 1) /\ l[n] \notin At(t, -1)
          /\ l[n].d = -1 => l[n] \notin At(t, 1) /\ l[n] \in At(t, -1)
      BY <1>5, <2>1 DEF At
    <3> QED BY <1>1, <2>1, <3>1, MoreNext DEF GrossIn
  <2>3. CASE LowerOf(l[n].keys, t)
    <3>1. /\ l[n].d = 1 => l[n] \in Low(t, 1) /\ l[n] \notin Low(t, -1)
          /\ l[n].d = -1 => l[n] \notin Low(t, 1) /\ l[n] \in Low(t, -1)
          /\ l[n] \notin High(t, 1) /\ l[n] \notin High(t, -1)
      BY <1>5, <2>1, <2>3 DEF At, Low, High
    <3>2. LowIn(l, t, n) = LowIn(l, t, n - 1) + l[n].d
      BY <1>1, <2>1, <3>1, MoreNext DEF LowIn
    <3>3. HighIn(l, t, n) = HighIn(l, t, n - 1)
      BY <1>1, <3>1, MoreNext DEF HighIn
    <3>4. NetIn(l, t, n) = NetIn(l, t, n - 1) + l[n].d
      BY <1>3, <2>1, <3>2, <3>3 DEF NetIn
    <3> QED BY <1>5, <2>2, <2>3, <3>4
  <2>4. CASE ~LowerOf(l[n].keys, t)
    <3>1. /\ l[n].d = 1 => l[n] \in High(t, 1) /\ l[n] \notin High(t, -1)
          /\ l[n].d = -1 => l[n] \notin High(t, 1) /\ l[n] \in High(t, -1)
          /\ l[n] \notin Low(t, 1) /\ l[n] \notin Low(t, -1)
      BY <1>5, <2>1, <2>4 DEF At, Low, High
    <3>2. HighIn(l, t, n) = HighIn(l, t, n - 1) + l[n].d
      BY <1>1, <2>1, <3>1, MoreNext DEF HighIn
    <3>3. LowIn(l, t, n) = LowIn(l, t, n - 1)
      BY <1>1, <3>1, MoreNext DEF LowIn
    <3>4. NetIn(l, t, n) = NetIn(l, t, n - 1) + (-l[n].d)
      BY <1>3, <2>1, <3>2, <3>3 DEF NetIn
    <3> QED BY <1>5, <2>2, <2>4, <3>4
  <2> QED BY <2>3, <2>4
<1> QED BY <1>4, <1>5

\* The operators of the specification, with the log as a parameter.
LEMMA ChainIsChainIn ==
  ASSUME log \in Seq(Event \cup {None}), NEW n \in Int, n <= head
  PROVE  /\ \A t : Gross(t, n) = GrossIn(log, t, n)
         /\ ChainTicks(n) = ChainIn(log, n)
<1>1. \A b \in 1..n : log[b] \in Event \cup {None}
  BY DEF head
<1>2. ASSUME NEW t, NEW d PROVE EventsAt(t, d, n) = Hits(log, At(t, d), n)
  BY <1>1, TickAssumption DEF EventsAt, Hits, At, Event
<1>3. \A t : Gross(t, n) = GrossIn(log, t, n)
  BY <1>2 DEF Gross, GrossIn, More, Number
<1> QED BY <1>3 DEF ChainTicks, ChainIn

------------------------------------------------------------------------------
(* Blocks *)

\* The first block mints; a block mints, burns what is open, or has nothing.
LEMMA FirstLog ==
  ASSUME NEW P \in Positions
  PROVE  LogOK(<<[keys |-> P, d |-> 1]>>)
<1> DEFINE l == <<[keys |-> P, d |-> 1]>>
<1>1. l \in Seq(Event \cup {None})
  BY DEF Event
<1>2. Burns(l) = {}
  BY DEF Burns
<1>3. Pairs(l, [b \in {} |-> b])
  BY <1>2 DEF Pairs
<1> QED BY <1>1, <1>3 DEF LogOK, Matched

LEMMA NextLog ==
  ASSUME NEW l, LogOK(l), NEW e \in Event \cup {None}, e = None \/ e.d = 1
  PROVE  LogOK(Append(l, e))
<1>1. l \in Seq(Event \cup {None}) /\ Append(l, e) \in Seq(Event \cup {None})
  BY DEF LogOK
<1>2. /\ Len(Append(l, e)) = Len(l) + 1 /\ Len(l) \in Nat
      /\ Append(l, e)[Len(l) + 1] = e
      /\ \A b \in 1..Len(l) : Append(l, e)[b] = l[b]
  BY <1>1
<1>3. PICK j : Pairs(l, j)
  BY DEF LogOK, Matched
<1>4. Burns(Append(l, e)) = Burns(l) /\ Mints(l) \subseteq Mints(Append(l, e))
  BY <1>2 DEF Burns, Mints
<1>5. Pairs(Append(l, e), j)
  <2>1. j \in [Burns(Append(l, e)) -> Mints(Append(l, e))]
    BY <1>3, <1>4 DEF Pairs
  <2>2. ASSUME NEW b \in Burns(l)
        PROVE  j[b] < b /\ Append(l, e)[j[b]].keys = Append(l, e)[b].keys
    BY <1>2, <1>3 DEF Pairs, Burns, Mints
  <2> QED BY <1>3, <1>4, <2>1, <2>2 DEF Pairs
<1> QED BY <1>1, <1>5 DEF LogOK, Matched

LEMMA BurnOfOpen ==
  ASSUME LogOK(log), NEW P \in Positions, OpenAt(P, head) > 0
  PROVE  LogOK(Append(log, [keys |-> P, d |-> -1]))
<1> DEFINE e == [keys |-> P, d |-> -1]
           M == {b \in 1..head : log[b] = [keys |-> P, d |-> 1]}
           B == {b \in 1..head : log[b] = [keys |-> P, d |-> -1]}
           l == Append(log, e)
<1>1. /\ log \in Seq(Event \cup {None}) /\ None \notin Event
      /\ e \in Event /\ l \in Seq(Event \cup {None})
  BY TickAssumption DEF LogOK, Event
<1>2. /\ Len(l) = head + 1 /\ head \in Nat
      /\ l[head + 1] = e
      /\ \A b \in 1..head : l[b] = log[b]
  BY <1>1 DEF head
<1>3. PICK j : Pairs(log, j)
  BY DEF LogOK, Matched
<1>4. IsFiniteSet(M) /\ IsFiniteSet(B) /\ Cardinality(M) > Cardinality(B)
  <2>1. IsFiniteSet(1..head)
    BY <1>2, FS_Interval
  <2>2. IsFiniteSet(M) /\ IsFiniteSet(B)
    BY <2>1, FS_Subset
  <2>3. Cardinality(M) \in Nat /\ Cardinality(B) \in Nat
    BY <2>2, FS_CardinalityType
  <2> QED BY <2>2, <2>3 DEF OpenAt
<1>5. /\ B \subseteq Burns(log) /\ M \subseteq Mints(log)
      /\ \A b \in Mints(log) : log[b].keys = P => b \in M
  BY <1>1 DEF Burns, Mints, head, Event
<1>6. \A b \in B : j[b] \in M
  BY <1>3, <1>5 DEF Pairs
<1>7. PICK m \in M : \A b \in B : j[b] # m
  <2> SUFFICES ASSUME \A m \in M : \E b \in B : j[b] = m PROVE FALSE
    OBVIOUS
  <2> DEFINE f == [b \in B |-> j[b]]
  <2>1. f \in Surjection(B, M)
    BY <1>6 DEF Surjection
  <2>2. Cardinality(M) <= Cardinality(B)
    BY <1>4, <2>1, FS_Surjection
  <2>3. Cardinality(M) \in Nat /\ Cardinality(B) \in Nat
    BY <1>4, FS_CardinalityType
  <2> QED BY <1>4, <2>2, <2>3
<1>8. \A b \in Burns(log) : j[b] # m
  <2> SUFFICES ASSUME NEW b \in Burns(log), j[b] = m PROVE FALSE
    OBVIOUS
  <2>1. log[b].keys = P /\ log[b].d = -1 /\ log[b] \in Event
    BY <1>1, <1>3 DEF Pairs, Burns
  <2>2. b \in B
    BY <1>1, <2>1 DEF Burns, Event, head
  <2> QED BY <1>7, <2>2
<1>9. Burns(l) = Burns(log) \cup {head + 1} /\ Mints(l) = Mints(log)
  BY <1>1, <1>2 DEF Burns, Mints, head
<1>10. head + 1 \notin Burns(log)
  BY <1>2 DEF Burns, head
<1> DEFINE k == [b \in Burns(l) |-> IF b = head + 1 THEN m ELSE j[b]]
<1>11. Pairs(l, k)
  <2>1. k \in [Burns(l) -> Mints(l)]
    BY <1>3, <1>5, <1>7, <1>9 DEF Pairs
  <2>2. ASSUME NEW b \in Burns(l) PROVE k[b] < b /\ l[k[b]].keys = l[b].keys
    <3>1. CASE b = head + 1
      <4>1. k[b] = m /\ m \in 1..head /\ log[m].keys = P
        BY <1>7, <3>1
      <4> QED BY <1>2, <3>1, <4>1
    <3>2. CASE b # head + 1
      <4>1. b \in Burns(log) /\ k[b] = j[b]
        BY <1>9, <3>2
      <4>2. /\ j[b] < b /\ log[j[b]].keys = log[b].keys
            /\ j[b] \in 1..head /\ b \in 1..head
        BY <1>3, <4>1 DEF Pairs, Burns, Mints, head
      <4> QED BY <1>2, <4>1, <4>2
    <3> QED BY <3>1, <3>2
  <2>3. ASSUME NEW a \in Burns(l), NEW b \in Burns(l), k[a] = k[b] PROVE a = b
    BY <1>3, <1>8, <1>9, <2>3 DEF Pairs
  <2> QED BY <2>1, <2>2, <2>3 DEF Pairs
<1> QED BY <1>1, <1>11 DEF LogOK, Matched

------------------------------------------------------------------------------
(* The deltas of a chunk *)

Acc == [Tick -> [gross : Int, net : Int]]

\* What acc becomes with the deltas of blocks b .. n.
Plus(acc, b, n) ==
  [t \in Tick |-> [gross |-> acc[t].gross + (GrossIn(log, t, n) - GrossIn(log, t, b - 1)),
                   net |-> acc[t].net + (NetIn(log, t, n) - NetIn(log, t, b - 1))]]

LEMMA PlusType ==
  ASSUME LogOK(log), NEW acc \in Acc, NEW b \in Int, NEW n \in Int, b - 1 <= n, n <= head
  PROVE  Plus(acc, b, n) \in Acc
<1>1. \A t : /\ GrossIn(log, t, n) \in Int /\ GrossIn(log, t, b - 1) \in Int
             /\ NetIn(log, t, n) \in Int /\ NetIn(log, t, b - 1) \in Int
  <2>1. b - 1 \in Int /\ b - 1 <= Len(log) /\ n <= Len(log)
    BY DEF head, LogOK
  <2> QED BY <2>1, GrossAndNet
<1>2. \A t \in Tick : acc[t].gross \in Int /\ acc[t].net \in Int
  BY DEF Acc
<1> QED BY <1>1, <1>2 DEF Plus, Acc

LEMMA Shift ==
  ASSUME NEW x \in Int, NEW g \in Int, NEW h \in Int, NEW k \in Int, NEW d \in Int, g = h + d
  PROVE  (x + (h - k)) + d = x + (g - k)
OBVIOUS

LEMMA AccumulatedNext ==
  ASSUME LogOK(log), NEW acc \in Acc, NEW b \in Int, NEW n \in 1..head, b <= n
  PROVE  Accumulated(Plus(acc, b, n - 1), n) = Plus(acc, b, n)
<1> DEFINE was == Plus(acc, b, n - 1)
<1>1. n \in 1..Len(log) /\ n - 1 \in Int /\ b - 1 \in Int
  BY DEF head
<1>2. \A t : /\ GrossIn(log, t, n) \in Int /\ GrossIn(log, t, n - 1) \in Int
             /\ GrossIn(log, t, b - 1) \in Int
             /\ NetIn(log, t, n) \in Int /\ NetIn(log, t, n - 1) \in Int
             /\ NetIn(log, t, b - 1) \in Int
  <2>1. n \in Int /\ n <= Len(log) /\ n - 1 <= Len(log) /\ b - 1 <= Len(log)
    BY <1>1 DEF LogOK
  <2> QED BY <1>1, <2>1, GrossAndNet
<1>3. \A t \in Tick : acc[t].gross \in Int /\ acc[t].net \in Int
  BY DEF Acc
<1>4. log[n] # None => log[n].d \in {1, -1}
  BY <1>1 DEF LogOK, Event
<1>5. \A t \in Tick :
        was[t] = [gross |-> acc[t].gross + (GrossIn(log, t, n - 1) - GrossIn(log, t, b - 1)),
                  net |-> acc[t].net + (NetIn(log, t, n - 1) - NetIn(log, t, b - 1))]
  BY DEF Plus
<1>6. was = [t \in Tick |-> was[t]]
  BY DEF Plus
<1> HIDE DEF was
<1>7. CASE log[n] = None
  <2>1. \A t \in Tick : GrossIn(log, t, n) = GrossIn(log, t, n - 1)
                        /\ NetIn(log, t, n) = NetIn(log, t, n - 1)
    BY <1>1, <1>7, LiquidityNext
  <2>2. Plus(acc, b, n) = was
    BY <1>5, <1>6, <2>1 DEF Plus
  <2> QED BY <1>7, <2>2 DEF Accumulated, was
<1>8. CASE log[n] # None
  <2> DEFINE low(t) == \A u \in log[n].keys : t <= u
             next(t) == IF t \notin log[n].keys THEN was[t]
                        ELSE [gross |-> was[t].gross + log[n].d,
                              net |-> was[t].net + (IF low(t) THEN log[n].d ELSE -log[n].d)]
  <2>0. log[n].d \in Int /\ -log[n].d \in Int
    BY <1>4, <1>8
  <2>1. Accumulated(was, n) = [t \in Tick |-> next(t)]
    BY <1>8 DEF Accumulated
  <2>2. ASSUME NEW t \in Tick
        PROVE  next(t) = [gross |-> acc[t].gross + (GrossIn(log, t, n) - GrossIn(log, t, b - 1)),
                          net |-> acc[t].net + (NetIn(log, t, n) - NetIn(log, t, b - 1))]
    <3>1. /\ acc[t].gross \in Int /\ acc[t].net \in Int
          /\ GrossIn(log, t, n) \in Int /\ GrossIn(log, t, n - 1) \in Int
          /\ GrossIn(log, t, b - 1) \in Int
          /\ NetIn(log, t, n) \in Int /\ NetIn(log, t, n - 1) \in Int
          /\ NetIn(log, t, b - 1) \in Int
      BY <1>2, <1>3
    <3>2. /\ was[t].gross = acc[t].gross + (GrossIn(log, t, n - 1) - GrossIn(log, t, b - 1))
          /\ was[t].net = acc[t].net + (NetIn(log, t, n - 1) - NetIn(log, t, b - 1))
      <4> DEFINE g == acc[t].gross + (GrossIn(log, t, n - 1) - GrossIn(log, t, b - 1))
                 k == acc[t].net + (NetIn(log, t, n - 1) - NetIn(log, t, b - 1))
      <4>1. was[t] = [gross |-> g, net |-> k]
        BY <1>5
      <4> HIDE DEF g, k
      <4>2. was[t].gross = g /\ was[t].net = k
        BY <4>1
      <4> QED BY <4>2 DEF g, k
    <3>3. CASE t \notin log[n].keys
      <4>1. GrossIn(log, t, n) = GrossIn(log, t, n - 1) /\ NetIn(log, t, n) = NetIn(log, t, n - 1)
        BY <1>1, <3>3, LiquidityNext
      <4> QED BY <1>5, <3>3, <4>1
    <3>4. CASE t \in log[n].keys
      <4>1. GrossIn(log, t, n) = GrossIn(log, t, n - 1) + log[n].d
        BY <1>1, <1>8, <3>4, LiquidityNext
      <4>2. was[t].gross + log[n].d = acc[t].gross + (GrossIn(log, t, n) - GrossIn(log, t, b - 1))
        <5>1. (acc[t].gross + (GrossIn(log, t, n - 1) - GrossIn(log, t, b - 1))) + log[n].d
                = acc[t].gross + (GrossIn(log, t, n) - GrossIn(log, t, b - 1))
          BY <2>0, <3>1, <4>1, Shift
        <5> QED BY <3>2, <5>1
      <4>3. CASE low(t)
        <5>1. NetIn(log, t, n) = NetIn(log, t, n - 1) + log[n].d
          BY <1>1, <1>8, <3>4, <4>3, LiquidityNext DEF LowerOf
        <5>2. was[t].net + log[n].d = acc[t].net + (NetIn(log, t, n) - NetIn(log, t, b - 1))
          BY <2>0, <3>1, <3>2, <5>1, Shift
        <5> QED BY <3>4, <4>2, <4>3, <5>2
      <4>4. CASE ~low(t)
        <5>1. NetIn(log, t, n) = NetIn(log, t, n - 1) + (-log[n].d)
          BY <1>1, <1>8, <3>4, <4>4, LiquidityNext DEF LowerOf
        <5>2. was[t].net + (-log[n].d) = acc[t].net + (NetIn(log, t, n) - NetIn(log, t, b - 1))
          BY <2>0, <3>1, <3>2, <5>1, Shift
        <5> QED BY <3>4, <4>2, <4>4, <5>2
      <4> QED BY <4>3, <4>4
    <3> QED BY <3>3, <3>4
  <2> QED BY <2>1, <2>2 DEF Plus, was
<1> QED BY <1>7, <1>8

\* The function of AccumulatedTo is one that satisfies its equation, if any does.
LEMMA AccumulatedSolves ==
  ASSUME NEW acc, NEW b \in Int, NEW n \in Int, NEW h,
         h = [m \in (b - 1)..n |-> IF m = b - 1 THEN acc ELSE Accumulated(h[m - 1], m)]
  PROVE  \E f : /\ f = [m \in (b - 1)..n |-> IF m = b - 1 THEN acc ELSE Accumulated(f[m - 1], m)]
                /\ AccumulatedTo(acc, b, n) = f[n]
  BY DEF AccumulatedTo

\* hydrate_ticks_by_manager_scan adds up what the chain adds up, block by block.
LEMMA AccumulatedIsPlus ==
  ASSUME LogOK(log), NEW acc \in Acc, NEW b \in Nat \ {0}, NEW n \in Nat, b - 1 <= n, n <= head
  PROVE  AccumulatedTo(acc, b, n) = Plus(acc, b, n)
<1>1. Plus(acc, b, b - 1) = acc
  <2>1. \A t : GrossIn(log, t, b - 1) \in Int /\ NetIn(log, t, b - 1) \in Int
    <3>1. b - 1 \in Int /\ b - 1 <= Len(log)
      BY DEF head, LogOK
    <3> QED BY <3>1, GrossAndNet
  <2>2. ASSUME NEW t \in Tick
        PROVE  [gross |-> acc[t].gross + (GrossIn(log, t, b - 1) - GrossIn(log, t, b - 1)),
                net |-> acc[t].net + (NetIn(log, t, b - 1) - NetIn(log, t, b - 1))] = acc[t]
    BY <2>1 DEF Acc
  <2>3. acc = [t \in Tick |-> acc[t]]
    BY DEF Acc
  <2> QED BY <2>2, <2>3, Zenon DEF Plus
<1>2. \A m \in b..n : Accumulated(Plus(acc, b, m - 1), m) = Plus(acc, b, m)
  <2>1. \A m \in b..n : m \in 1..head /\ b <= m
    BY DEF head, LogOK
  <2> QED BY <2>1, AccumulatedNext
<1> DEFINE h == [m \in (b - 1)..n |-> Plus(acc, b, m)]
<1>3. h = [m \in (b - 1)..n |-> IF m = b - 1 THEN acc ELSE Accumulated(h[m - 1], m)]
  <2>1. ASSUME NEW m \in (b - 1)..n
        PROVE  h[m] = IF m = b - 1 THEN acc ELSE Accumulated(h[m - 1], m)
    <3>1. CASE m = b - 1
      BY <1>1, <3>1
    <3>2. CASE m # b - 1
      <4>1. m \in b..n /\ m - 1 \in (b - 1)..n
        BY <3>2
      <4> QED BY <1>2, <3>2, <4>1
    <3> QED BY <3>1, <3>2
  <2> QED BY <2>1
<1> HIDE DEF h
<1>4. PICK f : /\ f = [m \in (b - 1)..n |-> IF m = b - 1 THEN acc ELSE Accumulated(f[m - 1], m)]
               /\ AccumulatedTo(acc, b, n) = f[n]
  BY <1>3, AccumulatedSolves
<1> DEFINE S == {m \in (b - 1)..n : f[m] # Plus(acc, b, m)}
<1>5. S = {}
  <2> SUFFICES ASSUME S # {} PROVE FALSE
    OBVIOUS
  <2>1. PICK m \in S : \A k \in S : m <= k
    <3>1. S \subseteq Nat
      OBVIOUS
    <3> QED BY <3>1, LeastNumber
  <2>2. m # b - 1
    <3>1. f[b - 1] = acc
      BY <1>4
    <3> QED BY <1>1, <3>1
  <2>3. m \in b..n /\ m - 1 \in (b - 1)..n /\ m - 1 \notin S
    BY <2>1, <2>2
  <2>4. f[m - 1] = Plus(acc, b, m - 1)
    BY <2>3
  <2>5. f[m] = Accumulated(f[m - 1], m)
    BY <1>4, <2>2, <2>3
  <2> QED BY <1>2, <2>1, <2>3, <2>4, <2>5
<1>6. n \in (b - 1)..n
  OBVIOUS
<1> QED BY <1>4, <1>5, <1>6

------------------------------------------------------------------------------
(* What every variable ranges over, and where each client is *)

Ticks == UNION {[S -> Nat] : S \in SUBSET Tick}
Record == [ticks : Ticks, status : Statuses]
Pushing == {"members", "del", "set", "mark", "replaced"}
CallRec == [at : {"idle", "values"} \cup Pushing, keys : SUBSET Tick, ticks : Ticks]

LogInv == scenario \in Scenarios /\ LogOK(log)
RedisInv == idx \subseteq Tick /\ val \in Ticks /\ {marked, repairq} \subseteq BOOLEAN
PgInv == pg \in Ticks /\ (cov # None => cov.status \in Statuses /\ cov.count \in Nat)

\* A client has a read or a replace_pool_ticks under way where its pc says so.
Phase(c, pc, reading, pushing) ==
  /\ pc \in reading => call[c].at = "values"
  /\ pc \in pushing => call[c].at \in Pushing
  /\ pc \notin reading \cup pushing => call[c].at = "idle"
CallInv ==
  /\ call \in [Clients -> CallRec]
  /\ Phase("listener", lpc, {"read"}, {"mark"})
  /\ Phase("warmup", wpc, {"decide"}, {"mark"})
  /\ Phase("repair", dpc, {"decide"}, {"mark"})
  /\ Phase("sync", ypc, {}, {"mark"})
  /\ Phase("search", spc, {"load"}, {"fill"})
  /\ Phase("hydrator", hpc, {}, {"redis"})

\* The listener is not ahead of the chain; a chunk ends with its last block.
ListenInv ==
  /\ {lpos, lto, current} \subseteq 0..head /\ lnext \in 1..(lto + 1)
  /\ lpc \in {"idle", "events", "read", "mark"}
  /\ lpc \in {"read", "mark"} => lnext <= lto /\ log[lnext] # None
  /\ clean \in BOOLEAN
WarmInv == wticks \in Ticks
QueueInv ==
  /\ chan \in [Recorders -> Seq(Record)] /\ \A q \in Recorders : Len(chan[q]) <= QueueCap
  /\ {pend, flush} \subseteq [Recorders -> Record \cup {None}]
RepairInv ==
  /\ dforce \in BOOLEAN
  /\ dpc \in {"rows", "coverage", "mark"} => drow.ticks \in Ticks /\ drow.status \in Statuses
SearchInv == {sgot, expired, missed} \subseteq BOOLEAN /\ (cache # None => cache \in Ticks)
HydrInv ==
  /\ hacc \in Acc /\ hfailed \in BOOLEAN
  /\ hto \in 0..head /\ hfrom \in Nat /\ hcur \in 0..(hto + 1)
  /\ hlast # None => hlast \in 0..head

BaseInv == /\ LogInv /\ RedisInv /\ PgInv /\ CallInv /\ ListenInv /\ WarmInv /\ QueueInv
           /\ RepairInv /\ SearchInv /\ HydrInv

\* A mark is set, or a pipeline that will set it has begun to write.
Noticed == marked \/ \E c \in Clients : call[c].at \in {"set", "mark"}

\* What the searcher has or is about to have is what Redis has, or it will
\* hear of the change; what a cycle drained is remembered until it has read.
Fresh == cache = RedisTicks \/ Noticed \/ expired \/ missed
FreshInv ==
  /\ spc \in {"idle", "quote"} /\ cache # None => Fresh
  /\ spc = "select" /\ cache # None => Fresh \/ sgot
  /\ spc = "load" => call["search"].keys = idx \/ Noticed
  /\ spc = "fallback" => Empty(RedisTicks) \/ Noticed
  /\ spc = "fill" /\ Replaced("search") => marked

\* While only the listener has written, Redis has the ticks of the block the
\* listener is at, or the listener is replacing them by those of the block.
CleanInv ==
  clean =>
    /\ \A c \in Clients \ {"listener"} : call[c].at \notin {"set", "mark"}
    /\ lpc = "idle" => RedisTicks = ChainIn(log, lpos)
    /\ lpc = "events" => RedisTicks = ChainIn(log, lnext - 1)
    /\ lpc = "read" => RedisTicks = ChainIn(log, lnext - 1) /\ call["listener"].keys = idx
    /\ lpc = "mark" =>
         /\ call["listener"].ticks = ChainIn(log, lnext)
         /\ call["listener"].at = "set" => idx = {}
         /\ call["listener"].at \in {"mark", "replaced"} => RedisTicks = ChainIn(log, lnext)

\* A scan from the pool's first block has what the chain had before hcur.
ScanInv ==
  (hpc \in {"scan", "rows"} /\ hfrom <= FirstBlock /\ ~hfailed) =>
    /\ \A t \in Tick : hacc[t].gross = GrossIn(log, t, hcur - 1)
                       /\ hacc[t].net = NetIn(log, t, hcur - 1)
    /\ hpc = "rows" => hcur = hto + 1

------------------------------------------------------------------------------
(* Sets of ticks *)

LEMMA TicksOf ==
  ASSUME NEW f \in Ticks
  PROVE  /\ DOMAIN f \subseteq Tick /\ f = [t \in DOMAIN f |-> f[t]]
         /\ \A t \in DOMAIN f : f[t] \in Nat
         /\ IsTicks(f) /\ Count(f) \in Nat
<1>1. /\ DOMAIN f \subseteq Tick /\ f = [t \in DOMAIN f |-> f[t]]
      /\ \A t \in DOMAIN f : f[t] \in Nat
  BY DEF Ticks
<1>2. IsFiniteSet(DOMAIN f)
  BY <1>1, TickAssumption, FS_Subset
<1>3. Cardinality(DOMAIN f) \in Nat
  BY <1>2, FS_CardinalityType
<1> QED BY <1>1, <1>3 DEF IsTicks, Count

LEMMA IsTicksOf ==
  ASSUME NEW S \in SUBSET Tick, NEW f \in [S -> Nat]
  PROVE  f \in Ticks
BY DEF Ticks

LEMMA OnlyTicks ==
  ASSUME NEW f \in Ticks, NEW S
  PROVE  Only(f, S) \in Ticks /\ DOMAIN Only(f, S) = DOMAIN f \cap S
<1>1. Only(f, S) \in [DOMAIN f \cap S -> Nat] /\ DOMAIN f \cap S \in SUBSET Tick
  BY TicksOf DEF Only
<1> QED BY <1>1, IsTicksOf

LEMMA NoTicksTicks == NoTicks \in Ticks /\ Empty(NoTicks)
<1>1. NoTicks \in [{} -> Nat]
  BY DEF NoTicks
<1> QED BY <1>1, IsTicksOf DEF Empty, NoTicks

LEMMA ChainInTicks ==
  ASSUME NEW l, LogOK(l), NEW n \in Int, n <= Len(l)
  PROVE  ChainIn(l, n) \in Ticks
<1>1. \A t : GrossIn(l, t, n) \in Nat
  BY GrossAndNet
<1>2. ChainIn(l, n) \in [{u \in Tick : GrossIn(l, u, n) > 0} -> Nat]
  BY <1>1 DEF ChainIn
<1> QED BY <1>2, IsTicksOf

LEMMA ChainTicksTicks ==
  ASSUME LogOK(log), NEW n \in Int, n <= head
  PROVE  ChainTicks(n) \in Ticks
<1>1. log \in Seq(Event \cup {None}) /\ n <= Len(log)
  BY DEF LogOK, head
<1> QED BY <1>1, ChainIsChainIn, ChainInTicks

LEMMA KeysOf ==
  ASSUME NEW e \in Event
  PROVE  e.keys \subseteq Tick /\ e.d \in {1, -1}
BY DEF Event, Positions

LEMMA NewGrossType ==
  ASSUME NEW ticks \in Ticks, NEW t, NEW d \in {1, -1}
  PROVE  NewGross(ticks, t, d) \in Nat
<1>1. (IF t \in DOMAIN ticks THEN ticks[t] ELSE 0) \in Nat
  BY TicksOf
<1> QED BY <1>1 DEF NewGross, Larger

LEMMA WithDeltasTicks ==
  ASSUME NEW ticks \in Ticks, NEW e \in Event
  PROVE  WithDeltas(ticks, e) \in Ticks
<1> DEFINE gone == {t \in e.keys : NewGross(ticks, t, e.d) = 0}
           S == (DOMAIN ticks \cup e.keys) \ gone
<1>1. S \in SUBSET Tick
  BY TicksOf, KeysOf
<1>2. \A t \in S : (IF t \in e.keys THEN NewGross(ticks, t, e.d) ELSE ticks[t]) \in Nat
  BY TicksOf, KeysOf, NewGrossType
<1>3. WithDeltas(ticks, e) \in [S -> Nat]
  BY <1>2 DEF WithDeltas
<1> QED BY <1>1, <1>3, IsTicksOf

LEMMA HydratedTicks ==
  ASSUME NEW acc \in Acc
  PROVE  Hydrated(acc) \in Ticks
<1>1. \A t \in Tick : Larger(0, acc[t].gross) \in Nat
  BY DEF Larger, Acc
<1>2. Hydrated(acc) \in [{u \in Tick : acc[u].gross > 0 \/ acc[u].net # 0} -> Nat]
  BY <1>1 DEF Hydrated
<1> QED BY <1>2, IsTicksOf

LEMMA StatusType ==
  ASSUME NEW ticks
  PROVE  Status(ticks) \in Statuses
BY DEF Status, Statuses

------------------------------------------------------------------------------
(* What a step may do *)

\* No pipeline advances, and no mark goes.
Quiet ==
  /\ UNCHANGED <<idx, val>> /\ (marked => marked')
  /\ \A c \in Clients : call'[c] = call[c] \/ ~(Sent(c) \/ Sent(c)')
KeepsSearch == UNCHANGED <<spc, sgot, cache, expired, missed>> /\ call'["search"] = call["search"]
KeepsListener ==
  UNCHANGED <<log, lpc, lpos, lto, lnext, clean>> /\ call'["listener"] = call["listener"]
KeepsScan == UNCHANGED <<log, hpc, hfrom, hto, hcur, hacc, hfailed>>

\* Only c's call changes, if any, and not in the pipeline.
OnlyCall(c) ==
  /\ \A d \in Clients \ {c} : call'[d] = call[d]
  /\ \A d \in Clients : call'[d] = call[d] \/ ~(Sent(d) \/ Sent(d)')

LEMMA OnlyCallQuiet ==
  ASSUME NEW c \in Clients, OnlyCall(c), UNCHANGED <<idx, val>>, marked \in BOOLEAN,
         marked' \in {marked, TRUE}
  PROVE  /\ Quiet
         /\ c # "search" => call'["search"] = call["search"]
         /\ c # "listener" => call'["listener"] = call["listener"]
<1>1. Quiet
  BY DEF OnlyCall, Quiet
<1> QED BY <1>1 DEF OnlyCall, Clients

LEMMA SameCalls ==
  ASSUME call' = call, NEW c
  PROVE  OnlyCall(c)
BY DEF OnlyCall, Sent

\* One client begins or ends a call.
LEMMA OneCall ==
  ASSUME call \in [Clients -> CallRec], NEW c \in Clients, NEW r \in CallRec,
         call' = [call EXCEPT ![c] = r],
         ~Sent(c), r.at \notin {"del", "set", "mark"}
  PROVE  /\ call' \in [Clients -> CallRec] /\ call'[c] = r
         /\ OnlyCall(c)
BY DEF Sent, OnlyCall

LEMMA CallsOf ==
         /\ idx \subseteq Tick => [at |-> "values", keys |-> idx, ticks |-> NoTicks] \in CallRec
         /\ \A ticks \in Ticks : [at |-> "members", keys |-> {}, ticks |-> ticks] \in CallRec
         /\ [at |-> "idle", keys |-> {}, ticks |-> NoTicks] \in CallRec
BY NoTicksTicks DEF CallRec, Pushing

LEMMA ReadTicks ==
  ASSUME val \in Ticks, NEW c
  PROVE  Read(c) \in Ticks
BY OnlyTicks DEF Read

------------------------------------------------------------------------------
(* The steps of each process keep BaseInv *)

\* A step of the listener leaves the other processes alone.
LEMMA ListenerFrameKeeps ==
  ASSUME BaseInv, ListenerFrame
  PROVE  /\ LogInv' /\ PgInv' /\ WarmInv' /\ RepairInv' /\ SearchInv' /\ HydrInv'
         /\ UNCHANGED <<log, head, idx, val, repairq, pend, flush, wpc, dpc, ypc,
                        spc, hpc, sgot, cache, expired, missed>>
         /\ KeepsScan
<1>1. /\ UNCHANGED <<scenario, log, idx, val, repairq, pg, cov, wpc, wticks, pend, flush,
                     dpc, dforce, drow, ypc, spc, sgot, cache, expired, missed>>
      /\ UNCHANGED <<hpc, hlast, hfrom, hto, hcur, hacc, hfailed>>
  BY DEF ListenerFrame, pgVars, warmVars, repairVars, searchVars, hydrVars
<1>2. LogInv'
  BY <1>1 DEF BaseInv, LogInv
<1>3. PgInv' /\ WarmInv' /\ RepairInv' /\ SearchInv'
  BY <1>1 DEF BaseInv, PgInv, WarmInv, RepairInv, SearchInv
<1>4. HydrInv'
  BY <1>1 DEF BaseInv, HydrInv, head
<1> QED BY <1>1, <1>2, <1>3, <1>4 DEF KeepsScan, head

\* What a record queue takes in.
LEMMA RecordedType ==
  ASSUME QueueInv, NEW q \in Recorders, NEW ticks \in Ticks, NEW status \in Statuses,
         chan' = Recorded(q, ticks, status)
  PROVE  chan' \in [Recorders -> Seq(Record)] /\ \A p \in Recorders : Len(chan'[p]) <= QueueCap
<1> DEFINE r == [ticks |-> ticks, status |-> status]
<1>1. r \in Record
  BY DEF Record
<1>2. chan \in [Recorders -> Seq(Record)] /\ \A p \in Recorders : Len(chan[p]) <= QueueCap
  BY DEF QueueInv
<1>3. CASE Len(chan[q]) < QueueCap
  <2>1. chan' = [chan EXCEPT ![q] = Append(chan[q], r)]
    BY <1>3 DEF Recorded
  <2>2. Append(chan[q], r) \in Seq(Record) /\ Len(Append(chan[q], r)) = Len(chan[q]) + 1
    BY <1>1, <1>2
  <2>3. Len(chan[q]) \in Nat /\ QueueCap \in Nat
    BY <1>2, TickAssumption
  <2> QED BY <1>2, <1>3, <2>1, <2>2, <2>3
<1>4. CASE ~(Len(chan[q]) < QueueCap)
  BY <1>2, <1>4 DEF Recorded
<1> QED BY <1>3, <1>4

\* CallInv is kept when each client keeps its pc and its call, or fits again.
LEMMA CallsKept ==
  ASSUME CallInv, call' \in [Clients -> CallRec],
         \/ lpc' = lpc /\ call'["listener"] = call["listener"]
         \/ Phase("listener", lpc, {"read"}, {"mark"})',
         \/ wpc' = wpc /\ call'["warmup"] = call["warmup"]
         \/ Phase("warmup", wpc, {"decide"}, {"mark"})',
         \/ dpc' = dpc /\ call'["repair"] = call["repair"]
         \/ Phase("repair", dpc, {"decide"}, {"mark"})',
         \/ ypc' = ypc /\ call'["sync"] = call["sync"]
         \/ Phase("sync", ypc, {}, {"mark"})',
         \/ spc' = spc /\ call'["search"] = call["search"]
         \/ Phase("search", spc, {"load"}, {"fill"})',
         \/ hpc' = hpc /\ call'["hydrator"] = call["hydrator"]
         \/ Phase("hydrator", hpc, {}, {"redis"})'
  PROVE  CallInv'
<1>1. Phase("listener", lpc, {"read"}, {"mark"})'
  BY DEF CallInv, Phase
<1>2. Phase("warmup", wpc, {"decide"}, {"mark"})'
  BY DEF CallInv, Phase
<1>3. Phase("repair", dpc, {"decide"}, {"mark"})'
  BY DEF CallInv, Phase
<1>4. Phase("sync", ypc, {}, {"mark"})'
  BY DEF CallInv, Phase
<1>5. Phase("search", spc, {"load"}, {"fill"})'
  BY DEF CallInv, Phase
<1>6. Phase("hydrator", hpc, {}, {"redis"})'
  BY DEF CallInv, Phase
<1> QED BY <1>1, <1>2, <1>3, <1>4, <1>5, <1>6 DEF CallInv

\* A step in which only the listener's call may change.
LEMMA ListenerCalls ==
  ASSUME BaseInv, UNCHANGED <<wpc, dpc, ypc, spc, hpc>>,
         call' \in [Clients -> CallRec],
         OnlyCall("listener"),
         Phase("listener", lpc, {"read"}, {"mark"})'
  PROVE  CallInv' /\ call'["search"] = call["search"]
<1>1. CallInv /\ \A d \in {"warmup", "repair", "sync", "search", "hydrator"} : call'[d] = call[d]
  BY DEF BaseInv, Clients, OnlyCall
<1> QED BY <1>1, CallsKept

LEMMA PollKeeps ==
  ASSUME BaseInv, Poll \/ LogsLost \/ EndChunk
  PROVE  BaseInv' /\ Quiet /\ KeepsSearch /\ KeepsScan
<1>1. ListenerFrame /\ UNCHANGED <<call, chan, marked>>
  BY DEF Poll, LogsLost, EndChunk
<1>2. /\ LogInv' /\ PgInv' /\ WarmInv' /\ RepairInv' /\ SearchInv' /\ HydrInv'
      /\ UNCHANGED <<log, head, idx, val, repairq, pend, flush, wpc, dpc, ypc,
                     spc, hpc, sgot, cache, expired, missed>>
      /\ KeepsScan
  BY <1>1, ListenerFrameKeeps
<1>3. RedisInv' /\ QueueInv'
  BY <1>1, <1>2 DEF BaseInv, RedisInv, QueueInv
<1>4. Phase("listener", lpc, {"read"}, {"mark"})'
  BY <1>1 DEF BaseInv, CallInv, Phase, Poll, LogsLost, EndChunk
<1>5. CallInv'
  <2>1. call' \in [Clients -> CallRec]
    BY <1>1 DEF BaseInv, CallInv
  <2> QED BY <1>1, <1>2, <1>4, <2>1, SameCalls, ListenerCalls
<1>6. ListenInv'
  <2>1. /\ {lpos, lto, current} \subseteq 0..head /\ lnext \in 1..(lto + 1)
        /\ head \in Nat /\ head' = head /\ clean \in BOOLEAN /\ MaxSpan \in Nat \ {0}
    BY <1>2, TickAssumption DEF BaseInv, ListenInv, LogInv, LogOK, head
  <2>2. CASE Poll
    BY <2>1, <2>2 DEF Poll, ListenInv, Smaller
  <2>3. CASE LogsLost
    <3>1. lpos \in Nat /\ lpos' \in 0..head
      BY <2>1, <2>3 DEF LogsLost, Smaller
    <3>2. lpc' = "idle" /\ UNCHANGED <<lto, lnext>> /\ current' = lpos' /\ clean' = FALSE
      BY <2>3 DEF LogsLost
    <3> QED BY <2>1, <3>1, <3>2 DEF ListenInv
  <2>4. CASE EndChunk
    BY <2>1, <2>4 DEF EndChunk, ListenInv
  <2> QED BY <2>2, <2>3, <2>4
<1>7. Quiet /\ KeepsSearch
  BY <1>1, <1>2 DEF Quiet, KeepsSearch
<1> QED BY <1>2, <1>3, <1>5, <1>6, <1>7 DEF BaseInv

LEMMA NextEventKeeps ==
  ASSUME BaseInv, NextEvent
  PROVE  BaseInv' /\ Quiet /\ KeepsSearch /\ KeepsScan
<1>1. ListenerFrame /\ UNCHANGED <<lpos, lto, marked, current, chan, clean>>
  BY DEF NextEvent
<1>2. /\ LogInv' /\ PgInv' /\ WarmInv' /\ RepairInv' /\ SearchInv' /\ HydrInv'
      /\ UNCHANGED <<log, head, idx, val, repairq, pend, flush, wpc, dpc, ypc,
                     spc, hpc, sgot, cache, expired, missed>>
      /\ KeepsScan
  BY <1>1, ListenerFrameKeeps
<1>3. RedisInv' /\ QueueInv'
  BY <1>1, <1>2 DEF BaseInv, RedisInv, QueueInv
<1>4. /\ call \in [Clients -> CallRec] /\ call["listener"].at = "idle"
      /\ "listener" \in Clients /\ idx \subseteq Tick
  BY DEF BaseInv, CallInv, Phase, NextEvent, RedisInv, Clients
<1>5. /\ {lpos, lto, current} \subseteq 0..head /\ lnext \in 1..(lto + 1) /\ lnext <= lto
      /\ head \in Nat /\ head' = head /\ clean \in BOOLEAN
  BY <1>2 DEF BaseInv, ListenInv, LogInv, LogOK, head, NextEvent
<1>6. CASE log[lnext] = None
  <2>1. lnext' = lnext + 1 /\ lpc' = "events" /\ call' = call
    BY <1>6 DEF NextEvent
  <2>2. ListenInv'
    BY <1>1, <1>5, <2>1 DEF ListenInv
  <2>3. CallInv'
    <3>1. Phase("listener", lpc, {"read"}, {"mark"})'
      BY <1>4, <2>1 DEF Phase
    <3> QED BY <1>2, <1>4, <2>1, <3>1, SameCalls, ListenerCalls
  <2> QED BY <1>1, <1>2, <1>3, <2>1, <2>2, <2>3 DEF BaseInv, Quiet, KeepsSearch, OnlyCall
<1>7. CASE log[lnext] # None
  <2> DEFINE r == [at |-> "values", keys |-> idx, ticks |-> NoTicks]
  <2>1. lnext' = lnext /\ lpc' = "read" /\ call' = [call EXCEPT !["listener"] = r]
    BY <1>7 DEF NextEvent, StartRead
  <2>2. ListenInv'
    BY <1>1, <1>2, <1>5, <1>7, <2>1 DEF ListenInv
  <2>3. r \in CallRec /\ r.at = "values"
    BY <1>4, CallsOf
  <2> HIDE DEF r
  <2>4. /\ call' \in [Clients -> CallRec] /\ call'["listener"] = r
        /\ OnlyCall("listener")
    <3>1. ~Sent("listener")
      BY <1>4 DEF Sent
    <3> QED BY <1>4, <2>1, <2>3, <3>1, OneCall
  <2>5. CallInv' /\ call'["search"] = call["search"]
    <3>1. Phase("listener", lpc, {"read"}, {"mark"})'
      BY <2>1, <2>3, <2>4 DEF Phase
    <3> QED BY <1>2, <2>4, <3>1, ListenerCalls
  <2> QED BY <1>1, <1>2, <1>3, <2>2, <2>4, <2>5 DEF BaseInv, Quiet, KeepsSearch, OnlyCall
<1> QED BY <1>6, <1>7

LEMMA ApplyDeltasKeeps ==
  ASSUME BaseInv, ApplyDeltas
  PROVE  BaseInv' /\ Quiet /\ KeepsSearch /\ KeepsScan
<1>1. ListenerFrame /\ UNCHANGED <<lpos, lto, lnext, marked, current, chan, clean>> /\ lpc' = "mark"
  BY DEF ApplyDeltas
<1>2. /\ LogInv' /\ PgInv' /\ WarmInv' /\ RepairInv' /\ SearchInv' /\ HydrInv'
      /\ UNCHANGED <<log, head, idx, val, repairq, pend, flush, wpc, dpc, ypc,
                     spc, hpc, sgot, cache, expired, missed>>
      /\ KeepsScan
  BY <1>1, ListenerFrameKeeps
<1>3. RedisInv' /\ QueueInv'
  BY <1>1, <1>2 DEF BaseInv, RedisInv, QueueInv
<1>4. ListenInv'
  <2>1. ListenInv /\ lpc = "read"
    BY DEF ApplyDeltas, BaseInv
  <2> QED BY <1>1, <1>2, <2>1 DEF ListenInv
<1>5. /\ call \in [Clients -> CallRec] /\ call["listener"].at = "values"
      /\ "listener" \in Clients /\ val \in Ticks
  BY DEF BaseInv, CallInv, Phase, ApplyDeltas, RedisInv, Clients
<1>6. log[lnext] \in Event
  BY DEF ApplyDeltas, BaseInv, ListenInv, LogInv, LogOK, head
<1> DEFINE r == [at |-> "members", keys |-> {}, ticks |-> WithDeltas(Read("listener"), log[lnext])]
<1>7. call' = [call EXCEPT !["listener"] = r]
  BY DEF ApplyDeltas, Replacing
<1>8. r \in CallRec /\ r.at = "members"
  <2>1. WithDeltas(Read("listener"), log[lnext]) \in Ticks
    BY <1>5, <1>6, ReadTicks, WithDeltasTicks
  <2> QED BY <2>1, CallsOf
<1> HIDE DEF r
<1>9. /\ call' \in [Clients -> CallRec] /\ call'["listener"] = r
      /\ OnlyCall("listener")
  <2>1. ~Sent("listener")
    BY <1>5 DEF Sent
  <2> QED BY <1>5, <1>7, <1>8, <2>1, OneCall
<1>10. CallInv' /\ call'["search"] = call["search"]
  <2>1. Phase("listener", lpc, {"read"}, {"mark"})'
    BY <1>1, <1>8, <1>9 DEF Phase, Pushing
  <2> QED BY <1>2, <1>9, <2>1, ListenerCalls
<1> QED BY <1>1, <1>2, <1>3, <1>4, <1>9, <1>10 DEF BaseInv, Quiet, KeepsSearch, OnlyCall

LEMMA RecordDeltasKeeps ==
  ASSUME BaseInv, RecordDeltas
  PROVE  BaseInv' /\ Quiet /\ KeepsSearch /\ KeepsScan
<1>1. /\ ListenerFrame /\ UNCHANGED <<lpos, lto, current, clean>>
      /\ lpc' = "events" /\ lnext' = lnext + 1 /\ marked' = TRUE
  BY DEF RecordDeltas
<1>2. /\ LogInv' /\ PgInv' /\ WarmInv' /\ RepairInv' /\ SearchInv' /\ HydrInv'
      /\ UNCHANGED <<log, head, idx, val, repairq, pend, flush, wpc, dpc, ypc,
                     spc, hpc, sgot, cache, expired, missed>>
      /\ KeepsScan
  BY <1>1, ListenerFrameKeeps
<1>3. RedisInv'
  BY <1>1, <1>2 DEF BaseInv, RedisInv
<1>4. /\ call \in [Clients -> CallRec] /\ call["listener"].at = "replaced"
      /\ "listener" \in Clients /\ call["listener"].ticks \in Ticks
  BY DEF BaseInv, CallInv, RecordDeltas, Replaced, Clients, CallRec
<1>5. QueueInv'
  <2>1. chan' = Recorded("listener", call["listener"].ticks, Status(call["listener"].ticks))
        /\ QueueInv /\ "listener" \in Recorders
    BY DEF RecordDeltas, BaseInv, Recorders
  <2>2. chan' \in [Recorders -> Seq(Record)] /\ \A p \in Recorders : Len(chan'[p]) <= QueueCap
    BY <1>4, <2>1, StatusType, RecordedType
  <2> QED BY <1>2, <2>1, <2>2 DEF QueueInv
<1>6. ListenInv'
  <2>1. ListenInv /\ lpc = "mark" /\ head \in Nat
    BY DEF RecordDeltas, BaseInv, LogInv, LogOK, head
  <2> QED BY <1>1, <1>2, <2>1 DEF ListenInv
<1> DEFINE r == [at |-> "idle", keys |-> {}, ticks |-> NoTicks]
<1>7. call' = [call EXCEPT !["listener"] = r] /\ r \in CallRec /\ r.at = "idle"
  BY CallsOf DEF RecordDeltas, Returned
<1> HIDE DEF r
<1>8. /\ call' \in [Clients -> CallRec] /\ call'["listener"] = r
      /\ OnlyCall("listener")
  <2>1. ~Sent("listener")
    BY <1>4 DEF Sent
  <2> QED BY <1>4, <1>7, <2>1, OneCall
<1>9. CallInv' /\ call'["search"] = call["search"]
  <2>1. Phase("listener", lpc, {"read"}, {"mark"})'
    BY <1>1, <1>7, <1>8 DEF Phase
  <2> QED BY <1>2, <1>8, <2>1, ListenerCalls
<1> QED BY <1>1, <1>2, <1>3, <1>5, <1>6, <1>8, <1>9 DEF BaseInv, Quiet, KeepsSearch, OnlyCall

\* The restart is of the listener and of the warm-up that it runs.
LEMMA ListenerRestartKeeps ==
  ASSUME BaseInv, ListenerRestart
  PROVE  BaseInv' /\ Quiet /\ KeepsSearch /\ KeepsScan
<1>1. /\ UNCHANGED <<scenario, log, idx, val, marked, repairq, current, pg, cov, lto, lnext, wticks,
                     dpc, dforce, drow, ypc, spc, sgot, cache, expired, missed>>
      /\ UNCHANGED <<hpc, hlast, hfrom, hto, hcur, hacc, hfailed>>
  BY DEF ListenerRestart, redisVars, pgVars, repairVars, searchVars, hydrVars
<1>2. /\ lpc' = "idle" /\ clean' = FALSE /\ lpos' = current
      /\ wpc' \in {"fetch", "off"}
  BY DEF ListenerRestart
<1>3. LogInv' /\ RedisInv' /\ PgInv' /\ WarmInv' /\ RepairInv' /\ SearchInv'
  BY <1>1 DEF BaseInv, LogInv, RedisInv, PgInv, WarmInv, RepairInv, SearchInv
<1>4. HydrInv'
  BY <1>1 DEF BaseInv, HydrInv, head
<1>5. ListenInv'
  <2>1. ListenInv /\ head \in Nat /\ head' = head
    BY <1>1 DEF BaseInv, LogInv, LogOK, head
  <2>2. lpos' \in 0..head
    BY <1>2, <2>1 DEF ListenInv
  <2> QED BY <1>1, <1>2, <2>1, <2>2 DEF ListenInv
<1>6. QueueInv'
  <2>1. /\ chan' = [q \in Recorders |-> <<>>] /\ QueueCap \in Nat
        /\ pend' = [q \in Recorders |-> None] /\ flush' = [q \in Recorders |-> None]
    BY TickAssumption DEF ListenerRestart
  <2>2. <<>> \in Seq(Record) /\ Len(<<>>) = 0
    OBVIOUS
  <2>3. chan' \in [Recorders -> Seq(Record)] /\ \A q \in Recorders : Len(chan'[q]) <= QueueCap
    BY <2>1, <2>2
  <2>4. pend' \in [Recorders -> Record \cup {None}] /\ flush' \in [Recorders -> Record \cup {None}]
    BY <2>1
  <2> QED BY <2>3, <2>4 DEF QueueInv
<1> DEFINE r == [at |-> "idle", keys |-> {}, ticks |-> NoTicks]
<1>7. /\ call \in [Clients -> CallRec] /\ r \in CallRec /\ r.at = "idle"
  BY CallsOf DEF BaseInv, CallInv
<1>8. call' = [c \in Clients |-> IF c \in {"listener", "warmup"} THEN r ELSE call[c]]
  BY <1>7 DEF ListenerRestart, Returned
<1> HIDE DEF r
<1>9. /\ call' \in [Clients -> CallRec] /\ call'["listener"] = r /\ call'["warmup"] = r
      /\ \A d \in Clients \ {"listener", "warmup"} : call'[d] = call[d]
  BY <1>7, <1>8 DEF Clients
<1>10. \A d \in Clients : call'[d] = call[d] \/ ~(Sent(d) \/ Sent(d)')
  BY <1>7, <1>9 DEF ListenerRestart, Sent
<1>11. CallInv'
  <2>1. Phase("listener", lpc, {"read"}, {"mark"})' /\ Phase("warmup", wpc, {"decide"}, {"mark"})'
    BY <1>2, <1>7, <1>9 DEF Phase
  <2>2. CallInv /\ \A d \in {"repair", "sync", "search", "hydrator"} : call'[d] = call[d]
    BY <1>9 DEF BaseInv, Clients
  <2> QED BY <1>1, <1>9, <2>1, <2>2, CallsKept
<1>12. Quiet /\ KeepsSearch /\ KeepsScan
  BY <1>1, <1>9, <1>10 DEF Quiet, KeepsSearch, KeepsScan, Clients
<1> QED BY <1>3, <1>4, <1>5, <1>6, <1>11, <1>12 DEF BaseInv

LEMMA WarmCall ==
  ASSUME BaseInv, NEW r \in CallRec, call' = [call EXCEPT !["warmup"] = r], ~Sent("warmup"),
         \/ wpc' = "decide" /\ r.at = "values"
         \/ wpc' = "mark" /\ r.at = "members"
         \/ wpc' \notin {"decide", "mark"} /\ r.at = "idle",
         UNCHANGED <<lpc, dpc, ypc, spc, hpc>>
  PROVE  /\ CallInv' /\ call'["warmup"] = r
         /\ OnlyCall("warmup")
<1>1. /\ CallInv /\ call \in [Clients -> CallRec] /\ "warmup" \in Clients
      /\ r.at \notin {"del", "set", "mark"}
  BY DEF BaseInv, CallInv, Clients
<1>2. /\ call' \in [Clients -> CallRec] /\ call'["warmup"] = r
      /\ OnlyCall("warmup")
  BY <1>1, OneCall
<1>3. Phase("warmup", wpc, {"decide"}, {"mark"})'
  BY <1>2 DEF Phase, Pushing
<1>4. \A d \in {"listener", "repair", "sync", "search", "hydrator"} : call'[d] = call[d]
  BY <1>2 DEF Clients, OnlyCall
<1> QED BY <1>1, <1>2, <1>3, <1>4, CallsKept

LEMMA WarmSameCall ==
  ASSUME BaseInv, call' = call, UNCHANGED <<lpc, dpc, ypc, spc, hpc>>,
         wpc \notin {"decide", "mark"}, wpc' \notin {"decide", "mark"}
  PROVE  CallInv'
<1>1. CallInv /\ call' \in [Clients -> CallRec]
  BY DEF BaseInv, CallInv
<1>2. Phase("warmup", wpc, {"decide"}, {"mark"})'
  BY <1>1 DEF CallInv, Phase
<1> QED BY <1>1, <1>2, CallsKept

\* A step of the warm-up leaves the other processes alone.
LEMMA WarmFrameKeeps ==
  ASSUME BaseInv, WarmFrame
  PROVE  /\ LogInv' /\ PgInv' /\ ListenInv' /\ RepairInv' /\ SearchInv' /\ HydrInv'
         /\ UNCHANGED <<idx, val, repairq, pend, flush, lpc, dpc, ypc, spc, hpc,
                        lpos, lto, lnext, log, clean, sgot, cache, expired, missed>>
         /\ KeepsScan
<1>1. /\ UNCHANGED <<scenario, log, idx, val, repairq, current, pg, cov, lpc, lpos, lto, lnext,
                     pend, flush, dpc, dforce, drow, ypc, spc, sgot, cache, expired, missed, clean>>
      /\ UNCHANGED <<hpc, hlast, hfrom, hto, hcur, hacc, hfailed>>
  BY DEF WarmFrame, pgVars, listenVars, repairVars, searchVars, hydrVars
<1>2. LogInv' /\ PgInv' /\ RepairInv' /\ SearchInv'
  BY <1>1 DEF BaseInv, LogInv, PgInv, RepairInv, SearchInv
<1>3. HydrInv' /\ ListenInv'
  BY <1>1 DEF BaseInv, HydrInv, ListenInv, head
<1> QED BY <1>1, <1>2, <1>3 DEF KeepsScan

\* The chain never has more ticks than the tick sets do.
LEMMA HeadTicks ==
  ASSUME BaseInv, NEW S
  PROVE  ChainTicks(head) \in Ticks /\ Only(ChainTicks(head), S) \in Ticks
<1>1. LogOK(log) /\ head \in Int /\ head <= head
  BY DEF BaseInv, LogInv, LogOK, head
<1>2. ChainTicks(head) \in Ticks
  <2>1. \A n \in Int : n <= head => ChainTicks(n) \in Ticks
    BY <1>1, ChainTicksTicks
  <2> QED BY <1>1, <2>1 DEF ChainTicks, Gross, EventsAt
<1> QED BY <1>2, OnlyTicks

LEMMA WarmKeeps ==
  ASSUME BaseInv, WarmFetch \/ WarmFetchFails \/ WarmRead \/ WarmDecide \/ WarmRecord
  PROVE  BaseInv' /\ Quiet /\ KeepsSearch /\ KeepsListener /\ KeepsScan
<1>1. WarmFrame
  BY DEF WarmFetch, WarmFetchFails, WarmRead, WarmDecide, WarmRecord
<1>2. /\ LogInv' /\ PgInv' /\ ListenInv' /\ RepairInv' /\ SearchInv' /\ HydrInv'
      /\ UNCHANGED <<idx, val, repairq, pend, flush, lpc, dpc, ypc, spc, hpc,
                     lpos, lto, lnext, log, clean, sgot, cache, expired, missed>>
      /\ KeepsScan
  BY <1>1, WarmFrameKeeps
<1>3. /\ CallInv /\ QueueInv /\ RedisInv /\ wticks \in Ticks /\ val \in Ticks /\ idx \subseteq Tick
      /\ "warmup" \in Recorders
  BY DEF BaseInv, RedisInv, WarmInv, Recorders
<1>4. SUFFICES /\ WarmInv' /\ marked' \in {marked, TRUE}
               /\ chan' \in [Recorders -> Seq(Record)] /\ \A p \in Recorders : Len(chan'[p]) <= QueueCap
               /\ CallInv'
               /\ OnlyCall("warmup")
  <2>1. RedisInv' /\ QueueInv'
    BY <1>2, <1>3, <1>4 DEF RedisInv, QueueInv
  <2>2. Quiet /\ call'["search"] = call["search"] /\ call'["listener"] = call["listener"]
    BY <1>2, <1>3, <1>4, OnlyCallQuiet DEF RedisInv, Clients
  <2>3. KeepsSearch /\ KeepsListener
    BY <1>2, <2>2 DEF KeepsSearch, KeepsListener
  <2> QED BY <1>2, <1>4, <2>1, <2>2, <2>3 DEF BaseInv
<1> DEFINE Chan == chan' \in [Recorders -> Seq(Record)]
                   /\ \A p \in Recorders : Len(chan'[p]) <= QueueCap
           idle == [at |-> "idle", keys |-> {}, ticks |-> NoTicks]
           values == [at |-> "values", keys |-> idx, ticks |-> NoTicks]
           members == [at |-> "members", keys |-> {}, ticks |-> wticks]
<1>5. chan' = chan => Chan
  BY <1>3 DEF QueueInv
<1>6. \A ticks \in Ticks, status \in Statuses :
        chan' = Recorded("warmup", ticks, status) => Chan
  BY <1>3, RecordedType
<1>7. /\ idle \in CallRec /\ idle.at = "idle" /\ values \in CallRec /\ values.at = "values"
      /\ members \in CallRec /\ members.at = "members"
  BY <1>3, CallsOf
<1> HIDE DEF Chan, idle, values, members
<1>8. CASE WarmFetch
  <2>1. wticks' \in Ticks /\ call' = call /\ chan' = chan /\ marked' = marked
    BY <1>8, HeadTicks DEF WarmFetch
  <2>2. CallInv'
    BY <1>2, <1>8, <2>1, WarmSameCall DEF WarmFetch
  <2> QED BY <1>4, <1>5, <2>1, <2>2, SameCalls DEF WarmInv, Chan
<1>9. CASE WarmFetchFails
  <2>1. /\ wticks' = wticks /\ call' = call /\ marked' = marked
        /\ chan' = Recorded("warmup", NoTicks, "refresh_failed")
    BY <1>9 DEF WarmFetchFails
  <2>2. Chan
    BY <1>6, <2>1, NoTicksTicks DEF Statuses
  <2>3. CallInv'
    BY <1>2, <1>9, <2>1, WarmSameCall DEF WarmFetchFails
  <2> QED BY <1>3, <1>4, <2>1, <2>2, <2>3, SameCalls DEF WarmInv, Chan
<1>10. CASE WarmRead
  <2>1. /\ wticks' = wticks /\ chan' = chan /\ marked' = marked /\ wpc' = "decide"
        /\ call' = [call EXCEPT !["warmup"] = values]
    BY <1>10 DEF WarmRead, StartRead, values
  <2>2. ~Sent("warmup")
    BY <1>3, <1>10 DEF WarmRead, CallInv, Phase, Sent
  <2>3. /\ CallInv'
        /\ OnlyCall("warmup")
    BY <1>2, <1>7, <2>1, <2>2, WarmCall
  <2> QED BY <1>3, <1>4, <1>5, <2>1, <2>3 DEF WarmInv, Chan
<1>11. CASE WarmDecide
  <2>1. wticks' = wticks /\ marked' = marked
    BY <1>11 DEF WarmDecide
  <2>2. ~Sent("warmup")
    BY <1>3, <1>11 DEF WarmDecide, CallInv, Phase, Sent
  <2>3. \/ call' = [call EXCEPT !["warmup"] = members] /\ wpc' = "mark"
        \/ call' = [call EXCEPT !["warmup"] = idle] /\ wpc' = "off"
    BY <1>11 DEF WarmDecide, Replacing, Returned, members, idle
  <2>4. /\ CallInv'
        /\ OnlyCall("warmup")
    <3>1. CASE call' = [call EXCEPT !["warmup"] = members] /\ wpc' = "mark"
      BY <1>2, <1>7, <2>2, <3>1, WarmCall
    <3>2. CASE call' = [call EXCEPT !["warmup"] = idle] /\ wpc' = "off"
      BY <1>2, <1>7, <2>2, <3>2, WarmCall
    <3> QED BY <2>3, <3>1, <3>2
  <2>5. Chan
    <3>1. chan' = chan \/ chan' = Recorded("warmup", wticks, Status(wticks))
      BY <1>11 DEF WarmDecide
    <3> QED BY <1>3, <1>5, <1>6, <3>1, StatusType
  <2> QED BY <1>3, <1>4, <2>1, <2>4, <2>5 DEF WarmInv, Chan
<1>12. CASE WarmRecord
  <2>1. /\ wticks' = wticks /\ marked' = TRUE /\ wpc' = "off"
        /\ call' = [call EXCEPT !["warmup"] = idle]
        /\ chan' = Recorded("warmup", wticks, "ready")
    BY <1>12 DEF WarmRecord, Returned, idle
  <2>2. ~Sent("warmup")
    BY <1>12 DEF WarmRecord, Replaced, Sent
  <2>3. /\ CallInv'
        /\ OnlyCall("warmup")
    BY <1>2, <1>7, <2>1, <2>2, WarmCall
  <2>4. Chan
    BY <1>3, <1>6, <2>1 DEF Statuses
  <2> QED BY <1>3, <1>4, <2>1, <2>3, <2>4 DEF WarmInv, Chan
<1> QED BY <1>8, <1>9, <1>10, <1>11, <1>12

LEMMA QueuesAre ==
  ASSUME chan' \in [Recorders -> Seq(Record)], \A p \in Recorders : Len(chan'[p]) <= QueueCap,
         pend' \in [Recorders -> Record \cup {None}], flush' \in [Recorders -> Record \cup {None}]
  PROVE  QueueInv'
BY DEF QueueInv

\* A record queue moves what it holds, and writes it to Postgres.
LEMMA RecorderKeeps ==
  ASSUME BaseInv, NEW q \in Recorders, Receive(q) \/ FlushRows(q) \/ FlushCoverage(q)
  PROVE  BaseInv' /\ Quiet /\ KeepsSearch /\ KeepsListener /\ KeepsScan
<1>1. RecordFrame
  BY DEF Receive, FlushRows, FlushCoverage
<1>2. /\ UNCHANGED <<scenario, log, idx, val, marked, repairq, current, call, lpc, lpos, lto, lnext,
                     wpc, wticks, dpc, dforce, drow, ypc, spc, sgot, cache, expired, missed, clean>>
      /\ UNCHANGED <<hpc, hlast, hfrom, hto, hcur, hacc, hfailed>>
  BY <1>1 DEF RecordFrame, redisVars, listenVars, warmVars, repairVars, searchVars, hydrVars
<1>3. LogInv' /\ RedisInv' /\ WarmInv' /\ RepairInv' /\ SearchInv'
  BY <1>2 DEF BaseInv, LogInv, RedisInv, WarmInv, RepairInv, SearchInv
<1>4. HydrInv' /\ ListenInv'
  BY <1>2 DEF BaseInv, HydrInv, ListenInv, head
<1>5. CallInv'
  <2>1. CallInv /\ call' \in [Clients -> CallRec]
    BY <1>2 DEF BaseInv, CallInv
  <2> QED BY <1>2, <2>1, CallsKept
<1>6. /\ chan \in [Recorders -> Seq(Record)] /\ \A p \in Recorders : Len(chan[p]) <= QueueCap
      /\ pend \in [Recorders -> Record \cup {None}] /\ flush \in [Recorders -> Record \cup {None}]
      /\ PgInv /\ QueueInv
  BY DEF BaseInv, QueueInv
<1> SUFFICES PgInv' /\ QueueInv'
  <2>1. Quiet /\ KeepsSearch /\ KeepsListener /\ KeepsScan
    BY <1>2 DEF Quiet, KeepsSearch, KeepsListener, KeepsScan
  <2> QED BY <1>3, <1>4, <1>5, <2>1 DEF BaseInv
<1>7. CASE Receive(q)
  <2>1. /\ pend' = [pend EXCEPT ![q] = Head(chan[q])] /\ chan' = [chan EXCEPT ![q] = Tail(chan[q])]
        /\ flush' = flush /\ UNCHANGED <<pg, cov>> /\ chan[q] # <<>>
    BY <1>7 DEF Receive, pgVars
  <2>2. /\ chan[q] \in Seq(Record) /\ Head(chan[q]) \in Record /\ Tail(chan[q]) \in Seq(Record)
        /\ Len(Tail(chan[q])) = Len(chan[q]) - 1 /\ Len(chan[q]) \in Nat /\ QueueCap \in Nat
    BY <1>6, <2>1, TickAssumption
  <2>3. chan' \in [Recorders -> Seq(Record)] /\ \A p \in Recorders : Len(chan'[p]) <= QueueCap
    BY <1>6, <2>1, <2>2
  <2>4. pend' \in [Recorders -> Record \cup {None}]
    BY <1>6, <2>1, <2>2
  <2>5. QueueInv'
    BY <1>6, <2>1, <2>3, <2>4, QueuesAre
  <2> QED BY <1>6, <2>1, <2>5 DEF PgInv
<1>8. CASE FlushRows(q)
  <2>1. /\ pend[q] \in Record /\ pend[q].ticks \in Ticks
        /\ pend' = [pend EXCEPT ![q] = None] /\ chan' = chan /\ cov' = cov
        /\ \/ pg' = pend[q].ticks /\ flush' = [flush EXCEPT ![q] = pend[q]]
           \/ UNCHANGED <<pg, flush>>
    BY <1>6, <1>8 DEF FlushRows, Record
  <2>2. pend' \in [Recorders -> Record \cup {None}] /\ flush' \in [Recorders -> Record \cup {None}]
    BY <1>6, <2>1
  <2>3. QueueInv'
    BY <1>6, <2>1, <2>2, QueuesAre
  <2>4. PgInv'
    BY <1>6, <2>1 DEF PgInv
  <2> QED BY <2>3, <2>4
<1>9. CASE FlushCoverage(q)
  <2>1. /\ flush[q] \in Record /\ flush[q].ticks \in Ticks /\ flush[q].status \in Statuses
        /\ flush' = [flush EXCEPT ![q] = None] /\ UNCHANGED <<chan, pend, pg>>
        /\ cov' = Coverage(flush[q]) \/ cov' = cov
    BY <1>6, <1>9 DEF FlushCoverage, Record
  <2>2. flush' \in [Recorders -> Record \cup {None}]
    BY <1>6, <2>1
  <2>3. QueueInv'
    BY <1>6, <2>1, <2>2, QueuesAre
  <2>4. PgInv'
    BY <1>6, <2>1, TicksOf DEF PgInv, Coverage
  <2> QED BY <2>3, <2>4
<1> QED BY <1>7, <1>8, <1>9

\* A block is sealed: the chain goes on, and all else stays.
LEMMA SealKeeps ==
  ASSUME BaseInv, Seal
  PROVE  /\ BaseInv' /\ Quiet /\ KeepsSearch
         /\ UNCHANGED <<lpc, lpos, lto, lnext, clean, call, hpc, hfrom, hto, hcur, hacc, hfailed>>
         /\ \E e \in Event \cup {None} : log' = Append(log, e)
<1>1. /\ UNCHANGED <<scenario, idx, val, marked, repairq, current, call, pg, cov,
                     lpc, lpos, lto, lnext, clean, wpc, wticks, chan, pend, flush,
                     dpc, dforce, drow, ypc, spc, sgot, cache, expired, missed>>
      /\ UNCHANGED <<hpc, hlast, hfrom, hto, hcur, hacc, hfailed>>
  BY DEF Seal, redisVars, pgVars, listenVars, warmVars, queueVars, repairVars, searchVars, hydrVars
<1>2. LogOK(log) /\ scenario \in Scenarios /\ log \in Seq(Event \cup {None})
  BY DEF BaseInv, LogInv, LogOK
<1>3. \E e \in Event \cup {None} : log' = Append(log, e) /\ LogOK(Append(log, e))
  <2>1. CASE log' = Append(log, None)
    BY <1>2, <2>1, NextLog
  <2>2. ASSUME NEW P \in scenario.positions, log' = Append(log, [keys |-> P, d |-> 1])
        PROVE  \E e \in Event \cup {None} : log' = Append(log, e) /\ LogOK(Append(log, e))
    <3>1. [keys |-> P, d |-> 1] \in Event
      BY <1>2, TickAssumption DEF Event
    <3> QED BY <1>2, <2>2, <3>1, NextLog
  <2>3. ASSUME NEW P \in scenario.positions, log' = Append(log, [keys |-> P, d |-> -1]),
               OpenAt(P, head) > 0
        PROVE  \E e \in Event \cup {None} : log' = Append(log, e) /\ LogOK(Append(log, e))
    <3>1. [keys |-> P, d |-> -1] \in Event /\ P \in Positions
      BY <1>2, TickAssumption DEF Event
    <3> QED BY <1>2, <2>3, <3>1, BurnOfOpen
  <2>4. \/ log' = Append(log, None)
        \/ \E P \in scenario.positions : log' = Append(log, [keys |-> P, d |-> 1])
        \/ \E P \in scenario.positions : /\ log' = Append(log, [keys |-> P, d |-> -1])
                                         /\ OpenAt(P, head) > 0
    BY DEF Seal
  <2> QED BY <2>1, <2>2, <2>3, <2>4
<1>4. /\ LogInv' /\ head' = head + 1 /\ head \in Nat
      /\ \A b \in 1..head : log'[b] = log[b]
  BY <1>1, <1>2, <1>3 DEF LogInv, head
<1>5. RedisInv' /\ PgInv' /\ WarmInv' /\ RepairInv' /\ SearchInv' /\ QueueInv'
  BY <1>1 DEF BaseInv, RedisInv, PgInv, WarmInv, RepairInv, SearchInv, QueueInv
<1>6. HydrInv'
  BY <1>1, <1>4 DEF BaseInv, HydrInv
<1>7. ListenInv'
  <2>1. ListenInv
    BY DEF BaseInv
  <2>2. lpc \in {"read", "mark"} => lnext <= lto /\ log'[lnext] # None
    BY <1>4, <2>1 DEF ListenInv
  <2> QED BY <1>1, <1>4, <2>1, <2>2 DEF ListenInv
<1>8. CallInv'
  <2>1. CallInv /\ call' \in [Clients -> CallRec]
    BY <1>1 DEF BaseInv, CallInv
  <2> QED BY <1>1, <2>1, CallsKept
<1>9. Quiet /\ KeepsSearch
  BY <1>1 DEF Quiet, KeepsSearch
<1> QED BY <1>1, <1>3, <1>4, <1>5, <1>6, <1>7, <1>8, <1>9 DEF BaseInv

LEMMA SyncCall ==
  ASSUME BaseInv, NEW r \in CallRec, call' = [call EXCEPT !["sync"] = r], ~Sent("sync"),
         \/ ypc' = "mark" /\ r.at = "members"
         \/ ypc' \notin {"mark"} /\ r.at = "idle",
         UNCHANGED <<lpc, wpc, dpc, spc, hpc>>
  PROVE  /\ CallInv' /\ call'["sync"] = r
         /\ OnlyCall("sync")
<1>1. /\ CallInv /\ call \in [Clients -> CallRec] /\ "sync" \in Clients
      /\ r.at \notin {"del", "set", "mark"}
  BY DEF BaseInv, CallInv, Clients
<1>2. /\ call' \in [Clients -> CallRec] /\ call'["sync"] = r
      /\ OnlyCall("sync")
  BY <1>1, OneCall
<1>3. Phase("sync", ypc, {}, {"mark"})'
  BY <1>2 DEF Phase, Pushing
<1>4. \A d \in {"listener", "warmup", "repair", "search", "hydrator"} : call'[d] = call[d]
  BY <1>2 DEF Clients, OnlyCall
<1> QED BY <1>1, <1>2, <1>3, <1>4, CallsKept

LEMMA SyncSameCall ==
  ASSUME BaseInv, call' = call, UNCHANGED <<lpc, wpc, dpc, spc, hpc>>,
         ypc \notin {"mark"}, ypc' \notin {"mark"}
  PROVE  CallInv'
<1>1. CallInv /\ call' \in [Clients -> CallRec]
  BY DEF BaseInv, CallInv
<1>2. Phase("sync", ypc, {}, {"mark"})'
  BY <1>1 DEF CallInv, Phase
<1> QED BY <1>1, <1>2, CallsKept

LEMMA SyncKeeps ==
  ASSUME BaseInv, SyncSelect \/ SyncMark
  PROVE  BaseInv' /\ Quiet /\ KeepsSearch /\ KeepsListener /\ KeepsScan
<1>1. SyncFrame
  BY DEF SyncSelect, SyncMark
<1>2. /\ UNCHANGED <<scenario, log, idx, val, repairq, current, pg, cov, lpc, lpos, lto, lnext, wpc,
                     wticks, chan, pend, flush, dpc, dforce, drow, spc, sgot, cache, expired, missed,
                     clean>>
      /\ UNCHANGED <<hpc, hlast, hfrom, hto, hcur, hacc, hfailed>>
  BY <1>1 DEF SyncFrame, pgVars, listenVars, warmVars, queueVars, repairVars, searchVars, hydrVars
<1>3. LogInv' /\ PgInv' /\ WarmInv' /\ QueueInv' /\ RepairInv' /\ SearchInv'
  BY <1>2 DEF BaseInv, LogInv, PgInv, WarmInv, QueueInv, RepairInv, SearchInv
<1>4. HydrInv' /\ ListenInv'
  BY <1>2 DEF BaseInv, HydrInv, ListenInv, head
<1>5. CallInv /\ RedisInv /\ pg \in Ticks
  BY DEF BaseInv, PgInv
<1> DEFINE idle == [at |-> "idle", keys |-> {}, ticks |-> NoTicks]
           members == [at |-> "members", keys |-> {}, ticks |-> pg]
<1>6. /\ idle \in CallRec /\ idle.at = "idle" /\ members \in CallRec /\ members.at = "members"
  BY <1>5, CallsOf
<1>7. ~Sent("sync")
  BY <1>5 DEF SyncSelect, SyncMark, CallInv, Phase, Sent, Replaced
<1>8. /\ marked' \in {marked, TRUE}
      /\ \/ ypc' = "done" /\ call' = call /\ ypc = "select"
         \/ ypc' = "mark" /\ call' = [call EXCEPT !["sync"] = members]
         \/ ypc' = "done" /\ call' = [call EXCEPT !["sync"] = idle]
  BY DEF SyncSelect, SyncMark, Replacing, Returned
<1> HIDE DEF idle, members
<1>9. CallInv' /\ OnlyCall("sync")
  <2>1. CASE ypc' = "done" /\ call' = call /\ ypc = "select"
    BY <1>2, <2>1, SyncSameCall, SameCalls
  <2>2. CASE ypc' = "mark" /\ call' = [call EXCEPT !["sync"] = members]
    BY <1>2, <1>6, <1>7, <2>2, SyncCall
  <2>3. CASE ypc' = "done" /\ call' = [call EXCEPT !["sync"] = idle]
    BY <1>2, <1>6, <1>7, <2>3, SyncCall
  <2> QED BY <1>8, <2>1, <2>2, <2>3
<1>10. RedisInv'
  BY <1>2, <1>5, <1>8 DEF RedisInv
<1>11. Quiet /\ call'["search"] = call["search"] /\ call'["listener"] = call["listener"]
  BY <1>2, <1>5, <1>8, <1>9, OnlyCallQuiet DEF RedisInv, Clients
<1> QED BY <1>2, <1>3, <1>4, <1>9, <1>10, <1>11 DEF BaseInv, KeepsSearch, KeepsListener, KeepsScan

LEMMA RepairCall ==
  ASSUME BaseInv, NEW r \in CallRec, call' = [call EXCEPT !["repair"] = r], ~Sent("repair"),
         \/ dpc' = "decide" /\ r.at = "values"
         \/ dpc' = "mark" /\ r.at = "members"
         \/ dpc' \notin {"decide", "mark"} /\ r.at = "idle",
         UNCHANGED <<lpc, wpc, ypc, spc, hpc>>
  PROVE  /\ CallInv' /\ call'["repair"] = r
         /\ OnlyCall("repair")
<1>1. /\ CallInv /\ call \in [Clients -> CallRec] /\ "repair" \in Clients
      /\ r.at \notin {"del", "set", "mark"}
  BY DEF BaseInv, CallInv, Clients
<1>2. /\ call' \in [Clients -> CallRec] /\ call'["repair"] = r
      /\ OnlyCall("repair")
  BY <1>1, OneCall
<1>3. Phase("repair", dpc, {"decide"}, {"mark"})'
  BY <1>2 DEF Phase, Pushing
<1>4. \A d \in {"listener", "warmup", "sync", "search", "hydrator"} : call'[d] = call[d]
  BY <1>2 DEF Clients, OnlyCall
<1> QED BY <1>1, <1>2, <1>3, <1>4, CallsKept

LEMMA RepairSameCall ==
  ASSUME BaseInv, call' = call, UNCHANGED <<lpc, wpc, ypc, spc, hpc>>,
         dpc \notin {"decide", "mark"}, dpc' \notin {"decide", "mark"}
  PROVE  CallInv'
<1>1. CallInv /\ call' \in [Clients -> CallRec]
  BY DEF BaseInv, CallInv
<1>2. Phase("repair", dpc, {"decide"}, {"mark"})'
  BY <1>1 DEF CallInv, Phase
<1> QED BY <1>1, <1>2, CallsKept

LEMMA RepairKeeps ==
  ASSUME BaseInv,
         \/ Drain \/ RepairRead \/ RepairDecide \/ RepairFetch \/ RepairFetchFails
         \/ RepairRows \/ RepairCoverage \/ RepairMark \/ RepairAborts
  PROVE  BaseInv' /\ Quiet /\ KeepsSearch /\ KeepsListener /\ KeepsScan
<1>1. RepairFrame
  BY DEF Drain, RepairRead, RepairDecide, RepairFetch, RepairFetchFails, RepairRows,
         RepairCoverage, RepairMark, RepairAborts
<1>2. /\ UNCHANGED <<scenario, log, idx, val, current, lpc, lpos, lto, lnext, wpc, wticks,
                     chan, pend, flush, ypc, spc, sgot, cache, expired, missed, clean>>
      /\ UNCHANGED <<hpc, hlast, hfrom, hto, hcur, hacc, hfailed>>
  BY <1>1 DEF RepairFrame, listenVars, warmVars, queueVars, searchVars, hydrVars
<1>3. LogInv' /\ WarmInv' /\ QueueInv' /\ SearchInv'
  BY <1>2 DEF BaseInv, LogInv, WarmInv, QueueInv, SearchInv
<1>4. HydrInv' /\ ListenInv'
  BY <1>2 DEF BaseInv, HydrInv, ListenInv, head
<1>5. /\ CallInv /\ RedisInv /\ RepairInv /\ PgInv
      /\ idx \subseteq Tick /\ val \in Ticks /\ pg \in Ticks /\ marked \in BOOLEAN /\ repairq \in BOOLEAN
  BY DEF BaseInv, PgInv, RedisInv
<1> SUFFICES /\ marked' \in {marked, TRUE} /\ repairq' \in BOOLEAN /\ PgInv' /\ RepairInv'
             /\ CallInv' /\ OnlyCall("repair")
  <2>1. RedisInv'
    BY <1>2, <1>5 DEF RedisInv
  <2>2. Quiet /\ call'["search"] = call["search"] /\ call'["listener"] = call["listener"]
    BY <1>2, <1>5, OnlyCallQuiet DEF Clients
  <2> QED BY <1>2, <1>3, <1>4, <2>1, <2>2 DEF BaseInv, KeepsSearch, KeepsListener, KeepsScan
<1> DEFINE idle == [at |-> "idle", keys |-> {}, ticks |-> NoTicks]
           values == [at |-> "values", keys |-> idx, ticks |-> NoTicks]
           members == [at |-> "members", keys |-> {}, ticks |-> drow.ticks]
<1>6. /\ idle \in CallRec /\ idle.at = "idle" /\ values \in CallRec /\ values.at = "values"
      /\ drow.ticks \in Ticks => members \in CallRec
      /\ members.at = "members"
  BY <1>5, CallsOf
<1> HIDE DEF idle, values, members
<1>7. CASE Drain
  <2>1. /\ UNCHANGED <<marked, pg, cov, call, drow>> /\ repairq' = FALSE /\ dforce' = repairq
        /\ dpc = "idle" /\ dpc' \in {"index", "idle"}
    BY <1>7 DEF Drain, pgVars
  <2>2. CallInv' /\ OnlyCall("repair")
    BY <1>2, <2>1, RepairSameCall, SameCalls
  <2> QED BY <1>5, <2>1, <2>2 DEF PgInv, RepairInv
<1>8. CASE RepairRead
  <2>1. /\ UNCHANGED <<marked, repairq, pg, cov, dforce, drow>> /\ dpc = "index" /\ dpc' = "decide"
        /\ call' = [call EXCEPT !["repair"] = values]
    BY <1>8 DEF RepairRead, StartRead, values, pgVars
  <2>2. ~Sent("repair")
    BY <1>5, <2>1 DEF CallInv, Phase, Sent
  <2>3. CallInv' /\ OnlyCall("repair")
    BY <1>2, <1>6, <2>1, <2>2, RepairCall
  <2> QED BY <1>5, <2>1, <2>3 DEF PgInv, RepairInv
<1>9. CASE RepairDecide
  <2>1. /\ UNCHANGED <<marked, repairq, pg, cov, dforce>> /\ dpc = "decide"
        /\ call' = [call EXCEPT !["repair"] = idle]
        /\ \/ /\ dpc' = "rows"
              /\ drow' = [ticks |-> Read("repair"), status |-> "ready", push |-> FALSE]
           \/ dpc' = "fetch"
    BY <1>9 DEF RepairDecide, Returned, idle, pgVars
  <2>2. ~Sent("repair")
    BY <1>5, <2>1 DEF CallInv, Phase, Sent
  <2>3. dpc' \notin {"decide", "mark"}
    BY <2>1
  <2>4. CallInv' /\ OnlyCall("repair")
    BY <1>2, <1>6, <2>1, <2>2, <2>3, RepairCall
  <2>5. RepairInv'
    <3>1. Read("repair") \in Ticks
      BY <1>5, ReadTicks
    <3> QED BY <1>5, <2>1, <3>1 DEF RepairInv, Statuses
  <2> QED BY <1>5, <2>1, <2>4, <2>5 DEF PgInv
<1>10. CASE RepairFetch
  <2>1. /\ UNCHANGED <<marked, repairq, pg, cov, call, dforce>> /\ dpc = "fetch" /\ dpc' = "rows"
    BY <1>10 DEF RepairFetch, pgVars
  <2>2. CallInv' /\ OnlyCall("repair")
    BY <1>2, <2>1, RepairSameCall, SameCalls
  <2>3. \E ticks \in Ticks : drow' = [ticks |-> ticks, status |-> Status(ticks), push |-> ~Empty(ticks)]
    <3> DEFINE S == IF dforce THEN Wide ELSE Near
    <3>1. Only(ChainTicks(head), S) \in Ticks
      BY HeadTicks
    <3>2. LET ticks == Only(ChainTicks(head), S)
          IN  drow' = [ticks |-> ticks, status |-> Status(ticks), push |-> ~Empty(ticks)]
      BY <1>10 DEF RepairFetch
    <3> HIDE DEF S
    <3> QED BY <3>1, <3>2
  <2>4. RepairInv'
    BY <1>5, <2>1, <2>3, StatusType DEF RepairInv
  <2> QED BY <1>5, <2>1, <2>2, <2>4 DEF PgInv
<1>11. CASE RepairFetchFails
  <2>1. /\ UNCHANGED <<marked, repairq, pg, cov, call, dforce>> /\ dpc = "fetch" /\ dpc' = "coverage"
        /\ drow' = [ticks |-> NoTicks, status |-> "refresh_failed", push |-> FALSE]
    BY <1>11 DEF RepairFetchFails, pgVars
  <2>2. CallInv' /\ OnlyCall("repair")
    BY <1>2, <2>1, RepairSameCall, SameCalls
  <2>3. RepairInv'
    BY <1>5, <2>1, NoTicksTicks DEF RepairInv, Statuses
  <2> QED BY <1>5, <2>1, <2>2, <2>3 DEF PgInv
<1>12. CASE RepairRows
  <2>1. /\ UNCHANGED <<marked, repairq, cov, call, dforce, drow>> /\ dpc = "rows" /\ dpc' = "coverage"
        /\ pg' = drow.ticks
    BY <1>12 DEF RepairRows
  <2>2. CallInv' /\ OnlyCall("repair")
    BY <1>2, <2>1, RepairSameCall, SameCalls
  <2>3. RepairInv' /\ PgInv'
    BY <1>5, <2>1 DEF RepairInv, PgInv
  <2> QED BY <1>5, <2>1, <2>2, <2>3
<1>13. CASE RepairCoverage
  <2>1. /\ UNCHANGED <<marked, repairq, pg, dforce, drow>> /\ dpc = "coverage"
        /\ cov' = Coverage(drow)
        /\ \/ call' = [call EXCEPT !["repair"] = members] /\ dpc' = "mark"
           \/ dpc' = "idle" /\ call' = call
    BY <1>13 DEF RepairCoverage, Replacing, members
  <2>2. drow.ticks \in Ticks /\ drow.status \in Statuses /\ ~Sent("repair")
    BY <1>5, <2>1 DEF RepairInv, CallInv, Phase, Sent
  <2>3. CallInv' /\ OnlyCall("repair")
    <3>1. CASE call' = [call EXCEPT !["repair"] = members] /\ dpc' = "mark"
      BY <1>2, <1>6, <2>2, <3>1, RepairCall
    <3>2. CASE dpc' = "idle" /\ call' = call
      BY <1>2, <2>1, <3>2, RepairSameCall, SameCalls
    <3> QED BY <2>1, <3>1, <3>2
  <2>4. PgInv'
    BY <1>5, <2>1, <2>2, TicksOf DEF PgInv, Coverage
  <2>5. RepairInv'
    BY <1>5, <2>1, <2>2 DEF RepairInv
  <2> QED BY <1>5, <2>1, <2>3, <2>4, <2>5
<1>14. CASE RepairMark \/ RepairAborts
  <2>1. /\ UNCHANGED <<repairq, pg, cov, dforce, drow>> /\ marked' \in {marked, TRUE} /\ dpc' = "idle"
        /\ call' = [call EXCEPT !["repair"] = idle]
    BY <1>14 DEF RepairMark, RepairAborts, Returned, idle, pgVars
  <2>2. ~Sent("repair")
    BY <1>14 DEF RepairMark, RepairAborts, Replaced, Sent
  <2>3. CallInv' /\ OnlyCall("repair")
    BY <1>2, <1>6, <2>1, <2>2, RepairCall
  <2> QED BY <1>5, <2>1, <2>3 DEF PgInv, RepairInv
<1> QED BY <1>7, <1>8, <1>9, <1>10, <1>11, <1>12, <1>13, <1>14

LEMMA SearchCall ==
  ASSUME BaseInv, NEW r \in CallRec, call' = [call EXCEPT !["search"] = r], ~Sent("search"),
         \/ spc' = "load" /\ r.at = "values"
         \/ spc' = "fill" /\ r.at = "members"
         \/ spc' \notin {"load", "fill"} /\ r.at = "idle",
         UNCHANGED <<lpc, wpc, dpc, ypc, hpc>>
  PROVE  /\ CallInv' /\ call'["search"] = r
         /\ OnlyCall("search")
<1>1. /\ CallInv /\ call \in [Clients -> CallRec] /\ "search" \in Clients
      /\ r.at \notin {"del", "set", "mark"}
  BY DEF BaseInv, CallInv, Clients
<1>2. /\ call' \in [Clients -> CallRec] /\ call'["search"] = r
      /\ OnlyCall("search")
  BY <1>1, OneCall
<1>3. Phase("search", spc, {"load"}, {"fill"})'
  BY <1>2 DEF Phase, Pushing
<1>4. \A d \in {"listener", "warmup", "repair", "sync", "hydrator"} : call'[d] = call[d]
  BY <1>2 DEF Clients, OnlyCall
<1> QED BY <1>1, <1>2, <1>3, <1>4, CallsKept

LEMMA SearchSameCall ==
  ASSUME BaseInv, call' = call, UNCHANGED <<lpc, wpc, dpc, ypc, hpc>>,
         spc \notin {"load", "fill"}, spc' \notin {"load", "fill"}
  PROVE  CallInv'
<1>1. CallInv /\ call' \in [Clients -> CallRec]
  BY DEF BaseInv, CallInv
<1>2. Phase("search", spc, {"load"}, {"fill"})'
  BY <1>1 DEF CallInv, Phase
<1> QED BY <1>1, <1>2, CallsKept

\* The searcher drains the mark when it begins a cycle, and only then.
LEMMA SearchKeeps ==
  ASSUME BaseInv,
         \/ BeginCycle \/ NotSelected \/ Selected \/ Load \/ Fallback \/ Filled
         \/ (\E e \in BOOLEAN : Quote(e)) \/ Expire \/ SearcherRestart
  PROVE  BaseInv' /\ (Quiet \/ BeginCycle) /\ KeepsListener /\ KeepsScan
<1>1. SearchFrame
  BY DEF BeginCycle, NotSelected, Selected, Load, Fallback, Filled, Quote, Expire, SearcherRestart
<1>2. /\ UNCHANGED <<scenario, log, idx, val, current, pg, cov, lpc, lpos, lto, lnext, wpc, wticks,
                     chan, pend, flush, dpc, dforce, drow, ypc, clean>>
      /\ UNCHANGED <<hpc, hlast, hfrom, hto, hcur, hacc, hfailed>>
  BY <1>1 DEF SearchFrame, pgVars, listenVars, warmVars, queueVars, repairVars, hydrVars
<1>3. LogInv' /\ WarmInv' /\ QueueInv' /\ PgInv' /\ RepairInv'
  BY <1>2 DEF BaseInv, LogInv, WarmInv, QueueInv, PgInv, RepairInv
<1>4. HydrInv' /\ ListenInv'
  BY <1>2 DEF BaseInv, HydrInv, ListenInv, head
<1>5. /\ CallInv /\ RedisInv /\ SearchInv /\ idx \subseteq Tick /\ val \in Ticks /\ pg \in Ticks
      /\ marked \in BOOLEAN /\ repairq \in BOOLEAN
      /\ sgot \in BOOLEAN /\ expired \in BOOLEAN /\ missed \in BOOLEAN
  BY DEF BaseInv, PgInv, RedisInv, SearchInv
<1> SUFFICES /\ marked' = marked \/ (BeginCycle /\ marked' = FALSE)
             /\ repairq' \in BOOLEAN /\ SearchInv' /\ CallInv' /\ OnlyCall("search")
  <2>1. RedisInv'
    BY <1>2, <1>5 DEF RedisInv
  <2>2. call'["listener"] = call["listener"]
    BY DEF OnlyCall, Clients
  <2>3. marked' = marked => Quiet
    BY <1>2, <1>5, OnlyCallQuiet DEF Clients
  <2> QED BY <1>2, <1>3, <1>4, <2>1, <2>2, <2>3 DEF BaseInv, KeepsListener, KeepsScan
<1> DEFINE idle == [at |-> "idle", keys |-> {}, ticks |-> NoTicks]
           values == [at |-> "values", keys |-> idx, ticks |-> NoTicks]
           members == [at |-> "members", keys |-> {}, ticks |-> pg]
<1>6. /\ idle \in CallRec /\ idle.at = "idle" /\ values \in CallRec /\ values.at = "values"
      /\ members \in CallRec /\ members.at = "members"
  BY <1>5, CallsOf
<1> HIDE DEF idle, values, members
<1>7. CASE BeginCycle
  <2>1. /\ UNCHANGED <<repairq, call, cache, expired, missed>> /\ spc = "idle" /\ spc' = "select"
        /\ sgot' = marked /\ marked' = FALSE
    BY <1>7 DEF BeginCycle
  <2>2. CallInv' /\ OnlyCall("search")
    BY <1>2, <2>1, SearchSameCall, SameCalls
  <2> QED BY <1>5, <1>7, <2>1, <2>2 DEF SearchInv
<1>8. CASE NotSelected
  <2>1. /\ UNCHANGED <<marked, repairq, call, sgot, cache, expired>> /\ spc = "select" /\ spc' = "idle"
        /\ missed' = (missed \/ sgot)
    BY <1>8 DEF NotSelected
  <2>2. CallInv' /\ OnlyCall("search")
    BY <1>2, <2>1, SearchSameCall, SameCalls
  <2> QED BY <1>5, <2>1, <2>2 DEF SearchInv
<1>9. CASE Selected
  <2>1. /\ UNCHANGED <<marked, repairq, sgot, cache, expired, missed>> /\ spc = "select"
        /\ \/ call' = [call EXCEPT !["search"] = values] /\ spc' = "load"
           \/ spc' = "quote" /\ call' = call
    BY <1>9 DEF Selected, StartRead, values
  <2>2. ~Sent("search")
    BY <1>5, <2>1 DEF CallInv, Phase, Sent
  <2>3. CallInv' /\ OnlyCall("search")
    <3>1. CASE call' = [call EXCEPT !["search"] = values] /\ spc' = "load"
      BY <1>2, <1>6, <2>2, <3>1, SearchCall
    <3>2. CASE spc' = "quote" /\ call' = call
      BY <1>2, <2>1, <3>2, SearchSameCall, SameCalls
    <3> QED BY <2>1, <3>1, <3>2
  <2> QED BY <1>5, <2>1, <2>3 DEF SearchInv
<1>10. CASE Load
  <2>1. /\ UNCHANGED <<marked, repairq, sgot>> /\ spc = "load" /\ spc' \in {"fallback", "quote"}
        /\ call' = [call EXCEPT !["search"] = idle]
        /\ \/ UNCHANGED <<cache, expired, missed>>
           \/ cache' = Read("search") /\ expired' = FALSE /\ missed' = FALSE
    BY <1>10 DEF Load, Loaded, Returned, idle
  <2>2. ~Sent("search")
    BY <1>5, <2>1 DEF CallInv, Phase, Sent
  <2>3. CallInv' /\ OnlyCall("search")
    BY <1>2, <1>6, <2>1, <2>2, SearchCall
  <2>4. Read("search") \in Ticks
    BY <1>5, ReadTicks
  <2> QED BY <1>5, <2>1, <2>3, <2>4 DEF SearchInv
<1>11. CASE Fallback
  <2>1. /\ UNCHANGED <<marked, repairq, sgot>> /\ spc = "fallback"
        /\ \/ /\ cache' = NoTicks /\ expired' = FALSE /\ missed' = FALSE
              /\ spc' = "quote" /\ call' = call
           \/ /\ UNCHANGED <<cache, expired, missed>>
              /\ spc' = "fill" /\ call' = [call EXCEPT !["search"] = members]
    BY <1>11 DEF Fallback, Loaded, Replacing, members
  <2>2. ~Sent("search")
    BY <1>5, <2>1 DEF CallInv, Phase, Sent
  <2>3. CallInv' /\ OnlyCall("search")
    <3>1. CASE spc' = "quote" /\ call' = call
      BY <1>2, <2>1, <3>1, SearchSameCall, SameCalls
    <3>2. CASE spc' = "fill" /\ call' = [call EXCEPT !["search"] = members]
      BY <1>2, <1>6, <2>2, <3>2, SearchCall
    <3> QED BY <2>1, <3>1, <3>2
  <2> QED BY <1>5, <2>1, <2>3, NoTicksTicks DEF SearchInv
<1>12. CASE Filled
  <2>1. /\ UNCHANGED <<marked, repairq, sgot>> /\ spc = "fill" /\ spc' = "quote"
        /\ cache' = call["search"].ticks /\ expired' = FALSE /\ missed' = FALSE
        /\ call' = [call EXCEPT !["search"] = idle]
    BY <1>12 DEF Filled, Loaded, Returned, idle
  <2>2. ~Sent("search") /\ call["search"].ticks \in Ticks
    BY <1>5, <1>12 DEF Filled, Replaced, Sent, CallInv, CallRec, Clients
  <2>3. CallInv' /\ OnlyCall("search")
    BY <1>2, <1>6, <2>1, <2>2, SearchCall
  <2> QED BY <1>5, <2>1, <2>2, <2>3 DEF SearchInv
<1>13. CASE \E e \in BOOLEAN : Quote(e)
  <2>1. /\ UNCHANGED <<marked, call, sgot, cache, expired, missed>> /\ spc = "quote" /\ spc' = "idle"
        /\ repairq' \in BOOLEAN
    BY <1>13 DEF Quote
  <2>2. CallInv' /\ OnlyCall("search")
    BY <1>2, <2>1, SearchSameCall, SameCalls
  <2> QED BY <1>5, <2>1, <2>2 DEF SearchInv
<1>14. CASE Expire
  <2>1. /\ UNCHANGED <<marked, repairq, call, spc, sgot, cache, missed>> /\ spc = "idle"
        /\ expired' = TRUE
    BY <1>14 DEF Expire
  <2>2. CallInv' /\ OnlyCall("search")
    BY <1>2, <2>1, SearchSameCall, SameCalls
  <2> QED BY <1>5, <2>1, <2>2 DEF SearchInv
<1>15. CASE SearcherRestart
  <2>1. /\ UNCHANGED <<marked, repairq, sgot>> /\ spc' = "idle" /\ ~Sent("search")
        /\ cache' = None /\ expired' = FALSE /\ missed' = FALSE
        /\ call' = [call EXCEPT !["search"] = idle]
    BY <1>15 DEF SearcherRestart, Returned, idle
  <2>2. CallInv' /\ OnlyCall("search")
    BY <1>2, <1>6, <2>1, SearchCall
  <2> QED BY <1>5, <2>1, <2>2 DEF SearchInv
<1> QED BY <1>7, <1>8, <1>9, <1>10, <1>11, <1>12, <1>13, <1>14, <1>15

LEMMA HydrateCall ==
  ASSUME BaseInv, NEW r \in CallRec, call' = [call EXCEPT !["hydrator"] = r], ~Sent("hydrator"),
         \/ hpc' = "redis" /\ r.at = "members"
         \/ hpc' \notin {"redis"} /\ r.at = "idle",
         UNCHANGED <<lpc, wpc, dpc, ypc, spc>>
  PROVE  /\ CallInv' /\ call'["hydrator"] = r
         /\ OnlyCall("hydrator")
<1>1. /\ CallInv /\ call \in [Clients -> CallRec] /\ "hydrator" \in Clients
      /\ r.at \notin {"del", "set", "mark"}
  BY DEF BaseInv, CallInv, Clients
<1>2. /\ call' \in [Clients -> CallRec] /\ call'["hydrator"] = r
      /\ OnlyCall("hydrator")
  BY <1>1, OneCall
<1>3. Phase("hydrator", hpc, {}, {"redis"})'
  BY <1>2 DEF Phase, Pushing
<1>4. \A d \in {"listener", "warmup", "repair", "sync", "search"} : call'[d] = call[d]
  BY <1>2 DEF Clients, OnlyCall
<1> QED BY <1>1, <1>2, <1>3, <1>4, CallsKept

LEMMA HydrateSameCall ==
  ASSUME BaseInv, call' = call, UNCHANGED <<lpc, wpc, dpc, ypc, spc>>,
         hpc \notin {"redis"}, hpc' \notin {"redis"}
  PROVE  CallInv'
<1>1. CallInv /\ call' \in [Clients -> CallRec]
  BY DEF BaseInv, CallInv
<1>2. Phase("hydrator", hpc, {}, {"redis"})'
  BY <1>1 DEF CallInv, Phase
<1> QED BY <1>1, <1>2, CallsKept

\* The blocks of a scan lie between its ends.
LEMMA ChunkBounds ==
  ASSUME BaseInv, ScanChunk
  PROVE  LET to == Smaller(hto, hcur + ChunkBlocks - 1)
         IN  /\ hacc' = AccumulatedTo(hacc, Larger(hcur, FirstBlock), to) /\ hcur' = to + 1
             /\ to \in hcur..hto /\ to \in 0..head
             /\ Larger(hcur, FirstBlock) \in Nat \ {0} /\ Larger(hcur, FirstBlock) - 1 <= to
             /\ hacc' = Plus(hacc, Larger(hcur, FirstBlock), to) /\ hacc' \in Acc
<1> DEFINE to == Smaller(hto, hcur + ChunkBlocks - 1)
           b == Larger(hcur, FirstBlock)
<1>1. /\ hacc' = AccumulatedTo(hacc, b, to) /\ hcur' = to + 1 /\ hcur <= hto
  BY DEF ScanChunk
<1>2. /\ ChunkBlocks \in Nat \ {0} /\ hcur \in Nat /\ hto \in 0..head /\ hacc \in Acc
      /\ LogOK(log) /\ head \in Nat
  BY TickAssumption DEF BaseInv, HydrInv, LogInv, LogOK, head
<1>3. /\ to \in hcur..hto /\ to \in 0..head
      /\ b \in Nat \ {0} /\ b - 1 <= to
  BY <1>1, <1>2 DEF Smaller, Larger, FirstBlock
<1> HIDE DEF to, b
<1>4. to \in Nat /\ to <= head /\ b \in Int /\ to \in Int
  BY <1>2, <1>3
<1>5. AccumulatedTo(hacc, b, to) = Plus(hacc, b, to) /\ Plus(hacc, b, to) \in Acc
  <2>1. \A acc \in Acc, m \in Nat \ {0}, n \in Nat : m - 1 <= n /\ n <= head =>
           AccumulatedTo(acc, m, n) = Plus(acc, m, n) /\ Plus(acc, m, n) \in Acc
    BY <1>2, AccumulatedIsPlus, PlusType
  <2> QED BY <1>2, <1>3, <1>4, <2>1
<1> QED BY <1>1, <1>3, <1>5 DEF to, b

LEMMA HydratorKeeps ==
  ASSUME BaseInv,
         \/ BeginPass \/ ScanChunk \/ ChunkFails \/ EndScan \/ HydrateRows \/ HydrateCoverage
         \/ EndPass \/ \E dies \in BOOLEAN : HydratorAborts(dies)
  PROVE  BaseInv' /\ Quiet /\ KeepsSearch /\ KeepsListener
<1>1. HydrateFrame
  BY DEF BeginPass, ScanChunk, ChunkFails, EndScan, HydrateRows, HydrateCoverage, EndPass, HydratorAborts
<1>2. UNCHANGED <<scenario, log, idx, val, repairq, current, lpc, lpos, lto, lnext, wpc, wticks,
                  chan, pend, flush, dpc, dforce, drow, ypc, spc, sgot, cache, expired, missed, clean>>
  BY <1>1 DEF HydrateFrame, listenVars, warmVars, queueVars, repairVars, searchVars
<1>3. LogInv' /\ WarmInv' /\ QueueInv' /\ SearchInv' /\ RepairInv'
  BY <1>2 DEF BaseInv, LogInv, WarmInv, QueueInv, SearchInv, RepairInv
<1>4. ListenInv' /\ head' = head
  BY <1>2 DEF BaseInv, ListenInv, head
<1>5. /\ CallInv /\ RedisInv /\ PgInv /\ HydrInv /\ marked \in BOOLEAN
      /\ hacc \in Acc /\ hfailed \in BOOLEAN /\ hto \in 0..head /\ hfrom \in Nat
      /\ hcur \in 0..(hto + 1) /\ head \in Nat /\ (hlast # None => hlast \in 0..head)
  BY DEF BaseInv, PgInv, RedisInv, HydrInv, LogInv, LogOK, head
<1> SUFFICES marked' \in {marked, TRUE} /\ PgInv' /\ HydrInv' /\ CallInv' /\ OnlyCall("hydrator")
  <2>1. RedisInv'
    BY <1>2, <1>5 DEF RedisInv
  <2>2. Quiet /\ call'["search"] = call["search"] /\ call'["listener"] = call["listener"]
    BY <1>2, <1>5, OnlyCallQuiet DEF Clients
  <2> QED BY <1>2, <1>3, <1>4, <2>1, <2>2 DEF BaseInv, KeepsSearch, KeepsListener
<1> DEFINE idle == [at |-> "idle", keys |-> {}, ticks |-> NoTicks]
           members == [at |-> "members", keys |-> {}, ticks |-> Hydrated(hacc)]
<1>6. /\ idle \in CallRec /\ idle.at = "idle" /\ members \in CallRec /\ members.at = "members"
      /\ Hydrated(hacc) \in Ticks
  BY <1>5, CallsOf, HydratedTicks
<1> HIDE DEF idle, members
<1>7. CASE BeginPass
  <2>1. UNCHANGED <<marked, pg, cov, call>> /\ hpc = "idle" /\ hpc' \in {"idle", "scan"}
    BY <1>7 DEF BeginPass, pgVars
  <2>2. CallInv' /\ OnlyCall("hydrator")
    BY <1>2, <2>1, HydrateSameCall, SameCalls
  <2>3. HydrInv'
    <3> DEFINE min == Larger(0, head - Lookback)
               from == IF hlast = None THEN min ELSE Larger(0, hlast - Overlap)
    <3>1. min \in 0..head /\ from \in 0..head
      BY <1>5, TickAssumption DEF Larger
    <3>2. /\ hto' = head
          /\ \/ hlast' = head /\ UNCHANGED <<hfrom, hcur, hacc, hfailed>>
             \/ /\ hfrom' = from /\ hcur' = from
                /\ hacc' = NoDeltas /\ hfailed' = FALSE /\ UNCHANGED hlast
      BY <1>7 DEF BeginPass
    <3>3. NoDeltas \in Acc
      BY DEF NoDeltas, Acc
    <3> HIDE DEF min, from
    <3>4. CASE hlast' = head /\ UNCHANGED <<hfrom, hcur, hacc, hfailed>>
      <4>1. hto' \in 0..head' /\ hcur' \in 0..(hto' + 1) /\ hlast' \in 0..head'
        BY <1>4, <1>5, <3>2, <3>4
      <4> QED BY <1>5, <3>4, <4>1 DEF HydrInv
    <3>5. CASE /\ hfrom' = from /\ hcur' = from
               /\ hacc' = NoDeltas /\ hfailed' = FALSE /\ UNCHANGED hlast
      <4>1. hto' \in 0..head' /\ hcur' \in 0..(hto' + 1) /\ hfrom' \in Nat
        BY <1>4, <1>5, <3>1, <3>2, <3>5
      <4> QED BY <1>4, <1>5, <3>3, <3>5, <4>1 DEF HydrInv
    <3> QED BY <3>2, <3>4, <3>5
  <2> QED BY <1>5, <2>1, <2>2, <2>3 DEF PgInv
<1>8. CASE ScanChunk
  <2>1. UNCHANGED <<marked, pg, cov, call, hpc, hlast, hfrom, hto, hfailed>> /\ hpc = "scan"
    BY <1>8 DEF ScanChunk, pgVars
  <2>2. CallInv' /\ OnlyCall("hydrator")
    BY <1>2, <2>1, HydrateSameCall, SameCalls
  <2>3. hacc' \in Acc /\ hcur' \in 0..(hto + 1)
    BY <1>5, <1>8, ChunkBounds
  <2>4. HydrInv'
    BY <1>4, <1>5, <2>1, <2>3 DEF HydrInv
  <2> QED BY <1>5, <2>1, <2>2, <2>4 DEF PgInv
<1>9. CASE ChunkFails \/ EndScan
  <2>1. /\ UNCHANGED <<marked, pg, cov, call, hlast, hfrom, hto, hcur, hacc>>
        /\ hpc = "scan" /\ hpc' = "rows" /\ hfailed' \in BOOLEAN
    BY <1>5, <1>9 DEF ChunkFails, EndScan, pgVars
  <2>2. CallInv' /\ OnlyCall("hydrator")
    BY <1>2, <2>1, HydrateSameCall, SameCalls
  <2> QED BY <1>4, <1>5, <2>1, <2>2 DEF PgInv, HydrInv
<1>10. CASE HydrateRows
  <2>1. /\ UNCHANGED <<marked, cov, hlast, hfrom, hto, hcur, hacc, hfailed>>
        /\ hpc = "rows" /\ hpc' = "redis" /\ pg' = Hydrated(hacc)
        /\ call' = [call EXCEPT !["hydrator"] = members]
    BY <1>10 DEF HydrateRows, Replacing, members
  <2>2. ~Sent("hydrator")
    BY <1>5, <2>1 DEF CallInv, Phase, Sent
  <2>3. CallInv' /\ OnlyCall("hydrator")
    BY <1>2, <1>6, <2>1, <2>2, HydrateCall
  <2> QED BY <1>4, <1>5, <1>6, <2>1, <2>3 DEF PgInv, HydrInv
<1>11. CASE HydrateCoverage
  <2>1. /\ UNCHANGED <<marked, pg, hlast, hfrom, hto, hcur, hacc, hfailed>> /\ hpc' = "mark"
        /\ cov' = [status |-> Status(Hydrated(hacc)), count |-> Count(Hydrated(hacc))]
        /\ call' = [call EXCEPT !["hydrator"] = idle]
    BY <1>11 DEF HydrateCoverage, Returned, idle
  <2>2. ~Sent("hydrator")
    BY <1>11 DEF HydrateCoverage, Replaced, Sent
  <2>3. CallInv' /\ OnlyCall("hydrator")
    BY <1>2, <1>6, <2>1, <2>2, HydrateCall
  <2>4. PgInv'
    BY <1>5, <1>6, <2>1, TicksOf, StatusType DEF PgInv
  <2> QED BY <1>4, <1>5, <2>1, <2>3, <2>4 DEF HydrInv
<1>12. CASE EndPass
  <2>1. /\ UNCHANGED <<pg, cov, call, hfrom, hto, hcur, hacc, hfailed>> /\ hpc = "mark" /\ hpc' = "idle"
        /\ marked' = (marked \/ ~Empty(Hydrated(hacc))) /\ hlast' = hto
    BY <1>12 DEF EndPass, pgVars
  <2>2. CallInv' /\ OnlyCall("hydrator")
    BY <1>2, <2>1, HydrateSameCall, SameCalls
  <2>3. marked' \in {marked, TRUE}
    BY <1>5, <2>1
  <2> QED BY <1>4, <1>5, <2>1, <2>2, <2>3 DEF PgInv, HydrInv
<1>13. CASE \E dies \in BOOLEAN : HydratorAborts(dies)
  <2>1. /\ UNCHANGED <<marked, pg, cov, hfrom, hto, hcur, hacc, hfailed>> /\ hpc' = "idle"
        /\ ~Sent("hydrator") /\ hlast' \in {None, hlast}
        /\ call' = [call EXCEPT !["hydrator"] = idle]
    BY <1>13 DEF HydratorAborts, Returned, idle, pgVars
  <2>2. CallInv' /\ OnlyCall("hydrator")
    BY <1>2, <1>6, <2>1, HydrateCall
  <2> QED BY <1>4, <1>5, <2>1, <2>2 DEF PgInv, HydrInv
<1> QED BY <1>7, <1>8, <1>9, <1>10, <1>11, <1>12, <1>13

\* A step of replace_pool_ticks changes Redis and the call it is of.
LEMMA ReplaceFrame ==
  ASSUME NEW c \in Clients, Replace(c)
  PROVE  /\ UNCHANGED <<scenario, log, pg, cov, lpc, lpos, lto, lnext, wpc, wticks, chan, pend, flush>>
         /\ UNCHANGED <<dpc, dforce, drow, ypc, spc, sgot, cache, expired, missed>>
         /\ UNCHANGED <<hpc, hlast, hfrom, hto, hcur, hacc, hfailed, repairq, current>>
BY DEF Replace, Members, Delete, Write, Mark, redisVars, pgVars, listenVars, warmVars, queueVars,
       repairVars, searchVars, hydrVars

\* The four commands.
LEMMA Pipeline ==
  ASSUME BaseInv, NEW c \in Clients, Replace(c)
  PROVE  /\ call' \in [Clients -> CallRec]
         /\ \A d \in Clients \ {c} : call'[d] = call[d]
         /\ call'[c].ticks = call[c].ticks
         /\ \/ /\ call[c].at = "members" /\ call'[c].at = "del"
               /\ UNCHANGED <<idx, val, marked, clean>>
            \/ /\ call[c].at = "del" /\ call'[c].at = "set" /\ idx' = {} /\ UNCHANGED marked
               /\ val' = Only(val, Tick \ call[c].keys) /\ clean' = (clean /\ c = "listener")
            \/ /\ call[c].at = "set" /\ call'[c].at = "mark" /\ UNCHANGED <<marked, clean>>
               /\ idx' = idx \cup DOMAIN call[c].ticks
               /\ val' = [t \in DOMAIN val \cup DOMAIN call[c].ticks |->
                            IF t \in DOMAIN call[c].ticks THEN call[c].ticks[t] ELSE val[t]]
            \/ /\ call[c].at = "mark" /\ call'[c].at = "replaced" /\ marked' = TRUE
               /\ UNCHANGED <<idx, val, clean>>
<1>1. /\ call \in [Clients -> CallRec] /\ idx \subseteq Tick
      /\ call[c] \in CallRec /\ call[c].ticks \in Ticks
  BY DEF BaseInv, CallInv, RedisInv, CallRec
<1>2. CASE Members(c)
  <2> DEFINE r == [at |-> "del", keys |-> idx, ticks |-> call[c].ticks]
  <2>1. call' = [call EXCEPT ![c] = r] /\ call[c].at = "members" /\ UNCHANGED <<idx, val, marked, clean>>
    BY <1>2 DEF Members, redisVars
  <2>2. r \in CallRec /\ r.at = "del" /\ r.ticks = call[c].ticks
    BY <1>1 DEF CallRec, Pushing
  <2> HIDE DEF r
  <2> QED BY <1>1, <2>1, <2>2
<1>3. ASSUME NEW at \in Pushing, Step(c, at)
      PROVE  /\ call' \in [Clients -> CallRec] /\ \A d \in Clients \ {c} : call'[d] = call[d]
             /\ call'[c].ticks = call[c].ticks /\ call'[c].at = at
  <2> DEFINE r == [call[c] EXCEPT !.at = at]
  <2>1. call' = [call EXCEPT ![c] = r]
    BY <1>3 DEF Step
  <2>2. r \in CallRec /\ r.at = at /\ r.ticks = call[c].ticks
    BY <1>1 DEF CallRec
  <2> HIDE DEF r
  <2> QED BY <1>1, <2>1, <2>2
<1>4. CASE Delete(c)
  <2>1. /\ call[c].at = "del" /\ Step(c, "set") /\ idx' = {} /\ UNCHANGED marked
        /\ val' = Only(val, Tick \ call[c].keys) /\ clean' = (clean /\ c = "listener")
    BY <1>4 DEF Delete
  <2> QED BY <1>3, <2>1 DEF Pushing
<1>5. CASE Write(c)
  <2>1. /\ call[c].at = "set" /\ Step(c, "mark") /\ UNCHANGED <<marked, clean>>
        /\ idx' = idx \cup DOMAIN call[c].ticks
        /\ val' = [t \in DOMAIN val \cup DOMAIN call[c].ticks |->
                     IF t \in DOMAIN call[c].ticks THEN call[c].ticks[t] ELSE val[t]]
    BY <1>5 DEF Write
  <2> QED BY <1>3, <2>1 DEF Pushing
<1>6. CASE Mark(c)
  <2>1. /\ call[c].at = "mark" /\ Step(c, "replaced") /\ marked' = TRUE
        /\ UNCHANGED <<idx, val, clean>>
    BY <1>6 DEF Mark
  <2> QED BY <1>3, <2>1 DEF Pushing
<1> QED BY <1>2, <1>4, <1>5, <1>6 DEF Replace

LEMMA ReplaceKeeps ==
  ASSUME BaseInv, NEW c \in Clients, Replace(c)
  PROVE  BaseInv' /\ KeepsScan
<1>1. /\ UNCHANGED <<scenario, log, pg, cov, lpc, lpos, lto, lnext, wpc, wticks, chan, pend, flush>>
      /\ UNCHANGED <<dpc, dforce, drow, ypc, spc, sgot, cache, expired, missed>>
      /\ UNCHANGED <<hpc, hlast, hfrom, hto, hcur, hacc, hfailed, repairq, current>>
  BY ReplaceFrame
<1>2. LogInv' /\ PgInv' /\ WarmInv' /\ QueueInv' /\ RepairInv' /\ SearchInv'
  BY <1>1 DEF BaseInv, LogInv, PgInv, WarmInv, QueueInv, RepairInv, SearchInv
<1>3. HydrInv'
  BY <1>1 DEF BaseInv, HydrInv, head
<1>4. /\ call' \in [Clients -> CallRec] /\ \A d \in Clients \ {c} : call'[d] = call[d]
      /\ call[c].at \in Pushing /\ call'[c].at \in Pushing
  BY Pipeline DEF Pushing
<1>5. CallInv'
  <2>1. ASSUME NEW d \in Clients, NEW pc, NEW R, NEW P, Phase(d, pc, R, P)
        PROVE  /\ pc \in R => call'[d].at = "values"
               /\ pc \in P => call'[d].at \in Pushing
               /\ pc \notin R \cup P => call'[d].at = "idle"
    BY <1>4, <2>1 DEF Phase, Pushing
  <2>2. CallInv
    BY DEF BaseInv
  <2>3. Phase("listener", lpc, {"read"}, {"mark"})' /\ Phase("warmup", wpc, {"decide"}, {"mark"})'
    BY <1>1, <2>1, <2>2 DEF CallInv, Phase, Clients
  <2>4. Phase("repair", dpc, {"decide"}, {"mark"})' /\ Phase("sync", ypc, {}, {"mark"})'
    BY <1>1, <2>1, <2>2 DEF CallInv, Phase, Clients
  <2>5. Phase("search", spc, {"load"}, {"fill"})' /\ Phase("hydrator", hpc, {}, {"redis"})'
    BY <1>1, <2>1, <2>2 DEF CallInv, Phase, Clients
  <2> QED BY <1>4, <2>3, <2>4, <2>5 DEF CallInv
<1>6. RedisInv'
  <2>1. /\ idx \subseteq Tick /\ val \in Ticks /\ marked \in BOOLEAN /\ repairq \in BOOLEAN
        /\ call[c].ticks \in Ticks
    BY DEF BaseInv, RedisInv, CallInv, CallRec
  <2>2. marked' \in BOOLEAN
    BY <2>1, Pipeline
  <2>3. val' \in Ticks /\ idx' \subseteq Tick
    <3>1. CASE UNCHANGED <<idx, val>>
      BY <2>1, <3>1
    <3>2. CASE idx' = {} /\ val' = Only(val, Tick \ call[c].keys)
      BY <2>1, <3>2, OnlyTicks
    <3>3. CASE /\ idx' = idx \cup DOMAIN call[c].ticks
               /\ val' = [t \in DOMAIN val \cup DOMAIN call[c].ticks |->
                            IF t \in DOMAIN call[c].ticks THEN call[c].ticks[t] ELSE val[t]]
      <4>1. /\ DOMAIN val \subseteq Tick /\ DOMAIN call[c].ticks \subseteq Tick
            /\ \A t \in DOMAIN val : val[t] \in Nat
            /\ \A t \in DOMAIN call[c].ticks : call[c].ticks[t] \in Nat
        BY <2>1, TicksOf
      <4>2. val' \in [DOMAIN val \cup DOMAIN call[c].ticks -> Nat]
        BY <3>3, <4>1
      <4> QED BY <2>1, <3>3, <4>1, <4>2, IsTicksOf
    <3> QED BY <3>1, <3>2, <3>3, Pipeline
  <2> QED BY <1>1, <2>1, <2>2, <2>3 DEF RedisInv
<1>7. ListenInv'
  <2>1. ListenInv /\ clean' \in BOOLEAN
    BY Pipeline DEF BaseInv, ListenInv
  <2> QED BY <1>1, <2>1 DEF ListenInv, head
<1> QED BY <1>1, <1>2, <1>3, <1>5, <1>6, <1>7 DEF BaseInv, KeepsScan

LEMMA BaseStutter ==
  ASSUME BaseInv, UNCHANGED vars
  PROVE  BaseInv' /\ Quiet /\ KeepsSearch /\ KeepsListener /\ KeepsScan
<1>1. /\ UNCHANGED <<scenario, log, idx, val, marked, repairq, current, pg, cov, call,
                     lpc, lpos, lto, lnext, wpc, wticks, chan, pend, flush>>
      /\ UNCHANGED <<dpc, dforce, drow, ypc, spc, sgot, cache, expired, missed,
                     hpc, hlast, hfrom, hto, hcur, hacc, hfailed, clean>>
  BY DEF vars, redisVars, pgVars, listenVars, warmVars, queueVars, repairVars, searchVars, hydrVars
<1>2. LogInv' /\ RedisInv' /\ PgInv' /\ WarmInv' /\ QueueInv' /\ RepairInv' /\ SearchInv'
  BY <1>1 DEF BaseInv, LogInv, RedisInv, PgInv, WarmInv, QueueInv, RepairInv, SearchInv
<1>3. HydrInv' /\ ListenInv'
  BY <1>1 DEF BaseInv, HydrInv, ListenInv, head
<1>4. CallInv'
  <2>1. CallInv /\ call' \in [Clients -> CallRec]
    BY <1>1 DEF BaseInv, CallInv
  <2> QED BY <1>1, <2>1, CallsKept
<1> QED BY <1>1, <1>2, <1>3, <1>4 DEF BaseInv, Quiet, KeepsSearch, KeepsListener, KeepsScan
------------------------------------------------------------------------------
(* Every step *)

ListenerStep ==
  Poll \/ LogsLost \/ EndChunk \/ NextEvent \/ ApplyDeltas \/ RecordDeltas \/ ListenerRestart
WarmStep == WarmFetch \/ WarmFetchFails \/ WarmRead \/ WarmDecide \/ WarmRecord
RecorderStep == \E q \in Recorders : Receive(q) \/ FlushRows(q) \/ FlushCoverage(q)
RepairStep == \/ Drain \/ RepairRead \/ RepairDecide \/ RepairFetch \/ RepairFetchFails
              \/ RepairRows \/ RepairCoverage \/ RepairMark \/ RepairAborts
SyncStep == SyncSelect \/ SyncMark
SearchStep == \/ BeginCycle \/ NotSelected \/ Selected \/ Load \/ Fallback \/ Filled
              \/ (\E e \in BOOLEAN : Quote(e)) \/ Expire \/ SearcherRestart
HydratorStep == \/ BeginPass \/ ScanChunk \/ ChunkFails \/ EndScan \/ HydrateRows
                \/ HydrateCoverage \/ EndPass \/ \E dies \in BOOLEAN : HydratorAborts(dies)

\* A step is a block, a command of a pipeline, or one process's own.
LEMMA Steps ==
  ASSUME [Next]_vars
  PROVE  \/ Seal \/ ListenerStep \/ WarmStep \/ RecorderStep \/ RepairStep \/ SyncStep
         \/ SearchStep \/ HydratorStep \/ (\E c \in Clients : Replace(c)) \/ UNCHANGED vars
<1>1. CASE Listener \/ LogsLost \/ ListenerRestart
  BY <1>1 DEF Listener, ListenerStep, Clients
<1>2. CASE Warmup \/ WarmFetchFails
  BY <1>2 DEF Warmup, WarmStep, Clients
<1>3. CASE Recorder
  BY <1>3 DEF Recorder, RecorderStep
<1>4. CASE Repair \/ RepairFetchFails \/ RepairAborts
  BY <1>4 DEF Repair, RepairStep, Clients
<1>5. CASE Sync
  BY <1>5 DEF Sync, SyncStep, Clients
<1>6. CASE Search \/ Expire \/ SearcherRestart
  BY <1>6 DEF Search, SearchStep, Clients
<1>7. CASE Hydrator \/ ChunkFails \/ \E dies \in BOOLEAN : HydratorAborts(dies)
  BY <1>7 DEF Hydrator, HydratorStep, Clients
<1> QED BY <1>1, <1>2, <1>3, <1>4, <1>5, <1>6, <1>7 DEF Next

LEMMA ListenerKeeps ==
  ASSUME BaseInv, ListenerStep
  PROVE  BaseInv' /\ Quiet /\ KeepsSearch /\ KeepsScan
BY PollKeeps, NextEventKeeps, ApplyDeltasKeeps, RecordDeltasKeeps, ListenerRestartKeeps
   DEF ListenerStep

\* What the steps of the other processes leave alone.
LEMMA OthersKeep ==
  ASSUME BaseInv, WarmStep \/ RecorderStep \/ RepairStep \/ SyncStep
  PROVE  BaseInv' /\ Quiet /\ KeepsSearch /\ KeepsListener /\ KeepsScan
<1>1. CASE WarmStep
  BY <1>1, WarmKeeps DEF WarmStep
<1>2. CASE RecorderStep
  BY <1>2, RecorderKeeps DEF RecorderStep
<1>3. CASE RepairStep
  BY <1>3, RepairKeeps DEF RepairStep
<1>4. CASE SyncStep
  BY <1>4, SyncKeeps DEF SyncStep
<1> QED BY <1>1, <1>2, <1>3, <1>4

LEMMA SearchesKeep ==
  ASSUME BaseInv, SearchStep
  PROVE  BaseInv' /\ (Quiet \/ BeginCycle) /\ KeepsListener /\ KeepsScan
BY SearchKeeps DEF SearchStep

LEMMA HydrationKeeps ==
  ASSUME BaseInv, HydratorStep
  PROVE  BaseInv' /\ Quiet /\ KeepsSearch /\ KeepsListener
BY HydratorKeeps DEF HydratorStep

LEMMA BaseNext ==
  ASSUME BaseInv, [Next]_vars
  PROVE  BaseInv'
<1>1. CASE Seal
  BY <1>1, SealKeeps
<1>2. CASE ListenerStep
  BY <1>2, ListenerKeeps
<1>3. CASE WarmStep \/ RecorderStep \/ RepairStep \/ SyncStep
  BY <1>3, OthersKeep
<1>4. CASE SearchStep
  BY <1>4, SearchesKeep
<1>5. CASE HydratorStep
  BY <1>5, HydrationKeeps
<1>6. CASE \E c \in Clients : Replace(c)
  BY <1>6, ReplaceKeeps
<1>7. CASE UNCHANGED vars
  BY <1>7, BaseStutter
<1> QED BY <1>1, <1>2, <1>3, <1>4, <1>5, <1>6, <1>7, Steps

------------------------------------------------------------------------------
(* The initial states *)

\* The log is one block; Redis and Postgres have the same part of its ticks.
LEMMA InitRedis ==
  ASSUME Init
  PROVE  /\ LogOK(log) /\ head = 1 /\ scenario \in Scenarios
         /\ idx = DOMAIN val /\ idx \subseteq Tick /\ val \in Ticks /\ RedisTicks = val
         /\ clean \in BOOLEAN /\ (clean => RedisTicks = ChainIn(log, 1))
         /\ cov # None => cov.status \in Statuses /\ cov.count \in Nat
<1>1. LogOK(log) /\ head = 1 /\ scenario \in Scenarios
  <2>1. scenario \in Scenarios
    BY DEF Init
  <2>2. PICK P \in Positions : log = <<[keys |-> P, d |-> 1]>>
    BY <2>1, TickAssumption DEF Init
  <2> QED BY <2>1, <2>2, FirstLog DEF head
<1>2. ChainTicks(1) \in Ticks /\ ChainTicks(1) = ChainIn(log, 1)
  <2>1. log \in Seq(Event \cup {None}) /\ 1 \in Int /\ 1 <= head
    BY <1>1 DEF LogOK
  <2> QED BY <1>1, <2>1, ChainTicksTicks, ChainIsChainIn
<1>3. PICK S : /\ idx = DOMAIN Only(ChainTicks(1), S) /\ val = Only(ChainTicks(1), S)
               /\ clean = (Only(ChainTicks(1), S) = ChainTicks(1))
               /\ cov = IF Empty(Only(ChainTicks(1), S)) THEN None
                        ELSE [status |-> "ready", count |-> Count(Only(ChainTicks(1), S))]
  BY DEF Init
<1>4. val \in Ticks /\ idx = DOMAIN val
  BY <1>2, <1>3, OnlyTicks
<1>5. idx \subseteq Tick /\ Count(val) \in Nat /\ val = [t \in DOMAIN val |-> val[t]]
  BY <1>4, TicksOf
<1>6. RedisTicks = val
  BY <1>4, <1>5 DEF RedisTicks, Only
<1>7. cov # None => cov.status \in Statuses /\ cov.count \in Nat
  BY <1>3, <1>5 DEF Statuses
<1>8. clean \in BOOLEAN /\ (clean => RedisTicks = ChainIn(log, 1))
  BY <1>2, <1>3, <1>6
<1> QED BY <1>1, <1>4, <1>5, <1>6, <1>7, <1>8

LEMMA BaseInit ==
  ASSUME Init
  PROVE  BaseInv
<1>1. /\ LogOK(log) /\ head = 1 /\ scenario \in Scenarios
      /\ idx \subseteq Tick /\ val \in Ticks /\ clean \in BOOLEAN
      /\ cov # None => cov.status \in Statuses /\ cov.count \in Nat
  BY InitRedis
<1>2. LogInv /\ RedisInv /\ PgInv
  BY <1>1 DEF Init, LogInv, RedisInv, PgInv
<1>3. CallInv
  <2> DEFINE idle == [at |-> "idle", keys |-> {}, ticks |-> NoTicks]
  <2>1. idle \in CallRec /\ idle.at = "idle" /\ call = [c \in Clients |-> idle]
    BY CallsOf DEF Init
  <2> HIDE DEF idle
  <2>2. call \in [Clients -> CallRec] /\ \A c \in Clients : call[c].at = "idle"
    BY <2>1
  <2>3. /\ lpc = "idle" /\ wpc \in {"fetch", "off"} /\ dpc = "idle" /\ ypc = "select"
        /\ spc = "idle" /\ hpc = "idle"
    BY DEF Init
  <2> QED BY <2>2, <2>3 DEF CallInv, Phase, Clients
<1>4. ListenInv
  BY <1>1 DEF Init, ListenInv
<1>5. WarmInv /\ RepairInv /\ SearchInv
  BY NoTicksTicks DEF Init, WarmInv, RepairInv, SearchInv
<1>6. QueueInv
  BY TickAssumption DEF Init, QueueInv
<1>7. HydrInv
  <2>1. hacc \in Acc
    <3>1. hacc = [t \in Tick |-> [gross |-> 0, net |-> 0]]
      BY DEF Init
    <3> QED BY <3>1 DEF Acc
  <2>2. hfailed = FALSE /\ hto = 0 /\ hfrom = 0 /\ hcur = 0 /\ hlast = None
    BY DEF Init
  <2>3. hfailed \in BOOLEAN /\ (hlast # None => hlast \in 0..head)
    BY <2>2
  <2>4. hto \in 0..head /\ hfrom \in Nat /\ hcur \in 0..(hto + 1)
    BY <1>1, <2>2
  <2> QED BY <2>1, <2>3, <2>4 DEF HydrInv
<1> QED BY <1>2, <1>3, <1>4, <1>5, <1>6, <1>7 DEF BaseInv

LEMMA BaseType ==
  ASSUME BaseInv
  PROVE  TypeOK
<1>1. \A b \in 1..head : log[b] # None => log[b].keys \in Positions /\ log[b].d \in {1, -1}
  BY DEF BaseInv, LogInv, LogOK, head, Event
<1>2. idx \subseteq Tick /\ IsTicks(val) /\ IsTicks(pg)
  BY TicksOf DEF BaseInv, RedisInv, PgInv
<1>3. {marked, repairq, dforce, sgot, expired, missed, clean, hfailed} \subseteq BOOLEAN
  BY DEF BaseInv, RedisInv, RepairInv, SearchInv, ListenInv, HydrInv
<1>4. cov # None => cov.status \in Statuses /\ cov.count \in Nat
  BY DEF BaseInv, PgInv
<1>5. \A c \in Clients :
        /\ call[c].keys \subseteq Tick /\ IsTicks(call[c].ticks)
        /\ call[c].at \in {"idle", "values", "members", "del", "set", "mark", "replaced"}
  <2>1. \A c \in Clients : call[c] \in CallRec
    BY DEF BaseInv, CallInv
  <2> QED BY <2>1, TicksOf DEF CallRec, Pushing
<1>6. \A q \in Recorders :
        /\ Len(chan[q]) <= QueueCap
        /\ \A r \in {pend[q], flush[q]} \ {None} : IsTicks(r.ticks) /\ r.status \in Statuses
  BY TicksOf DEF BaseInv, QueueInv, Record
<1>7. cache # None => IsTicks(cache)
  BY TicksOf DEF BaseInv, SearchInv
<1> QED BY <1>1, <1>2, <1>3, <1>4, <1>5, <1>6, <1>7 DEF TypeOK
------------------------------------------------------------------------------
(* Whoever reads old ticks hears of the change *)

\* A notice stays while marks stay and nobody leaves the pipeline.
LEMMA NoticeKept ==
  ASSUME marked => marked',
         \A c \in Clients : call[c].at \in {"set", "mark"} => call'[c].at \in {"set", "mark"} \/ marked'
  PROVE  Noticed => Noticed'
BY DEF Noticed

LEMMA FreshQuiet ==
  ASSUME FreshInv, Quiet, KeepsSearch
  PROVE  FreshInv'
<1>1. \A c \in Clients : call[c].at \in {"set", "mark"} => call'[c].at \in {"set", "mark"} \/ marked'
  BY DEF Quiet, Sent
<1>2. (marked => marked') /\ UNCHANGED <<idx, val>> /\ UNCHANGED <<spc, cache, sgot, expired, missed>>
      /\ call'["search"] = call["search"]
  BY DEF Quiet, KeepsSearch
<1>3. Noticed => Noticed'
  BY <1>1, <1>2, NoticeKept
<1>4. RedisTicks' = RedisTicks
  BY <1>2 DEF RedisTicks
<1> QED BY <1>2, <1>3, <1>4 DEF FreshInv, Fresh, Replaced

LEMMA FreshReplace ==
  ASSUME BaseInv, FreshInv, NEW c \in Clients, Replace(c)
  PROVE  FreshInv'
<1>1. UNCHANGED <<spc, cache, sgot, expired, missed>>
  BY ReplaceFrame
<1>2. \A d \in Clients \ {c} : call'[d] = call[d]
  BY Pipeline
<1>3. Noticed' \/ (UNCHANGED <<idx, val>> /\ (Noticed => Noticed'))
  <2>1. CASE UNCHANGED <<idx, val, marked>> /\ call[c].at = "members"
    <3>1. \A d \in Clients : call[d].at \in {"set", "mark"} => call'[d].at \in {"set", "mark"} \/ marked'
      BY <1>2, <2>1
    <3> QED BY <2>1, <3>1, NoticeKept
  <2>2. CASE call'[c].at \in {"set", "mark"} \/ marked'
    BY <2>2 DEF Noticed
  <2> QED BY <2>1, <2>2, Pipeline
<1>4. UNCHANGED <<idx, val>> => RedisTicks' = RedisTicks
  BY DEF RedisTicks
<1>5. ASSUME spc = "load"
      PROVE  call'["search"] = call["search"]
  <2>1. call["search"].at = "values"
    BY <1>5 DEF BaseInv, CallInv, Phase
  <2>2. c # "search"
    BY <2>1, Pipeline
  <2> QED BY <1>2, <2>2 DEF Clients
<1>6. ASSUME spc = "fill", Replaced("search")'
      PROVE  marked'
  <2>1. CASE c = "search"
    BY <1>6, <2>1, Pipeline DEF Replaced
  <2>2. CASE c # "search"
    <3>1. call'["search"] = call["search"]
      BY <1>2, <2>2 DEF Clients
    <3>2. marked
      BY <1>6, <3>1 DEF FreshInv, Replaced
    <3> QED BY <3>2, Pipeline
  <2> QED BY <2>1, <2>2
<1>7. CASE Noticed'
  BY <1>1, <1>6, <1>7 DEF FreshInv, Fresh
<1>8. CASE UNCHANGED <<idx, val>> /\ (Noticed => Noticed')
  BY <1>1, <1>4, <1>5, <1>6, <1>8 DEF FreshInv, Fresh
<1> QED BY <1>3, <1>7, <1>8

\* What the searcher does with the notice it has drained.
LEMMA FreshSearch ==
  ASSUME BaseInv, FreshInv, SearchStep
  PROVE  FreshInv'
<1>1. /\ UNCHANGED <<idx, val, pg>> /\ RedisTicks' = RedisTicks
      /\ call \in [Clients -> CallRec] /\ Phase("search", spc, {"load"}, {"fill"}) /\ "search" \in Clients
  <2>1. SearchFrame
    BY DEF SearchStep, BeginCycle, NotSelected, Selected, Load, Fallback, Filled, Quote, Expire,
           SearcherRestart
  <2> QED BY <2>1 DEF SearchFrame, RedisTicks, BaseInv, CallInv, Clients, pgVars
<1>2. UNCHANGED <<marked, call>> => Noticed' = Noticed
  BY DEF Noticed
<1>3. ASSUME UNCHANGED marked, NEW r, call' = [call EXCEPT !["search"] = r], ~Sent("search")
      PROVE  Noticed => Noticed'
  <2>1. \A c \in Clients : call[c].at \in {"set", "mark"} => call'[c].at \in {"set", "mark"} \/ marked'
    BY <1>1, <1>3 DEF Sent
  <2> QED BY <1>3, <2>1, NoticeKept
<1>4. CASE BeginCycle
  <2>1. /\ UNCHANGED <<call, cache, expired, missed>> /\ spc = "idle" /\ spc' = "select" /\ sgot' = marked
    BY <1>4 DEF BeginCycle
  <2>2. Noticed => marked \/ Noticed'
    BY <2>1 DEF Noticed
  <2> QED BY <1>1, <2>1, <2>2 DEF FreshInv, Fresh
<1>5. CASE NotSelected
  <2>1. /\ UNCHANGED <<marked, call, cache, expired, sgot>> /\ spc = "select" /\ spc' = "idle"
        /\ missed' = (missed \/ sgot)
    BY <1>5 DEF NotSelected
  <2> QED BY <1>1, <1>2, <2>1 DEF FreshInv, Fresh
<1>6. CASE Selected
  <2>1. UNCHANGED <<marked, sgot, cache, expired, missed>> /\ spc = "select"
    BY <1>6 DEF Selected
  <2>2. CASE MustLoad
    <3>1. call' = [call EXCEPT !["search"] = [at |-> "values", keys |-> idx, ticks |-> NoTicks]]
          /\ spc' = "load"
      BY <1>6, <2>2 DEF Selected, StartRead
    <3>2. call'["search"].keys = idx
      BY <1>1, <3>1
    <3> QED BY <1>1, <3>1, <3>2 DEF FreshInv
  <2>3. CASE ~MustLoad
    <3>1. UNCHANGED call /\ spc' = "quote" /\ ~sgot
      BY <1>6, <2>3 DEF Selected, MustLoad
    <3> QED BY <1>1, <1>2, <2>1, <3>1 DEF FreshInv, Fresh
  <2> QED BY <2>2, <2>3
<1>7. CASE Load
  <2> DEFINE ticks == Read("search")
  <2>1. /\ UNCHANGED <<marked, sgot>> /\ spc = "load"
        /\ call' = [call EXCEPT !["search"] = [at |-> "idle", keys |-> {}, ticks |-> NoTicks]]
        /\ \/ spc' = "fallback" /\ Empty(ticks)
           \/ spc' = "quote" /\ cache' = ticks
    BY <1>7 DEF Load, Loaded, Returned
  <2>2. ~Sent("search")
    BY <1>1, <2>1 DEF Phase, Sent
  <2>3. Noticed => Noticed'
    BY <1>3, <2>1, <2>2
  <2>4. ticks = RedisTicks \/ Noticed
    BY <2>1 DEF FreshInv, Read, RedisTicks
  <2> HIDE DEF ticks
  <2>5. CASE spc' = "fallback" /\ Empty(ticks)
    <3>1. Empty(RedisTicks)' \/ Noticed'
      BY <1>1, <2>3, <2>4, <2>5 DEF Empty
    <3> QED BY <2>5, <3>1 DEF FreshInv
  <2>6. CASE spc' = "quote" /\ cache' = ticks
    BY <1>1, <2>3, <2>4, <2>6 DEF FreshInv, Fresh
  <2> QED BY <2>1, <2>5, <2>6
<1>8. CASE Fallback
  <2>1. /\ UNCHANGED <<marked, sgot>> /\ spc = "fallback"
    BY <1>8 DEF Fallback
  <2>2. CASE Empty(pg)
    <3>1. cache' = NoTicks /\ spc' = "quote" /\ UNCHANGED call
      BY <1>8, <2>2 DEF Fallback, Loaded
    <3>2. Empty(RedisTicks) => RedisTicks = NoTicks
      BY DEF Empty, RedisTicks, Only, NoTicks
    <3> QED BY <1>1, <1>2, <2>1, <3>1, <3>2 DEF FreshInv, Fresh
  <2>3. CASE ~Empty(pg)
    <3>1. call' = [call EXCEPT !["search"] = [at |-> "members", keys |-> {}, ticks |-> pg]]
          /\ spc' = "fill"
      BY <1>8, <2>3 DEF Fallback, Replacing
    <3>2. call'["search"].at = "members"
      BY <1>1, <3>1
    <3> QED BY <3>1, <3>2 DEF FreshInv, Replaced
  <2> QED BY <2>2, <2>3
<1>9. CASE Filled
  <2>1. spc' = "quote" /\ marked' = marked /\ spc = "fill" /\ Replaced("search")
    BY <1>9 DEF Filled, Loaded
  <2>2. Noticed'
    BY <2>1 DEF FreshInv, Noticed
  <2> QED BY <2>1, <2>2 DEF FreshInv, Fresh
<1>10. CASE \E e \in BOOLEAN : Quote(e)
  <2>1. UNCHANGED <<marked, call, sgot, cache, expired, missed>> /\ spc = "quote" /\ spc' = "idle"
    BY <1>10 DEF Quote
  <2> QED BY <1>1, <1>2, <2>1 DEF FreshInv, Fresh
<1>11. CASE Expire
  <2>1. spc = "idle" /\ spc' = spc /\ expired' = TRUE
    BY <1>11 DEF Expire
  <2> QED BY <2>1 DEF FreshInv, Fresh
<1>12. CASE SearcherRestart
  <2>1. spc' = "idle" /\ cache' = None
    BY <1>12 DEF SearcherRestart
  <2> QED BY <2>1 DEF FreshInv
<1> QED BY <1>4, <1>5, <1>6, <1>7, <1>8, <1>9, <1>10, <1>11, <1>12 DEF SearchStep

LEMMA FreshNext ==
  ASSUME BaseInv, FreshInv, [Next]_vars
  PROVE  FreshInv'
<1>1. CASE Seal \/ ListenerStep \/ HydratorStep
  BY <1>1, SealKeeps, ListenerKeeps, HydrationKeeps, FreshQuiet
<1>2. CASE WarmStep \/ RecorderStep \/ RepairStep \/ SyncStep
  BY <1>2, OthersKeep, FreshQuiet
<1>3. CASE SearchStep
  BY <1>3, FreshSearch
<1>4. CASE \E c \in Clients : Replace(c)
  BY <1>4, FreshReplace
<1>5. CASE UNCHANGED vars
  BY <1>5, BaseStutter, FreshQuiet
<1> QED BY <1>1, <1>2, <1>3, <1>4, <1>5, Steps
------------------------------------------------------------------------------
(* The listener's ticks are those of the chain *)

\* What is appended to the log does not change what the chain had before.
LEMMA ChainKept ==
  ASSUME NEW l \in Seq(Event \cup {None}), NEW e \in Event \cup {None}, NEW n \in Int, n <= Len(l)
  PROVE  /\ \A t : /\ GrossIn(Append(l, e), t, n) = GrossIn(l, t, n)
                   /\ NetIn(Append(l, e), t, n) = NetIn(l, t, n)
         /\ ChainIn(Append(l, e), n) = ChainIn(l, n)
<1>1. \A E : Number(Append(l, e), E, n) = Number(l, E, n)
  BY NumberKept
<1>2. \A E, F : More(Append(l, e), E, F, n) = More(l, E, F, n)
  BY <1>1 DEF More
<1>3. \A t : /\ GrossIn(Append(l, e), t, n) = GrossIn(l, t, n)
             /\ NetIn(Append(l, e), t, n) = NetIn(l, t, n)
  BY <1>2 DEF GrossIn, NetIn, LowIn, HighIn
<1> QED BY <1>3 DEF ChainIn

\* A block without an event of the pool leaves its ticks as they were.
LEMMA ChainWithout ==
  ASSUME NEW l, LogOK(l), NEW n \in 1..Len(l), l[n] = None
  PROVE  ChainIn(l, n) = ChainIn(l, n - 1)
<1>1. \A t : GrossIn(l, t, n) = GrossIn(l, t, n - 1)
  BY LiquidityNext
<1> QED BY <1>1 DEF ChainIn

\* apply_tick_deltas makes the ticks of a block out of those of the one before.
LEMMA ChainWith ==
  ASSUME NEW l, LogOK(l), NEW n \in 1..Len(l), l[n] # None
  PROVE  WithDeltas(ChainIn(l, n - 1), l[n]) = ChainIn(l, n)
<1> DEFINE e == l[n]
           old == ChainIn(l, n - 1)
           was(t) == GrossIn(l, t, n - 1)
           is(t) == GrossIn(l, t, n)
<1>1. e \in Event /\ e.keys \subseteq Tick /\ e.d \in {1, -1}
  <2>1. e \in Event
    BY DEF LogOK
  <2> QED BY <2>1, KeysOf
<1>2. \A t : was(t) \in Nat /\ is(t) \in Nat
  <2>1. n - 1 \in Int /\ n - 1 <= Len(l) /\ n \in Int /\ n <= Len(l)
    BY DEF LogOK
  <2> QED BY <2>1, GrossAndNet
<1>3. \A t : /\ t \notin e.keys => is(t) = was(t)
             /\ t \in e.keys => is(t) = was(t) + e.d
  BY LiquidityNext
<1>4. DOMAIN old = {u \in Tick : was(u) > 0} /\ \A t \in DOMAIN old : old[t] = was(t)
  BY DEF ChainIn
<1>5. ChainIn(l, n) = [t \in {u \in Tick : is(u) > 0} |-> is(t)]
  BY DEF ChainIn
<1> HIDE DEF e, old, was, is
<1>6. \A t \in e.keys : NewGross(old, t, e.d) = is(t)
  <2> TAKE t \in e.keys
  <2>1. (IF t \in DOMAIN old THEN old[t] ELSE 0) = was(t)
    BY <1>1, <1>2, <1>4
  <2>2. NewGross(old, t, e.d) = Larger(0, was(t) + e.d)
    BY <2>1 DEF NewGross
  <2>3. was(t) + e.d = is(t) /\ is(t) \in Nat
    BY <1>2, <1>3
  <2> QED BY <2>2, <2>3 DEF Larger
<1> DEFINE S == (DOMAIN old \cup e.keys) \ {t \in e.keys : NewGross(old, t, e.d) = 0}
<1>7. S = {u \in Tick : is(u) > 0}
  <2>1. ASSUME NEW t \in Tick, t \in e.keys
        PROVE  t \in S <=> is(t) > 0
    BY <1>2, <1>6, <2>1
  <2>2. ASSUME NEW t \in Tick, t \notin e.keys
        PROVE  t \in S <=> is(t) > 0
    BY <1>3, <1>4, <2>2
  <2>3. S \subseteq Tick
    BY <1>1, <1>4
  <2> QED BY <2>1, <2>2, <2>3
<1>8. \A t \in S : (IF t \in e.keys THEN NewGross(old, t, e.d) ELSE old[t]) = is(t)
  BY <1>3, <1>4, <1>6
<1>9. WithDeltas(old, e) = [t \in S |-> IF t \in e.keys THEN NewGross(old, t, e.d) ELSE old[t]]
  BY DEF WithDeltas
<1>10. WithDeltas(old, e) = [t \in {u \in Tick : is(u) > 0} |-> is(t)]
  BY <1>7, <1>8, <1>9
<1> QED BY <1>5, <1>10 DEF old, e

\* No pipeline advances, whether or not a mark goes.
Still ==
  /\ UNCHANGED <<idx, val>>
  /\ \A c \in Clients : call'[c] = call[c] \/ ~(Sent(c) \/ Sent(c)')

LEMMA CleanStill ==
  ASSUME CleanInv, KeepsListener, Still
  PROVE  CleanInv'
<1>1. /\ UNCHANGED <<log, lpc, lpos, lnext, clean>> /\ call'["listener"] = call["listener"]
      /\ UNCHANGED <<idx, val>>
  BY DEF KeepsListener, Still
<1>2. RedisTicks' = RedisTicks
  BY <1>1 DEF RedisTicks
<1>3. /\ ChainIn(log, lpos)' = ChainIn(log, lpos) /\ ChainIn(log, lnext - 1)' = ChainIn(log, lnext - 1)
      /\ ChainIn(log, lnext)' = ChainIn(log, lnext)
  BY <1>1
<1>4. ASSUME \A c \in Clients \ {"listener"} : call[c].at \notin {"set", "mark"}
      PROVE  \A c \in Clients \ {"listener"} : call'[c].at \notin {"set", "mark"}
  BY <1>4 DEF Still, Sent
<1> QED BY <1>1, <1>2, <1>3, <1>4 DEF CleanInv

LEMMA CleanSeal ==
  ASSUME BaseInv, CleanInv, Seal
  PROVE  CleanInv'
<1>1. UNCHANGED <<lpc, lpos, lto, lnext, clean, call, idx, val>>
  BY SealKeeps DEF Quiet
<1>2. PICK e \in Event \cup {None} : log' = Append(log, e)
  BY SealKeeps
<1>3. log \in Seq(Event \cup {None}) /\ head = Len(log)
  BY DEF BaseInv, LogInv, LogOK, head
<1>4. ASSUME NEW n \in Int, n <= head
      PROVE  ChainIn(log', n) = ChainIn(log, n)
  BY <1>2, <1>3, <1>4, ChainKept
<1>5. lpos \in 0..head /\ lto \in 0..head /\ lnext \in 1..(lto + 1) /\ head \in Nat
      /\ (lpc \in {"read", "mark"} => lnext <= lto)
  BY <1>3 DEF BaseInv, ListenInv
<1>6. ChainIn(log', lpos) = ChainIn(log, lpos) /\ ChainIn(log', lnext - 1) = ChainIn(log, lnext - 1)
  <2>1. lpos \in Int /\ lpos <= head /\ lnext - 1 \in Int /\ lnext - 1 <= head
    BY <1>5
  <2> QED BY <1>4, <2>1
<1>7. lpc = "mark" => ChainIn(log', lnext) = ChainIn(log, lnext)
  <2>1. lpc = "mark" => lnext \in Int /\ lnext <= head
    BY <1>5
  <2> QED BY <1>4, <2>1
<1>8. RedisTicks' = RedisTicks
  BY <1>1 DEF RedisTicks
<1> QED BY <1>1, <1>6, <1>7, <1>8 DEF CleanInv
LEMMA CleanListener ==
  ASSUME BaseInv, CleanInv, ListenerStep
  PROVE  CleanInv'
<1>1. CASE LogsLost \/ ListenerRestart
  BY <1>1 DEF LogsLost, ListenerRestart, CleanInv
<1> SUFFICES ASSUME Poll \/ EndChunk \/ NextEvent \/ ApplyDeltas \/ RecordDeltas, clean'
             PROVE  CleanInv'
  BY <1>1 DEF ListenerStep, CleanInv
<1>2. /\ UNCHANGED <<log, idx, val, clean>> /\ RedisTicks' = RedisTicks
      /\ \A c \in Clients : call'[c] = call[c] \/ ~(Sent(c) \/ Sent(c)')
  <2>1. UNCHANGED <<log, idx, val, clean>>
    BY DEF Poll, EndChunk, NextEvent, ApplyDeltas, RecordDeltas, ListenerFrame
  <2>2. Quiet
    BY ListenerKeeps DEF ListenerStep
  <2> QED BY <2>1, <2>2 DEF Quiet, RedisTicks
<1>3. /\ LogOK(log) /\ head = Len(log) /\ head \in Nat /\ ListenInv
      /\ lpos \in 0..head /\ lto \in 0..head /\ lnext \in 1..(lto + 1)
      /\ call \in [Clients -> CallRec] /\ Phase("listener", lpc, {"read"}, {"mark"})
      /\ "listener" \in Clients
  BY DEF BaseInv, LogInv, LogOK, head, ListenInv, CallInv, Clients
<1>4. \A c \in Clients \ {"listener"} : call'[c].at \notin {"set", "mark"}
  BY <1>2 DEF CleanInv, Sent
<1>5. CASE Poll
  <2>1. lpc = "idle" /\ lpc' = "events" /\ lnext' - 1 = lpos
    BY <1>3, <1>5 DEF Poll
  <2>2. RedisTicks = ChainIn(log, lpos)
    BY <1>2, <2>1 DEF CleanInv
  <2> QED BY <1>2, <1>4, <2>1, <2>2 DEF CleanInv
<1>6. CASE EndChunk
  <2>1. lpc = "events" /\ lpc' = "idle" /\ lpos' = lto /\ lnext > lto
    BY <1>6 DEF EndChunk
  <2>2. RedisTicks = ChainIn(log, lnext - 1) /\ lnext - 1 = lto
    BY <1>2, <1>3, <2>1 DEF CleanInv
  <2> QED BY <1>2, <1>4, <2>1, <2>2 DEF CleanInv
<1>7. CASE NextEvent
  <2>1. lpc = "events" /\ lnext \in 1..Len(log)
    BY <1>3, <1>7 DEF NextEvent
  <2>2. RedisTicks = ChainIn(log, lnext - 1)
    BY <1>2, <2>1 DEF CleanInv
  <2>3. CASE log[lnext] = None
    <3>1. lnext' - 1 = lnext /\ lpc' = "events"
      BY <1>3, <1>7, <2>1, <2>3 DEF NextEvent
    <3>2. RedisTicks = ChainIn(log, lnext)
      BY <1>3, <2>1, <2>2, <2>3, ChainWithout
    <3> QED BY <1>2, <1>4, <3>1, <3>2 DEF CleanInv
  <2>4. CASE log[lnext] # None
    <3>1. /\ lnext' = lnext /\ lpc' = "read"
          /\ call' = [call EXCEPT !["listener"] = [at |-> "values", keys |-> idx, ticks |-> NoTicks]]
      BY <1>7, <2>4 DEF NextEvent, StartRead
    <3>2. call'["listener"].keys = idx
      BY <1>3, <3>1
    <3> QED BY <1>2, <1>4, <2>2, <3>1, <3>2 DEF CleanInv
  <2> QED BY <2>3, <2>4
<1>8. CASE ApplyDeltas
  <2> DEFINE ticks == WithDeltas(Read("listener"), log[lnext])
  <2>1. /\ lpc = "read" /\ lpc' = "mark" /\ lnext' = lnext /\ lnext \in 1..Len(log) /\ log[lnext] # None
    BY <1>3, <1>8 DEF ApplyDeltas, ListenInv
  <2>2. call' = [call EXCEPT !["listener"] = [at |-> "members", keys |-> {}, ticks |-> ticks]]
    BY <1>8 DEF ApplyDeltas, Replacing
  <2>3. RedisTicks = ChainIn(log, lnext - 1) /\ Read("listener") = RedisTicks
    BY <1>2, <2>1 DEF CleanInv, Read, RedisTicks
  <2>4. ticks = ChainIn(log, lnext)
    BY <1>3, <2>1, <2>3, ChainWith
  <2> HIDE DEF ticks
  <2>5. call'["listener"].at = "members" /\ call'["listener"].ticks = ChainIn(log, lnext)
    BY <1>3, <2>2, <2>4
  <2> QED BY <1>2, <1>4, <2>1, <2>5 DEF CleanInv
<1>9. CASE RecordDeltas
  <2>1. lpc = "mark" /\ lpc' = "events" /\ lnext' - 1 = lnext /\ call["listener"].at = "replaced"
    BY <1>3, <1>9 DEF RecordDeltas, Replaced
  <2>2. RedisTicks = ChainIn(log, lnext)
    BY <1>2, <2>1 DEF CleanInv
  <2> QED BY <1>2, <1>4, <2>1, <2>2 DEF CleanInv
<1> QED BY <1>5, <1>6, <1>7, <1>8, <1>9

LEMMA CleanReplace ==
  ASSUME BaseInv, CleanInv, NEW c \in Clients, Replace(c)
  PROVE  CleanInv'
<1> SUFFICES ASSUME clean' PROVE CleanInv'
  BY DEF CleanInv
<1>1. clean
  <2>1. clean \in BOOLEAN
    BY DEF BaseInv, ListenInv
  <2> QED BY <2>1, Pipeline
<1>2. UNCHANGED <<log, lpc, lpos, lnext>>
  BY ReplaceFrame
<1>3. /\ \A d \in Clients \ {c} : call'[d] = call[d]
      /\ call'[c].ticks = call[c].ticks /\ call[c].ticks \in Ticks
      /\ call[c].at \in Pushing
  BY Pipeline DEF BaseInv, CallInv, CallRec, Pushing
<1>4. UNCHANGED <<idx, val>> => RedisTicks' = RedisTicks
  BY DEF RedisTicks
<1>5. \A d \in Clients \ {"listener"} : call[d].at \notin {"set", "mark"}
  BY <1>1 DEF CleanInv
<1>6. CASE c # "listener"
  <2>1. UNCHANGED <<idx, val>> /\ call'[c].at = "del"
    BY <1>5, <1>6, Pipeline
  <2>2. \A d \in Clients \ {"listener"} : call'[d].at \notin {"set", "mark"}
    BY <1>3, <1>5, <2>1
  <2>3. call'["listener"] = call["listener"]
    BY <1>3, <1>6 DEF Clients
  <2> QED BY <1>1, <1>2, <1>4, <2>1, <2>2, <2>3 DEF CleanInv
<1>7. CASE c = "listener"
  <2>1. \A d \in Clients \ {"listener"} : call'[d].at \notin {"set", "mark"}
    BY <1>3, <1>5, <1>7
  <2>2. lpc = "mark"
    BY <1>3, <1>7 DEF BaseInv, CallInv, Phase, Pushing
  <2>3. call["listener"].ticks = ChainIn(log, lnext)
    BY <1>1, <2>2 DEF CleanInv
  <2> SUFFICES /\ call'["listener"].at = "set" => idx' = {}
               /\ call'["listener"].at \in {"mark", "replaced"} => RedisTicks' = call["listener"].ticks
    BY <1>2, <1>3, <1>7, <2>1, <2>2, <2>3 DEF CleanInv
  <2>4. CASE call'["listener"].at = "mark"
    <3> DEFINE ticks == call["listener"].ticks
    <3>1. /\ call["listener"].at = "set" /\ idx' = idx \cup DOMAIN ticks
          /\ val' = [t \in DOMAIN val \cup DOMAIN ticks |->
                       IF t \in DOMAIN ticks THEN ticks[t] ELSE val[t]]
      BY <1>7, <2>4, Pipeline
    <3>2. idx = {}
      BY <1>1, <2>2, <3>1 DEF CleanInv
    <3>3. ticks = [t \in DOMAIN ticks |-> ticks[t]]
      BY <1>3, <1>7, TicksOf
    <3> HIDE DEF ticks
    <3>4. RedisTicks' = [t \in DOMAIN ticks |-> ticks[t]]
      BY <3>1, <3>2 DEF RedisTicks, Only
    <3>5. RedisTicks' = ticks
      BY <3>3, <3>4
    <3> QED BY <2>4, <3>5 DEF ticks
  <2>5. CASE call'["listener"].at = "replaced"
    <3>1. call["listener"].at = "mark" /\ UNCHANGED <<idx, val>>
      BY <1>7, <2>5, Pipeline
    <3>2. RedisTicks = call["listener"].ticks
      BY <1>1, <2>2, <2>3, <3>1 DEF CleanInv
    <3> QED BY <1>4, <2>5, <3>1, <3>2
  <2>6. CASE call'["listener"].at = "set"
    <3>1. idx' = {}
      BY <1>7, <2>6, Pipeline
    <3> QED BY <2>6, <3>1
  <2>7. CASE call'["listener"].at \notin {"set", "mark", "replaced"}
    BY <2>7
  <2> QED BY <2>4, <2>5, <2>6, <2>7
<1> QED BY <1>6, <1>7

LEMMA CleanNext ==
  ASSUME BaseInv, CleanInv, [Next]_vars
  PROVE  CleanInv'
<1>1. Quiet => Still
  BY DEF Quiet, Still
<1>2. CASE WarmStep \/ RecorderStep \/ RepairStep \/ SyncStep
  BY <1>1, <1>2, OthersKeep, CleanStill
<1>3. CASE SearchStep
  <2>1. BeginCycle => Still
    BY DEF BeginCycle, SearchFrame, Still
  <2> QED BY <1>1, <1>3, <2>1, SearchesKeep, CleanStill
<1>4. CASE HydratorStep
  BY <1>1, <1>4, HydrationKeeps, CleanStill
<1>5. CASE UNCHANGED vars
  BY <1>1, <1>5, BaseStutter, CleanStill
<1>6. CASE \E c \in Clients : Replace(c)
  BY <1>6, CleanReplace
<1> QED BY <1>2, <1>3, <1>4, <1>5, <1>6, CleanSeal, CleanListener, Steps

LEMMA CleanIsExact ==
  ASSUME BaseInv, CleanInv
  PROVE  DeltasExact
<1>1. /\ log \in Seq(Event \cup {None})
      /\ lpos \in Int /\ lpos <= head /\ lnext - 1 \in Int /\ lnext - 1 <= head
  BY DEF BaseInv, LogInv, LogOK, ListenInv, head
<1>2. ChainTicks(lpos) = ChainIn(log, lpos) /\ ChainTicks(lnext - 1) = ChainIn(log, lnext - 1)
  BY <1>1, ChainIsChainIn
<1> QED BY <1>2 DEF CleanInv, DeltasExact
------------------------------------------------------------------------------
(* The hydrator's ticks are those of the chain *)

\* Before the first block there is nothing.
LEMMA NothingBefore ==
  ASSUME NEW l, NEW n \in Int, n <= 0, NEW t
  PROVE  GrossIn(l, t, n) = 0 /\ NetIn(l, t, n) = 0
<1>1. \A E, F : More(l, E, F, n) = 0
  BY NumberType DEF More
<1> QED BY <1>1 DEF GrossIn, NetIn, LowIn, HighIn

LEMMA ScanSeal ==
  ASSUME BaseInv, ScanInv, Seal
  PROVE  ScanInv'
<1>1. UNCHANGED <<hpc, hfrom, hto, hcur, hacc, hfailed>>
  BY SealKeeps
<1>2. PICK e \in Event \cup {None} : log' = Append(log, e)
  BY SealKeeps
<1>3. log \in Seq(Event \cup {None}) /\ hcur - 1 \in Int /\ hcur - 1 <= Len(log)
  BY DEF BaseInv, LogInv, LogOK, HydrInv, head
<1>4. \A t : /\ GrossIn(log', t, hcur - 1) = GrossIn(log, t, hcur - 1)
             /\ NetIn(log', t, hcur - 1) = NetIn(log, t, hcur - 1)
  BY <1>2, <1>3, ChainKept
<1> QED BY <1>1, <1>4 DEF ScanInv

LEMMA ScanHydrator ==
  ASSUME BaseInv, ScanInv, HydratorStep
  PROVE  ScanInv'
<1>1. CASE ChunkFails \/ HydrateRows \/ HydrateCoverage \/ EndPass
           \/ \E dies \in BOOLEAN : HydratorAborts(dies)
  <2>1. hpc' \notin {"scan", "rows"} \/ hfailed'
    BY <1>1 DEF ChunkFails, HydrateRows, HydrateCoverage, EndPass, HydratorAborts
  <2> QED BY <2>1 DEF ScanInv
<1>2. log' = log
  BY DEF HydratorStep, BeginPass, ScanChunk, ChunkFails, EndScan, HydrateRows, HydrateCoverage,
         EndPass, HydratorAborts, HydrateFrame
<1>3. CASE BeginPass
  <2>1. CASE UNCHANGED hpc
    BY <1>3, <2>1 DEF BeginPass, ScanInv
  <2>2. CASE ~UNCHANGED hpc
    <3>1. hpc' = "scan" /\ hcur' = hfrom' /\ hacc' = NoDeltas
      BY <1>3, <2>2 DEF BeginPass
    <3>2. \A t \in Tick : hacc'[t].gross = 0 /\ hacc'[t].net = 0
      BY <3>1 DEF NoDeltas
    <3>3. hfrom' \in Nat
      BY <1>3, HydrationKeeps DEF HydratorStep, BaseInv, HydrInv
    <3>4. ASSUME hfrom' <= FirstBlock
          PROVE  \A t : GrossIn(log, t, hcur' - 1) = 0 /\ NetIn(log, t, hcur' - 1) = 0
      <4>1. \A n \in Nat : n <= FirstBlock => n - 1 \in Int /\ n - 1 <= 0
        BY DEF FirstBlock
      <4>2. hcur' \in Nat /\ hcur' <= FirstBlock
        BY <3>1, <3>3, <3>4
      <4> QED BY <4>1, <4>2, NothingBefore
    <3> QED BY <1>2, <3>1, <3>2, <3>4 DEF ScanInv
  <2> QED BY <2>1, <2>2
<1>4. CASE ScanChunk
  <2> DEFINE to == Smaller(hto, hcur + ChunkBlocks - 1)
             b == Larger(hcur, FirstBlock)
  <2>1. /\ hacc' = Plus(hacc, b, to) /\ hcur' = to + 1 /\ to \in 0..head /\ b \in Nat \ {0}
    BY <1>4, ChunkBounds
  <2>2. UNCHANGED <<hpc, hfrom, hto, hfailed>> /\ hpc = "scan"
    BY <1>4 DEF ScanChunk
  <2>3. LogOK(log) /\ head = Len(log) /\ head \in Nat /\ hcur \in 0..head
    BY <1>4 DEF BaseInv, LogInv, LogOK, HydrInv, head, ScanChunk
  <2>4. \A t : GrossIn(log, t, b - 1) = GrossIn(log, t, hcur - 1)
               /\ NetIn(log, t, b - 1) = NetIn(log, t, hcur - 1)
    <3>1. CASE hcur = 0
      <4>1. hcur - 1 \in Int /\ hcur - 1 <= 0
        BY <3>1
      <4>2. b = 1
        BY <3>1 DEF Larger, FirstBlock
      <4>3. b - 1 \in Int /\ b - 1 <= 0
        BY <4>2
      <4> HIDE DEF b
      <4>4. \A n \in Int : \A t : n <= 0 => GrossIn(log, t, n) = 0 /\ NetIn(log, t, n) = 0
        BY NothingBefore
      <4> QED BY <4>1, <4>3, <4>4
    <3>2. CASE hcur # 0
      <4>1. b = hcur
        BY <2>3, <3>2 DEF Larger, FirstBlock
      <4> QED BY <4>1
    <3> QED BY <3>1, <3>2
  <2>5. \A t : /\ GrossIn(log, t, hcur - 1) \in Int /\ NetIn(log, t, hcur - 1) \in Int
               /\ GrossIn(log, t, to) \in Int /\ NetIn(log, t, to) \in Int
    <3>1. /\ hcur - 1 \in Int /\ hcur - 1 <= Len(log) /\ to \in Int /\ to <= Len(log)
      BY <2>1, <2>3
    <3> QED BY <2>3, <3>1, GrossAndNet
  <2>6. \A t \in Tick :
          /\ hacc'[t].gross = hacc[t].gross + (GrossIn(log, t, to) - GrossIn(log, t, b - 1))
          /\ hacc'[t].net = hacc[t].net + (NetIn(log, t, to) - NetIn(log, t, b - 1))
    BY <2>1 DEF Plus
  <2>7. hcur' - 1 = to
    BY <2>1
  <2> HIDE DEF to, b
  <2>8. ASSUME hfrom <= FirstBlock, ~hfailed, NEW t \in Tick
        PROVE  hacc'[t].gross = GrossIn(log, t, to) /\ hacc'[t].net = NetIn(log, t, to)
    <3>1. hacc[t].gross = GrossIn(log, t, hcur - 1) /\ hacc[t].net = NetIn(log, t, hcur - 1)
      BY <2>2, <2>8 DEF ScanInv
    <3>2. hacc'[t].gross = GrossIn(log, t, hcur - 1) + (GrossIn(log, t, to) - GrossIn(log, t, hcur - 1))
      BY <2>4, <2>6, <3>1
    <3>3. hacc'[t].net = NetIn(log, t, hcur - 1) + (NetIn(log, t, to) - NetIn(log, t, hcur - 1))
      BY <2>4, <2>6, <3>1
    <3>4. \A x, y \in Int : x + (y - x) = y
      OBVIOUS
    <3> QED BY <2>5, <3>2, <3>3, <3>4
  <2> QED BY <1>2, <2>2, <2>7, <2>8 DEF ScanInv
<1>5. CASE EndScan
  <2>1. UNCHANGED <<hfrom, hto, hcur, hacc, hfailed>> /\ hpc = "scan" /\ hpc' = "rows" /\ hcur > hto
    BY <1>5 DEF EndScan
  <2>2. hcur = hto + 1
    BY <2>1 DEF BaseInv, HydrInv
  <2> QED BY <1>2, <2>1, <2>2 DEF ScanInv
<1> QED BY <1>1, <1>3, <1>4, <1>5 DEF HydratorStep

LEMMA ScanNext ==
  ASSUME BaseInv, ScanInv, [Next]_vars
  PROVE  ScanInv'
<1>1. ASSUME KeepsScan
      PROVE  ScanInv'
  BY <1>1 DEF KeepsScan, ScanInv
<1>2. CASE ListenerStep \/ WarmStep \/ RecorderStep \/ RepairStep \/ SyncStep \/ SearchStep
  BY <1>1, <1>2, ListenerKeeps, OthersKeep, SearchesKeep
<1>3. CASE (\E c \in Clients : Replace(c)) \/ UNCHANGED vars
  BY <1>1, <1>3, ReplaceKeeps, BaseStutter
<1> QED BY <1>2, <1>3, ScanSeal, ScanHydrator, Steps

\* A tick with net liquidity and no gross one would be in Redis and in Postgres
\* with nothing: the chain has none.
LEMMA ScanIsExact ==
  ASSUME BaseInv, ScanInv
  PROVE  FullScanExact
<1> SUFFICES ASSUME hpc = "rows", hfrom <= FirstBlock, ~hfailed
             PROVE  Hydrated(hacc) = ChainTicks(hto)
  BY DEF FullScanExact
<1>1. /\ LogOK(log) /\ log \in Seq(Event \cup {None}) /\ head = Len(log)
      /\ hto \in Int /\ hto <= head /\ (hto + 1) - 1 = hto
  BY DEF BaseInv, LogInv, LogOK, HydrInv, head
<1>2. \A t \in Tick : hacc[t].gross = GrossIn(log, t, hto) /\ hacc[t].net = NetIn(log, t, hto)
  BY <1>1 DEF ScanInv
<1>3. \A t : /\ GrossIn(log, t, hto) \in Nat /\ NetIn(log, t, hto) \in Int
             /\ GrossIn(log, t, hto) = 0 => NetIn(log, t, hto) = 0
  BY <1>1, GrossAndNet
<1>4. {u \in Tick : hacc[u].gross > 0 \/ hacc[u].net # 0} = {u \in Tick : GrossIn(log, u, hto) > 0}
  BY <1>2, <1>3
<1>5. \A t \in Tick : Larger(0, hacc[t].gross) = GrossIn(log, t, hto)
  BY <1>2, <1>3 DEF Larger
<1>6. Hydrated(hacc) = ChainIn(log, hto)
  BY <1>4, <1>5 DEF Hydrated, ChainIn
<1> QED BY <1>1, <1>6, ChainIsChainIn

------------------------------------------------------------------------------
(* Theorems *)

\* Every variable keeps to its range, and every client is where its process
\* is: nobody has two reads or replacements under way, or advances one that
\* its process does not wait for.
LEMMA BaseInvariant == Spec => []BaseInv
<1>1. Init => BaseInv
  BY BaseInit
<1>2. BaseInv /\ [Next]_vars => BaseInv'
  BY BaseNext
<1> QED BY <1>1, <1>2, PTL DEF Spec

\* load_tick_states_for_pools, drain_tick_changed_pools, replace_pool_ticks:
\* whatever the listener, the warm-up, the repair daemon, the hydrator and the
\* sync tool write and however their commands interleave with the searcher's,
\* what the searcher has between two cycles is what Redis has, or the pool is
\* marked, about to be marked, or was drained by a cycle that did not use it,
\* or the cache is old.
THEOREM TicksAreNoticed == Spec => []TicksNoticed
<1>1. Init => BaseInv /\ FreshInv
  <2>1. ASSUME Init PROVE FreshInv
    BY <2>1 DEF Init, FreshInv
  <2> QED BY <2>1, BaseInit
<1>2. BaseInv /\ FreshInv /\ [Next]_vars => BaseInv' /\ FreshInv'
  BY BaseNext, FreshNext
<1>3. BaseInv /\ FreshInv => TicksNoticed
  <2>1. FreshInv => ChangeNoticed
    BY DEF FreshInv, Fresh, Noticed, ChangeNoticed
  <2> QED BY <2>1, BaseType DEF TicksNoticed
<1> QED BY <1>1, <1>2, <1>3, PTL DEF Spec

\* apply_tick_deltas: as long as nobody but the listener has written and no
\* logs were lost, adding the deltas of each block to what Redis has gives the
\* ticks of the chain at the block the listener has applied.
THEOREM DeltasStayExact == Spec => []DeltasExact
<1>1. Init => BaseInv /\ CleanInv
  <2>1. ASSUME Init PROVE CleanInv
    <3>1. /\ lpc = "idle" /\ lpos = 1 /\ clean \in BOOLEAN
          /\ \A c \in Clients : call[c].at = "idle"
      BY <2>1, InitRedis DEF Init
    <3>2. clean => RedisTicks = ChainIn(log, lpos)
      BY <2>1, <3>1, InitRedis
    <3> QED BY <3>1, <3>2 DEF CleanInv
  <2> QED BY <2>1, BaseInit
<1>2. BaseInv /\ CleanInv /\ [Next]_vars => BaseInv' /\ CleanInv'
  BY BaseNext, CleanNext
<1>3. BaseInv /\ CleanInv => DeltasExact
  BY CleanIsExact
<1> QED BY <1>1, <1>2, <1>3, PTL DEF Spec

\* hydrate_ticks_by_manager_scan: however many chunks a pass has, and however
\* many blocks come while it scans, a pass from the pool's first block that
\* lost no chunk has the ticks of the chain at the block it was for.
THEOREM FullScansExact == Spec => []FullScanExact
<1>1. Init => BaseInv /\ ScanInv
  <2>1. ASSUME Init PROVE ScanInv
    BY <2>1 DEF Init, ScanInv
  <2> QED BY <2>1, BaseInit
<1>2. BaseInv /\ ScanInv /\ [Next]_vars => BaseInv' /\ ScanInv'
  BY BaseNext, ScanNext
<1>3. BaseInv /\ ScanInv => FullScanExact
  BY ScanIsExact
<1> QED BY <1>1, <1>2, <1>3, PTL DEF Spec

=============================================================================

------------------------- MODULE CandidateQueueProofs -------------------------
(***************************************************************************)
(* The properties of CandidateQueue for any routes, profits, ranks that    *)
(* fit the scale, lag and caps: an inductive invariant, and what follows.  *)
(***************************************************************************)
EXTENDS CandidateQueue, FiniteSetTheorems, TLAPS

------------------------------------------------------------------------------
(* Scores *)

\* Two scores are ordered by block first, whatever the ranks are.
LEMMA ScoreOrder ==
  ASSUME NEW a \in Nat, NEW b \in Nat, NEW S \in Nat,
         NEW r \in 0..(S - 1), NEW s \in 0..(S - 1), a * S + r <= b * S + s
  PROVE  a < b \/ (a = b /\ r <= s)
<1>1. CASE a > b
  <2> DEFINE k == a - (b + 1)
  <2>1. k \in Nat /\ a = b + 1 + k BY <1>1
  <2>2. k * S \in Nat BY <2>1
  <2>3. a * S = b * S + S + k * S BY <2>1
  <2>4. b * S \in Nat OBVIOUS
  <2> HIDE DEF k
  <2> QED BY <2>2, <2>3, <2>4
<1>2. CASE a = b BY <1>2
<1>3. CASE a < b BY <1>3
<1> QED BY <1>1, <1>2, <1>3

\* A candidate that prune_candidates_before_block removes is of a block before.
LEMMA StaleIsBefore ==
  ASSUME NEW c \in Candidate, NEW first \in Nat, Stale(c, first)
  PROVE  c.block < first
<1>1. c.block \in Nat /\ Rank(c.profit) \in 0..(Scale - 1) /\ Scale \in Nat
  <2>1. Scale \in Nat BY QueueConstants
  <2>2. c.block \in Nat /\ c.profit \in Profits BY DEF Candidate
  <2>3. Rank(c.profit) \in 0..(Scale - 1) BY <2>2, RankFits
  <2> QED BY <2>1, <2>2, <2>3
<1>2. c.block * Scale + Rank(c.profit) <= first * Scale - 1 BY DEF Stale, Score
<1>3. 0 \in 0..(Scale - 1) BY <1>1
<1>4. c.block * Scale + Rank(c.profit) <= first * Scale + 0
  <2> DEFINE x == c.block * Scale   y == first * Scale
  <2>1. x \in Int /\ y \in Int BY <1>1
  <2>2. x + Rank(c.profit) <= y - 1 BY <1>2
  <2> HIDE DEF x, y
  <2>3. x + Rank(c.profit) <= y + 0 BY <2>1, <2>2, <1>1
  <2> QED BY <2>3 DEF x, y
<1>5. c.block < first \/ (c.block = first /\ Rank(c.profit) <= 0)
  BY <1>1, <1>3, <1>4, ScoreOrder
<1>6. ~ (c.block = first)
  <2> SUFFICES ASSUME c.block = first PROVE FALSE OBVIOUS
  <2> DEFINE y == first * Scale
  <2>1. y \in Int BY <1>1
  <2>2. y + Rank(c.profit) <= y - 1 BY <1>2
  <2> HIDE DEF y
  <2> QED BY <2>1, <2>2, <1>1
<1> QED BY <1>5, <1>6

LEMMA FirstFreshFacts ==
  ASSUME NEW b \in Nat
  PROVE  /\ FirstFresh(b) \in Nat
         /\ \A n \in Nat : n < FirstFresh(b) <=> n + MaxLag < b
BY QueueConstants DEF FirstFresh

------------------------------------------------------------------------------
(* Type correctness *)

\* Caps can only be counted on while the sets are finite.
FiniteInv == IsFiniteSet(queue) /\ IsFiniteSet(fresh)

LEMMA PopLimitFacts ==
  ASSUME TypeOK, FiniteInv
  PROVE  PopLimit \in Int /\ PopLimit <= MaxPopped - popped
<1>1. Cardinality(fresh) \in Nat BY FS_CardinalityType DEF FiniteInv
<1>2. popped \in Int /\ MaxPopped \in Nat /\ MaxFresh \in Nat /\ Chunk \in Nat
  BY QueueConstants DEF TypeOK
<1> QED BY <1>1, <1>2 DEF PopLimit, Smaller

\* What a ZPOPMAX returns is part of the queue, within the caps.
LEMMA PoppedFacts ==
  ASSUME TypeOK, FiniteInv, PopLimit > 0, NEW T \in Popped(PopLimit)
  PROVE  /\ T \subseteq queue /\ IsFiniteSet(T)
         /\ Cardinality(T) \in Nat /\ popped + Cardinality(T) \in 0..MaxPopped
         /\ \A c \in T, d \in queue \ T : Score(d) <= Score(c)
<1>1. T \subseteq queue /\ Cardinality(T) = Smaller(PopLimit, Cardinality(queue))
      /\ \A c \in T, d \in queue \ T : Score(d) <= Score(c)
  BY DEF Popped
<1>2. IsFiniteSet(T) /\ Cardinality(T) \in Nat
  BY <1>1, FS_Subset, FS_CardinalityType DEF FiniteInv
<1>3. Cardinality(queue) \in Nat BY FS_CardinalityType DEF FiniteInv
<1>4. Cardinality(T) <= PopLimit BY <1>1, <1>3, PopLimitFacts DEF Smaller
<1>5. popped \in 0..MaxPopped /\ MaxPopped \in Nat
  BY QueueConstants DEF TypeOK
<1>6. popped + Cardinality(T) \in 0..MaxPopped
  BY <1>2, <1>4, <1>5, PopLimitFacts
<1> QED BY <1>1, <1>2, <1>6

LEMMA TypeInit == Init => TypeOK /\ FiniteInv
<1> SUFFICES ASSUME Init PROVE TypeOK /\ FiniteInv OBVIOUS
<1>1. FiniteInv BY FS_EmptySet DEF Init, FiniteInv
<1>2. TypeOK BY QueueConstants DEF Init, TypeOK
<1> QED BY <1>1, <1>2

LEMMA TypeStep == TypeOK /\ FiniteInv /\ [Next]_vars => TypeOK' /\ FiniteInv'
<1> SUFFICES ASSUME TypeOK, FiniteInv, [Next]_vars PROVE TypeOK' /\ FiniteInv'
  OBVIOUS
<1>0. {MaxBlock, MaxPushes, MaxPopped} \subseteq Nat BY QueueConstants
<1>1. CASE NewBlock
  BY <1>0, <1>1 DEF NewBlock, TypeOK, FiniteInv, searcherVars, managerVars
<1>2. ASSUME NEW id \in 1..MaxPushes, Expire(id) PROVE TypeOK' /\ FiniteInv'
  <2>1. expired' \subseteq 1..MaxPushes /\ expired \subseteq expired'
    BY <1>0, <1>2 DEF Expire, TypeOK
  <2> QED
    BY <1>2, <2>1 DEF Expire, TypeOK, FiniteInv, searcherVars, managerVars
<1>3. CASE BeginSearch
  BY <1>0, <1>3 DEF BeginSearch, TypeOK, FiniteInv, managerVars
<1>4. CASE EndSearch
  BY <1>4 DEF EndSearch, TypeOK, FiniteInv, managerVars
<1>5. ASSUME NEW r \in Routes, NEW p \in Profits, Publish(r, p)
      PROVE  TypeOK' /\ FiniteInv'
  <2> DEFINE c == [id |-> pushed + 1, block |-> sblock, route |-> r, profit |-> p]
  <2>1. queue' = queue \cup {c} BY <1>5 DEF Publish
  <2>2. IsFiniteSet(queue') BY <2>1, FS_AddElement DEF FiniteInv
  <2>3. pushed + 1 \in 1..MaxPushes /\ pushed' = pushed + 1
    BY <1>0, <1>5 DEF Publish, TypeOK
  <2>4. sblock \in 1..MaxBlock BY <1>0, <1>5 DEF Publish, TypeOK
  <2>5. c \in Candidate BY <2>3, <2>4 DEF Candidate
  <2> HIDE DEF c
  <2>6. queue' \subseteq Candidate BY <2>1, <2>5 DEF TypeOK
  <2> QED
    BY <1>0, <1>5, <2>2, <2>3, <2>6
    DEF Publish, TypeOK, FiniteInv, searcherVars, managerVars
<1>6. CASE BeginCycle
  BY <1>0, <1>6 DEF BeginCycle, TypeOK, FiniteInv, searcherVars
<1>7. CASE Prune
  <2>1. queue' \subseteq queue BY <1>7 DEF Prune
  <2>2. IsFiniteSet(queue') BY <2>1, FS_Subset DEF FiniteInv
  <2>3. IsFiniteSet(fresh') BY <1>7, FS_EmptySet DEF Prune
  <2> QED
    BY <1>0, <1>7, <2>1, <2>2, <2>3 DEF Prune, TypeOK, FiniteInv, searcherVars
<1>8. CASE PopChunk
  <2> PICK T \in Popped(PopLimit) :
        /\ queue' = queue \ T
        /\ popped' = popped + Cardinality(T)
        /\ fresh' = fresh \cup {c \in T : c.id \notin dead
                                         /\ mblock <= c.block + MaxLag}
    BY <1>8 DEF PopChunk
  <2>1. T \subseteq queue /\ IsFiniteSet(T) /\ popped' \in 0..MaxPopped
    BY <1>8, PoppedFacts DEF PopChunk
  <2> DEFINE new == {c \in T : c.id \notin dead /\ mblock <= c.block + MaxLag}
  <2>2. new \subseteq T OBVIOUS
  <2>3. IsFiniteSet(new) BY <2>1, <2>2, FS_Subset
  <2>4. fresh' = fresh \cup new OBVIOUS
  <2> HIDE DEF new
  <2>5. IsFiniteSet(fresh')
    <3>1. IsFiniteSet(fresh) BY DEF FiniteInv
    <3>2. IsFiniteSet(fresh \cup new) BY <2>3, <3>1, FS_Union
    <3> QED BY <2>4, <3>2
  <2>6. queue' \subseteq queue /\ IsFiniteSet(queue') BY FS_Subset DEF FiniteInv
  <2>7. fresh' \subseteq Candidate BY <2>1, <2>2, <2>4 DEF TypeOK
  <2> QED
    BY <1>8, <2>1, <2>5, <2>6, <2>7
    DEF PopChunk, TypeOK, FiniteInv, searcherVars
<1>9. CASE EndDrain
  <2>1. batch' \subseteq fresh BY <1>9 DEF EndDrain, Coalesced
  <2>2. submitted' \subseteq submitted BY <1>9 DEF EndDrain
  <2> QED
    BY <1>9, <2>1, <2>2 DEF EndDrain, TypeOK, FiniteInv, searcherVars
<1>10. ASSUME NEW c \in batch, Submit(c) PROVE TypeOK' /\ FiniteInv'
  <2>1. c \in Candidate BY DEF TypeOK
  <2>2. Key(c) \in [block : 1..MaxBlock, route : Routes]
    BY <2>1 DEF Key, Candidate
  <2> QED
    BY <1>10, <2>1, <2>2 DEF Submit, TypeOK, FiniteInv, searcherVars
<1>11. CASE GiveUp
  BY <1>11 DEF GiveUp, TypeOK, FiniteInv, searcherVars
<1>12. CASE Crash
  <2>1. IsFiniteSet(fresh') BY <1>12, FS_EmptySet DEF Crash
  <2> QED
    BY <1>0, <1>12, <2>1 DEF Crash, TypeOK, FiniteInv, searcherVars
<1>13. CASE Start
  <2>1. IsFiniteSet(queue') BY <1>13, FS_EmptySet DEF Start
  <2> QED
    BY <1>13, <2>1 DEF Start, TypeOK, FiniteInv, searcherVars
<1>14. CASE UNCHANGED vars
  BY <1>14 DEF vars, searcherVars, managerVars, TypeOK, FiniteInv
<1> QED
  BY <1>1, <1>2, <1>3, <1>4, <1>5, <1>6, <1>7, <1>8, <1>9, <1>10, <1>11, <1>12,
     <1>13, <1>14
  DEF Next, Clock, Searcher, Manager

------------------------------------------------------------------------------
(* The inductive invariant *)

\* A candidate pushed later is not mistaken for one the drain began with.
IdInv == \A c \in queue \cup start : c.id <= pushed

\* What a drain has taken is not too old, and scores at least as high as what
\* it was given and has left.
DrainInv ==
  mpc \in {"pop", "submit"} =>
    /\ \A c \in fresh : mblock <= c.block + MaxLag
    /\ \A c \in fresh, d \in start \cap queue : Score(d) <= Score(c)

\* A key that was submitted is remembered until its block is too old, and what
\* is about to be submitted has been compared with the keys remembered.
SendInv ==
  /\ \A s \in sends : Key(s) \in submitted \/ s.block + MaxLag < mblock
  /\ mpc = "submit" => \A c \in batch : c \in fresh /\ Key(c) \notin submitted

IInv == TypeOK /\ FiniteInv /\ IdInv /\ DrainInv /\ SendInv /\ KeySubmittedOnce

LEMMA IdStep == TypeOK /\ IdInv /\ [Next]_vars => IdInv'
<1> SUFFICES ASSUME TypeOK, IdInv, [Next]_vars PROVE IdInv'
  OBVIOUS
<1>0. pushed \in Nat BY QueueConstants DEF TypeOK
<1>1. CASE NewBlock
  BY <1>1 DEF NewBlock, IdInv, managerVars
<1>2. ASSUME NEW id \in 1..MaxPushes, Expire(id) PROVE IdInv'
  BY <1>2 DEF Expire, IdInv, managerVars
<1>3. CASE BeginSearch \/ EndSearch
  BY <1>3 DEF BeginSearch, EndSearch, IdInv, managerVars
<1>4. ASSUME NEW r \in Routes, NEW p \in Profits, Publish(r, p) PROVE IdInv'
  <2> DEFINE n == [id |-> pushed + 1, block |-> sblock, route |-> r, profit |-> p]
  <2>1. queue' = queue \cup {n} /\ pushed' = pushed + 1 /\ start' = start
    BY <1>4 DEF Publish, managerVars
  <2>2. n.id = pushed + 1 OBVIOUS
  <2> HIDE DEF n
  <2>3. ASSUME NEW c \in queue \cup start PROVE c.id <= pushed'
    <3>1. c.id \in Nat /\ c.id <= pushed BY DEF IdInv, TypeOK, Candidate
    <3> QED BY <1>0, <2>1, <3>1
  <2> QED BY <1>0, <2>1, <2>2, <2>3 DEF IdInv
<1>5. CASE Prune
  BY <1>5 DEF Prune, IdInv
<1>6. CASE PopChunk
  BY <1>6 DEF PopChunk, IdInv
<1>7. CASE Start \/ BeginCycle \/ EndDrain \/ GiveUp \/ Crash
  BY <1>7 DEF Start, BeginCycle, EndDrain, GiveUp, Crash, IdInv
<1>8. ASSUME NEW c \in batch, Submit(c) PROVE IdInv'
  BY <1>8 DEF Submit, IdInv
<1>9. CASE UNCHANGED vars
  BY <1>9 DEF vars, managerVars, IdInv
<1> QED
  BY <1>1, <1>2, <1>3, <1>4, <1>5, <1>6, <1>7, <1>8, <1>9
  DEF Next, Clock, Searcher, Manager

LEMMA DrainStep ==
  TypeOK /\ FiniteInv /\ IdInv /\ DrainInv /\ [Next]_vars => DrainInv'
<1> SUFFICES ASSUME TypeOK, FiniteInv, IdInv, DrainInv, [Next]_vars PROVE DrainInv'
  OBVIOUS
<1>1. CASE NewBlock
  BY <1>1 DEF NewBlock, DrainInv, managerVars, Score
<1>2. ASSUME NEW id \in 1..MaxPushes, Expire(id) PROVE DrainInv'
  BY <1>2 DEF Expire, DrainInv, managerVars, Score
<1>3. CASE BeginSearch \/ EndSearch
  BY <1>3 DEF BeginSearch, EndSearch, DrainInv, managerVars, Score
<1>4. ASSUME NEW r \in Routes, NEW p \in Profits, Publish(r, p) PROVE DrainInv'
  <2> DEFINE n == [id |-> pushed + 1, block |-> sblock, route |-> r, profit |-> p]
  <2>1. queue' = queue \cup {n} /\ UNCHANGED managerVars BY <1>4 DEF Publish
  <2>2. n.id = pushed + 1 /\ pushed \in Nat BY QueueConstants DEF TypeOK
  <2> HIDE DEF n
  <2>3. n \notin start BY <2>2 DEF IdInv
  <2>4. start' \cap queue' = start \cap queue BY <2>1, <2>3 DEF managerVars
  <2> QED BY <2>1, <2>4 DEF DrainInv, managerVars, Score
<1>5. CASE Prune
  BY <1>5 DEF Prune, DrainInv
<1>6. CASE PopChunk
  <2> PICK T \in Popped(PopLimit) :
        /\ queue' = queue \ T
        /\ fresh' = fresh \cup {c \in T : c.id \notin dead
                                         /\ mblock <= c.block + MaxLag}
    BY <1>6 DEF PopChunk
  <2>1. T \subseteq queue /\ \A c \in T, d \in queue \ T : Score(d) <= Score(c)
    BY <1>6, PoppedFacts DEF PopChunk
  <2>2. UNCHANGED <<mpc, mblock, start>> /\ mpc = "pop" BY <1>6 DEF PopChunk
  <2>3. \A c \in fresh' : mblock <= c.block + MaxLag BY <2>2 DEF DrainInv
  <2>4. \A c \in fresh', d \in start \cap queue' : Score(d) <= Score(c)
    BY <2>1, <2>2 DEF DrainInv
  <2> QED BY <2>2, <2>3, <2>4 DEF DrainInv, Score
<1>7. CASE EndDrain
  BY <1>7 DEF EndDrain, DrainInv, Score
<1>8. CASE Start \/ BeginCycle \/ GiveUp \/ Crash
  BY <1>8 DEF Start, BeginCycle, GiveUp, Crash, DrainInv
<1>9. ASSUME NEW c \in batch, Submit(c) PROVE DrainInv'
  BY <1>9 DEF Submit, DrainInv
<1>10. CASE UNCHANGED vars
  BY <1>10 DEF vars, managerVars, DrainInv, Score
<1> QED
  BY <1>1, <1>2, <1>3, <1>4, <1>5, <1>6, <1>7, <1>8, <1>9, <1>10
  DEF Next, Clock, Searcher, Manager

LEMMA SendStep ==
  TypeOK /\ SendInv /\ [Next]_vars => SendInv'
<1> SUFFICES ASSUME TypeOK, SendInv, [Next]_vars PROVE SendInv'
  OBVIOUS
<1>1. CASE NewBlock
  BY <1>1 DEF NewBlock, SendInv, managerVars, Key
<1>2. ASSUME NEW id \in 1..MaxPushes, Expire(id) PROVE SendInv'
  BY <1>2 DEF Expire, SendInv, managerVars, Key
<1>3. CASE BeginSearch \/ EndSearch
  BY <1>3 DEF BeginSearch, EndSearch, SendInv, managerVars, Key
<1>4. ASSUME NEW r \in Routes, NEW p \in Profits, Publish(r, p) PROVE SendInv'
  BY <1>4 DEF Publish, SendInv, managerVars, Key
<1>5. CASE BeginCycle
  <2>1. mblock' = block /\ mblock \in Nat /\ block \in Nat /\ mblock <= block
    BY <1>5, QueueConstants DEF BeginCycle, TypeOK
  <2>2. UNCHANGED <<sends, submitted>> /\ mpc' = "prune" BY <1>5 DEF BeginCycle
  <2>3. ASSUME NEW s \in sends
        PROVE  Key(s) \in submitted \/ s.block + MaxLag < mblock'
    <3>1. s.block \in Nat /\ MaxLag \in Nat
      BY QueueConstants DEF TypeOK, Candidate
    <3>2. Key(s) \in submitted \/ s.block + MaxLag < mblock BY DEF SendInv
    <3> QED BY <2>1, <3>1, <3>2
  <2> QED BY <2>2, <2>3 DEF SendInv, Key
<1>6. CASE Prune \/ PopChunk \/ GiveUp
  BY <1>6 DEF Prune, PopChunk, GiveUp, SendInv, Key
<1>7. CASE EndDrain
  <2>1. /\ submitted' = {k \in submitted : Remembered(k)}
        /\ batch' \subseteq fresh /\ \A c \in batch' : Key(c) \notin submitted'
        /\ UNCHANGED <<sends, mblock, fresh>>
    BY <1>7 DEF EndDrain, Coalesced
  <2>2. ASSUME NEW s \in sends
        PROVE  Key(s) \in submitted' \/ s.block + MaxLag < mblock
    <3>1. s.block \in Nat /\ mblock \in Nat
      BY QueueConstants DEF TypeOK, Candidate
    <3>2. CASE s.block + MaxLag < mblock BY <3>2
    <3>3. CASE Key(s) \in submitted /\ ~ (s.block + MaxLag < mblock)
      <4>1. FirstFresh(mblock) \in Nat /\ ~ (s.block < FirstFresh(mblock))
        BY <3>1, <3>3, FirstFreshFacts
      <4>2. Key(s).block >= FirstFresh(mblock) BY <3>1, <4>1 DEF Key
      <4> QED BY <2>1, <3>3, <4>2 DEF Remembered
    <3> QED BY <3>2, <3>3 DEF SendInv
  <2>3. \A c \in batch' : c \in fresh' /\ Key(c) \notin submitted' BY <2>1
  <2> QED BY <2>1, <2>2, <2>3 DEF SendInv, Key
<1>8. ASSUME NEW c \in batch, Submit(c) PROVE SendInv'
  BY <1>8 DEF Submit, SendInv, Key
<1>9. CASE Start \/ Crash
  BY <1>9 DEF Start, Crash, SendInv, Key
<1>10. CASE UNCHANGED vars
  BY <1>10 DEF vars, managerVars, SendInv, Key
<1> QED
  BY <1>1, <1>2, <1>3, <1>4, <1>5, <1>6, <1>7, <1>8, <1>9, <1>10
  DEF Next, Clock, Searcher, Manager

LEMMA OnceStep ==
  TypeOK /\ DrainInv /\ SendInv /\ KeySubmittedOnce /\ [Next]_vars
    => KeySubmittedOnce'
<1> SUFFICES ASSUME TypeOK, DrainInv, SendInv, KeySubmittedOnce, [Next]_vars
             PROVE  KeySubmittedOnce'
  OBVIOUS
<1>1. ASSUME NEW c \in batch, Submit(c) PROVE KeySubmittedOnce'
  <2>1. sends' = sends \cup {c} /\ mpc = "submit" BY <1>1 DEF Submit
  <2>2. c \in fresh /\ Key(c) \notin submitted BY <2>1 DEF SendInv
  <2>3. mblock <= c.block + MaxLag BY <2>1, <2>2 DEF DrainInv
  <2>4. ASSUME NEW s \in sends, Key(s) = Key(c) PROVE FALSE
    <3>1. s.block = c.block BY <2>4 DEF Key
    <3>2. s.block + MaxLag < mblock BY <2>2, <2>4 DEF SendInv
    <3>3. c.block \in Nat /\ mblock \in Nat /\ MaxLag \in Nat
      BY QueueConstants DEF TypeOK, Candidate
    <3> QED BY <2>3, <3>1, <3>2, <3>3
  <2> QED BY <2>1, <2>4 DEF KeySubmittedOnce, Key
<1>2. CASE Crash
  BY <1>2 DEF Crash, KeySubmittedOnce
<1>3. CASE UNCHANGED sends
  BY <1>3 DEF KeySubmittedOnce, Key
<1> QED
  BY <1>1, <1>2, <1>3
  DEF Next, Clock, Searcher, Manager, NewBlock, Expire, BeginSearch, EndSearch,
      Publish, Start, BeginCycle, Prune, PopChunk, EndDrain, GiveUp, vars,
      managerVars

LEMMA Inductive == Spec => []IInv
<1>1. Init => IInv
  BY TypeInit DEF Init, IInv, IdInv, DrainInv, SendInv, KeySubmittedOnce
<1>2. IInv /\ [Next]_vars => IInv'
  BY TypeStep, IdStep, DrainStep, SendStep, OnceStep DEF IInv
<1> QED BY <1>1, <1>2, PTL DEF Spec

------------------------------------------------------------------------------
(* Theorems *)

\* Every variable keeps its type: no more is popped in a cycle than
\* MAX_EXPIRED_CANDIDATE_DRAIN_PER_CYCLE, and no block is ahead of the current.
THEOREM TypeCorrect == Spec => []TypeOK
<1>1. IInv => TypeOK BY DEF IInv
<1> QED BY <1>1, Inductive, PTL

\* A key is submitted once by a process, however pops, pushes, new blocks and
\* the pruning of submitted_candidate_keys interleave.
THEOREM SubmittedOnce == Spec => []KeySubmittedOnce
<1>1. IInv => KeySubmittedOnce BY DEF IInv
<1> QED BY <1>1, Inductive, PTL

\* A drain takes the newest blocks first, for every scale its ranks fit into.
THEOREM Newest == Spec => []NewestFirst
<1>1. IInv => NewestFirst
  <2> SUFFICES ASSUME IInv, mpc \in {"pop", "submit"},
                      NEW c \in fresh, NEW d \in start \cap queue
               PROVE  \/ d.block < c.block
                      \/ d.block = c.block /\ Rank(d.profit) <= Rank(c.profit)
    BY DEF NewestFirst
  <2>1. Score(d) <= Score(c) BY DEF IInv, DrainInv
  <2>2. c \in Candidate /\ d \in Candidate BY DEF IInv, TypeOK
  <2>3. c.block \in Nat /\ d.block \in Nat /\ c.profit \in Profits
        /\ d.profit \in Profits
    BY <2>2 DEF Candidate
  <2>4. Rank(c.profit) \in 0..(Scale - 1) BY <2>3, RankFits
  <2>5. Rank(d.profit) \in 0..(Scale - 1) BY <2>3, RankFits
  <2>6. Scale \in Nat BY QueueConstants
  <2>7. d.block * Scale + Rank(d.profit) <= c.block * Scale + Rank(c.profit)
    BY <2>1 DEF Score
  <2> QED BY <2>3, <2>4, <2>5, <2>6, <2>7, ScoreOrder
<1> QED BY <1>1, Inductive, PTL

\* While a process runs, pruning by score and the two filters of a drain lose no
\* candidate that is fresh and alive; only the start of a process does.
THEOREM FreshKept == Spec => OnlyStaleDropped
<1> DEFINE Dropped(c) ==
      c \in fresh' \/ c.block + MaxLag < mblock' \/ c.id \in dead'
<1>1. IInv /\ [Next]_vars
        => [mpc # "down" => \A c \in queue \ queue' : Dropped(c)]_vars
  <2> SUFFICES ASSUME IInv, Next, mpc # "down", NEW c \in queue, c \notin queue'
               PROVE  Dropped(c)
    OBVIOUS
  <2>1. CASE Prune
    <3>1. Stale(c, FirstFresh(mblock)) /\ mblock' = mblock
      BY <2>1 DEF Prune
    <3>2. c \in Candidate /\ mblock \in Nat
      BY QueueConstants DEF IInv, TypeOK
    <3>3. FirstFresh(mblock) \in Nat BY <3>2, FirstFreshFacts
    <3>4. c.block < FirstFresh(mblock) BY <3>1, <3>2, <3>3, StaleIsBefore
    <3>5. c.block \in Nat BY <3>2 DEF Candidate
    <3> QED BY <3>1, <3>2, <3>4, <3>5, FirstFreshFacts
  <2>2. CASE PopChunk
    <3>1. c.block \in Nat /\ mblock \in Nat /\ MaxLag \in Nat
      BY QueueConstants DEF IInv, TypeOK, Candidate
    <3> QED BY <2>2, <3>1 DEF PopChunk
  <2>3. CASE queue \subseteq queue' BY <2>3
  <2>4. ~ Start BY DEF Start
  <2> QED
    BY <2>1, <2>2, <2>3, <2>4
    DEF Next, Clock, Searcher, Manager, NewBlock, Expire, BeginSearch, EndSearch,
        Publish, BeginCycle, EndDrain, GiveUp, Submit, Crash
<1> QED BY <1>1, Inductive, PTL DEF OnlyStaleDropped, Spec
==============================================================================

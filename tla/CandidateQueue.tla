--------------------------- MODULE CandidateQueue ---------------------------
(***************************************************************************)
(* The sorted set candidates:priority between the searcher, which pushes   *)
(* (crates/searcher/src/main.rs), and execution-manager in live mode,      *)
(* which prunes and drains it, coalesces what it took and submits at most  *)
(* one candidate a cycle (crates/execution-manager/src/main.rs); the       *)
(* commands on the set are those of crates/storage/src/redis.rs.           *)
(*                                                                         *)
(* A route stands for the path, token and amount of a candidate: with the  *)
(* block number it is the execution key.  A candidate that the searcher    *)
(* coalesces away or rejects is never queued, one batch of pushes is       *)
(* pushed one by one, and whether a simulation succeeds is left open.      *)
(***************************************************************************)
EXTENDS Integers, FiniteSets

CONSTANTS
  Routes,
  Profits,    \* values of expected_profit
  Rank(_),    \* candidate_profit_rank
  Scale,      \* CANDIDATE_SCORE_BLOCK_SCALE
  MaxLag,     \* execution_max_candidate_lag_blocks, at least 1
  Chunk,      \* CANDIDATE_POP_CHUNK_SIZE
  MaxFresh,   \* MAX_CANDIDATE_DRAIN_PER_CYCLE
  MaxPopped,  \* MAX_EXPIRED_CANDIDATE_DRAIN_PER_CYCLE
  MaxBlock, MaxPushes   \* bounds

ASSUME QueueConstants ==
  /\ Profits \subseteq Nat
  /\ {Scale, MaxLag, Chunk, MaxFresh, MaxPopped, MaxBlock, MaxPushes} \subseteq Nat
  /\ MaxLag > 0 /\ Chunk > 0 /\ MaxBlock > 0

\* A rank stays inside the score range of its block.
ASSUME RankFits == \A p \in Profits : Rank(p) \in 0..(Scale - 1)

\* id is the uuid, id order the order of creation.
Candidate == [id : 1..MaxPushes, block : 1..MaxBlock, route : Routes,
              profit : Profits]

VARIABLES
  block,      \* Redis chain:current_block
  queue,      \* Redis candidates:priority
  pushed,     \* how many candidates there have been
  expired,    \* ids whose expires_at is over
  spc,        \* where the search cycle is
  sblock,     \* its latest_known_block
  mpc,        \* where the execution cycle is; "down": no process runs
  mblock,     \* its current_block
  dead,       \* ids that were expired at its Utc::now()
  popped,     \* how many candidates it has popped
  fresh,      \* candidates it has taken
  batch,      \* what is left of them to simulate
  submitted,  \* SubmittedCandidateKeys
  start,      \* history: the queue when the drain began
  sends       \* history: candidates this process has submitted

searcherVars == <<spc, sblock>>
managerVars  == <<mpc, mblock, dead, popped, fresh, batch, submitted, start, sends>>
vars == <<block, queue, pushed, expired, searcherVars, managerVars>>

------------------------------------------------------------------------------
(* Helpers *)

\* CandidateDedupKey
Key(c) == [block |-> c.block, route |-> c.route]

\* Mutant of Score: the scale has room for the leading digits only.
Score_Overlap(c) == c.block * (Scale \div 100) + Rank(c.profit)

\* candidate_queue_score
Score(c) == c.block * Scale + Rank(c.profit)

\* The first block that is not too far behind b: saturating subtraction.
FirstFresh(b) == IF b > MaxLag THEN b - MaxLag ELSE 0

\* Mutant of Stale: the bound is inclusive, without the "- 1".
Stale_Inclusive(c, first) == first > 0 /\ Score(c) <= first * Scale

\* prune_candidates_before_block(first) removes c.
Stale(c, first) == first > 0 /\ Score(c) <= first * Scale - 1

Smaller(a, b) == IF a <= b THEN a ELSE b

\* How many candidates the next ZPOPMAX asks for.
PopLimit == Smaller(Chunk, Smaller(MaxPopped - popped, MaxFresh - Cardinality(fresh)))

\* What ZPOPMAX n may return; equal scores are ordered by the JSON text.
Popped(n) ==
  {T \in SUBSET queue :
     /\ Cardinality(T) = Smaller(n, Cardinality(queue))
     /\ \A c \in T, d \in queue \ T : Score(d) <= Score(c)}

\* coalesce_candidates_by_execution_key: one of the most profitable per key.
Coalesced ==
  {B \in SUBSET fresh :
     /\ \A c \in fresh : \E d \in B : Key(d) = Key(c) /\ d.profit >= c.profit
     /\ \A c, d \in B : Key(c) = Key(d) => c = d}

\* Mutant of Remembered: the last fresh block is forgotten as well.
Remembered_OffByOne(k) == k.block > FirstFresh(mblock)

\* prune_before keeps k.
Remembered(k) == k.block >= FirstFresh(mblock)

Init ==
  /\ block = 1 /\ queue = {} /\ pushed = 0 /\ expired = {}
  /\ spc = "idle" /\ sblock = 1
  /\ mpc = "down" /\ mblock = 0 /\ dead = {} /\ popped = 0
  /\ fresh = {} /\ batch = {} /\ submitted = {} /\ start = {} /\ sends = {}

------------------------------------------------------------------------------
(* Time *)

\* market-data advances the current block.
NewBlock ==
  /\ block < MaxBlock
  /\ block' = block + 1
  /\ UNCHANGED <<queue, pushed, expired, searcherVars, managerVars>>

\* candidate_ttl_ms is over: the candidates made up to id expire.
Expire(id) ==
  /\ id \in 1..pushed /\ id \notin expired
  /\ expired' = expired \cup 1..id
  /\ UNCHANGED <<block, queue, pushed, searcherVars, managerVars>>

------------------------------------------------------------------------------
(* The searcher *)

\* Mutant of BeginSearch: candidates are stamped with the next block.
BeginSearch_NextBlock ==
  /\ spc = "idle"
  /\ spc' = "quote" /\ sblock' = block + 1
  /\ UNCHANGED <<block, queue, pushed, expired, managerVars>>

\* run_search_cycle reads the current block once.
BeginSearch ==
  /\ spc = "idle"
  /\ spc' = "quote" /\ sblock' = block
  /\ UNCHANGED <<block, queue, pushed, expired, managerVars>>

\* publish_candidates: a candidate gets the block read at the beginning,
\* however old the pool states are that it was quoted with.
Publish(route, profit) ==
  /\ spc = "quote" /\ pushed < MaxPushes
  /\ pushed' = pushed + 1
  /\ queue' = queue \cup {[id |-> pushed + 1, block |-> sblock, route |-> route,
                           profit |-> profit]}
  /\ UNCHANGED <<block, expired, searcherVars, managerVars>>

EndSearch ==
  /\ spc = "quote"
  /\ spc' = "idle"
  /\ UNCHANGED <<block, queue, pushed, expired, sblock, managerVars>>

------------------------------------------------------------------------------
(* The execution cycle *)

\* clear_candidates: a process that starts deletes whatever is queued, fresh
\* candidates included, before its first cycle.
Start ==
  /\ mpc = "down"
  /\ mpc' = "idle" /\ queue' = {}
  /\ UNCHANGED <<block, pushed, expired, searcherVars, mblock, dead, popped, fresh,
                 batch, submitted, start, sends>>

\* run_execution_cycle reads the current block before it looks at its lanes.
BeginCycle ==
  /\ mpc = "idle"
  /\ mpc' = "prune" /\ mblock' = block
  /\ UNCHANGED <<block, queue, pushed, expired, searcherVars, dead, popped, fresh,
                 batch, submitted, start, sends>>

\* pop_fresh_candidates: the clock is read, then blocks too old are pruned.
Prune ==
  /\ mpc = "prune"
  /\ dead' = expired
  /\ queue' = {c \in queue : ~ Stale(c, FirstFresh(mblock))}
  /\ start' = queue' /\ popped' = 0 /\ fresh' = {}
  /\ mpc' = "pop"
  /\ UNCHANGED <<block, pushed, expired, searcherVars, mblock, batch, submitted,
                 sends>>

\* One ZPOPMAX; expired candidates and those too far behind are dropped.
PopChunk ==
  /\ mpc = "pop" /\ PopLimit > 0 /\ queue # {}
  /\ \E T \in Popped(PopLimit) :
       /\ queue' = queue \ T
       /\ popped' = popped + Cardinality(T)
       /\ fresh' = fresh \cup {c \in T : c.id \notin dead
                                         /\ mblock <= c.block + MaxLag}
  /\ UNCHANGED <<block, pushed, expired, searcherVars, mpc, mblock, dead, batch,
                 submitted, start, sends>>

\* The queue is empty or a cap is reached: coalesce, and drop what has been
\* submitted already.
EndDrain ==
  /\ mpc = "pop" /\ (PopLimit = 0 \/ queue = {})
  /\ submitted' = {k \in submitted : Remembered(k)}
  /\ \E B \in Coalesced : batch' = {c \in B : Key(c) \notin submitted'}
  /\ mpc' = "submit"
  /\ UNCHANGED <<block, queue, pushed, expired, searcherVars, mblock, dead, popped,
                 fresh, start, sends>>

\* run_live_submission_batch: the first successful submission ends the batch,
\* the other candidates are gone.
Submit(c) ==
  /\ mpc = "submit" /\ c \in batch
  /\ submitted' = submitted \cup {Key(c)} /\ sends' = sends \cup {c}
  /\ batch' = {} /\ mpc' = "idle"
  /\ UNCHANGED <<block, queue, pushed, expired, searcherVars, mblock, dead, popped,
                 fresh, start>>

\* Nothing was submitted.
GiveUp ==
  /\ mpc = "submit"
  /\ batch' = {} /\ mpc' = "idle"
  /\ UNCHANGED <<block, queue, pushed, expired, searcherVars, mblock, dead, popped,
                 fresh, submitted, start, sends>>

\* An error ends main, with nothing remembered; docker starts it again, and the
\* searcher goes on pushing meanwhile.
Crash ==
  /\ mpc # "down"
  /\ mpc' = "down" /\ mblock' = 0 /\ dead' = {} /\ popped' = 0
  /\ fresh' = {} /\ batch' = {} /\ submitted' = {} /\ start' = {} /\ sends' = {}
  /\ UNCHANGED <<block, queue, pushed, expired, searcherVars>>

------------------------------------------------------------------------------
Clock == NewBlock \/ \E id \in 1..MaxPushes : Expire(id)

Searcher ==
  \/ BeginSearch \/ EndSearch
  \/ \E r \in Routes, p \in Profits : Publish(r, p)

Manager ==
  \/ Start \/ BeginCycle \/ Prune \/ PopChunk \/ EndDrain \/ GiveUp \/ Crash
  \/ \E c \in batch : Submit(c)

Next == Clock \/ Searcher \/ Manager

Spec == Init /\ [][Next]_vars

------------------------------------------------------------------------------
(* Properties *)

TypeOK ==
  /\ block \in 1..MaxBlock /\ queue \subseteq Candidate
  /\ pushed \in 0..MaxPushes /\ expired \subseteq 1..MaxPushes
  /\ spc \in {"idle", "quote"} /\ sblock \in 1..block
  /\ mpc \in {"down", "idle", "prune", "pop", "submit"} /\ mblock \in 0..block
  /\ dead \subseteq expired /\ popped \in 0..MaxPopped
  /\ {fresh, batch, start, sends} \subseteq SUBSET Candidate
  /\ submitted \subseteq [block : 1..MaxBlock, route : Routes]

\* "Keep the score inside the block range": whatever is pushed while it drains,
\* a cycle takes no candidate while one of a newer block, or of a higher rank
\* in the same block, that was queued when the drain began is left behind.
NewestFirst ==
  mpc \in {"pop", "submit"} =>
    \A c \in fresh, d \in start \cap queue :
      \/ d.block < c.block
      \/ d.block = c.block /\ Rank(d.profit) <= Rank(c.profit)

\* "Drops stale candidates without simulation", and a process that runs drops
\* only those: what leaves the queue, pruned by score or popped, and is not
\* taken, is too many blocks behind or has expired.  The start of a process is
\* excepted: clear_candidates deletes fresh candidates with the stale ones.
OnlyStaleDropped ==
  [][mpc # "down" =>
       \A c \in queue \ queue' :
         c \in fresh' \/ c.block + MaxLag < mblock' \/ c.id \in dead']_vars

\* No execution key is submitted twice by one process: a key is forgotten only
\* when its block is too old for another candidate of it to be taken, although
\* keys are forgotten by one rule, and candidates dropped by two others.
KeySubmittedOnce ==
  \A c, d \in sends : Key(c) = Key(d) => c = d
==============================================================================

---------------------------- MODULE ExecutionLane ----------------------------
(***************************************************************************)
(* Live submission in execution-manager: worker lanes in Redis, the        *)
(* transactions table in Postgres, the submission locks, the circuit       *)
(* breaker, and the Base chain and node they talk to                       *)
(* (crates/execution-manager/src/main.rs, tx_manager.rs).                  *)
(*                                                                         *)
(* The process is one task.  Every await that writes a store or reads the  *)
(* chain is a step of its own (pc), so that the chain may move, and the    *)
(* process may die, between any two of them.  An error returned with `?`   *)
(* ends main; docker restarts it (restart: unless-stopped): this is the    *)
(* same step as a crash.  What survives is Redis (lane, locks) and         *)
(* Postgres (rows, stored).                                                *)
(*                                                                         *)
(* The order in which the workers are configured is left open: a pass may  *)
(* visit them, and a cycle select a ready one, in any order.               *)
(*                                                                         *)
(* Not told apart here: which route a candidate has (it is its execution   *)
(* key), the candidate queue (a pop returns any fresh keys), approvals,    *)
(* and the instant a simulation row is flushed (stored or lost at once).   *)
(***************************************************************************)
EXTENDS EoaLane, FiniteSets

CONSTANTS
  Workers,            \* the worker EOAs of the pool
  Routes,             \* what an execution key has besides its block
  NoWorker, NoKey,    \* "none"
  MaxLag,             \* execution_max_candidate_lag_blocks
  CandidateLife,      \* blocks after which a candidate has surely expired
  LockTtl,            \* blocks a submission lock outlives (300 s)
  ReplacementBlocks,  \* execution_pending_replacement_blocks
  MaxReplacements,    \* execution_max_replacements
  BreakerMinTxs,      \* execution_failure_rate_min_txs
  MinSuccessBps,      \* execution_min_success_rate_bps
  LostReplies,        \* may eth_sendRawTransaction fail after the node took it?
  Evictions,          \* may the node drop a transaction from its pool?
  LowFunds,           \* may a worker's balance fall below the minimum?
  MaxBlock, MaxNonce, MaxFee, MaxCrashes   \* bounds

ASSUME LaneConstants ==
  /\ {MaxLag, CandidateLife, LockTtl, ReplacementBlocks, MaxReplacements,
      BreakerMinTxs, MinSuccessBps, MaxBlock, MaxNonce, MaxFee,
      MaxCrashes} \subseteq Nat
  /\ MaxBlock > 0
  /\ {LostReplies, Evictions, LowFunds} \subseteq BOOLEAN

\* The TTL of a lock (300 s) is far longer than a candidate lives
\* (candidate_ttl_ms, half a second by default).
ASSUME LockOutlivesCandidate == CandidateLife <= LockTtl

\* CandidateDedupKey: block_number, and path, token and amount together.
Key == [block : 1..MaxBlock, route : Routes]

\* A signed transaction of a worker; fee orders the ones of one nonce.
Tx == [eoa : Workers, nonce : 0..MaxNonce, key : Key, fee : 1..MaxFee]

ASSUME NoneValues == NoTx \notin Tx /\ NoKey \notin Key /\ NoWorker \notin Workers

VARIABLES
  height,     \* block number
  confirmed,  \* account nonce of each worker at the latest block
  pool,       \* transactions in the node's pool
  sent,       \* transactions the network has ever accepted
  receipts,   \* receipts of mined transactions
  rich,       \* workers whose balance is at least worker_min_balance
  lane,       \* Redis eoa:<address>:state
  locks,      \* Redis submission locks
  rows,       \* Postgres transactions with a hash: tx and status
  failed,     \* keys with a transactions row that has no hash
  stored,     \* keys whose simulation calldata is in Postgres
  pc,         \* where the process is
  phase,      \* which reconciliation pass is running
  todo,       \* workers the pass has still to visit
  cur,        \* the worker being handled, or selected for the batch
  work,       \* local variables of the handler that is running
  breaker,    \* ExecutionCircuitBreaker
  dedup,      \* submitted_candidate_keys
  batch,      \* successfully simulated candidates still to be tried
  crashes

chainVars == <<height, confirmed, pool, sent, receipts, rich>>
redisVars == <<lane, locks>>
pgVars    == <<rows, failed, stored>>
procVars  == <<pc, phase, todo, cur, work, breaker, dedup, batch>>
vars      == <<chainVars, redisVars, pgVars, procVars, crashes>>

PcValues ==
  {"boot", "pass", "record_receipt", "clear_confirmed", "check_nonce",
   "record_consumed", "clear_consumed", "replace", "record_replaced",
   "record_replacement", "save_replaced", "fund", "sync_funded", "idle", "pop",
   "submit", "send", "save_submitted", "record_pending", "save_cooldown",
   "record_failed"}

RowStatus == {"Pending", "Confirmed", "Reverted", "Replaced", "Consumed"}

------------------------------------------------------------------------------
(* Helpers *)

SameSlot(t, u) == t.eoa = u.eoa /\ t.nonce = u.nonce

\* eth_getTransactionCount(w, pending): the confirmed nonce, advanced over
\* the transactions the node's pool holds without a gap.
IsPendingCount(w, n) ==
  /\ n >= confirmed[w]
  /\ ~ \E t \in pool : t.eoa = w /\ t.nonce = n
  /\ \A m \in confirmed[w]..(n - 1) : \E t \in pool : t.eoa = w /\ t.nonce = m

\* The node refuses a used nonce, a transaction it already holds, and one
\* that does not pay more than the one it holds for the same nonce.
Accepts(t) ==
  /\ t.nonce >= confirmed[t.eoa]
  /\ \A u \in pool : SameSlot(t, u) => u.fee < t.fee

Broadcast(t) ==
  /\ sent' = sent \cup {t}
  /\ pool' = {u \in pool : ~ SameSlot(t, u)} \cup {t}
  /\ UNCHANGED <<height, confirmed, receipts, rich>>

\* record_transaction: upsert by hash, the new status overwrites the old one.
Upsert(t, s) == rows' = {r \in rows : r.tx # t} \cup {[tx |-> t, status |-> s]}

BreakerType == [receipts : Nat, successes : Nat, halted : BOOLEAN]

FreshBreaker == [receipts |-> 0, successes |-> 0, halted |-> FALSE]

\* Mutant of Observe: the rate is judged anew at every receipt.
Observe_NoLatch(b, success) ==
  LET n == b.receipts + 1
      s == b.successes + (IF success THEN 1 ELSE 0)
  IN  [receipts |-> n, successes |-> s,
       halted |-> n >= BreakerMinTxs /\ (s * 10000) \div n < MinSuccessBps]

\* observe_arb_receipt
Observe(b, success) ==
  LET n == b.receipts + 1
      s == b.successes + (IF success THEN 1 ELSE 0)
  IN  [receipts |-> n, successes |-> s,
       halted |-> b.halted \/ (n >= BreakerMinTxs
                               /\ (s * 10000) \div n < MinSuccessBps)]

WorkType == [tx : Tx \cup {NoTx}, key : Key \cup {NoKey}, next : Nat,
             success : BOOLEAN]

Work(tx, key, next, success) ==
  [tx |-> tx, key |-> key, next |-> next, success |-> success]

NoWork == Work(NoTx, NoKey, 0, FALSE)

\* A candidate whose block is not more than MaxLag behind the current one.
IsFresh(k) == k.block <= height /\ height <= k.block + MaxLag

\* candidate.is_expired, as far as block numbers tell.
MayBeAlive(k) == height <= k.block + CandidateLife

\* The worker's turn in the current pass is over.
NextWorker(w) ==
  /\ pc' = "pass" /\ todo' = todo \ {w} /\ cur' = NoWorker /\ work' = NoWork

\* The lane was settled: the hot pass goes on to the next worker, a full pass
\* falls through to sync_idle_lane for the same worker.
SettledWorker(w) ==
  /\ pc' = "pass" /\ cur' = NoWorker /\ work' = NoWork
  /\ todo' = IF phase = "poll" THEN todo \ {w} ELSE todo

\* main starts again: everything held in memory is gone.
Restart ==
  /\ pc' = "boot" /\ phase' = "startup" /\ todo' = {} /\ cur' = NoWorker
  /\ work' = NoWork /\ breaker' = FreshBreaker /\ dedup' = {} /\ batch' = {}

------------------------------------------------------------------------------
Init ==
  /\ height = 1 /\ confirmed = [w \in Workers |-> 0]
  /\ pool = {} /\ sent = {} /\ receipts = {} /\ rich = Workers
  /\ lane = [w \in Workers |-> NewLane] /\ locks = {}
  /\ rows = {} /\ failed = {} /\ stored = {}
  /\ pc = "boot" /\ phase = "startup" /\ todo = {} /\ cur = NoWorker
  /\ work = NoWork /\ breaker = FreshBreaker /\ dedup = {} /\ batch = {}
  /\ crashes = 0

------------------------------------------------------------------------------
(* The chain and the node *)

NewBlock ==
  /\ height < MaxBlock
  /\ height' = height + 1
  /\ UNCHANGED <<confirmed, pool, sent, receipts, rich, redisVars, pgVars,
                 procVars, crashes>>

\* The sequencer includes any transaction it ever received whose nonce is
\* next, also one the node has replaced or dropped since.
Mine(t) ==
  /\ t \in sent /\ t.nonce = confirmed[t.eoa]
  /\ confirmed' = [confirmed EXCEPT ![t.eoa] = @ + 1]
  /\ pool' = {u \in pool : ~ SameSlot(t, u)}
  /\ \E ok \in BOOLEAN : receipts' = receipts \cup {[tx |-> t, success |-> ok]}
  /\ \E low \in IF LowFunds THEN SUBSET {t.eoa} ELSE {{}} : rich' = rich \ low
  /\ UNCHANGED <<height, sent, redisVars, pgVars, procVars, crashes>>

Evict(t) ==
  /\ Evictions /\ t \in pool
  /\ pool' = pool \ {t}
  /\ UNCHANGED <<height, confirmed, sent, receipts, rich, redisVars, pgVars,
                 procVars, crashes>>

\* Mutant of LockExpired: a TTL shorter than the life of a candidate.
LockExpired_TooSoon(k) == height >= k.block + LockTtl

\* The 300 seconds of the lock are over.
LockExpired(k) == height > k.block + LockTtl

\* Redis drops a lock when its TTL has run out.
ExpireLock(k) ==
  /\ k \in locks /\ LockExpired(k)
  /\ locks' = locks \ {k}
  /\ UNCHANGED <<chainVars, lane, pgVars, procVars, crashes>>

Chain ==
  \/ NewBlock
  \/ \E t \in sent : Mine(t)
  \/ \E t \in pool : Evict(t)
  \/ \E k \in locks : ExpireLock(k)

------------------------------------------------------------------------------
(* Startup and the reconciliation passes *)

\* assert_submit_runtime_ready begins a pass over all workers.
Boot ==
  /\ pc = "boot"
  /\ pc' = "pass" /\ todo' = Workers
  /\ UNCHANGED <<phase, cur, work, breaker, dedup, batch, chainVars, redisVars,
                 pgVars, crashes>>

\* Startup found a worker that can be used; the loop starts with its own breaker.
StartupReady ==
  /\ pc = "pass" /\ phase = "startup" /\ todo = {}
  /\ ~ breaker.halted /\ \E w \in Workers : IsReady(lane[w])
  /\ pc' = "idle" /\ breaker' = FreshBreaker
  /\ UNCHANGED <<phase, todo, cur, work, dedup, batch, chainVars, redisVars,
                 pgVars, crashes>>

\* run_execution_cycle up to the pass over pending lanes.
StartCycle ==
  /\ pc = "idle" /\ ~ breaker.halted
  /\ pc' = "pass" /\ phase' = "poll" /\ todo' = Workers
  /\ UNCHANGED <<cur, work, breaker, dedup, batch, chainVars, redisVars, pgVars,
                 crashes>>

\* The hot pass only visits pending lanes.
SkipLane(w) ==
  /\ pc = "pass" /\ phase = "poll" /\ w \in todo /\ lane[w].status # "Pending"
  /\ NextWorker(w)
  /\ UNCHANGED <<phase, breaker, dedup, batch, chainVars, redisVars, pgVars,
                 crashes>>

\* A full pass takes nonce and balance of every lane that is not pending
\* from the chain.  A lane with enough funds is saved.
SyncLane(w) ==
  /\ pc = "pass" /\ phase # "poll" /\ w \in todo /\ lane[w].status # "Pending"
  /\ w \in rich
  /\ \E n \in 0..(MaxNonce + 1) :
       /\ IsPendingCount(w, n)
       /\ lane' = [lane EXCEPT ![w] = SyncIdle(@, n, TRUE)]
  /\ NextWorker(w)
  /\ UNCHANGED <<phase, breaker, dedup, batch, chainVars, locks, pgVars, crashes>>

\* A lane with too little is funded from the fund wallet before it is saved.
NeedFunds(w) ==
  /\ pc = "pass" /\ phase # "poll" /\ w \in todo /\ lane[w].status # "Pending"
  /\ w \notin rich
  /\ pc' = "fund" /\ cur' = w
  /\ UNCHANGED <<phase, todo, work, breaker, dedup, batch, chainVars, redisVars,
                 pgVars, crashes>>

\* The transfer from the fund wallet has a receipt.
FundWorker ==
  /\ pc = "fund"
  /\ rich' = rich \cup {cur}
  /\ pc' = "sync_funded"
  /\ UNCHANGED <<phase, todo, cur, work, breaker, dedup, batch, height, confirmed,
                 pool, sent, receipts, redisVars, pgVars, crashes>>

\* The lane is read from the chain once more and saved, whatever its balance.
SyncFunded ==
  /\ pc = "sync_funded"
  /\ \E n \in 0..(MaxNonce + 1) :
       /\ IsPendingCount(cur, n)
       /\ lane' = [lane EXCEPT ![cur] = SyncIdle(@, n, cur \in rich)]
  /\ NextWorker(cur)
  /\ UNCHANGED <<phase, breaker, dedup, batch, chainVars, locks, pgVars, crashes>>

\* No fund wallet, too little in it, no receipt in time: main returns.
FundFails ==
  /\ pc = "fund" /\ Restart
  /\ UNCHANGED <<chainVars, redisVars, pgVars, crashes>>

------------------------------------------------------------------------------
(* handle_pending_lane *)

PollReceipt(w) ==
  /\ pc = "pass" /\ w \in todo /\ lane[w].status = "Pending"
  /\ cur' = w
  /\ \/ \E r \in receipts :
          /\ r.tx = lane[w].tx
          /\ work' = Work(r.tx, NoKey, 0, r.success)
          /\ pc' = "record_receipt"
     \/ /\ \A r \in receipts : r.tx # lane[w].tx
        /\ pc' = "check_nonce" /\ work' = work
  /\ UNCHANGED <<phase, todo, breaker, dedup, batch, chainVars, redisVars, pgVars,
                 crashes>>

\* Mutant of RecordReceipt: only a successful receipt is recorded.
RecordReceipt_SuccessOnly ==
  /\ pc = "record_receipt"
  /\ IF work.success THEN Upsert(work.tx, "Confirmed") ELSE rows' = rows
  /\ pc' = "clear_confirmed"
  /\ UNCHANGED <<phase, todo, cur, work, breaker, dedup, batch, chainVars,
                 redisVars, failed, stored, crashes>>

RecordReceipt ==
  /\ pc = "record_receipt"
  /\ Upsert(work.tx, IF work.success THEN "Confirmed" ELSE "Reverted")
  /\ pc' = "clear_confirmed"
  /\ UNCHANGED <<phase, todo, cur, work, breaker, dedup, batch, chainVars,
                 redisVars, failed, stored, crashes>>

ClearConfirmed ==
  /\ pc = "clear_confirmed"
  /\ \E n \in 0..(MaxNonce + 1) :
       /\ IsPendingCount(cur, n)
       /\ lane' = [lane EXCEPT ![cur] = ClearPending(@, n, cur \in rich)]
  /\ breaker' = Observe(breaker, work.success)
  /\ SettledWorker(cur)
  /\ UNCHANGED <<phase, dedup, batch, chainVars, locks, pgVars, crashes>>

\* Mutant of NonceConsumed: off by one.
NonceConsumed_OffByOne(w) == confirmed[w] > lane[w].tx.nonce + 1

\* The account nonce has passed the pending transaction's nonce.
NonceConsumed(w) == confirmed[w] > lane[w].tx.nonce

\* clear_lane_if_pending_nonce_consumed: a second read of the chain.
CheckNonce ==
  /\ pc = "check_nonce"
  /\ \/ /\ ~ NonceConsumed(cur)
        /\ pc' = "replace" /\ work' = work
     \/ /\ NonceConsumed(cur)
        /\ \E n \in 0..(MaxNonce + 1) :
             /\ IsPendingCount(cur, n)
             /\ work' = Work(lane[cur].tx, NoKey, n, FALSE)
        /\ pc' = "record_consumed"
  /\ UNCHANGED <<phase, todo, cur, breaker, dedup, batch, chainVars, redisVars,
                 pgVars, crashes>>

RecordConsumed ==
  /\ pc = "record_consumed"
  /\ Upsert(work.tx, "Consumed")
  /\ pc' = "clear_consumed"
  /\ UNCHANGED <<phase, todo, cur, work, breaker, dedup, batch, chainVars,
                 redisVars, failed, stored, crashes>>

ClearConsumed ==
  /\ pc = "clear_consumed"
  /\ lane' = [lane EXCEPT ![cur] = ClearPending(@, work.next, cur \in rich)]
  /\ SettledWorker(cur)
  /\ UNCHANGED <<phase, breaker, dedup, batch, chainVars, locks, pgVars, crashes>>

------------------------------------------------------------------------------
(* maybe_replace_pending_tx *)

CanReplace(l) ==
  /\ l.replacements < MaxReplacements
  /\ height >= l.since + ReplacementBlocks
  /\ l.tx.key \in stored

\* Not due, no calldata, or the replacement failed: only a log line.
SkipReplacement ==
  /\ pc = "replace"
  /\ NextWorker(cur)
  /\ UNCHANGED <<phase, breaker, dedup, batch, chainVars, redisVars, pgVars,
                 crashes>>

\* Mutant of Replacement: sent with the lane's next nonce.
Replacement_NextNonce(t) ==
  /\ CanReplace(lane[cur])
  /\ t = [[lane[cur].tx EXCEPT !.fee = t.fee] EXCEPT !.nonce = lane[cur].nonce]
  /\ t.fee > lane[cur].tx.fee
  /\ Accepts(t)
  /\ Broadcast(t)

\* The same call at the same nonce with both fees raised.
Replacement(t) ==
  /\ CanReplace(lane[cur])
  /\ t = [lane[cur].tx EXCEPT !.fee = t.fee] /\ t.fee > lane[cur].tx.fee
  /\ Accepts(t)
  /\ Broadcast(t)

SendReplacement(t) ==
  /\ pc = "replace"
  /\ Replacement(t)
  /\ work' = Work(t, NoKey, height, FALSE)
  /\ pc' = "record_replaced"
  /\ UNCHANGED <<phase, todo, cur, breaker, dedup, batch, redisVars, pgVars,
                 crashes>>

\* The node took it, the caller saw an error.
SendReplacementLost(t) ==
  /\ pc = "replace" /\ LostReplies
  /\ Replacement(t)
  /\ NextWorker(cur)
  /\ UNCHANGED <<phase, breaker, dedup, batch, redisVars, pgVars, crashes>>

RecordReplaced ==
  /\ pc = "record_replaced"
  /\ Upsert(lane[cur].tx, "Replaced")
  /\ pc' = "record_replacement"
  /\ UNCHANGED <<phase, todo, cur, work, breaker, dedup, batch, chainVars,
                 redisVars, failed, stored, crashes>>

RecordReplacement ==
  /\ pc = "record_replacement"
  /\ Upsert(work.tx, "Pending")
  /\ pc' = "save_replaced"
  /\ UNCHANGED <<phase, todo, cur, work, breaker, dedup, batch, chainVars,
                 redisVars, failed, stored, crashes>>

SaveReplaced ==
  /\ pc = "save_replaced"
  /\ lane' = [lane EXCEPT ![cur] = MarkReplaced(@, work.tx, work.next)]
  /\ NextWorker(cur)
  /\ UNCHANGED <<phase, breaker, dedup, batch, chainVars, locks, pgVars, crashes>>

------------------------------------------------------------------------------
(* End of a pass: a worker is selected, or the cycle fails *)

PassOver == pc = "pass" /\ todo = {}

SelectWorker(w) ==
  /\ PassOver /\ phase # "startup" /\ ~ breaker.halted /\ IsReady(lane[w])
  /\ pc' = "pop" /\ cur' = w
  /\ UNCHANGED <<phase, todo, work, breaker, dedup, batch, chainVars, redisVars,
                 pgVars, crashes>>

NoneReady == \A w \in Workers : ~ IsReady(lane[w])

\* No cached lane is ready: reconcile every lane before giving up.
FullPass ==
  /\ PassOver /\ phase = "poll" /\ ~ breaker.halted /\ NoneReady
  /\ pc' = "pass" /\ phase' = "full" /\ todo' = Workers
  /\ UNCHANGED <<cur, work, breaker, dedup, batch, chainVars, redisVars, pgVars,
                 crashes>>

\* The breaker is halted, or no worker is ready after a full pass: bail.
Bail ==
  /\ PassOver
  /\ breaker.halted \/ (phase # "poll" /\ NoneReady)
  /\ Restart
  /\ UNCHANGED <<chainVars, redisVars, pgVars, crashes>>

------------------------------------------------------------------------------
(* Candidates *)

\* Pop, drop the stale and the already submitted, simulate; what succeeds is
\* the batch.  Their simulation rows are queued, or dropped by a full queue.
PopBatch(B) ==
  /\ pc = "pop"
  /\ B \subseteq {k \in Key : IsFresh(k) /\ k \notin dedup}
  /\ dedup' = {k \in dedup : k.block + MaxLag >= height}
  /\ stored' \in {stored, stored \cup B}
  /\ batch' = B
  /\ pc' = "submit"
  /\ UNCHANGED <<phase, todo, cur, work, breaker, chainVars, redisVars, rows,
                 failed, crashes>>

\* Every candidate was skipped or failed.
EndBatch ==
  /\ pc = "submit" /\ batch = {}
  /\ pc' = "idle" /\ cur' = NoWorker
  /\ UNCHANGED <<phase, todo, work, breaker, dedup, batch, chainVars, redisVars,
                 pgVars, crashes>>

\* The candidate has expired (by the clock, so at any time), or its lock is held.
SkipCandidate(k) ==
  /\ pc = "submit" /\ k \in batch
  /\ batch' = batch \ {k}
  /\ UNCHANGED <<pc, phase, todo, cur, work, breaker, dedup, chainVars, redisVars,
                 pgVars, crashes>>

\* Mutant of LockFree: SET without NX.
LockFree_Ignored(k) == TRUE

\* SET NX succeeds.
LockFree(k) == k \notin locks

\* At most one attempt per execution key while its lock lives.
AcquireLock(k) ==
  /\ pc = "submit" /\ k \in batch /\ MayBeAlive(k) /\ ~ breaker.halted
  /\ LockFree(k)
  /\ locks' = locks \cup {k}
  /\ work' = Work(NoTx, k, 0, FALSE)
  /\ pc' = "send"
  /\ UNCHANGED <<phase, todo, cur, breaker, dedup, batch, chainVars, lane, pgVars,
                 crashes>>

\* tx_manager::submit_candidate with the lane's local nonce.
CandidateTx(t) ==
  /\ MayBeAlive(work.key)
  /\ t.eoa = cur /\ t.nonce = lane[cur].nonce /\ t.key = work.key
  /\ Accepts(t)
  /\ Broadcast(t)

SendCandidate(t) ==
  /\ pc = "send"
  /\ CandidateTx(t)
  /\ work' = Work(t, work.key, 0, FALSE)
  /\ pc' = "save_submitted"
  /\ UNCHANGED <<phase, todo, cur, breaker, dedup, batch, redisVars, pgVars,
                 crashes>>

\* The node took it, the caller saw an error.
SendCandidateLost(t) ==
  /\ pc = "send" /\ LostReplies
  /\ CandidateTx(t)
  /\ pc' = "save_cooldown"
  /\ UNCHANGED <<phase, todo, cur, work, breaker, dedup, batch, redisVars, pgVars,
                 crashes>>

\* Expired before the broadcast, no fee suggestion, or refused by the node.
SendFails ==
  /\ pc = "send"
  /\ pc' = "save_cooldown"
  /\ UNCHANGED <<phase, todo, cur, work, breaker, dedup, batch, chainVars,
                 redisVars, pgVars, crashes>>

\* The lane is saved as pending before the transaction is recorded; its
\* submitted block is the one the simulation was run at.
SaveSubmitted ==
  /\ pc = "save_submitted"
  /\ \E b \in work.key.block..height :
       lane' = [lane EXCEPT ![cur] = MarkSubmitted(@, work.tx, b)]
  /\ pc' = "record_pending"
  /\ UNCHANGED <<phase, todo, cur, work, breaker, dedup, batch, chainVars, locks,
                 pgVars, crashes>>

\* The batch ends with the first submitted candidate.
RecordPending ==
  /\ pc = "record_pending"
  /\ Upsert(work.tx, "Pending")
  /\ dedup' = dedup \cup {work.key}
  /\ batch' = {} /\ work' = NoWork /\ cur' = NoWorker /\ pc' = "idle"
  /\ UNCHANGED <<phase, todo, breaker, chainVars, redisVars, failed, stored,
                 crashes>>

SaveCooldown ==
  /\ pc = "save_cooldown"
  /\ lane' = [lane EXCEPT ![cur] = MarkCooldown(@)]
  /\ pc' = "record_failed"
  /\ UNCHANGED <<phase, todo, cur, work, breaker, dedup, batch, chainVars, locks,
                 pgVars, crashes>>

\* A row without a hash; the batch goes on with the same wallet.
RecordFailed ==
  /\ pc = "record_failed"
  /\ failed' = failed \cup {work.key}
  /\ batch' = batch \ {work.key} /\ work' = NoWork /\ pc' = "submit"
  /\ UNCHANGED <<phase, todo, cur, breaker, dedup, chainVars, redisVars, rows,
                 stored, crashes>>

------------------------------------------------------------------------------
Crash ==
  /\ crashes < MaxCrashes /\ pc # "boot"
  /\ crashes' = crashes + 1
  /\ Restart
  /\ UNCHANGED <<chainVars, redisVars, pgVars>>

Reconcile ==
  \/ Boot \/ StartupReady \/ StartCycle \/ FullPass \/ Bail
  \/ \E w \in Workers : SkipLane(w) \/ SyncLane(w) \/ NeedFunds(w)
                        \/ PollReceipt(w) \/ SelectWorker(w)
  \/ FundWorker \/ SyncFunded \/ FundFails

Settle ==
  \/ RecordReceipt \/ ClearConfirmed
  \/ CheckNonce \/ RecordConsumed \/ ClearConsumed
  \/ SkipReplacement
  \/ \E t \in Tx : SendReplacement(t) \/ SendReplacementLost(t)
  \/ RecordReplaced \/ RecordReplacement \/ SaveReplaced

Submit ==
  \/ \E B \in SUBSET Key : PopBatch(B)
  \/ EndBatch
  \/ \E k \in batch : SkipCandidate(k) \/ AcquireLock(k)
  \/ \E t \in Tx : SendCandidate(t) \/ SendCandidateLost(t)
  \/ SendFails \/ SaveSubmitted \/ RecordPending \/ SaveCooldown \/ RecordFailed

Manager == Reconcile \/ Settle \/ Submit

Next == Chain \/ Manager \/ Crash

Spec == Init /\ [][Next]_vars

\* The process runs as long as its container, and a transaction in the pool
\* at the next nonce of its sender is eventually included.
Fairness ==
  /\ WF_vars(Manager)
  /\ WF_vars(\E t \in pool : Mine(t))

FairSpec == Spec /\ Fairness

------------------------------------------------------------------------------
(* Properties *)

\* A submission of the key may still begin.
Open(k) == k \notin locks /\ ~ LockExpired(k)

\* Every variable stays in its type.
TypeOK ==
  /\ height \in 1..MaxBlock
  /\ confirmed \in [Workers -> Nat]
  /\ pool \subseteq Tx /\ sent \subseteq Tx
  /\ receipts \subseteq [tx : Tx, success : BOOLEAN]
  /\ rich \subseteq Workers
  /\ lane \in [Workers -> LaneType(Tx)]
  /\ locks \subseteq Key
  /\ rows \subseteq [tx : Tx, status : RowStatus]
  /\ failed \subseteq Key /\ stored \subseteq Key
  /\ pc \in PcValues /\ phase \in {"startup", "poll", "full"}
  /\ todo \subseteq Workers /\ cur \in Workers \cup {NoWorker}
  /\ work \in WorkType /\ breaker \in BreakerType
  /\ dedup \subseteq Key /\ batch \subseteq Key
  /\ crashes \in Nat

\* "Prevent duplicate submissions for the same block/path/token/amount": all
\* transactions ever accepted for an execution key share one sender and one
\* nonce (they are replacements of each other), whatever crashed, was lost,
\* was evicted, or popped the key again.
SubmitOncePerKey ==
  \A t, u \in sent : t.key = u.key => SameSlot(t, u)

\* An execution key is executed on chain at most once.
KeyMinedOnce ==
  \A r, s \in receipts : r.tx.key = s.tx.key => r = s

\* A lane saved as Pending follows a transaction of its own worker that the
\* network did accept, and its local nonce is the next one; a lane in any
\* other status follows none.  So handle_pending_lane never meets a pending
\* lane without its pending fields, and Blocked is never stored.
PendingLaneIsBroadcast ==
  \A w \in Workers :
    LET l == lane[w] IN
    IF l.status = "Pending"
    THEN l.tx \in sent /\ l.tx.eoa = w /\ l.nonce = l.tx.nonce + 1
    ELSE l.tx = NoTx /\ l.status # "Blocked"

\* Two candidates never compete for one nonce of one worker.  It needs
\* LostReplies and Evictions to be FALSE: the code takes an error of the
\* send, and the node's own pending count, as the truth about the network.
NonceExclusive ==
  \A t, u \in sent : SameSlot(t, u) => t.key = u.key

\* A lane only leaves Pending after an outcome of its transaction is in
\* Postgres: record first, clear second, also across a crash in between.
SettledLaneHasOutcome ==
  [][\A w \in Workers :
       lane[w].status = "Pending" /\ lane'[w].status # "Pending"
         => \E r \in rows : r.tx = lane[w].tx /\ r.status # "Pending"]_vars

\* Between two cycles every row that says Pending is followed by a lane, so it
\* will be resolved.  A crash inside a submission or a replacement breaks
\* this: it is a promise up to the first crash.
PendingRowTracked ==
  pc = "idle" /\ crashes = 0 =>
    \A r \in rows : r.status = "Pending"
                      => \E w \in Workers : lane[w].tx = r.tx

\* What holds of the lanes, the network and the rows until the process crashes in
\* the middle of a submission: one candidate for each nonce of a worker, a lane
\* for each row that waits, every variable of its type (process_live_candidate,
\* handle_pending_lane).
LaneSound == TypeOK /\ NonceExclusive /\ PendingRowTracked

\* Once halted, the circuit breaker stays halted until the process ends, and
\* no transaction of a new candidate is broadcast (only replacements).
HaltLatched ==
  [][breaker.halted =>
       /\ breaker'.halted \/ pc' = "boot"
       /\ \A t \in sent' : \E u \in sent : t.key = u.key]_vars

\* A pending lane is settled in the end: by the receipt of the transaction it
\* follows, or because another one consumed its nonce.  It needs Evictions to
\* be FALSE: once MaxReplacements is reached, or without stored calldata, a
\* lane whose transaction was dropped waits for ever.
PendingLaneResolves ==
  \A w \in Workers : lane[w].status = "Pending" ~> lane[w].status # "Pending"

\* The promise this module implements; a key is closed by its lock, and by
\* its age when the lock has expired.
Ledger == INSTANCE SubmissionLedger WITH
  Keys <- Key,
  Slots <- Workers \X (0..MaxNonce),
  Executions <- [tx : Tx, success : BOOLEAN],
  closed <- {k \in Key : ~ Open(k)},
  slot <- [k \in Key |-> {<<t.eoa, t.nonce>> : t \in {u \in sent : u.key = k}}],
  execution <- [k \in Key |-> {r \in receipts : r.tx.key = k}]

\* Every step is a step of the submission ledger or leaves it unchanged.
LedgerSpec == Ledger!Spec
==============================================================================

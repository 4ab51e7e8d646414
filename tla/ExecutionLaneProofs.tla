------------------------- MODULE ExecutionLaneProofs -------------------------
(***************************************************************************)
(* Proofs about ExecutionLane, for any pool of workers, any settings, any  *)
(* number of crashes and with lost replies, evictions and expiring locks.  *)
(***************************************************************************)
EXTENDS ExecutionLane, TLAPS

(* The inductive invariant *)

AtWorker ==
  PcValues \ {"boot", "pass", "idle"}

\* Steps inside handle_pending_lane: the lane of cur is still pending.
AtPending ==
  {"record_receipt", "clear_confirmed", "check_nonce", "record_consumed",
   "clear_consumed", "replace", "record_replaced", "record_replacement",
   "save_replaced"}

\* Steps that settle the transaction the lane follows.
AtSettle ==
  {"record_receipt", "clear_confirmed", "record_consumed", "clear_consumed"}

AtReplace == {"record_replaced", "record_replacement", "save_replaced"}

\* Steps of the funding and of a batch at which the lane of cur is not pending.
AtFree == {"fund", "sync_funded", "pop", "submit", "send", "save_submitted",
           "save_cooldown", "record_failed"}

\* Steps of one submission.
AtSubmission == {"send", "save_submitted", "record_pending", "save_cooldown",
                 "record_failed"}

\* What the local variables of the running handler stand for.
ControlInv ==
  /\ pc \in AtWorker => cur \in Workers
  /\ pc \in AtPending => lane[cur].status = "Pending"
  /\ pc \in AtSettle => work.tx = lane[cur].tx
  /\ pc \in AtReplace =>
       /\ work.tx \in sent /\ SameSlot(work.tx, lane[cur].tx)
       /\ work.tx.key = lane[cur].tx.key
  /\ pc \in AtFree => lane[cur].status # "Pending"
  /\ pc \in AtSubmission => work.key \in Key
  /\ pc \in {"save_submitted", "record_pending"} =>
       work.tx \in sent /\ work.tx.eoa = cur

\* A key that has been sent can be locked no more, and a key about to be sent
\* has been locked and never been sent.
KeyInv ==
  /\ \A t \in sent : ~ Open(t.key)
  /\ pc = "send" => ~ Open(work.key) /\ \A t \in sent : t.key # work.key

\* The chain uses every nonce once, in order.
ChainInv ==
  /\ \A r \in receipts : r.tx \in sent /\ r.tx.nonce < confirmed[r.tx.eoa]
  /\ \A r, s \in receipts : SameSlot(r.tx, s.tx) => r = s

IInv ==
  /\ TypeOK /\ ControlInv /\ PendingLaneIsBroadcast
  /\ KeyInv /\ ChainInv /\ SubmitOncePerKey

------------------------------------------------------------------------------
LEMMA LocalTypes == FreshBreaker \in BreakerType /\ NoWork \in WorkType
  BY DEF FreshBreaker, BreakerType, NoWork, Work, WorkType

LEMMA WorkTyped ==
  ASSUME NEW t \in Tx \cup {NoTx}, NEW k \in Key \cup {NoKey}, NEW n \in Nat,
         NEW b \in BOOLEAN
  PROVE  /\ Work(t, k, n, b) \in WorkType
         /\ Work(t, k, n, b).tx = t /\ Work(t, k, n, b).key = k
         /\ Work(t, k, n, b).next = n /\ Work(t, k, n, b).success = b
  BY DEF Work, WorkType

LEMMA InitInv == Init => IInv
  <1> SUFFICES ASSUME Init PROVE IInv
    OBVIOUS
  <1> USE LaneConstants, NoneValues DEF Init
  <1>1. TypeOK
    <2>1. NewLane \in LaneType(Tx)
      BY DEF NewLane, LaneType, LaneStatus
    <2>4. 1 \in 1..MaxBlock
      OBVIOUS
    <2> QED
      BY <2>1, <2>4, LocalTypes DEF TypeOK, PcValues
  <1>2. ControlInv /\ KeyInv /\ ChainInv /\ SubmitOncePerKey
    BY DEF ControlInv, KeyInv, ChainInv, SubmitOncePerKey, AtWorker, AtPending,
           AtSettle, AtReplace, AtFree, AtSubmission
  <1>3. PendingLaneIsBroadcast
    BY DEF PendingLaneIsBroadcast, NewLane
  <1> QED
    BY <1>1, <1>2, <1>3 DEF IInv

------------------------------------------------------------------------------
(* The chain *)

LEMMA NewBlockInv == IInv /\ NewBlock => IInv'
  <1> SUFFICES ASSUME IInv, NewBlock PROVE IInv'
    OBVIOUS
  <1> USE DEF IInv, NewBlock, redisVars, pgVars, procVars
  <1>1. TypeOK'
    BY LaneConstants DEF TypeOK
  <1>2. ControlInv' /\ PendingLaneIsBroadcast' /\ ChainInv' /\ SubmitOncePerKey'
    BY DEF ControlInv, PendingLaneIsBroadcast, ChainInv, SubmitOncePerKey, SameSlot
  <1>3. KeyInv'
    <2>1. ASSUME NEW k \in Key, ~ Open(k) PROVE ~ Open(k)'
      BY <2>1, LaneConstants DEF Open, LockExpired, Key, TypeOK
    <2>2. \A t \in sent : t.key \in Key
      BY DEF TypeOK, Tx
    <2> QED
      BY <2>1, <2>2 DEF KeyInv, ControlInv, AtSubmission
  <1> QED
    BY <1>1, <1>2, <1>3

LEMMA MineInv == ASSUME IInv, NEW t \in sent, Mine(t) PROVE IInv'
  <1> USE DEF IInv, Mine, redisVars, pgVars, procVars
  <1>1. t \in Tx /\ t.eoa \in Workers /\ t.nonce \in Nat /\ t.nonce = confirmed[t.eoa]
    BY LaneConstants DEF TypeOK, Tx
  <1>2. PICK ok \in BOOLEAN : receipts' = receipts \cup {[tx |-> t, success |-> ok]}
    OBVIOUS
  <1>3. TypeOK'
    <2>1. confirmed' \in [Workers -> Nat]
      BY <1>1 DEF TypeOK
    <2>2. receipts' \subseteq [tx : Tx, success : BOOLEAN]
      BY <1>1, <1>2 DEF TypeOK
    <2> QED
      BY <2>1, <2>2 DEF TypeOK
  <1>4. ControlInv' /\ PendingLaneIsBroadcast' /\ SubmitOncePerKey' /\ KeyInv'
    BY DEF ControlInv, PendingLaneIsBroadcast, SubmitOncePerKey, KeyInv, Open,
           LockExpired, SameSlot
  <1>5. ChainInv'
    <2>1. \A w \in Workers : confirmed'[w] = IF w = t.eoa THEN confirmed[w] + 1
                                             ELSE confirmed[w]
      BY <1>1 DEF TypeOK
    <2>2. \A r \in receipts : r.tx \in sent /\ r.tx.eoa \in Workers /\ r.tx.nonce \in Nat
                             /\ confirmed[r.tx.eoa] \in Nat
                             /\ r.tx.nonce < confirmed[r.tx.eoa]
      BY LaneConstants DEF ChainInv, TypeOK, Tx
    <2>3. \A r \in receipts : ~ SameSlot(r.tx, t) /\ ~ SameSlot(t, r.tx)
      BY <1>1, <2>2 DEF SameSlot
    <2>4. \A r \in receipts' : r.tx \in sent' /\ r.tx.nonce < confirmed'[r.tx.eoa]
      BY <1>1, <1>2, <2>1, <2>2
    <2>5. \A r, s \in receipts' : SameSlot(r.tx, s.tx) => r = s
      BY <1>2, <2>3 DEF ChainInv, SameSlot
    <2> QED
      BY <2>4, <2>5 DEF ChainInv, SameSlot
  <1> QED
    BY <1>3, <1>4, <1>5

LEMMA EvictInv == ASSUME IInv, NEW t, Evict(t) PROVE IInv'
  BY DEF IInv, Evict, redisVars, pgVars, procVars, TypeOK, ControlInv,
         PendingLaneIsBroadcast, SubmitOncePerKey, KeyInv, ChainInv, Open,
         LockExpired, SameSlot

LEMMA ExpireLockInv == ASSUME IInv, NEW k, ExpireLock(k) PROVE IInv'
  BY DEF IInv, ExpireLock, chainVars, pgVars, procVars, TypeOK, ControlInv,
         PendingLaneIsBroadcast, SubmitOncePerKey, KeyInv, ChainInv, Open,
         LockExpired, SameSlot

------------------------------------------------------------------------------
(* Steps of the process that write no lane and send nothing *)

\* What such a step has to show: its own types and control points.
LEMMA QuietStep ==
  ASSUME IInv, UNCHANGED <<height, confirmed, pool, sent, receipts, lane, locks>>,
         TypeOK', ControlInv', pc' # "send"
  PROVE  IInv'
  BY DEF IInv, PendingLaneIsBroadcast, KeyInv, ChainInv, SubmitOncePerKey, Open,
         LockExpired, SameSlot

\* The sets of control points, for leaves that need to know them.
LEMMA ControlStep ==
  ASSUME IInv, UNCHANGED <<sent, lane>>, pc' \in {"boot", "pass", "idle"}
  PROVE  ControlInv' /\ pc' # "send"
  BY DEF ControlInv, AtWorker, AtPending, AtSettle, AtReplace, AtFree,
         AtSubmission, PcValues

LEMMA RestartInv ==
  ASSUME IInv, Restart, UNCHANGED <<chainVars, redisVars, pgVars>>,
         crashes' \in Nat
  PROVE  IInv'
  <1> USE DEF Restart, chainVars, redisVars, pgVars
  <1>1. TypeOK'
    BY LocalTypes DEF IInv, TypeOK, PcValues
  <1> QED
    BY <1>1, ControlStep, QuietStep

\* The actions that only move the process to a point outside the handlers.
Moves ==
  \/ Boot \/ StartupReady \/ StartCycle \/ FullPass \/ SkipReplacement \/ EndBatch
  \/ \E w \in Workers : SkipLane(w)

LEMMA MovesInv == IInv /\ Moves => IInv'
  <1> SUFFICES ASSUME IInv, Moves PROVE IInv'
    OBVIOUS
  <1> USE LocalTypes DEF chainVars, redisVars, pgVars, IInv, PcValues
  <1>1. CASE Boot
    BY <1>1, ControlStep, QuietStep DEF Boot, TypeOK
  <1>2. CASE StartupReady
    BY <1>2, ControlStep, QuietStep DEF StartupReady, TypeOK
  <1>3. CASE StartCycle
    BY <1>3, ControlStep, QuietStep DEF StartCycle, TypeOK
  <1>4. CASE FullPass
    BY <1>4, ControlStep, QuietStep DEF FullPass, PassOver, TypeOK
  <1>5. CASE SkipReplacement
    BY <1>5, ControlStep, QuietStep DEF SkipReplacement, NextWorker, TypeOK
  <1>6. CASE EndBatch
    BY <1>6, ControlStep, QuietStep DEF EndBatch, TypeOK
  <1>7. ASSUME NEW w \in Workers, SkipLane(w) PROVE IInv'
    BY <1>7, ControlStep, QuietStep DEF SkipLane, NextWorker, TypeOK
  <1> QED
    BY <1>1, <1>2, <1>3, <1>4, <1>5, <1>6, <1>7 DEF Moves

LEMMA NeedFundsInv == ASSUME IInv, NEW w \in Workers, NeedFunds(w) PROVE IInv'
  <1> USE DEF NeedFunds, chainVars, redisVars, pgVars, IInv
  <1>1. TypeOK'
    BY DEF TypeOK, PcValues
  <1>2. ControlInv' /\ pc' # "send"
    BY DEF ControlInv, AtWorker, AtPending, AtSettle, AtReplace, AtFree,
           AtSubmission, PcValues
  <1> QED
    BY <1>1, <1>2, QuietStep

LEMMA SelectWorkerInv == ASSUME IInv, NEW w \in Workers, SelectWorker(w) PROVE IInv'
  <1> USE DEF SelectWorker, chainVars, redisVars, pgVars, IInv
  <1>1. TypeOK'
    BY DEF TypeOK, PcValues
  <1>2. ControlInv' /\ pc' # "send"
    BY DEF ControlInv, AtWorker, AtPending, AtSettle, AtReplace, AtFree,
           AtSubmission, PcValues, IsReady
  <1> QED
    BY <1>1, <1>2, QuietStep

LEMMA FundWorkerInv == ASSUME IInv, FundWorker PROVE IInv'
  <1> USE DEF FundWorker, redisVars, pgVars, IInv
  <1>1. TypeOK'
    BY DEF TypeOK, PcValues, ControlInv, AtWorker
  <1>2. ControlInv' /\ pc' # "send"
    BY DEF ControlInv, AtWorker, AtPending, AtSettle, AtReplace, AtFree,
           AtSubmission, PcValues
  <1> QED
    BY <1>1, <1>2, QuietStep

LEMMA PollReceiptInv == ASSUME IInv, NEW w \in Workers, PollReceipt(w) PROVE IInv'
  <1> USE DEF PollReceipt, chainVars, redisVars, pgVars, IInv
  <1>1. CASE work' = work /\ pc' = "check_nonce"
    <2>1. TypeOK'
      BY <1>1 DEF TypeOK, PcValues
    <2>2. ControlInv' /\ pc' # "send"
      BY <1>1 DEF ControlInv, AtWorker, AtPending, AtSettle, AtReplace, AtFree,
             AtSubmission, PcValues
    <2> QED
      BY <2>1, <2>2, QuietStep
  <1>2. ASSUME NEW r \in receipts, r.tx = lane[w].tx, pc' = "record_receipt",
               work' = Work(r.tx, NoKey, 0, r.success)
        PROVE  IInv'
    <2>1. r.tx \in Tx /\ r.success \in BOOLEAN
      BY DEF TypeOK
    <2>2. work' \in WorkType /\ work'.tx = lane[w].tx
      BY <1>2, <2>1, WorkTyped
    <2>3. TypeOK'
      BY <1>2, <2>2 DEF TypeOK, PcValues
    <2>4. ControlInv' /\ pc' # "send"
      BY <1>2, <2>2 DEF ControlInv, AtWorker, AtPending, AtSettle, AtReplace,
             AtFree, AtSubmission, PcValues
    <2> QED
      BY <2>3, <2>4, QuietStep
  <1> QED
    BY <1>1, <1>2

\* The lane of a worker that is being settled or replaced.
LEMMA PendingLane ==
  ASSUME IInv, pc \in AtPending
  PROVE  /\ cur \in Workers /\ lane[cur] \in LaneType(Tx)
         /\ lane[cur].tx \in sent /\ lane[cur].tx \in Tx /\ lane[cur].tx.eoa = cur
         /\ lane[cur].tx.nonce \in Nat
         /\ lane[cur].nonce = lane[cur].tx.nonce + 1
  <1>1. cur \in Workers
    BY DEF IInv, ControlInv, AtWorker, AtPending, PcValues
  <1>2. lane[cur].status = "Pending"
    BY DEF IInv, ControlInv
  <1>3. lane[cur].tx \in sent /\ lane[cur].tx.eoa = cur
        /\ lane[cur].nonce = lane[cur].tx.nonce + 1
    BY <1>1, <1>2 DEF IInv, PendingLaneIsBroadcast
  <1>4. lane[cur] \in LaneType(Tx) /\ lane[cur].tx \in Tx
    BY <1>1, <1>3 DEF IInv, TypeOK
  <1>5. lane[cur].tx.nonce \in Nat
    BY <1>4, LaneConstants DEF Tx
  <1> QED
    BY <1>1, <1>3, <1>4, <1>5

LEMMA CheckNonceInv == ASSUME IInv, CheckNonce PROVE IInv'
  <1> USE DEF CheckNonce, chainVars, redisVars, pgVars
  <1>1. cur \in Workers /\ lane[cur].tx \in Tx
    BY PendingLane DEF AtPending
  <1>2. CASE work' = work /\ pc' = "replace"
    <2>1. TypeOK'
      BY <1>2 DEF IInv, TypeOK, PcValues
    <2>2. ControlInv' /\ pc' # "send"
      BY <1>2 DEF IInv, ControlInv, AtWorker, AtPending, AtSettle, AtReplace,
             AtFree, AtSubmission, PcValues
    <2> QED
      BY <2>1, <2>2, QuietStep
  <1>3. ASSUME NEW n \in 0..(MaxNonce + 1), pc' = "record_consumed",
               work' = Work(lane[cur].tx, NoKey, n, FALSE)
        PROVE  IInv'
    <2>1. n \in Nat
      BY LaneConstants
    <2>2. work' \in WorkType /\ work'.tx = lane[cur].tx
      BY <1>1, <1>3, <2>1 DEF Work, WorkType
    <2>3. TypeOK'
      BY <1>3, <2>2 DEF IInv, TypeOK, PcValues
    <2>4. ControlInv' /\ pc' # "send"
      BY <1>3, <2>2 DEF IInv, ControlInv, AtWorker, AtPending, AtSettle, AtReplace,
             AtFree, AtSubmission, PcValues
    <2> QED
      BY <2>3, <2>4, QuietStep
  <1> QED
    BY <1>2, <1>3

LEMMA UpsertType ==
  ASSUME rows \subseteq [tx : Tx, status : RowStatus], NEW t \in Tx,
         NEW s \in RowStatus, Upsert(t, s)
  PROVE  rows' \subseteq [tx : Tx, status : RowStatus]
  BY DEF Upsert

\* A write to the transactions table on the way to point p.
LEMMA RecordStep ==
  ASSUME IInv, NEW t \in Tx, NEW s \in RowStatus, Upsert(t, s),
         UNCHANGED <<chainVars, redisVars, failed, stored, crashes>>,
         UNCHANGED <<phase, todo, breaker>>,
         dedup' \subseteq Key, batch' \subseteq Key, cur' \in Workers \cup {NoWorker},
         work' \in WorkType, pc' \in PcValues, pc' # "send", ControlInv'
  PROVE  IInv'
  <1>1. rows' \subseteq [tx : Tx, status : RowStatus]
    BY UpsertType DEF IInv, TypeOK
  <1>2. TypeOK'
    BY <1>1 DEF IInv, TypeOK, chainVars, redisVars
  <1> QED
    BY <1>2, QuietStep DEF chainVars, redisVars

LEMMA RecordSettledInv == ASSUME IInv, RecordReceipt \/ RecordConsumed PROVE IInv'
  <1> USE DEF RecordReceipt, RecordConsumed, chainVars, redisVars
  <1>1. pc \in AtSettle /\ pc \in AtPending
    BY DEF AtSettle, AtPending
  <1>2. work.tx \in Tx
    BY <1>1, PendingLane DEF IInv, ControlInv
  <1>3. ControlInv' /\ pc' \in PcValues /\ pc' # "send"
    BY <1>1 DEF IInv, ControlInv, AtWorker, AtPending, AtSettle, AtReplace, AtFree,
           AtSubmission, PcValues
  <1>4. UNCHANGED <<phase, todo, breaker, cur, work, dedup, batch>>
    OBVIOUS
  <1>5. \E st \in RowStatus : Upsert(work.tx, st)
    BY DEF RowStatus
  <1> QED
    BY <1>2, <1>3, <1>4, <1>5, RecordStep DEF IInv, TypeOK

LEMMA RecordReplacedInv ==
  ASSUME IInv, RecordReplaced \/ RecordReplacement PROVE IInv'
  <1> USE DEF RecordReplaced, RecordReplacement, chainVars, redisVars
  <1>1. pc \in AtReplace /\ pc \in AtPending
    BY DEF AtReplace, AtPending
  <1>2. work.tx \in Tx /\ lane[cur].tx \in Tx
    BY <1>1, PendingLane DEF IInv, ControlInv, TypeOK
  <1>3. ControlInv' /\ pc' \in PcValues /\ pc' # "send"
    BY <1>1 DEF IInv, ControlInv, AtWorker, AtPending, AtSettle, AtReplace, AtFree,
           AtSubmission, PcValues
  <1>4. UNCHANGED <<phase, todo, breaker, cur, work, dedup, batch>>
    OBVIOUS
  <1>5. \E st \in RowStatus, t \in Tx : Upsert(t, st)
    BY <1>2 DEF RowStatus
  <1> QED
    BY <1>3, <1>4, <1>5, RecordStep DEF IInv, TypeOK

LEMMA RecordPendingInv == ASSUME IInv, RecordPending PROVE IInv'
  <1> USE DEF RecordPending, chainVars, redisVars
  <1>1. work.tx \in Tx /\ work.key \in Key
    BY DEF IInv, ControlInv, AtSubmission, TypeOK
  <1>2. ControlInv' /\ pc' # "send"
    BY ControlStep
  <1>3. "Pending" \in RowStatus /\ pc' \in PcValues
    BY DEF RowStatus, PcValues
  <1> QED
    BY <1>1, <1>2, <1>3, LocalTypes, RecordStep DEF IInv, TypeOK

LEMMA BatchInv ==
  ASSUME IInv, \/ SendFails \/ RecordFailed
               \/ \E B \in SUBSET Key : PopBatch(B)
               \/ \E k \in batch : SkipCandidate(k)
  PROVE  IInv'
  <1> USE DEF chainVars, redisVars, pgVars
  <1>1. CASE SendFails
    <2>1. TypeOK'
      BY <1>1 DEF SendFails, IInv, TypeOK, PcValues
    <2>2. ControlInv' /\ pc' # "send"
      BY <1>1 DEF SendFails, IInv, ControlInv, AtWorker, AtPending, AtSettle,
             AtReplace, AtFree, AtSubmission, PcValues
    <2> QED
      BY <1>1, <2>1, <2>2, QuietStep DEF SendFails
  <1>2. CASE RecordFailed
    <2>1. TypeOK'
      BY <1>2, LocalTypes DEF RecordFailed, IInv, TypeOK, PcValues, ControlInv, AtSubmission
    <2>2. ControlInv' /\ pc' # "send"
      BY <1>2 DEF RecordFailed, IInv, ControlInv, AtWorker, AtPending, AtSettle,
             AtReplace, AtFree, AtSubmission, PcValues
    <2> QED
      BY <1>2, <2>1, <2>2, QuietStep DEF RecordFailed
  <1>3. ASSUME NEW B \in SUBSET Key, PopBatch(B) PROVE IInv'
    <2>1. TypeOK'
      BY <1>3 DEF PopBatch, IInv, TypeOK, PcValues
    <2>2. ControlInv' /\ pc' # "send"
      BY <1>3 DEF PopBatch, IInv, ControlInv, AtWorker, AtPending, AtSettle,
             AtReplace, AtFree, AtSubmission, PcValues
    <2> QED
      BY <1>3, <2>1, <2>2, QuietStep DEF PopBatch
  <1>4. ASSUME NEW k \in batch, SkipCandidate(k) PROVE IInv'
    <2>1. TypeOK'
      BY <1>4 DEF SkipCandidate, IInv, TypeOK, PcValues
    <2>2. ControlInv' /\ pc' # "send"
      BY <1>4 DEF SkipCandidate, IInv, ControlInv, AtWorker, AtPending, AtSettle,
             AtReplace, AtFree, AtSubmission, PcValues
    <2> QED
      BY <1>4, <2>1, <2>2, QuietStep DEF SkipCandidate
  <1> QED
    BY <1>1, <1>2, <1>3, <1>4

------------------------------------------------------------------------------
(* Locks, lanes and broadcasts *)

LEMMA KeysOfSent == ASSUME TypeOK, NEW t \in sent PROVE t \in Tx /\ t.key \in Key
  BY DEF TypeOK, Tx

\* Here CandidateLife <= LockTtl is used: a live candidate's lock has not expired.
LEMMA AcquireLockInv == ASSUME IInv, NEW k \in batch, AcquireLock(k) PROVE IInv'
  <1> USE DEF AcquireLock, chainVars, pgVars
  <1>1. k \in Key /\ k.block \in Nat /\ height \in Nat
    BY LaneConstants DEF IInv, TypeOK, Key
  <1>2. Open(k)
    BY <1>1, LaneConstants, LockOutlivesCandidate
    DEF Open, LockExpired, MayBeAlive, LockFree
  <1>3. \A t \in sent : t.key # k
    BY <1>2 DEF IInv, KeyInv
  <1>4. work' \in WorkType /\ work'.key = k
    BY <1>1 DEF Work, WorkType
  <1>5. TypeOK'
    BY <1>1, <1>4 DEF IInv, TypeOK, PcValues
  <1>6. ControlInv'
    BY <1>1, <1>4 DEF IInv, ControlInv, AtWorker, AtPending, AtSettle, AtReplace,
           AtFree, AtSubmission, PcValues
  <1>7. KeyInv'
    BY <1>3, <1>4 DEF IInv, KeyInv, Open, LockExpired
  <1>8. PendingLaneIsBroadcast' /\ ChainInv' /\ SubmitOncePerKey'
    BY DEF IInv, PendingLaneIsBroadcast, ChainInv, SubmitOncePerKey, SameSlot
  <1> QED
    BY <1>5, <1>6, <1>7, <1>8 DEF IInv

\* What a lane may be saved as.
GoodLane(w, l) ==
  /\ l \in LaneType(Tx)
  /\ IF l.status = "Pending"
     THEN l.tx \in sent /\ l.tx.eoa = w /\ l.nonce = l.tx.nonce + 1
     ELSE l.tx = NoTx /\ l.status # "Blocked"

LEMMA LaneStep ==
  ASSUME IInv, NEW w \in Workers, NEW l, GoodLane(w, l),
         lane' = [lane EXCEPT ![w] = l],
         UNCHANGED <<chainVars, locks, pgVars, crashes>>,
         UNCHANGED <<phase, dedup, batch>>, breaker' \in BreakerType,
         todo' \subseteq Workers, cur' \in Workers \cup {NoWorker}, work' \in WorkType,
         pc' \in PcValues, pc' # "send", ControlInv'
  PROVE  IInv'
  <1> USE DEF chainVars, pgVars
  <1>1. lane' \in [Workers -> LaneType(Tx)]
    BY DEF IInv, TypeOK, GoodLane
  <1>2. TypeOK'
    BY <1>1 DEF IInv, TypeOK
  <1>3. PendingLaneIsBroadcast'
    BY DEF IInv, TypeOK, GoodLane, PendingLaneIsBroadcast
  <1>4. KeyInv' /\ ChainInv' /\ SubmitOncePerKey'
    BY DEF IInv, KeyInv, Open, LockExpired, ChainInv, SubmitOncePerKey, SameSlot
  <1> QED
    BY <1>2, <1>3, <1>4 DEF IInv

\* The next control point is outside the handlers.
LEMMA LeaveStep ==
  ASSUME pc' \in {"boot", "pass", "idle"} PROVE ControlInv' /\ pc' # "send"
  BY DEF ControlInv, AtWorker, AtPending, AtSettle, AtReplace, AtFree,
         AtSubmission, PcValues

LEMMA SyncLaneInv == ASSUME IInv, NEW w \in Workers, SyncLane(w) PROVE IInv'
  <1> USE DEF SyncLane, NextWorker
  <1>1. PICK n \in 0..(MaxNonce + 1) : lane' = [lane EXCEPT ![w] = SyncIdle(@, n, TRUE)]
    OBVIOUS
  <1>2. lane[w] \in LaneType(Tx) /\ lane[w].tx = NoTx
    BY DEF IInv, TypeOK, PendingLaneIsBroadcast
  <1>3. n \in Nat
    BY LaneConstants
  <1>4. GoodLane(w, SyncIdle(lane[w], n, TRUE))
    BY <1>2, <1>3 DEF GoodLane, SyncIdle, LaneType, LaneStatus
  <1>5. lane' = [lane EXCEPT ![w] = SyncIdle(lane[w], n, TRUE)]
    BY <1>1 DEF IInv, TypeOK
  <1>6. pc' \in PcValues /\ todo' \subseteq Workers /\ breaker' \in BreakerType
    BY DEF IInv, TypeOK, PcValues
  <1> QED
    BY <1>4, <1>5, <1>6, LeaveStep, LocalTypes, LaneStep

LEMMA SyncFundedInv == ASSUME IInv, SyncFunded PROVE IInv'
  <1> USE DEF SyncFunded, NextWorker
  <1>1. cur \in Workers /\ lane[cur] \in LaneType(Tx) /\ lane[cur].tx = NoTx
    BY DEF IInv, ControlInv, TypeOK, AtWorker, AtFree, PcValues, PendingLaneIsBroadcast
  <1>2. PICK n \in 0..(MaxNonce + 1) :
          lane' = [lane EXCEPT ![cur] = SyncIdle(@, n, cur \in rich)]
    OBVIOUS
  <1>3. n \in Nat /\ (cur \in rich) \in BOOLEAN
    BY LaneConstants
  <1>4. GoodLane(cur, SyncIdle(lane[cur], n, cur \in rich))
    BY <1>1, <1>3 DEF GoodLane, SyncIdle, LaneType, LaneStatus
  <1>5. lane' = [lane EXCEPT ![cur] = SyncIdle(lane[cur], n, cur \in rich)]
    BY <1>1, <1>2 DEF IInv, TypeOK
  <1>6. pc' \in PcValues /\ todo' \subseteq Workers /\ breaker' \in BreakerType
    BY DEF IInv, TypeOK, PcValues
  <1> QED
    BY <1>1, <1>4, <1>5, <1>6, LeaveStep, LocalTypes, LaneStep

LEMMA ObserveType ==
  ASSUME NEW b \in BreakerType, NEW ok \in BOOLEAN
  PROVE  Observe(b, ok) \in BreakerType
  BY DEF BreakerType, Observe

LEMMA ClearedLane ==
  ASSUME NEW w, NEW l, NEW n \in Nat, NEW b \in BOOLEAN
  PROVE  GoodLane(w, ClearPending(l, n, b))
  BY DEF GoodLane, ClearPending, LaneType, LaneStatus

LEMMA ClearConfirmedInv == ASSUME IInv, ClearConfirmed PROVE IInv'
  <1> USE DEF ClearConfirmed, SettledWorker
  <1>1. cur \in Workers
    BY PendingLane DEF AtPending
  <1>2. PICK n \in 0..(MaxNonce + 1) :
          lane' = [lane EXCEPT ![cur] = ClearPending(@, n, cur \in rich)]
    OBVIOUS
  <1>3. n \in Nat /\ (cur \in rich) \in BOOLEAN
    BY LaneConstants
  <1>4. lane' = [lane EXCEPT ![cur] = ClearPending(lane[cur], n, cur \in rich)]
    BY <1>1, <1>2 DEF IInv, TypeOK
  <1>5. pc' \in PcValues /\ todo' \subseteq Workers
    BY DEF IInv, TypeOK, PcValues
  <1>6. breaker' \in BreakerType
    BY ObserveType DEF IInv, TypeOK, WorkType
  <1> QED
    BY <1>1, <1>3, <1>4, <1>5, <1>6, ClearedLane, LeaveStep, LocalTypes, LaneStep

LEMMA ClearConsumedInv == ASSUME IInv, ClearConsumed PROVE IInv'
  <1> USE DEF ClearConsumed, SettledWorker
  <1>1. cur \in Workers
    BY PendingLane DEF AtPending
  <1>2. work.next \in Nat /\ (cur \in rich) \in BOOLEAN
    BY DEF IInv, TypeOK, WorkType
  <1>3. lane' = [lane EXCEPT ![cur] = ClearPending(lane[cur], work.next, cur \in rich)]
    BY <1>1 DEF IInv, TypeOK
  <1>4. pc' \in PcValues /\ todo' \subseteq Workers /\ breaker' \in BreakerType
    BY DEF IInv, TypeOK, PcValues
  <1> QED
    BY <1>1, <1>2, <1>3, <1>4, ClearedLane, LeaveStep, LocalTypes, LaneStep

LEMMA SaveReplacedInv == ASSUME IInv, SaveReplaced PROVE IInv'
  <1> USE DEF SaveReplaced, NextWorker
  <1>1. /\ cur \in Workers /\ lane[cur] \in LaneType(Tx) /\ lane[cur].tx \in Tx
        /\ lane[cur].tx.eoa = cur /\ lane[cur].nonce = lane[cur].tx.nonce + 1
    BY PendingLane DEF AtPending
  <1>2. /\ work.tx \in sent /\ work.tx \in Tx /\ work.next \in Nat
        /\ work.tx.eoa = cur /\ work.tx.nonce = lane[cur].tx.nonce
    BY <1>1 DEF IInv, ControlInv, AtReplace, SameSlot, TypeOK, WorkType
  <1>3. GoodLane(cur, MarkReplaced(lane[cur], work.tx, work.next))
    BY <1>1, <1>2 DEF GoodLane, MarkReplaced, LaneType, LaneStatus
  <1>4. lane' = [lane EXCEPT ![cur] = MarkReplaced(lane[cur], work.tx, work.next)]
    BY <1>1 DEF IInv, TypeOK
  <1>5. pc' \in PcValues /\ todo' \subseteq Workers /\ breaker' \in BreakerType
    BY DEF IInv, TypeOK, PcValues
  <1> QED
    BY <1>1, <1>3, <1>4, <1>5, LeaveStep, LocalTypes, LaneStep

LEMMA SaveSubmittedInv == ASSUME IInv, SaveSubmitted PROVE IInv'
  <1> USE DEF SaveSubmitted
  <1>1. cur \in Workers /\ lane[cur] \in LaneType(Tx)
    BY DEF IInv, ControlInv, TypeOK, AtWorker, PcValues
  <1>2. /\ work.tx \in sent /\ work.tx \in Tx /\ work.tx.eoa = cur
        /\ work.tx.nonce \in Nat /\ work.key \in Key
    <2>1. work.tx \in sent /\ work.tx.eoa = cur /\ work.key \in Key
      BY DEF IInv, ControlInv, AtSubmission
    <2>2. work.tx \in Tx
      BY <2>1 DEF IInv, TypeOK
    <2> QED
      BY <2>1, <2>2, LaneConstants DEF Tx
  <1>3. PICK b \in work.key.block..height :
          lane' = [lane EXCEPT ![cur] = MarkSubmitted(@, work.tx, b)]
    OBVIOUS
  <1>4. b \in Nat
    BY <1>2, LaneConstants DEF Key, IInv, TypeOK
  <1>5. GoodLane(cur, MarkSubmitted(lane[cur], work.tx, b))
    BY <1>1, <1>2, <1>4 DEF GoodLane, MarkSubmitted, LaneType, LaneStatus
  <1>6. lane' = [lane EXCEPT ![cur] = MarkSubmitted(lane[cur], work.tx, b)]
    BY <1>1, <1>3 DEF IInv, TypeOK
  <1>7. ControlInv' /\ pc' # "send" /\ pc' \in PcValues
    <2>1. pc' = "record_pending" /\ UNCHANGED <<cur, work, sent>>
      BY DEF chainVars
    <2> HIDE DEF SaveSubmitted
    <2> QED
      BY <1>1, <1>2, <2>1 DEF ControlInv, AtWorker, AtPending, AtSettle, AtReplace,
         AtFree, AtSubmission, PcValues
  <1>8. todo' \subseteq Workers /\ breaker' \in BreakerType /\ work' \in WorkType
        /\ cur' \in Workers \cup {NoWorker}
    BY DEF IInv, TypeOK
  <1> QED
    BY <1>1, <1>5, <1>6, <1>7, <1>8, LaneStep

LEMMA SaveCooldownInv == ASSUME IInv, SaveCooldown PROVE IInv'
  <1> USE DEF SaveCooldown
  <1>1. cur \in Workers /\ lane[cur] \in LaneType(Tx) /\ lane[cur].tx = NoTx
    BY DEF IInv, ControlInv, TypeOK, AtWorker, AtFree, PcValues, PendingLaneIsBroadcast
  <1>2. GoodLane(cur, MarkCooldown(lane[cur]))
    BY <1>1 DEF GoodLane, MarkCooldown, LaneType, LaneStatus
  <1>3. lane' = [lane EXCEPT ![cur] = MarkCooldown(lane[cur])]
    BY <1>1 DEF IInv, TypeOK
  <1>4. lane'[cur'].status = "Cooldown"
    BY <1>1, <1>3 DEF IInv, TypeOK, MarkCooldown, LaneType
  <1>5. ControlInv' /\ pc' # "send" /\ pc' \in PcValues
    BY <1>4 DEF IInv, ControlInv, AtWorker, AtPending, AtSettle, AtReplace, AtFree,
           AtSubmission, PcValues
  <1>6. todo' \subseteq Workers /\ breaker' \in BreakerType /\ work' \in WorkType
        /\ cur' \in Workers \cup {NoWorker}
    BY DEF IInv, TypeOK
  <1> QED
    BY <1>1, <1>2, <1>3, <1>5, <1>6, LaneStep

\* A broadcast keeps one slot per key if t has the slot of the transactions
\* of its key, and its key was closed before.
LEMMA BroadcastStep ==
  ASSUME IInv, NEW t \in Tx, Broadcast(t), UNCHANGED <<redisVars, pgVars, crashes>>,
         ~ Open(t.key), \A u \in sent : u.key = t.key => SameSlot(t, u),
         UNCHANGED <<phase, breaker, dedup, batch>>,
         todo' \subseteq Workers, cur' \in Workers \cup {NoWorker}, work' \in WorkType,
         pc' \in PcValues, pc' # "send", ControlInv'
  PROVE  IInv'
  <1> USE DEF Broadcast, redisVars, pgVars
  <1>1. TypeOK'
    BY DEF IInv, TypeOK
  <1>2. PendingLaneIsBroadcast'
    BY DEF IInv, PendingLaneIsBroadcast
  <1>3. ChainInv'
    BY DEF IInv, ChainInv, SameSlot
  <1>4. SubmitOncePerKey'
    BY DEF IInv, SubmitOncePerKey, SameSlot
  <1>5. KeyInv'
    BY DEF IInv, KeyInv, Open, LockExpired
  <1> QED
    BY <1>1, <1>2, <1>3, <1>4, <1>5 DEF IInv

LEMMA ReplacementFacts ==
  ASSUME IInv, NEW t \in Tx, Replacement(t), pc = "replace"
  PROVE  /\ cur \in Workers /\ lane[cur].tx \in sent
         /\ SameSlot(t, lane[cur].tx) /\ t.key = lane[cur].tx.key
         /\ ~ Open(t.key) /\ Broadcast(t)
         /\ \A u \in sent : u.key = t.key => SameSlot(t, u)
  <1>1. /\ cur \in Workers /\ lane[cur].tx \in sent /\ lane[cur].tx \in Tx
    BY PendingLane DEF AtPending
  <1>2. SameSlot(t, lane[cur].tx) /\ t.key = lane[cur].tx.key
    BY <1>1 DEF Replacement, SameSlot, Tx
  <1>3. ~ Open(t.key)
    BY <1>1, <1>2 DEF IInv, KeyInv
  <1>4. \A u \in sent : u.key = t.key => SameSlot(t, u)
    BY <1>1, <1>2 DEF IInv, SubmitOncePerKey, SameSlot
  <1> QED
    BY <1>1, <1>2, <1>3, <1>4 DEF Replacement

LEMMA SendReplacementInv ==
  ASSUME IInv, NEW t \in Tx, SendReplacement(t) PROVE IInv'
  <1> USE DEF SendReplacement
  <1>1. /\ cur \in Workers /\ SameSlot(t, lane[cur].tx) /\ t.key = lane[cur].tx.key
        /\ ~ Open(t.key) /\ Broadcast(t)
        /\ \A u \in sent : u.key = t.key => SameSlot(t, u)
    BY ReplacementFacts
  <1>2. height \in Nat
    BY LaneConstants DEF IInv, TypeOK
  <1>3. work' \in WorkType /\ work'.tx = t
    BY <1>2 DEF Work, WorkType
  <1>4. t \in sent'
    BY <1>1 DEF Broadcast
  <1>5. ControlInv' /\ pc' # "send" /\ pc' \in PcValues
    BY <1>1, <1>3, <1>4
    DEF IInv, ControlInv, AtWorker, AtPending, AtSettle, AtReplace, AtFree,
        AtSubmission, PcValues, redisVars, SameSlot
  <1>6. todo' \subseteq Workers /\ cur' \in Workers \cup {NoWorker}
    BY DEF IInv, TypeOK
  <1> QED
    BY <1>1, <1>3, <1>5, <1>6, BroadcastStep

LEMMA SendReplacementLostInv ==
  ASSUME IInv, NEW t \in Tx, SendReplacementLost(t) PROVE IInv'
  <1> USE DEF SendReplacementLost, NextWorker
  <1>1. /\ ~ Open(t.key) /\ Broadcast(t)
        /\ \A u \in sent : u.key = t.key => SameSlot(t, u)
    BY ReplacementFacts
  <1>2. pc' \in PcValues /\ todo' \subseteq Workers
    BY DEF IInv, TypeOK, PcValues
  <1> QED
    BY <1>1, <1>2, LeaveStep, LocalTypes, BroadcastStep

\* What the broadcast of a candidate's transaction starts from.
LEMMA CandidateFacts ==
  ASSUME IInv, NEW t \in Tx, CandidateTx(t), pc = "send"
  PROVE  /\ cur \in Workers /\ lane[cur].status # "Pending" /\ work.key \in Key
         /\ t.eoa = cur /\ t.key = work.key /\ ~ Open(t.key) /\ Broadcast(t)
         /\ \A u \in sent : u.key # t.key
  <1>1. t.eoa = cur /\ t.key = work.key /\ Broadcast(t)
    BY DEF CandidateTx
  <1>2. ~ Open(t.key) /\ \A u \in sent : u.key # t.key
    BY <1>1 DEF IInv, KeyInv
  <1>3. cur \in Workers /\ lane[cur].status # "Pending" /\ work.key \in Key
    BY DEF IInv, ControlInv, AtWorker, AtFree, AtSubmission, PcValues
  <1> QED
    BY <1>1, <1>2, <1>3

LEMMA SendCandidateInv ==
  ASSUME IInv, NEW t \in Tx, SendCandidate(t) PROVE IInv'
  <1> USE DEF SendCandidate
  <1>1. /\ cur \in Workers /\ lane[cur].status # "Pending" /\ work.key \in Key
        /\ t.eoa = cur /\ ~ Open(t.key) /\ Broadcast(t)
        /\ \A u \in sent : u.key = t.key => SameSlot(t, u)
    BY CandidateFacts
  <1>2. work' \in WorkType /\ work'.key = work.key /\ work'.tx = t
    BY <1>1 DEF Work, WorkType
  <1>3. t \in sent'
    BY <1>1 DEF Broadcast
  <1>4. ControlInv' /\ pc' # "send" /\ pc' \in PcValues
    BY <1>1, <1>2, <1>3
    DEF ControlInv, AtWorker, AtPending, AtSettle, AtReplace, AtFree,
        AtSubmission, PcValues, redisVars
  <1>5. todo' \subseteq Workers /\ cur' \in Workers \cup {NoWorker}
    BY DEF IInv, TypeOK
  <1> QED
    BY <1>1, <1>2, <1>4, <1>5, BroadcastStep

LEMMA SendCandidateLostInv ==
  ASSUME IInv, NEW t \in Tx, SendCandidateLost(t) PROVE IInv'
  <1> USE DEF SendCandidateLost
  <1>1. /\ cur \in Workers /\ lane[cur].status # "Pending" /\ work.key \in Key
        /\ ~ Open(t.key) /\ Broadcast(t)
        /\ \A u \in sent : u.key = t.key => SameSlot(t, u)
    BY CandidateFacts
  <1>2. ControlInv' /\ pc' # "send" /\ pc' \in PcValues
    BY <1>1
    DEF ControlInv, AtWorker, AtPending, AtSettle, AtReplace, AtFree,
        AtSubmission, PcValues, redisVars
  <1>3. todo' \subseteq Workers /\ cur' \in Workers \cup {NoWorker}
        /\ work' \in WorkType
    BY DEF IInv, TypeOK
  <1> QED
    BY <1>1, <1>2, <1>3, BroadcastStep
------------------------------------------------------------------------------
(* The theorems *)

LEMMA NextInv == IInv /\ [Next]_vars => IInv'
  <1> SUFFICES ASSUME IInv, [Next]_vars PROVE IInv'
    OBVIOUS
  <1>1. CASE UNCHANGED vars
    BY <1>1 DEF vars, chainVars, redisVars, pgVars, procVars, IInv, TypeOK, ControlInv,
       PendingLaneIsBroadcast, KeyInv, ChainInv, SubmitOncePerKey, Open, LockExpired,
       SameSlot
  <1>2. CASE Chain
    BY <1>2, NewBlockInv, MineInv, EvictInv, ExpireLockInv DEF Chain
  <1>3. CASE Reconcile
    <2>1. ASSUME Bail \/ FundFails PROVE IInv'
      BY <2>1, RestartInv DEF Bail, FundFails, IInv, TypeOK
    <2>2. ASSUME NEW w \in Workers,
                 SkipLane(w) \/ SyncLane(w) \/ NeedFunds(w) \/ PollReceipt(w)
                   \/ SelectWorker(w)
          PROVE  IInv'
      BY <2>2, MovesInv, SyncLaneInv, NeedFundsInv, PollReceiptInv, SelectWorkerInv
      DEF Moves
    <2> QED
      BY <1>3, <2>1, <2>2, MovesInv, FundWorkerInv, SyncFundedInv DEF Reconcile, Moves
  <1>4. CASE Settle
    BY <1>4, RecordSettledInv, ClearConfirmedInv, CheckNonceInv, ClearConsumedInv,
       MovesInv, SendReplacementInv, SendReplacementLostInv, RecordReplacedInv,
       SaveReplacedInv
    DEF Settle, Moves
  <1>5. CASE Submit
    BY <1>5, BatchInv, MovesInv, AcquireLockInv, SendCandidateInv, SendCandidateLostInv,
       SaveSubmittedInv, RecordPendingInv, SaveCooldownInv
    DEF Submit, Moves
  <1>6. CASE Crash
    BY <1>6, RestartInv DEF Crash, IInv, TypeOK
  <1> QED
    BY <1>1, <1>2, <1>3, <1>4, <1>5, <1>6 DEF Next, Manager

\* IInv holds in every reachable state.
LEMMA Invariant == Spec => []IInv
  BY InitInv, NextInv, PTL DEF Spec

\* Every variable keeps its type, whatever the settings and the failures.
THEOREM TypeCorrect == Spec => []TypeOK
  <1>1. IInv => TypeOK
    BY DEF IInv
  <1> QED
    BY <1>1, Invariant, PTL

\* Duplicate submissions are prevented for any number of workers, routes and
\* crashes: two transactions of one execution key always compete for one nonce
\* of one worker.  It rests on the lock outliving the candidate.
THEOREM SubmitOnce == Spec => []SubmitOncePerKey
  <1>1. IInv => SubmitOncePerKey
    BY DEF IInv
  <1> QED
    BY <1>1, Invariant, PTL

\* An execution key is executed on chain at most once.
THEOREM MinedOnce == Spec => []KeyMinedOnce
  <1>1. IInv => KeyMinedOnce
    BY DEF IInv, KeyMinedOnce, ChainInv, SubmitOncePerKey
  <1> QED
    BY <1>1, Invariant, PTL

\* A lane saved as Pending follows a broadcast transaction of its worker, at
\* the nonce before its local nonce; no other lane follows one.
THEOREM PendingLaneSound == Spec => []PendingLaneIsBroadcast
  <1>1. IInv => PendingLaneIsBroadcast
    BY DEF IInv
  <1> QED
    BY <1>1, Invariant, PTL

------------------------------------------------------------------------------
(* What a step may not do *)

\* A submission is under way only while the breaker is not halted.
HaltInv == pc = "send" => ~ breaker.halted

\* The part of HaltLatched about one step.
HaltKept ==
  breaker.halted =>
    /\ breaker'.halted \/ pc' = "boot"
    /\ \A t \in sent' : \E u \in sent : t.key = u.key

LEMMA QuietHalt ==
  ASSUME HaltInv, UNCHANGED <<sent, breaker>>, pc' # "send" \/ pc' = pc
  PROVE  HaltInv' /\ HaltKept
  BY DEF HaltInv, HaltKept

LEMMA HaltChain == IInv /\ HaltInv /\ Chain => HaltInv' /\ HaltKept
  <1> SUFFICES ASSUME HaltInv, Chain PROVE HaltInv' /\ HaltKept
    OBVIOUS
  <1>1. UNCHANGED <<sent, breaker, pc>>
    BY DEF Chain, NewBlock, Mine, Evict, ExpireLock, chainVars, procVars
  <1> QED
    BY <1>1, QuietHalt

LEMMA HaltReconcile == IInv /\ HaltInv /\ Reconcile => HaltInv' /\ HaltKept
  <1> SUFFICES ASSUME IInv, HaltInv, Reconcile PROVE HaltInv' /\ HaltKept
    OBVIOUS
  <1>1. CASE StartupReady
    BY <1>1 DEF StartupReady, HaltInv, HaltKept, FreshBreaker, chainVars
  <1>2. CASE Bail \/ FundFails
    BY <1>2 DEF Bail, FundFails, Restart, HaltInv, HaltKept, chainVars
  <1>3. CASE Boot \/ StartCycle \/ FullPass \/ FundWorker \/ SyncFunded
    BY <1>3, QuietHalt DEF Boot, StartCycle, FullPass, FundWorker, SyncFunded,
       NextWorker, chainVars
  <1>4. ASSUME NEW w \in Workers, SkipLane(w) \/ SyncLane(w) \/ NeedFunds(w)
        PROVE  HaltInv' /\ HaltKept
    BY <1>4, QuietHalt DEF SkipLane, SyncLane, NeedFunds, NextWorker, chainVars
  <1>5. ASSUME NEW w \in Workers, PollReceipt(w) \/ SelectWorker(w)
        PROVE  HaltInv' /\ HaltKept
    BY <1>5, QuietHalt DEF PollReceipt, SelectWorker, chainVars
  <1> QED
    BY <1>1, <1>2, <1>3, <1>4, <1>5 DEF Reconcile

\* A breaker that is halted stays so at the next receipt.
LEMMA ObserveKeeps ==
  ASSUME NEW b, NEW ok, b.halted PROVE Observe(b, ok).halted
  <1> DEFINE n == b.receipts + 1
             s == b.successes + (IF ok THEN 1 ELSE 0)
             halts == b.halted \/ (n >= BreakerMinTxs /\ (s * 10000) \div n < MinSuccessBps)
  <1>1. Observe(b, ok) = [receipts |-> n, successes |-> s, halted |-> halts]
    BY DEF Observe
  <1>2. halts = TRUE
    OBVIOUS
  <1> HIDE DEF n, s, halts
  <1> QED
    BY <1>1, <1>2

LEMMA HaltSettle == IInv /\ HaltInv /\ Settle => HaltInv' /\ HaltKept
  <1> SUFFICES ASSUME IInv, HaltInv, Settle PROVE HaltInv' /\ HaltKept
    OBVIOUS
  <1>1. CASE ClearConfirmed
    <2>1. sent' = sent /\ pc' = "pass" /\ breaker' = Observe(breaker, work.success)
      BY <1>1 DEF ClearConfirmed, SettledWorker, chainVars
    <2>2. breaker.halted => breaker'.halted
      BY <2>1, ObserveKeeps
    <2> QED
      BY <2>1, <2>2 DEF HaltInv, HaltKept
  <1>2. CASE RecordReceipt \/ CheckNonce \/ RecordConsumed \/ ClearConsumed
    BY <1>2, QuietHalt DEF RecordReceipt, CheckNonce, RecordConsumed, ClearConsumed,
       SettledWorker, chainVars
  <1>3. CASE SkipReplacement \/ RecordReplaced \/ RecordReplacement \/ SaveReplaced
    BY <1>3, QuietHalt DEF SkipReplacement, RecordReplaced, RecordReplacement,
       SaveReplaced, NextWorker, chainVars
  <1>4. ASSUME NEW t \in Tx, SendReplacement(t) \/ SendReplacementLost(t)
        PROVE  HaltInv' /\ HaltKept
    <2>1. pc = "replace" /\ Replacement(t) /\ pc' # "send" /\ breaker' = breaker
      BY <1>4 DEF SendReplacement, SendReplacementLost, NextWorker
    <2>2. sent' = sent \cup {t} /\ lane[cur].tx \in sent /\ t.key = lane[cur].tx.key
      BY <2>1, ReplacementFacts DEF Broadcast
    <2> QED
      BY <2>1, <2>2 DEF HaltInv, HaltKept
  <1> QED
    BY <1>1, <1>2, <1>3, <1>4 DEF Settle

LEMMA HaltSubmit == IInv /\ HaltInv /\ Submit => HaltInv' /\ HaltKept
  <1> SUFFICES ASSUME IInv, HaltInv, Submit PROVE HaltInv' /\ HaltKept
    OBVIOUS
  <1>1. ASSUME NEW k, AcquireLock(k) PROVE HaltInv' /\ HaltKept
    BY <1>1 DEF AcquireLock, HaltInv, HaltKept, chainVars
  <1>2. ASSUME NEW t \in Tx, SendCandidate(t) \/ SendCandidateLost(t)
        PROVE  HaltInv' /\ HaltKept
    BY <1>2 DEF SendCandidate, SendCandidateLost, HaltInv, HaltKept
  <1>3. ASSUME NEW k, SkipCandidate(k) PROVE HaltInv' /\ HaltKept
    BY <1>3, QuietHalt DEF SkipCandidate, chainVars
  <1>4. ASSUME NEW B, PopBatch(B) PROVE HaltInv' /\ HaltKept
    BY <1>4, QuietHalt DEF PopBatch, chainVars
  <1>5. CASE EndBatch \/ SendFails \/ SaveSubmitted \/ RecordPending \/ SaveCooldown
             \/ RecordFailed
    BY <1>5, QuietHalt DEF EndBatch, SendFails, SaveSubmitted, RecordPending,
       SaveCooldown, RecordFailed, chainVars
  <1> QED
    BY <1>1, <1>2, <1>3, <1>4, <1>5 DEF Submit

\* The breaker latches: once halted it stays so until main starts again, and no
\* transaction with a new execution key is broadcast.
THEOREM BreakerLatches == Spec => HaltLatched
  <1>1. Init => HaltInv
    BY DEF Init, HaltInv
  <1>2. IInv /\ HaltInv /\ [Next]_vars => HaltInv' /\ HaltKept
    <2> SUFFICES ASSUME IInv, HaltInv, [Next]_vars PROVE HaltInv' /\ HaltKept
      OBVIOUS
    <2>1. CASE UNCHANGED vars
      BY <2>1, QuietHalt DEF vars, chainVars, procVars
    <2>2. CASE Crash
      BY <2>2 DEF Crash, Restart, HaltInv, HaltKept, chainVars
    <2> QED
      BY <2>1, <2>2, HaltChain, HaltReconcile, HaltSettle, HaltSubmit DEF Next, Manager
  <1>3. HaltKept => [breaker.halted =>
                       /\ breaker'.halted \/ pc' = "boot"
                       /\ \A t \in sent' : \E u \in sent : t.key = u.key]_vars
    BY DEF HaltKept
  <1> QED
    BY <1>1, <1>2, <1>3, Invariant, PTL DEF Spec, HaltLatched
------------------------------------------------------------------------------
(* Outcomes are recorded before lanes are cleared *)

HasOutcome(t) == \E r \in rows : r.tx = t /\ r.status # "Pending"

OutcomeInv == pc \in {"clear_confirmed", "clear_consumed"} => HasOutcome(work.tx)

\* The part of SettledLaneHasOutcome about one step.
OutcomeKept ==
  \A w \in Workers :
    lane[w].status = "Pending" /\ lane'[w].status # "Pending"
      => HasOutcome(lane[w].tx)

LEMMA QuietOutcome ==
  ASSUME OutcomeInv, UNCHANGED <<lane, rows>>,
         pc' \notin {"clear_confirmed", "clear_consumed"} \/ UNCHANGED <<pc, work>>
  PROVE  OutcomeInv' /\ OutcomeKept
  BY DEF OutcomeInv, OutcomeKept, HasOutcome

LEMMA OutcomeSettle == IInv /\ OutcomeInv /\ Settle => OutcomeInv' /\ OutcomeKept
  <1> SUFFICES ASSUME IInv, OutcomeInv, Settle PROVE OutcomeInv' /\ OutcomeKept
    OBVIOUS
  <1> USE DEF redisVars, pgVars
  <1>1. CASE RecordReceipt \/ RecordConsumed
    <2>1. UNCHANGED <<lane, work>>
      BY <1>1 DEF RecordReceipt, RecordConsumed
    <2>2. PICK st \in RowStatus : Upsert(work.tx, st) /\ st # "Pending"
      BY <1>1 DEF RecordReceipt, RecordConsumed, RowStatus
    <2>3. [tx |-> work.tx, status |-> st] \in rows'
      BY <2>2 DEF Upsert
    <2>4. HasOutcome(work.tx)'
      BY <2>1, <2>2, <2>3 DEF HasOutcome
    <2> QED
      BY <2>1, <2>4 DEF OutcomeInv, OutcomeKept
  <1>2. CASE ClearConfirmed \/ ClearConsumed
    <2>1. HasOutcome(work.tx) /\ work.tx = lane[cur].tx /\ cur \in Workers
      BY <1>2, PendingLane
      DEF ClearConfirmed, ClearConsumed, OutcomeInv, IInv, ControlInv, AtSettle, AtPending
    <2>2. \A w \in Workers \ {cur} : lane'[w] = lane[w]
      BY <1>2, <2>1 DEF ClearConfirmed, ClearConsumed, IInv, TypeOK
    <2>3. pc' = "pass"
      BY <1>2 DEF ClearConfirmed, ClearConsumed, SettledWorker
    <2> QED
      BY <2>1, <2>2, <2>3 DEF OutcomeInv, OutcomeKept, HasOutcome
  <1>3. CASE RecordReplaced \/ RecordReplacement
    BY <1>3 DEF RecordReplaced, RecordReplacement, OutcomeInv, OutcomeKept, HasOutcome
  <1>4. CASE SaveReplaced
    <2>1. cur \in Workers /\ pc' = "pass"
      BY <1>4, PendingLane DEF SaveReplaced, NextWorker, AtPending
    <2>2. \A w \in Workers : lane'[w] = lane[w] \/ lane'[w].status = "Pending"
      BY <1>4, <2>1 DEF SaveReplaced, MarkReplaced, IInv, TypeOK
    <2> QED
      BY <2>1, <2>2 DEF OutcomeInv, OutcomeKept
  <1>5. CASE CheckNonce \/ SkipReplacement
    BY <1>5, QuietOutcome DEF CheckNonce, SkipReplacement, NextWorker
  <1>6. ASSUME NEW t \in Tx, SendReplacement(t) \/ SendReplacementLost(t)
        PROVE  OutcomeInv' /\ OutcomeKept
    BY <1>6, QuietOutcome DEF SendReplacement, SendReplacementLost, NextWorker
  <1> QED
    BY <1>1, <1>2, <1>3, <1>4, <1>5, <1>6 DEF Settle

LEMMA OutcomeReconcile ==
  IInv /\ OutcomeInv /\ Reconcile => OutcomeInv' /\ OutcomeKept
  <1> SUFFICES ASSUME IInv, OutcomeInv, Reconcile PROVE OutcomeInv' /\ OutcomeKept
    OBVIOUS
  <1> USE DEF redisVars, pgVars
  <1>1. CASE Boot \/ StartupReady \/ StartCycle \/ FullPass \/ FundWorker
    BY <1>1, QuietOutcome DEF Boot, StartupReady, StartCycle, FullPass, FundWorker
  <1>2. CASE Bail \/ FundFails
    BY <1>2, QuietOutcome DEF Bail, FundFails, Restart
  <1>3. ASSUME NEW w \in Workers,
               SkipLane(w) \/ NeedFunds(w) \/ PollReceipt(w) \/ SelectWorker(w)
        PROVE  OutcomeInv' /\ OutcomeKept
    BY <1>3, QuietOutcome DEF SkipLane, NeedFunds, PollReceipt, SelectWorker, NextWorker
  <1>4. ASSUME NEW w \in Workers, SyncLane(w) PROVE OutcomeInv' /\ OutcomeKept
    <2>1. lane[w].status # "Pending" /\ pc' = "pass"
      BY <1>4 DEF SyncLane, NextWorker
    <2>2. \A x \in Workers \ {w} : lane'[x] = lane[x]
      BY <1>4 DEF SyncLane, IInv, TypeOK
    <2> QED
      BY <2>1, <2>2 DEF OutcomeInv, OutcomeKept
  <1>5. CASE SyncFunded
    <2>1. lane[cur].status # "Pending" /\ pc' = "pass"
      BY <1>5 DEF SyncFunded, NextWorker, IInv, ControlInv, AtFree
    <2>2. \A x \in Workers \ {cur} : lane'[x] = lane[x]
      BY <1>5 DEF SyncFunded, IInv, TypeOK
    <2> QED
      BY <2>1, <2>2 DEF OutcomeInv, OutcomeKept
  <1> QED
    BY <1>1, <1>2, <1>3, <1>4, <1>5 DEF Reconcile

LEMMA OutcomeSubmit == IInv /\ OutcomeInv /\ Submit => OutcomeInv' /\ OutcomeKept
  <1> SUFFICES ASSUME IInv, OutcomeInv, Submit PROVE OutcomeInv' /\ OutcomeKept
    OBVIOUS
  <1> USE DEF redisVars, pgVars
  <1>1. CASE SaveSubmitted \/ SaveCooldown
    <2>1. pc' \in {"record_pending", "record_failed"}
      BY <1>1 DEF SaveSubmitted, SaveCooldown
    <2>2. lane[cur].status # "Pending"
      BY <1>1 DEF SaveSubmitted, SaveCooldown, IInv, ControlInv, AtFree
    <2>3. \A w \in Workers \ {cur} : lane'[w] = lane[w]
      BY <1>1 DEF SaveSubmitted, SaveCooldown, IInv, TypeOK
    <2> QED
      BY <2>1, <2>2, <2>3 DEF OutcomeInv, OutcomeKept
  <1>2. CASE RecordPending
    BY <1>2 DEF RecordPending, OutcomeInv, OutcomeKept
  <1>3. CASE EndBatch \/ SendFails \/ RecordFailed
    BY <1>3, QuietOutcome DEF EndBatch, SendFails, RecordFailed
  <1>4. ASSUME NEW t \in Tx, SendCandidate(t) \/ SendCandidateLost(t)
        PROVE  OutcomeInv' /\ OutcomeKept
    BY <1>4, QuietOutcome DEF SendCandidate, SendCandidateLost
  <1>5. ASSUME NEW k, SkipCandidate(k) \/ AcquireLock(k) PROVE OutcomeInv' /\ OutcomeKept
    BY <1>5, QuietOutcome DEF SkipCandidate, AcquireLock
  <1>6. ASSUME NEW B, PopBatch(B) PROVE OutcomeInv' /\ OutcomeKept
    BY <1>6, QuietOutcome DEF PopBatch
  <1> QED
    BY <1>1, <1>2, <1>3, <1>4, <1>5, <1>6 DEF Submit

\* No lane is cleared before the outcome of its transaction is in Postgres,
\* so a crash between the two leaves the lane pending and only repeats them.
THEOREM OutcomeRecorded == Spec => SettledLaneHasOutcome
  <1>1. Init => OutcomeInv
    BY DEF Init, OutcomeInv
  <1>2. IInv /\ OutcomeInv /\ [Next]_vars => OutcomeInv' /\ OutcomeKept
    <2> SUFFICES ASSUME IInv, OutcomeInv, [Next]_vars PROVE OutcomeInv' /\ OutcomeKept
      OBVIOUS
    <2> USE DEF redisVars, pgVars
    <2>1. CASE UNCHANGED vars
      BY <2>1, QuietOutcome DEF vars, procVars
    <2>2. CASE Crash
      BY <2>2, QuietOutcome DEF Crash, Restart
    <2>3. CASE Chain
      <3>1. UNCHANGED <<lane, rows, pc, work>>
        BY <2>3 DEF Chain, NewBlock, Mine, Evict, ExpireLock, procVars
      <3> QED
        BY <3>1, QuietOutcome
    <2> QED
      BY <2>1, <2>2, <2>3, OutcomeReconcile, OutcomeSettle, OutcomeSubmit DEF Next, Manager
  <1>3. OutcomeKept =>
          [\A w \in Workers :
             lane[w].status = "Pending" /\ lane'[w].status # "Pending"
               => \E r \in rows : r.tx = lane[w].tx /\ r.status # "Pending"]_vars
    BY DEF OutcomeKept, HasOutcome
  <1> QED
    BY <1>1, <1>2, <1>3, Invariant, PTL DEF Spec, SettledLaneHasOutcome
------------------------------------------------------------------------------
(* One candidate for each nonce, while the node is reliable *)

Reliable == ~ LostReplies /\ ~ Evictions

\* The worker has sent nothing at this nonce.
Unused(w, n) == \A t \in sent : t.eoa = w => t.nonce # n

\* The process has read the chain for this lane since it started, and sent
\* nothing that the lane does not show.
Synced(w) ==
  /\ pc # "boot" /\ ~ (phase = "startup" /\ w \in todo)
  /\ ~ (pc = "save_submitted" /\ w = cur)

\* Steps between two passes, and steps with a nonce read earlier.
AtBatch == {"idle", "pop", "submit", "send", "save_submitted", "record_pending",
            "save_cooldown", "record_failed"}
AtConsumed == {"record_consumed", "clear_consumed"}

\* Nothing sent is forgotten by the node before it is mined.
Remembered == \A t \in sent : t.nonce >= confirmed[t.eoa] => \E u \in pool : SameSlot(t, u)

SlotInv ==
  /\ NonceExclusive /\ Remembered
  /\ pc = "boot" => phase = "startup"
  /\ pc \in AtBatch => todo = {}
  /\ pc \in AtConsumed => Unused(cur, work.next)
  /\ \A w \in Workers : lane[w].status # "Pending" /\ Synced(w) => Unused(w, lane[w].nonce)

\* A pending count is a nonce that nothing was sent at.
LEMMA CountUnused ==
  ASSUME Remembered, NEW w, NEW n, IsPendingCount(w, n) PROVE Unused(w, n)
  BY DEF Remembered, IsPendingCount, Unused, SameSlot

LEMMA SlotInit == Init => SlotInv
  BY DEF Init, SlotInv, NonceExclusive, Remembered, AtBatch, AtConsumed, Unused

\* A step that sends and mines nothing.
LEMMA SlotQuiet ==
  ASSUME SlotInv, UNCHANGED <<sent, pool, confirmed>>,
         pc' = "boot" => phase' = "startup", pc' \in AtBatch => todo' = {},
         pc' \in AtConsumed => Unused(cur', work'.next),
         \A w \in Workers :
           lane'[w].status # "Pending" /\ Synced(w)' => Unused(w, lane'[w].nonce)
  PROVE  SlotInv'
  BY DEF SlotInv, NonceExclusive, Remembered, SameSlot, Unused

\* It saves no lane either.
LEMMA SlotMove ==
  ASSUME SlotInv, UNCHANGED <<sent, pool, confirmed, lane>>,
         pc' = "boot" => phase' = "startup", pc' \in AtBatch => todo' = {},
         pc' \notin AtConsumed,
         \A w \in Workers : lane[w].status # "Pending" /\ Synced(w)' => Synced(w)
  PROVE  SlotInv'
  BY SlotQuiet DEF SlotInv

\* It saves the lane of w.
LEMMA SlotSave ==
  ASSUME SlotInv, TypeOK, NEW w \in Workers, NEW l, lane' = [lane EXCEPT ![w] = l],
         UNCHANGED <<sent, pool, confirmed>>,
         pc' # "boot", pc' \notin AtConsumed, pc' \in AtBatch => todo' = {},
         l.status # "Pending" => Unused(w, l.nonce),
         \A x \in Workers \ {w} : Synced(x)' => Synced(x)
  PROVE  SlotInv'
  <1>1. lane'[w] = l /\ \A x \in Workers \ {w} : lane'[x] = lane[x]
    BY DEF TypeOK
  <1> QED
    BY <1>1, SlotQuiet DEF SlotInv

LEMMA SlotChain == ASSUME Reliable, IInv, SlotInv, Chain PROVE SlotInv'
  <1> USE DEF redisVars, pgVars, procVars, chainVars
  <1>1. CASE NewBlock \/ \E k \in locks : ExpireLock(k)
    <2>1. UNCHANGED <<sent, pool, confirmed, lane, pc, phase, todo, cur, work>>
      BY <1>1 DEF NewBlock, ExpireLock
    <2> QED
      BY <2>1 DEF SlotInv, NonceExclusive, Remembered, SameSlot, Unused, Synced
  <1>2. ASSUME NEW t \in pool, Evict(t) PROVE FALSE
    BY <1>2 DEF Evict, Reliable
  <1>3. ASSUME NEW t \in sent, Mine(t) PROVE SlotInv'
    <2>1. UNCHANGED <<sent, lane, pc, phase, todo, cur, work>>
      BY <1>3 DEF Mine
    <2>2. Remembered'
      <3> SUFFICES ASSUME NEW u \in sent, u.nonce >= confirmed'[u.eoa]
                   PROVE  \E v \in pool' : SameSlot(u, v)
        BY <2>1 DEF Remembered, SameSlot
      <3>1. t \in Tx /\ u \in Tx /\ t.eoa \in Workers /\ u.eoa \in Workers
            /\ t.nonce \in Nat /\ u.nonce \in Nat
        BY LaneConstants DEF IInv, TypeOK, Tx
      <3>2. /\ confirmed'[u.eoa] = IF u.eoa = t.eoa THEN confirmed[u.eoa] + 1
                                   ELSE confirmed[u.eoa]
            /\ confirmed[u.eoa] \in Nat /\ t.nonce = confirmed[t.eoa]
        BY <1>3, <3>1 DEF Mine, IInv, TypeOK
      <3>3. ~ SameSlot(t, u) /\ u.nonce >= confirmed[u.eoa]
        BY <3>1, <3>2 DEF SameSlot
      <3>4. PICK v \in pool : SameSlot(u, v)
        BY <3>3 DEF SlotInv, Remembered
      <3>5. v \in pool'
        BY <1>3, <3>3, <3>4 DEF Mine, SameSlot
      <3> QED
        BY <3>4, <3>5
    <2> QED
      BY <2>1, <2>2 DEF SlotInv, NonceExclusive, SameSlot, Unused, Synced
  <1> QED
    BY <1>1, <1>2, <1>3 DEF Chain

LEMMA SlotReconcile == ASSUME IInv, SlotInv, Reconcile PROVE SlotInv'
  <1> USE DEF redisVars, pgVars, chainVars
  <1>1. CASE Boot
    BY <1>1, SlotMove DEF Boot, SlotInv, Synced, AtBatch, AtConsumed
  <1>2. CASE StartupReady
    BY <1>2, SlotMove DEF StartupReady, Synced, AtConsumed
  <1>3. CASE StartCycle
    BY <1>3, SlotMove DEF StartCycle, SlotInv, Synced, AtBatch, AtConsumed
  <1>4. CASE FullPass
    BY <1>4, SlotMove DEF FullPass, PassOver, Synced, AtBatch, AtConsumed
  <1>5. CASE Bail \/ FundFails
    BY <1>5, SlotMove DEF Bail, FundFails, Restart, Synced, AtBatch, AtConsumed
  <1>6. CASE FundWorker
    BY <1>6, SlotMove DEF FundWorker, Synced, AtBatch, AtConsumed
  <1>7. ASSUME NEW w \in Workers, SkipLane(w) PROVE SlotInv'
    BY <1>7, SlotMove DEF SkipLane, NextWorker, Synced, AtBatch, AtConsumed
  <1>8. ASSUME NEW w \in Workers, NeedFunds(w) \/ PollReceipt(w) PROVE SlotInv'
    BY <1>8, SlotMove DEF NeedFunds, PollReceipt, Synced, AtBatch, AtConsumed
  <1>9. ASSUME NEW w \in Workers, SelectWorker(w) PROVE SlotInv'
    BY <1>9, SlotMove DEF SelectWorker, PassOver, Synced, AtConsumed
  <1>10. ASSUME NEW w \in Workers, SyncLane(w) PROVE SlotInv'
    <2>1. PICK n \in 0..(MaxNonce + 1) :
            IsPendingCount(w, n) /\ lane' = [lane EXCEPT ![w] = SyncIdle(@, n, TRUE)]
      BY <1>10 DEF SyncLane
    <2>2. lane' = [lane EXCEPT ![w] = SyncIdle(lane[w], n, TRUE)]
      BY <2>1 DEF IInv, TypeOK
    <2>3. Unused(w, SyncIdle(lane[w], n, TRUE).nonce)
      BY <2>1, CountUnused DEF SlotInv, SyncIdle
    <2>4. /\ UNCHANGED <<sent, pool, confirmed, phase>>
          /\ pc = "pass" /\ pc' = "pass" /\ todo' = todo \ {w}
      BY <1>10 DEF SyncLane, NextWorker
    <2> QED
      BY <2>2, <2>3, <2>4, SlotSave DEF IInv, Synced, AtBatch, AtConsumed
  <1>11. CASE SyncFunded
    <2>1. PICK n \in 0..(MaxNonce + 1) :
            /\ IsPendingCount(cur, n)
            /\ lane' = [lane EXCEPT ![cur] = SyncIdle(@, n, cur \in rich)]
      BY <1>11 DEF SyncFunded
    <2>2. cur \in Workers
      BY <1>11 DEF SyncFunded, IInv, ControlInv, AtWorker, PcValues
    <2>3. lane' = [lane EXCEPT ![cur] = SyncIdle(lane[cur], n, cur \in rich)]
      BY <2>1, <2>2 DEF IInv, TypeOK
    <2>4. Unused(cur, SyncIdle(lane[cur], n, cur \in rich).nonce)
      BY <2>1, CountUnused DEF SlotInv, SyncIdle
    <2>5. /\ UNCHANGED <<sent, pool, confirmed, phase>>
          /\ pc = "sync_funded" /\ pc' = "pass" /\ todo' = todo \ {cur}
      BY <1>11 DEF SyncFunded, NextWorker
    <2> QED
      BY <2>2, <2>3, <2>4, <2>5, SlotSave DEF IInv, Synced, AtBatch, AtConsumed
  <1> QED
    BY <1>1, <1>2, <1>3, <1>4, <1>5, <1>6, <1>7, <1>8, <1>9, <1>10, <1>11 DEF Reconcile

\* A broadcast, at a slot in use or at the slot of a worker that is not judged next.
LEMMA SlotBroadcast ==
  ASSUME SlotInv, IInv, NEW t \in Tx, Broadcast(t), UNCHANGED lane,
         \A u \in sent : SameSlot(t, u) => u.key = t.key,
         pc' \notin AtConsumed, pc' # "boot", pc' \in AtBatch => todo' = {},
         \A w \in Workers : lane[w].status # "Pending" /\ Synced(w)' =>
           Synced(w) /\ (t.eoa = w => \E u \in sent : SameSlot(t, u))
  PROVE  SlotInv'
  <1> USE DEF Broadcast
  <1>1. NonceExclusive'
    BY DEF SlotInv, NonceExclusive, SameSlot
  <1>2. Remembered'
    <2> SUFFICES ASSUME NEW u \in sent', u.nonce >= confirmed[u.eoa]
                 PROVE  \E v \in pool' : SameSlot(u, v)
      BY DEF Remembered, SameSlot
    <2>1. CASE SameSlot(u, t)
      BY <2>1
    <2>2. CASE ~ SameSlot(u, t)
      <3>1. u \in sent
        BY <2>2 DEF SameSlot
      <3>2. PICK v \in pool : SameSlot(u, v)
        BY <3>1 DEF SlotInv, Remembered
      <3>3. ~ SameSlot(t, v)
        BY <2>2, <3>2 DEF SameSlot
      <3> QED
        BY <3>2, <3>3
    <2> QED
      BY <2>1, <2>2
  <1>3. ASSUME NEW w \in Workers, lane[w].status # "Pending", Synced(w)'
        PROVE  Unused(w, lane[w].nonce)'
    BY <1>3 DEF SlotInv, Unused, SameSlot
  <1> QED
    BY <1>1, <1>2, <1>3 DEF SlotInv

LEMMA SlotReplace ==
  ASSUME IInv, SlotInv, NEW t \in Tx, SendReplacement(t) \/ SendReplacementLost(t)
  PROVE  SlotInv'
  <1>1. pc = "replace" /\ Replacement(t) /\ UNCHANGED <<lane, phase>>
    BY DEF SendReplacement, SendReplacementLost, redisVars
  <1>2. /\ cur \in Workers /\ lane[cur].tx \in sent /\ SameSlot(t, lane[cur].tx)
        /\ t.key = lane[cur].tx.key /\ Broadcast(t)
    BY <1>1, ReplacementFacts
  <1>3. lane[cur].status = "Pending"
    BY <1>1 DEF IInv, ControlInv, AtPending
  <1>4. \A u \in sent : SameSlot(t, u) => u.key = t.key
    BY <1>2 DEF SlotInv, NonceExclusive, SameSlot
  <1>5. \/ pc' = "record_replaced" /\ todo' = todo
        \/ pc' = "pass" /\ todo' = todo \ {cur}
    BY DEF SendReplacement, SendReplacementLost, NextWorker
  <1>6. \A w \in Workers : lane[w].status # "Pending" /\ Synced(w)' => Synced(w)
    BY <1>1, <1>3, <1>5 DEF Synced
  <1> QED
    BY <1>1, <1>2, <1>4, <1>5, <1>6, SlotBroadcast DEF AtConsumed, AtBatch

LEMMA SlotSettle == ASSUME IInv, SlotInv, Settle PROVE SlotInv'
  <1> USE DEF redisVars, pgVars, chainVars
  <1>1. CASE RecordReceipt \/ RecordReplaced \/ RecordReplacement
    BY <1>1, SlotMove DEF RecordReceipt, RecordReplaced, RecordReplacement, Synced,
       AtBatch, AtConsumed
  <1>2. CASE SkipReplacement
    <2>1. lane[cur].status = "Pending"
      BY <1>2 DEF SkipReplacement, IInv, ControlInv, AtPending
    <2>2. /\ UNCHANGED <<sent, pool, confirmed, lane, phase>>
          /\ pc = "replace" /\ pc' = "pass" /\ todo' = todo \ {cur}
      BY <1>2 DEF SkipReplacement, NextWorker
    <2> QED
      BY <2>1, <2>2, SlotMove DEF Synced, AtBatch, AtConsumed
  <1>3. CASE CheckNonce
    <2>1. UNCHANGED <<sent, pool, confirmed, lane, cur, phase, todo>> /\ pc = "check_nonce"
      BY <1>3 DEF CheckNonce
    <2>2. CASE pc' = "replace"
      BY <2>1, <2>2, SlotMove DEF Synced, AtBatch, AtConsumed
    <2>3. CASE pc' = "record_consumed"
      <3>1. PICK n \in 0..(MaxNonce + 1) :
              IsPendingCount(cur, n) /\ work' = Work(lane[cur].tx, NoKey, n, FALSE)
        BY <1>3, <2>3 DEF CheckNonce
      <3>2. Unused(cur', work'.next)
        BY <2>1, <3>1, CountUnused DEF SlotInv, Work
      <3>3. \A w \in Workers : Synced(w)' => Synced(w)
        BY <2>1, <2>3 DEF Synced
      <3> QED
        BY <2>1, <2>3, <3>2, <3>3, SlotQuiet DEF SlotInv, AtBatch
    <2> QED
      BY <1>3, <2>2, <2>3 DEF CheckNonce
  <1>4. CASE RecordConsumed
    <2>1. /\ UNCHANGED <<sent, pool, confirmed, lane, cur, phase, todo, work>>
          /\ pc = "record_consumed" /\ pc' = "clear_consumed"
      BY <1>4 DEF RecordConsumed
    <2>2. Unused(cur', work'.next)
      BY <2>1 DEF SlotInv, AtConsumed
    <2>3. \A w \in Workers : Synced(w)' => Synced(w)
      BY <2>1 DEF Synced
    <2> QED
      BY <2>1, <2>2, <2>3, SlotQuiet DEF SlotInv, AtBatch
  <1>5. CASE ClearConfirmed
    <2>1. cur \in Workers
      BY <1>5, PendingLane DEF ClearConfirmed, AtPending
    <2>2. PICK n \in 0..(MaxNonce + 1) :
            /\ IsPendingCount(cur, n)
            /\ lane' = [lane EXCEPT ![cur] = ClearPending(@, n, cur \in rich)]
      BY <1>5 DEF ClearConfirmed
    <2>3. lane' = [lane EXCEPT ![cur] = ClearPending(lane[cur], n, cur \in rich)]
      BY <2>1, <2>2 DEF IInv, TypeOK
    <2>4. Unused(cur, ClearPending(lane[cur], n, cur \in rich).nonce)
      BY <2>2, CountUnused DEF SlotInv, ClearPending
    <2>5. /\ UNCHANGED <<sent, pool, confirmed, phase>> /\ pc = "clear_confirmed"
          /\ pc' = "pass" /\ todo' = IF phase = "poll" THEN todo \ {cur} ELSE todo
      BY <1>5 DEF ClearConfirmed, SettledWorker
    <2>6. \A x \in Workers \ {cur} : Synced(x)' => Synced(x)
      BY <2>5 DEF Synced
    <2> QED
      BY <2>1, <2>3, <2>4, <2>5, <2>6, SlotSave DEF IInv, AtBatch, AtConsumed
  <1>6. CASE ClearConsumed
    <2>1. cur \in Workers
      BY <1>6, PendingLane DEF ClearConsumed, AtPending
    <2>2. lane' = [lane EXCEPT ![cur] = ClearPending(lane[cur], work.next, cur \in rich)]
      BY <1>6, <2>1 DEF ClearConsumed, IInv, TypeOK
    <2>3. Unused(cur, ClearPending(lane[cur], work.next, cur \in rich).nonce)
      BY <1>6 DEF ClearConsumed, SlotInv, ClearPending, AtConsumed
    <2>4. /\ UNCHANGED <<sent, pool, confirmed, phase>> /\ pc = "clear_consumed"
          /\ pc' = "pass" /\ todo' = IF phase = "poll" THEN todo \ {cur} ELSE todo
      BY <1>6 DEF ClearConsumed, SettledWorker
    <2>5. \A x \in Workers \ {cur} : Synced(x)' => Synced(x)
      BY <2>4 DEF Synced
    <2> QED
      BY <2>1, <2>2, <2>3, <2>4, <2>5, SlotSave DEF IInv, AtBatch, AtConsumed
  <1>7. CASE SaveReplaced
    <2>1. cur \in Workers
      BY <1>7, PendingLane DEF SaveReplaced, AtPending
    <2>2. lane' = [lane EXCEPT ![cur] = MarkReplaced(lane[cur], work.tx, work.next)]
      BY <1>7, <2>1 DEF SaveReplaced, IInv, TypeOK
    <2>3. MarkReplaced(lane[cur], work.tx, work.next).status = "Pending"
      BY DEF MarkReplaced
    <2>4. /\ UNCHANGED <<sent, pool, confirmed, phase>> /\ pc = "save_replaced"
          /\ pc' = "pass" /\ todo' = todo \ {cur}
      BY <1>7 DEF SaveReplaced, NextWorker
    <2>5. \A x \in Workers \ {cur} : Synced(x)' => Synced(x)
      BY <2>4 DEF Synced
    <2> QED
      BY <2>1, <2>2, <2>3, <2>4, <2>5, SlotSave DEF IInv, AtBatch, AtConsumed
  <1> QED
    BY <1>1, <1>2, <1>3, <1>4, <1>5, <1>6, <1>7, SlotReplace DEF Settle

LEMMA SlotSubmit == ASSUME Reliable, IInv, SlotInv, Submit PROVE SlotInv'
  <1> USE DEF redisVars, pgVars, chainVars
  <1>1. CASE EndBatch \/ SendFails \/ RecordPending \/ RecordFailed
    BY <1>1, SlotMove DEF EndBatch, SendFails, RecordPending, RecordFailed, SlotInv, Synced,
       AtBatch, AtConsumed
  <1>2. ASSUME NEW B, PopBatch(B) PROVE SlotInv'
    BY <1>2, SlotMove DEF PopBatch, SlotInv, Synced, AtBatch, AtConsumed
  <1>3. ASSUME NEW k, SkipCandidate(k) \/ AcquireLock(k) PROVE SlotInv'
    BY <1>3, SlotMove DEF SkipCandidate, AcquireLock, SlotInv, Synced, AtBatch, AtConsumed
  <1>4. CASE SaveSubmitted
    <2>1. cur \in Workers
      BY <1>4 DEF SaveSubmitted, IInv, ControlInv, AtWorker, PcValues
    <2>2. PICK b \in work.key.block..height :
            lane' = [lane EXCEPT ![cur] = MarkSubmitted(@, work.tx, b)]
      BY <1>4 DEF SaveSubmitted
    <2>3. lane' = [lane EXCEPT ![cur] = MarkSubmitted(lane[cur], work.tx, b)]
      BY <2>1, <2>2 DEF IInv, TypeOK
    <2>4. MarkSubmitted(lane[cur], work.tx, b).status = "Pending"
      BY DEF MarkSubmitted
    <2>5. /\ UNCHANGED <<sent, pool, confirmed, phase, todo, cur>> /\ pc = "save_submitted"
          /\ pc' = "record_pending"
      BY <1>4 DEF SaveSubmitted
    <2>6. \A x \in Workers \ {cur} : Synced(x)' => Synced(x)
      BY <2>5 DEF Synced
    <2>7. todo' = {}
      BY <2>5 DEF SlotInv, AtBatch
    <2> QED
      BY <2>1, <2>3, <2>4, <2>5, <2>6, <2>7, SlotSave DEF IInv, AtConsumed
  <1>5. CASE SaveCooldown
    <2>1. cur \in Workers /\ lane[cur].status # "Pending"
      BY <1>5 DEF SaveCooldown, IInv, ControlInv, AtWorker, AtFree, PcValues
    <2>2. lane' = [lane EXCEPT ![cur] = MarkCooldown(lane[cur])]
      BY <1>5, <2>1 DEF SaveCooldown, IInv, TypeOK
    <2>3. /\ UNCHANGED <<sent, pool, confirmed, phase, todo, cur>> /\ pc = "save_cooldown"
          /\ pc' = "record_failed" /\ todo = {}
      BY <1>5 DEF SaveCooldown, SlotInv, AtBatch
    <2>4. Unused(cur, MarkCooldown(lane[cur]).nonce)
      BY <2>1, <2>3 DEF SlotInv, Synced, MarkCooldown
    <2>5. \A x \in Workers \ {cur} : Synced(x)' => Synced(x)
      BY <2>3 DEF Synced
    <2> QED
      BY <2>1, <2>2, <2>3, <2>4, <2>5, SlotSave DEF IInv, AtConsumed
  <1>6. ASSUME NEW t \in Tx, SendCandidate(t) PROVE SlotInv'
    <2>1. /\ pc = "send" /\ CandidateTx(t) /\ pc' = "save_submitted"
          /\ UNCHANGED <<lane, phase, todo, cur>>
      BY <1>6 DEF SendCandidate
    <2>2. /\ cur \in Workers /\ lane[cur].status # "Pending" /\ t.eoa = cur /\ Broadcast(t)
          /\ t.nonce = lane[cur].nonce
      BY <2>1, CandidateFacts DEF CandidateTx
    <2>3. todo = {}
      BY <2>1 DEF SlotInv, AtBatch
    <2>4. Unused(cur, t.nonce)
      BY <2>1, <2>2, <2>3 DEF SlotInv, Synced
    <2>5. \A u \in sent : ~ SameSlot(t, u)
      BY <2>2, <2>4 DEF Unused, SameSlot
    <2>6. \A w \in Workers : Synced(w)' => Synced(w) /\ t.eoa # w
      BY <2>1, <2>2 DEF Synced
    <2> QED
      BY <2>1, <2>2, <2>3, <2>5, <2>6, SlotBroadcast DEF AtConsumed
  <1>7. ASSUME NEW t \in Tx, SendCandidateLost(t) PROVE FALSE
    BY <1>7 DEF SendCandidateLost, Reliable
  <1> QED
    BY <1>1, <1>2, <1>3, <1>4, <1>5, <1>6, <1>7 DEF Submit

LEMMA SlotStep == Reliable /\ IInv /\ SlotInv /\ [Next]_vars => SlotInv'
  <1> SUFFICES ASSUME Reliable, IInv, SlotInv, [Next]_vars PROVE SlotInv'
    OBVIOUS
  <1>1. CASE UNCHANGED vars
    BY <1>1 DEF vars, chainVars, redisVars, procVars, SlotInv, NonceExclusive, Remembered,
       SameSlot, Unused, Synced
  <1>2. CASE Crash
    BY <1>2, SlotMove DEF Crash, Restart, Synced, AtBatch, AtConsumed, chainVars, redisVars
  <1> QED
    BY <1>1, <1>2, SlotChain, SlotReconcile, SlotSettle, SlotSubmit DEF Next, Manager

\* Two candidates never compete for one nonce of one worker while the node neither
\* loses an answer nor drops a transaction, whatever crashes: every lane that is not
\* pending is read from the chain before it is used (sync_idle_lane, mark_confirmed).
THEOREM NoncesExclusive == Reliable => (Spec => []NonceExclusive)
  <1> SUFFICES ASSUME Reliable PROVE Spec => []NonceExclusive
    OBVIOUS
  <1>1. Init => SlotInv
    BY SlotInit
  <1>2. IInv /\ SlotInv /\ [Next]_vars => SlotInv'
    BY SlotStep
  <1>3. SlotInv => NonceExclusive
    BY DEF SlotInv
  <1> QED
    BY <1>1, <1>2, <1>3, Invariant, PTL DEF Spec
------------------------------------------------------------------------------
(* Rows that wait are followed, before the first crash *)

\* Steps at which the row of the lane's transaction has its outcome already, and the
\* lane has still to be saved.
AtRewritten == {"clear_confirmed", "clear_consumed", "record_replacement", "save_replaced"}

\* A lane, or the replacement that is about to be saved, stands for this transaction.
Followed(t) ==
  \/ \E w \in Workers : lane[w].tx = t /\ ~ (pc \in AtRewritten /\ w = cur)
  \/ pc = "save_replaced" /\ t = work.tx

RowInv ==
  /\ pc = "record_pending" => lane[cur].tx = work.tx
  /\ crashes = 0 => \A r \in rows : r.status = "Pending" => Followed(r.tx)

\* A step that saves no lane and no row.
LEMMA RowMove ==
  ASSUME RowInv, UNCHANGED <<lane, rows, crashes>>,
         pc \notin AtRewritten, pc' \notin AtRewritten, pc' # "record_pending"
  PROVE  RowInv'
  BY DEF RowInv, Followed, AtRewritten

\* A lane l in the place of the lane of w loses no transaction that is followed.
Inherits(w, l) ==
  \A r \in rows :
    Followed(r.tx) => l.tx = r.tx \/ \E x \in Workers \ {w} : lane[x].tx = r.tx

\* A step that saves the lane of w as l: what it followed has its outcome, or l follows it.
LEMMA RowSave ==
  ASSUME RowInv, TypeOK, NEW w \in Workers, NEW l, lane' = [lane EXCEPT ![w] = l],
         UNCHANGED <<rows, crashes>>, pc' \notin AtRewritten,
         pc' = "record_pending" => cur' = w /\ l.tx = work'.tx,
         Inherits(w, l)
  PROVE  RowInv'
  <1>1. lane'[w] = l /\ \A x \in Workers \ {w} : lane'[x] = lane[x]
    BY DEF TypeOK
  <1> QED
    BY <1>1 DEF RowInv, Followed, Inherits

\* A step that records an outcome of the transaction that the lane of cur follows.
LEMMA RowOutcome ==
  ASSUME RowInv, NEW s, s # "Pending", NEW t, t = lane[cur].tx, Upsert(t, s),
         UNCHANGED <<lane, crashes, cur>>, pc \notin AtRewritten, pc' # "record_pending"
  PROVE  RowInv'
  <1> SUFFICES ASSUME crashes = 0, NEW r \in rows', r.status = "Pending"
               PROVE  Followed(r.tx)'
    BY DEF RowInv
  <1>1. r \in rows /\ r.tx # lane[cur].tx
    BY DEF Upsert
  <1>2. PICK w \in Workers : lane[w].tx = r.tx
    BY <1>1 DEF RowInv, Followed, AtRewritten
  <1> QED
    BY <1>1, <1>2 DEF Followed

LEMMA RowReconcile == ASSUME IInv, RowInv, Reconcile PROVE RowInv'
  <1> USE DEF redisVars, pgVars, AtRewritten
  <1>1. CASE Boot \/ StartupReady \/ StartCycle \/ FullPass \/ FundWorker
    BY <1>1, RowMove DEF Boot, StartupReady, StartCycle, FullPass, PassOver, FundWorker
  <1>2. CASE Bail \/ FundFails
    BY <1>2, RowMove DEF Bail, PassOver, FundFails, Restart
  <1>3. ASSUME NEW w \in Workers,
               SkipLane(w) \/ NeedFunds(w) \/ PollReceipt(w) \/ SelectWorker(w)
        PROVE  RowInv'
    BY <1>3, RowMove DEF SkipLane, NeedFunds, PollReceipt, SelectWorker, PassOver, NextWorker
  <1>4. ASSUME NEW w \in Workers, SyncLane(w) PROVE RowInv'
    <2>1. PICK n \in 0..(MaxNonce + 1) : lane' = [lane EXCEPT ![w] = SyncIdle(@, n, TRUE)]
      BY <1>4 DEF SyncLane
    <2>0. PICK new : new = SyncIdle(lane[w], n, TRUE)
      OBVIOUS
    <2>2. lane' = [lane EXCEPT ![w] = new]
      BY <2>0, <2>1 DEF IInv, TypeOK
    <2>3. new.tx = lane[w].tx
      BY <2>0 DEF SyncIdle
    <2>4. UNCHANGED <<rows, crashes>> /\ pc \notin AtRewritten
          /\ pc' \notin AtRewritten /\ pc' # "record_pending"
      BY <1>4 DEF SyncLane, NextWorker
    <2>5. Inherits(w, new)
      BY <2>3, <2>4 DEF Followed, Inherits
    <2> QED
      BY <2>2, <2>4, <2>5, RowSave DEF IInv
  <1>5. CASE SyncFunded
    <2>1. cur \in Workers
      BY <1>5 DEF SyncFunded, IInv, ControlInv, AtWorker, PcValues
    <2>2. PICK n \in 0..(MaxNonce + 1) :
            lane' = [lane EXCEPT ![cur] = SyncIdle(@, n, cur \in rich)]
      BY <1>5 DEF SyncFunded
    <2>0. PICK new : new = SyncIdle(lane[cur], n, cur \in rich)
      OBVIOUS
    <2>3. lane' = [lane EXCEPT ![cur] = new]
      BY <2>0, <2>1, <2>2 DEF IInv, TypeOK
    <2>4. new.tx = lane[cur].tx
      BY <2>0 DEF SyncIdle
    <2>5. UNCHANGED <<rows, crashes>> /\ pc \notin AtRewritten
          /\ pc' \notin AtRewritten /\ pc' # "record_pending"
      BY <1>5 DEF SyncFunded, NextWorker
    <2>6. Inherits(cur, new)
      BY <2>4, <2>5 DEF Followed, Inherits
    <2> QED
      BY <2>1, <2>3, <2>5, <2>6, RowSave DEF IInv
  <1> QED
    BY <1>1, <1>2, <1>3, <1>4, <1>5 DEF Reconcile

LEMMA RowSettle == ASSUME IInv, RowInv, Settle PROVE RowInv'
  <1> USE DEF redisVars, pgVars, AtRewritten
  <1>1. CASE RecordReceipt \/ RecordConsumed
    <2>1. work.tx = lane[cur].tx /\ pc \notin AtRewritten
      BY <1>1 DEF RecordReceipt, RecordConsumed, IInv, ControlInv, AtSettle
    <2>2. UNCHANGED <<lane, crashes, cur>> /\ pc' # "record_pending"
      BY <1>1 DEF RecordReceipt, RecordConsumed
    <2>3. \E s : s # "Pending" /\ Upsert(work.tx, s)
      BY <1>1 DEF RecordReceipt, RecordConsumed
    <2> QED
      BY <2>1, <2>2, <2>3, RowOutcome
  <1>2. CASE RecordReplaced
    BY <1>2, RowOutcome DEF RecordReplaced
  <1>3. CASE RecordReplacement
    <2>1. /\ Upsert(work.tx, "Pending") /\ UNCHANGED <<lane, crashes, cur, work>>
          /\ pc = "record_replacement" /\ pc' = "save_replaced"
      BY <1>3 DEF RecordReplacement
    <2> SUFFICES ASSUME crashes = 0, NEW r \in rows', r.status = "Pending"
                 PROVE  Followed(r.tx)'
      BY <2>1 DEF RowInv
    <2>2. CASE r.tx = work.tx
      BY <2>1, <2>2 DEF Followed
    <2>3. CASE r.tx # work.tx
      <3>1. r \in rows
        BY <2>1, <2>3 DEF Upsert
      <3> QED
        BY <2>1, <3>1 DEF RowInv, Followed
    <2> QED
      BY <2>2, <2>3
  <1>4. CASE ClearConfirmed \/ ClearConsumed
    <2>1. cur \in Workers
      BY <1>4, PendingLane DEF ClearConfirmed, ClearConsumed, AtPending
    <2>2. PICK l : lane' = [lane EXCEPT ![cur] = l]
      BY <1>4, <2>1 DEF ClearConfirmed, ClearConsumed, IInv, TypeOK
    <2>3. UNCHANGED <<rows, crashes>> /\ pc \in {"clear_confirmed", "clear_consumed"}
          /\ pc' = "pass"
      BY <1>4 DEF ClearConfirmed, ClearConsumed, SettledWorker
    <2>4. Inherits(cur, l)
      BY <2>3 DEF Followed, Inherits
    <2> QED
      BY <2>1, <2>2, <2>3, <2>4, RowSave DEF IInv
  <1>5. CASE SaveReplaced
    <2>1. cur \in Workers
      BY <1>5, PendingLane DEF SaveReplaced, AtPending
    <2>0. PICK new : new = MarkReplaced(lane[cur], work.tx, work.next)
      OBVIOUS
    <2>2. lane' = [lane EXCEPT ![cur] = new]
      BY <1>5, <2>0, <2>1 DEF SaveReplaced, IInv, TypeOK
    <2>3. new.tx = work.tx
      BY <2>0 DEF MarkReplaced
    <2>4. UNCHANGED <<rows, crashes>> /\ pc = "save_replaced"
          /\ pc' \notin AtRewritten /\ pc' # "record_pending"
      BY <1>5 DEF SaveReplaced, NextWorker
    <2>5. Inherits(cur, new)
      BY <2>3, <2>4 DEF Followed, Inherits
    <2> QED
      BY <2>1, <2>2, <2>4, <2>5, RowSave DEF IInv
  <1>6. CASE CheckNonce \/ SkipReplacement
    BY <1>6, RowMove DEF CheckNonce, SkipReplacement, NextWorker
  <1>7. ASSUME NEW t \in Tx, SendReplacement(t) \/ SendReplacementLost(t) PROVE RowInv'
    BY <1>7, RowMove DEF SendReplacement, SendReplacementLost, NextWorker
  <1> QED
    BY <1>1, <1>2, <1>3, <1>4, <1>5, <1>6, <1>7 DEF Settle

LEMMA RowSubmit == ASSUME IInv, RowInv, Submit PROVE RowInv'
  <1> USE DEF redisVars, pgVars, AtRewritten
  <1>1. CASE EndBatch \/ SendFails \/ RecordFailed
    BY <1>1, RowMove DEF EndBatch, SendFails, RecordFailed
  <1>2. ASSUME NEW B, PopBatch(B) PROVE RowInv'
    BY <1>2, RowMove DEF PopBatch
  <1>3. ASSUME NEW k, SkipCandidate(k) \/ AcquireLock(k) PROVE RowInv'
    BY <1>3, RowMove DEF SkipCandidate, AcquireLock
  <1>4. ASSUME NEW t \in Tx, SendCandidate(t) \/ SendCandidateLost(t) PROVE RowInv'
    BY <1>4, RowMove DEF SendCandidate, SendCandidateLost
  <1>5. CASE SaveSubmitted \/ SaveCooldown
    <2>1. /\ cur \in Workers /\ lane[cur].tx = NoTx
      BY <1>5 DEF SaveSubmitted, SaveCooldown, IInv, ControlInv, AtWorker, AtFree, PcValues,
         PendingLaneIsBroadcast
    <2>2. PICK l : /\ lane' = [lane EXCEPT ![cur] = l]
                   /\ pc' = "record_pending" => l.tx = work.tx
      BY <1>5, <2>1 DEF SaveSubmitted, SaveCooldown, MarkSubmitted, IInv, TypeOK
    <2>3. /\ UNCHANGED <<rows, crashes, cur, work>>
          /\ pc \in {"save_submitted", "save_cooldown"}
          /\ pc' \in {"record_pending", "record_failed"}
      BY <1>5 DEF SaveSubmitted, SaveCooldown
    <2>4. \A r \in rows : r.tx # lane[cur].tx
      BY <2>1, NoneValues DEF IInv, TypeOK
    <2>5. Inherits(cur, l)
      BY <2>3, <2>4 DEF Followed, Inherits
    <2>6. pc' \notin AtRewritten /\ (pc' = "record_pending" => cur' = cur /\ l.tx = work'.tx)
      BY <2>2, <2>3
    <2> QED
      BY <2>1, <2>2, <2>3, <2>5, <2>6, RowSave DEF IInv
  <1>6. CASE RecordPending
    <2>1. /\ Upsert(work.tx, "Pending") /\ UNCHANGED <<lane, crashes>>
          /\ pc = "record_pending" /\ pc' = "idle" /\ cur \in Workers
      BY <1>6 DEF RecordPending, IInv, ControlInv, AtWorker, PcValues
    <2> SUFFICES ASSUME crashes = 0, NEW r \in rows', r.status = "Pending"
                 PROVE  Followed(r.tx)'
      BY <2>1 DEF RowInv
    <2>2. \E w \in Workers : lane[w].tx = r.tx
      BY <2>1 DEF RowInv, Followed, Upsert
    <2> QED
      BY <2>1, <2>2 DEF Followed
  <1> QED
    BY <1>1, <1>2, <1>3, <1>4, <1>5, <1>6 DEF Submit

LEMMA RowStep == IInv /\ RowInv /\ [Next]_vars => RowInv'
  <1> SUFFICES ASSUME IInv, RowInv, [Next]_vars PROVE RowInv'
    OBVIOUS
  <1>1. CASE UNCHANGED vars \/ Chain
    <2>1. UNCHANGED <<lane, rows, pc, cur, work, crashes>>
      BY <1>1 DEF vars, redisVars, pgVars, procVars, Chain, NewBlock, Mine, Evict, ExpireLock
    <2> QED
      BY <2>1 DEF RowInv, Followed
  <1>2. CASE Crash
    <2>1. crashes' # 0 /\ pc' = "boot"
      BY <1>2 DEF Crash, Restart, IInv, TypeOK
    <2> QED
      BY <2>1 DEF RowInv
  <1> QED
    BY <1>1, <1>2, RowReconcile, RowSettle, RowSubmit DEF Next, Manager

\* Between two cycles, before the first crash, a lane follows every row that says
\* Pending, also with lost replies, evictions, failed sends and replacements
\* (mark_submitted, mark_replaced, record_transaction).
THEOREM RowsTracked == Spec => []PendingRowTracked
  <1>1. Init => RowInv
    BY DEF Init, RowInv
  <1>2. IInv /\ RowInv /\ [Next]_vars => RowInv'
    BY RowStep
  <1>3. RowInv => PendingRowTracked
    BY DEF RowInv, Followed, PendingRowTracked, AtRewritten
  <1> QED
    BY <1>1, <1>2, <1>3, Invariant, PTL DEF Spec

\* What holds of lanes, nonces and rows together, with a reliable node
\* (process_live_candidate, handle_pending_lane).
THEOREM LanesSound == Reliable => (Spec => []LaneSound)
  <1>1. TypeOK /\ NonceExclusive /\ PendingRowTracked => LaneSound
    BY DEF LaneSound
  <1> QED
    BY <1>1, TypeCorrect, NoncesExclusive, RowsTracked, PTL

-----------------------------------------------------------------------------
(* ExecutionLane implements SubmissionLedger under the mapping of Ledger: *)
(* its initial states map to initial states, and every step of the chain, *)
(* the process or a crash maps to Close, Assign, Execute or a stutter.    *)

\* The mapped variables.
Closed == {k \in Key : ~ Open(k)}
SlotsOf(k) == {<<t.eoa, t.nonce>> : t \in {u \in sent : u.key = k}}
ExecutionsOf(k) == {r \in receipts : r.tx.key = k}

\* A step that maps to a step of the ledger or to a stutter.
LedgerStep == [Ledger!Next]_(Ledger!vars)

LEMMA LedgerInit == Init => Ledger!Init
  <1> SUFFICES ASSUME Init PROVE Ledger!Init
    OBVIOUS
  <1>1. \A k \in Key : Open(k)
    BY LaneConstants DEF Init, Open, LockExpired, Key
  <1> QED
    BY <1>1 DEF Init, Ledger!Init

\* Steps that move neither blocks, locks, transactions nor receipts.
LEMMA StutterStep ==
  ASSUME UNCHANGED <<height, locks, sent, receipts>> PROVE LedgerStep
  BY DEF LedgerStep, Ledger!vars, Open, LockExpired

\* Steps that only close keys.
LEMMA CloseStep ==
  ASSUME UNCHANGED <<sent, receipts>>, Closed \subseteq Closed'
  PROVE  LedgerStep
  <1>1. Closed' = Closed \cup Closed'
    OBVIOUS
  <1>2. Ledger!Close(Closed')
    BY <1>1 DEF Ledger!Close, Closed
  <1>3. Closed' \in SUBSET Key
    BY DEF Closed
  <1> QED
    BY <1>2, <1>3 DEF LedgerStep, Ledger!Next

\* A transaction with a closed key joins those of its key at their slot.
LEMMA AssignStep ==
  ASSUME IInv, NEW t \in Tx, Broadcast(t), UNCHANGED locks, ~ Open(t.key),
         \A u \in sent : u.key = t.key => SameSlot(t, u)
  PROVE  LedgerStep
  <1> DEFINE s == <<t.eoa, t.nonce>>
  <1>1. t.key \in Key /\ s \in Workers \X (0..MaxNonce)
    BY DEF Tx
  <1>2. sent' = sent \cup {t} /\ UNCHANGED <<height, receipts>>
    BY DEF Broadcast
  <1>3. Closed' = Closed /\ t.key \in Closed
    BY <1>1, <1>2 DEF Closed, Open, LockExpired
  <1>4. \A k \in Key : SlotsOf(k)' = IF k = t.key THEN {s} \cup SlotsOf(k) ELSE SlotsOf(k)
    BY <1>2 DEF SlotsOf
  <1>5. CASE \E u \in sent : u.key = t.key
    <2>1. s \in SlotsOf(t.key)
      BY <1>5 DEF SlotsOf, SameSlot
    <2>2. \A k \in Key : SlotsOf(k)' = SlotsOf(k)
      BY <1>4, <2>1
    <2> QED
      BY <1>2, <1>3, <2>2 DEF LedgerStep, Ledger!vars, Closed, SlotsOf
  <1>6. CASE \A u \in sent : u.key # t.key
    <2>1. SlotsOf(t.key) = {}
      BY <1>6 DEF SlotsOf
    <2>2. \A k \in Key : SlotsOf(k)' = IF k = t.key THEN {s} ELSE SlotsOf(k)
      BY <1>4, <2>1
    <2>3. Ledger!Assign(t.key, s)
      BY <1>1, <1>2, <1>3, <2>1, <2>2 DEF Ledger!Assign, Closed, SlotsOf
    <2> QED
      BY <1>1, <2>3 DEF LedgerStep, Ledger!Next
  <1> QED
    BY <1>5, <1>6

LEMMA ExecuteStep == ASSUME IInv, NEW t \in sent, Mine(t) PROVE LedgerStep
  <1>1. t \in Tx /\ t.key \in Key
    BY DEF IInv, TypeOK, Tx
  <1>2. PICK ok \in BOOLEAN : receipts' = receipts \cup {[tx |-> t, success |-> ok]}
    BY DEF Mine
  <1> DEFINE e == [tx |-> t, success |-> ok]
  <1>3. UNCHANGED <<height, locks, sent>> /\ t.nonce = confirmed[t.eoa]
    BY DEF Mine, redisVars
  <1>4. ExecutionsOf(t.key) = {}
    <2> SUFFICES ASSUME NEW r \in receipts, r.tx.key = t.key PROVE FALSE
      BY DEF ExecutionsOf
    <2>1. r.tx \in sent /\ r.tx.nonce < confirmed[r.tx.eoa]
      BY DEF IInv, ChainInv
    <2>2. r.tx.eoa = t.eoa /\ r.tx.nonce = t.nonce
      BY <2>1 DEF IInv, SubmitOncePerKey, SameSlot
    <2>3. r.tx.nonce \in Nat
      BY <2>2, <1>1, LaneConstants DEF Tx
    <2> QED
      BY <1>3, <2>1, <2>2, <2>3
  <1>5. \A k \in Key : ExecutionsOf(k)' = IF k = t.key THEN {e} ELSE ExecutionsOf(k)
    BY <1>2, <1>4 DEF ExecutionsOf
  <1>6. SlotsOf(t.key) # {}
    BY DEF SlotsOf
  <1>7. Ledger!Execute(t.key, e)
    BY <1>1, <1>3, <1>4, <1>5, <1>6
    DEF Ledger!Execute, ExecutionsOf, SlotsOf, Open, LockExpired
  <1>8. e \in [tx : Tx, success : BOOLEAN]
    BY <1>1
  <1> QED
    BY <1>1, <1>7, <1>8 DEF LedgerStep, Ledger!Next

LEMMA ChainLedger == IInv /\ Chain => LedgerStep
  <1> SUFFICES ASSUME IInv, Chain PROVE LedgerStep
    OBVIOUS
  <1>1. CASE NewBlock
    <2>1. \A k \in Key : ~ Open(k) => ~ Open(k)'
      BY <1>1, LaneConstants DEF NewBlock, redisVars, Open, LockExpired, Key, IInv, TypeOK
    <2> QED
      BY <1>1, <2>1, CloseStep DEF NewBlock, Closed
  <1>2. ASSUME NEW k \in locks, ExpireLock(k) PROVE LedgerStep
    <2>1. \A j \in Key : ~ Open(j) => ~ Open(j)'
      BY <1>2 DEF ExpireLock, chainVars, Open, LockExpired
    <2> QED
      BY <1>2, <2>1, CloseStep DEF ExpireLock, chainVars, Closed
  <1>3. ASSUME NEW t \in pool, Evict(t) PROVE LedgerStep
    BY <1>3, StutterStep DEF Evict, redisVars
  <1> QED
    BY <1>1, <1>2, <1>3, ExecuteStep DEF Chain

LEMMA ReconcileLedger == Reconcile \/ Crash => LedgerStep
  <1> SUFFICES ASSUME Reconcile \/ Crash PROVE LedgerStep
    OBVIOUS
  <1>1. UNCHANGED <<height, locks, sent, receipts>>
    BY DEF Reconcile, Boot, StartupReady, StartCycle, FullPass, Bail, SkipLane,
       SyncLane, NeedFunds, PollReceipt, SelectWorker, FundWorker, SyncFunded,
       FundFails, Crash, chainVars, redisVars
  <1> QED
    BY <1>1, StutterStep

LEMMA SettleLedger == IInv /\ Settle => LedgerStep
  <1> SUFFICES ASSUME IInv, Settle PROVE LedgerStep
    OBVIOUS
  <1>1. ASSUME NEW t \in Tx, SendReplacement(t) \/ SendReplacementLost(t)
        PROVE  LedgerStep
    BY <1>1, ReplacementFacts, AssignStep
    DEF SendReplacement, SendReplacementLost, redisVars
  <1>2. CASE RecordReceipt \/ ClearConfirmed \/ CheckNonce \/ RecordConsumed
             \/ ClearConsumed \/ SkipReplacement \/ RecordReplaced
             \/ RecordReplacement \/ SaveReplaced
    BY <1>2, StutterStep
    DEF RecordReceipt, ClearConfirmed, CheckNonce, RecordConsumed, ClearConsumed,
        SkipReplacement, RecordReplaced, RecordReplacement, SaveReplaced, chainVars,
        redisVars
  <1> QED
    BY <1>1, <1>2 DEF Settle

LEMMA SubmitLedger == IInv /\ Submit => LedgerStep
  <1> SUFFICES ASSUME IInv, Submit PROVE LedgerStep
    OBVIOUS
  <1>1. ASSUME NEW t \in Tx, SendCandidate(t) \/ SendCandidateLost(t)
        PROVE  LedgerStep
    BY <1>1, CandidateFacts, AssignStep DEF SendCandidate, SendCandidateLost, redisVars
  <1>2. ASSUME NEW k \in batch, AcquireLock(k) PROVE LedgerStep
    <2>1. \A j \in Key : ~ Open(j) => ~ Open(j)'
      BY <1>2 DEF AcquireLock, chainVars, Open, LockExpired
    <2> QED
      BY <1>2, <2>1, CloseStep DEF AcquireLock, chainVars, Closed
  <1>3. ASSUME NEW k \in batch, SkipCandidate(k) PROVE LedgerStep
    BY <1>3, StutterStep DEF SkipCandidate, chainVars, redisVars
  <1>4. ASSUME NEW B, PopBatch(B) PROVE LedgerStep
    BY <1>4, StutterStep DEF PopBatch, chainVars, redisVars
  <1>5. CASE EndBatch \/ SendFails \/ SaveSubmitted \/ RecordPending \/ SaveCooldown
             \/ RecordFailed
    BY <1>5, StutterStep
    DEF EndBatch, SendFails, SaveSubmitted, RecordPending, SaveCooldown, RecordFailed,
        chainVars, redisVars
  <1> QED
    BY <1>1, <1>2, <1>3, <1>4, <1>5 DEF Submit

\* Live submission implements the submission ledger: a key is claimed once, is
\* sent at one nonce of one worker only, after it was claimed, and is executed
\* at most once.
THEOREM ImplementsLedger == Spec => LedgerSpec
  <1>1. IInv /\ [Next]_vars => LedgerStep
    <2>1. UNCHANGED vars => LedgerStep
      BY StutterStep DEF vars, chainVars, redisVars
    <2> QED
      BY <2>1, ChainLedger, ReconcileLedger, SettleLedger, SubmitLedger DEF Next, Manager
  <1>2. LedgerStep => [Ledger!Next]_(Ledger!vars)
    BY DEF LedgerStep
  <1> QED
    BY LedgerInit, <1>1, <1>2, Invariant, PTL DEF Spec, LedgerSpec, Ledger!Spec
==============================================================================

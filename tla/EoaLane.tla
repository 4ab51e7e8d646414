------------------------------- MODULE EoaLane -------------------------------
(***************************************************************************)
(* The lane of one worker EOA: the record execution-manager keeps in Redis *)
(* under eoa:<address>:state, and the methods that move it                 *)
(* (crates/execution-manager/src/eoa_lane.rs).                             *)
(*                                                                         *)
(* A transaction stands for its hash: two transactions with the same       *)
(* sender, nonce, execution key and fee are the same signed bytes.  The    *)
(* pending_* fields that identify the transaction in flight (hash, nonce,  *)
(* opportunity, simulation, executor, gas and fee fields) are all set and  *)
(* cleared together by the code and are carried by the one field tx;       *)
(* confirmed_nonce is only logged and is left out; eth_balance matters     *)
(* only through its comparison with worker_min_balance (ready).            *)
(***************************************************************************)
EXTENDS Integers

CONSTANT NoTx   \* "no transaction pending" (pending_tx = None)

LaneStatus == {"Idle", "Pending", "Cooldown", "Blocked"}

LaneType(Tx) == [status : LaneStatus, nonce : Nat, tx : Tx \cup {NoTx},
                 replacements : Nat, since : Nat, ready : BOOLEAN]

\* EoaLane::new
NewLane == [status |-> "Idle", nonce |-> 0, tx |-> NoTx,
            replacements |-> 0, since |-> 0, ready |-> FALSE]

\* A candidate's transaction was accepted: the lane follows it.
MarkSubmitted(l, tx, block) ==
  [status |-> "Pending", nonce |-> tx.nonce + 1, tx |-> tx,
   replacements |-> 0, since |-> block, ready |-> l.ready]

\* A replacement at the same nonce was accepted; local_nonce is unchanged.
MarkReplaced(l, tx, block) ==
  [status |-> "Pending", nonce |-> l.nonce, tx |-> tx,
   replacements |-> l.replacements + 1, since |-> block, ready |-> l.ready]

\* Mutant of ClearPending: the hash is not cleared.
ClearPending_KeepsHash(l, nextNonce, rich) ==
  [status |-> "Idle", nonce |-> nextNonce, tx |-> l.tx,
   replacements |-> 0, since |-> 0, ready |-> rich]

\* The pending transaction is settled (mark_confirmed in both
\* handle_pending_lane and clear_consumed_pending): every pending_* field is
\* cleared, the nonce and the balance are taken from the chain.
ClearPending(l, nextNonce, rich) ==
  [status |-> "Idle", nonce |-> nextNonce, tx |-> NoTx,
   replacements |-> 0, since |-> 0, ready |-> rich]

MarkCooldown(l) ==
  [status |-> "Cooldown", nonce |-> l.nonce, tx |-> l.tx,
   replacements |-> l.replacements, since |-> l.since, ready |-> l.ready]

\* Mutant of SyncIdle: the cached nonce is trusted.
SyncIdle_CachedNonce(l, nextNonce, rich) ==
  [status |-> "Idle", nonce |-> l.nonce, tx |-> l.tx,
   replacements |-> l.replacements, since |-> l.since, ready |-> rich]

\* sync_idle_lane: nonce and balance from the chain, whatever the status was.
SyncIdle(l, nextNonce, rich) ==
  [status |-> "Idle", nonce |-> nextNonce, tx |-> l.tx,
   replacements |-> l.replacements, since |-> l.since, ready |-> rich]

\* The condition under which select_cached_ready_worker takes a lane.
IsReady(l) == l.status = "Idle" /\ l.ready
==============================================================================

--------------------------- MODULE SubmissionLedger ---------------------------
(***************************************************************************)
(* What live submission promises, without processes, stores or a chain: an *)
(* execution key (block, path, token, amount) is claimed at most once,     *)
(* only a claimed key is given a nonce slot of a worker, it is given one   *)
(* slot in its whole life, and it is executed on chain at most once.       *)
(*                                                                         *)
(* ExecutionLane implements this (PROPERTY LedgerSpec there), under every  *)
(* crash, lost reply, eviction and replacement it models.                  *)
(***************************************************************************)
CONSTANTS
  Keys,        \* execution keys
  Slots,       \* a worker and one of its nonces
  Executions   \* what the chain may report of an included transaction

VARIABLES
  closed,      \* keys no new submission may start for
  slot,        \* the slots the transactions of a key were sent at
  execution    \* the inclusions of a key's transactions

vars == <<closed, slot, execution>>

Init ==
  /\ closed = {}
  /\ slot = [k \in Keys |-> {}]
  /\ execution = [k \in Keys |-> {}]

\* Keys are claimed by a submission, or too old to be submitted any more.
Close(K) ==
  /\ K \subseteq Keys
  /\ closed' = closed \cup K
  /\ UNCHANGED <<slot, execution>>

Assign(k, s) ==
  /\ k \in closed /\ slot[k] = {}
  /\ slot' = [slot EXCEPT ![k] = {s}]
  /\ UNCHANGED <<closed, execution>>

Execute(k, e) ==
  /\ slot[k] # {} /\ execution[k] = {}
  /\ execution' = [execution EXCEPT ![k] = {e}]
  /\ UNCHANGED <<closed, slot>>

Next ==
  \/ \E K \in SUBSET Keys : Close(K)
  \/ \E k \in Keys : \E s \in Slots : Assign(k, s)
  \/ \E k \in Keys : \E e \in Executions : Execute(k, e)

Spec == Init /\ [][Next]_vars
==============================================================================

---------------------------- MODULE MCSealedStates ----------------------------
(***************************************************************************)
(* A small instance of SealedStates beside one of PoolStateCache: the two  *)
(* look at the same loop, one with the words of a pool and no other        *)
(* service, one with the other services and versions for words.  A         *)
(* behaviour is one of the first or one of the second.                     *)
(***************************************************************************)
EXTENDS PoolStateCache

CONSTANTS Classic, Slipstream, UniswapV3, Words, Word0, Fees, Fee0, Span, Delay,
          None, Registries, MaxLogs, MaxFaults, MaxReorgs

ASSUME SealedConstants ==
  /\ Classic \cap Slipstream = {} /\ UniswapV3 \cap (Classic \cup Slipstream) = {}
  /\ Word0 \in Words /\ Words \subseteq Nat /\ Fee0 \in Fees /\ Fees \subseteq Nat
  /\ {Span, Delay, MaxLogs, MaxFaults, MaxReorgs} \subseteq Nat
  /\ Span > 0
  /\ Registries \subseteq SUBSET (Classic \cup Slipstream \cup UniswapV3)
  /\ None \notin Classic \cup Slipstream \cup UniswapV3 \cup Fees
  /\ None \notin [price : Words, depth : Words]
  /\ None \notin [price : Words, depth : Words, fee : Fees, block : Nat]

VARIABLES
  part,      \* which of the two runs
  sHead, sLog, sCurrent, sRedis, sPc, states, todo, half, seen, sUpto, sChanged,
  snaps, jobs, recent, pending, verdict, missed, feeLost, unread, orphans,
  enabled, faults, sCrashes

Loop == INSTANCE SealedStates WITH
  head <- sHead, log <- sLog, current <- sCurrent, redis <- sRedis, pc <- sPc,
  upto <- sUpto, changed <- sChanged, crashes <- sCrashes

sealedPart == <<sHead, sLog, sCurrent, sRedis, sPc, states, todo, half, seen, sUpto,
                sChanged, snaps, jobs, recent, pending, verdict, missed, feeLost,
                unread, orphans, enabled, faults, sCrashes>>

EitherInit ==
  /\ part \in {"states", "cache"}
  /\ Init /\ Loop!Init

\* A part that does not run stays as it was.
EitherNext ==
  /\ UNCHANGED part
  /\ \/ part = "cache" /\ Next /\ UNCHANGED sealedPart
     \/ part = "states" /\ Loop!Next /\ UNCHANGED vars

EitherSpec == EitherInit /\ [][EitherNext]_<<part, vars, sealedPart>>

\* The words and the fee of every pool that the sealed loop has and publishes are
\* the chain's once it has seen every sealed block (SealedStates, run 478-847), and
\* the variables of both parts have their types.
StatesExact == TypeOK /\ Loop!StatesExact

\* The delayed validation neither accuses a right state nor passes a wrong one
\* (SealedStates, validate_due_snapshots).
VerdictsRight == Loop!VerdictsRight
==============================================================================

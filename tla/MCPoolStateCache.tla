--------------------------- MODULE MCPoolStateCache ---------------------------
(* Small instances of PoolStateCache for TLC: see the .cfg files. *)
EXTENDS PoolStateCache
==============================================================================

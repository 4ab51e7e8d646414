--------------------------- MODULE MCExecutionLane ---------------------------
(* Small instances of ExecutionLane for TLC: see the .cfg files. *)
EXTENDS ExecutionLane, TLC

\* No worker is told from another by anything but its lane and its nonces.
Symmetry == Permutations(Workers)
==============================================================================

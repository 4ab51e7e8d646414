------------------------------ MODULE MCTickStore ------------------------------
(* Small instances of TickStore for TLC: see the .cfg files. *)
EXTENDS TickStore

MCTick == {-1, 1, 9, 30}
MCNear == {-1, 1}
MCWide == {-1, 1, 9}

One == {{-1, 9}}
Far == {{-1, 9}, {1, 30}}
All == {{-1, 1}, {-1, 9}, {1, 9}}
Of(k, R, P, n, f) ==
  [kind |-> k, running |-> R, positions |-> P, blocks |-> n, faults |-> f]
V3(R, n, f) == Of("v3", R, One, n, f)
V4(R, n, f) == Of("v4", R, One, n, f)

\* Who writes concurrently with whom: blocks and faults as far as they go.
MCStore == {V3({"listener", "warmup", "recorder"}, 2, 1),
            V3({"listener", "search"}, 2, 1),
            Of("v3", {"listener"}, All, 4, 0),
            V3({"warmup", "search", "recorder"}, 1, 1),
            V3({"repair", "search"}, 1, 1),
            Of("v3", {"repair", "search"}, Far, 2, 0),
            V3({"warmup", "repair", "search"}, 1, 0),
            V3({"listener", "repair", "recorder"}, 2, 1),
            Of("v4", {"hydrator"}, All, 3, 1),
            V4({"listener", "hydrator"}, 2, 1),
            V4({"hydrator", "search"}, 2, 0),
            V4({"listener", "sync", "search"}, 2, 0)}
==============================================================================

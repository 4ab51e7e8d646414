--------------------------- MODULE MCPoolRegistry ---------------------------
(* Three pools of two pairs: canonical of a default factory, not canonical   *)
(* of the V2 factory, and of a classic factory nobody knows.                 *)
EXTENDS PoolRegistry

MCPools == {"dp", "vp", "up"}

MCFactoryOf == [p \in MCPools |-> CASE p = "dp" -> "fd" [] p = "vp" -> "fv" [] p = "up" -> "fu"]

MCPairOf == [p \in MCPools |-> IF p = "up" THEN "b" ELSE "a"]

MCTopicOf == [p \in MCPools |-> CASE p = "dp" -> "v3" [] p = "vp" -> "v2" [] p = "up" -> "aero"]

MCLogs == << << <<"created", "dp">>, <<"swap", "vp">> >>,
             << <<"swap", "dp">>, <<"swap", "up">>, <<"swap", "vp">> >> >>

MCScenarios == {{"live", "admin"}, {"live", "batch"}, {"live", "market"},
                {"live", "collector"}, {"admin", "market"}}

\* The scan of the receipts without a restart: the scenario is the largest.
MCRestarts == [s \in MCScenarios |-> IF "collector" \in s THEN 0 ELSE 1]

MCJobs == [s \in MCScenarios |-> IF s = {"admin", "market"} THEN 2 ELSE 1]

=============================================================================

--------------------------- MODULE MCProtocolPools ---------------------------
(* A V4 pool without and one with hooks, and a Balancer pool of the registry; *)
(* the first block may be before market-data's start.    *)
EXTENDS ProtocolPools

MCLogs == << << <<"initialize", "u">>, <<"initialize", "h">> >>,
             << <<"swap", "u">>, <<"swap", "u">>, <<"swap", "h">>, <<"swap", "b">> >>,
             << <<"modify", "u">> >> >>

MCScenarios == {{"market"}, {"market", "discovery"}, {"market", "hydrator"},
                {"market", "hydrator", "discovery"}, {"market", "classifier"}}

MCScans == [s \in MCScenarios |-> IF "discovery" \in s THEN 0 ELSE 2]

=============================================================================

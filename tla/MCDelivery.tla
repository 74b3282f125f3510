----------------------------- MODULE MCDelivery -----------------------------
(* TLC instance of Delivery: two problems, two requests and a retry of each *)
(* rate-limited tool call.                                                  *)
EXTENDS Delivery

CONSTANTS p1, p2
MCProblems == {p1, p2}
MCBriefs   == 1..MaxRequests

\* The orchestrator and the endpoint may share a client, as they do in tests.
MCTestWiring        == [slack |-> TRUE, client |-> "both", demo |-> FALSE]
MCProductionWirings == {ProductionWiring}
MCWirings           == {ProductionWiring, MCTestWiring} \cup DevWirings
=============================================================================

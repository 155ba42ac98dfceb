-------------------------- MODULE MCGatewayRunLoop --------------------------
(* An instance of GatewayRunLoop: two chat runs of one session compete for   *)
(* it, and for the main lane, while restarts come and go.                    *)
EXTENDS GatewayRunLoop, TLC

CONSTANTS chat1, chat2, s1

MCRuns == {chat1, chat2}
MCSessionOf == [r \in MCRuns |-> s1]
MCLaneArg == [r \in MCRuns |-> "main"]
MCChoices == [l \in ConfigurableLanes |-> IF l = "subagent" THEN {1} ELSE {}]
=============================================================================

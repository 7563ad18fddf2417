------------------------------- MODULE MCAgents -------------------------------
(***************************************************************************)
(* Small instances of Agents.  A REST client with the endpoint "r", one    *)
(* with the endpoint "q", two WebSocket connections with the endpoint "w"  *)
(* and the PingAgent.                                                      *)
(***************************************************************************)
EXTENDS Agents, TLC

\* A bundle of another node for "w", one that the REST client sends to the
\* PingAgent, which answers to "r", and one that a WebSocket client sends to "r"
AllBundles == {"n1", "b1", "s1"}
AllTo == ("n1" :> "w") @@ ("b1" :> "ping") @@ ("s1" :> "r")
AllReportTo == ("n1" :> "far") @@ ("b1" :> "r") @@ ("s1" :> "w")
TheRestEid == [u \in Uuids |-> IF u = "u1" THEN "r" ELSE "q"]
Names == Permutations(WsClients)
TheWsEid == [w \in WsClients |-> "w"]

\* Two bundles for a WebSocket client
TwoBundles == {"n1", "n2"}
TwoTo == [b \in TwoBundles |-> "w"]
TwoReportTo == [b \in TwoBundles |-> "far"]
=============================================================================

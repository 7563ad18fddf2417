----------------------------- MODULE RoutingBase -----------------------------
(***************************************************************************)
(* The node and its neighbourhood as the routing algorithms see them.      *)
(***************************************************************************)
EXTENDS Integers, FiniteSets, FiniteSetsExt

CONSTANTS
    Self,     \* Core.NodeId
    Peers,    \* endpoints of possible neighbours
    Dest,     \* the possible neighbour that is a bundle's destination
    Sensors,  \* neighbours whose name matches the sensor mule's expression
    None

ASSUME RoutingAssumption ==
    /\ IsFiniteSet(Peers)
    /\ Self \notin Peers
    /\ Dest \in Peers
    /\ Sensors \subseteq Peers

Nodes == Peers \cup {Self}

\* The PreviousNodeBlock of a bundle as a list of at most one endpoint.
PrevNodes(prev) == IF prev = None THEN {} ELSE {prev}
=============================================================================

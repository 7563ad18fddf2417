------------------------------ MODULE MCTcpcl -------------------------------
(***************************************************************************)
(* Small instances of Tcpcl.                                               *)
(***************************************************************************)
EXTENDS Tcpcl

\* The active node a sends x1, the passive node b sends y1.
Owners == [x \in Transfers |-> IF x = "x1" THEN "a" ELSE "b"]

Mrus == [n \in Nodes |-> IF n = "a" THEN 3 ELSE 2]

\* Two segments and one segment, none of them full.
ShortSizes == [x \in Transfers |-> IF x = "x1" THEN 3 ELSE 1]

\* A bundle of exactly one full segment.
FullSizes == [x \in Transfers |-> Mrus[IF Owners[x] = "a" THEN "b" ELSE "a"]]

\* Bundles of several segments in both directions.
LongSizes == [x \in Transfers |-> IF Owners[x] = "a" THEN 7 ELSE 10]
=============================================================================

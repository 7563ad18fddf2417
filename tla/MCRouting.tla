------------------------------ MODULE MCRouting ------------------------------
(***************************************************************************)
(* Small instances of Routing: every algorithm with the bundles that make  *)
(* a difference to it.                                                     *)
(***************************************************************************)
EXTENDS Routing

Own(algo) ==
    [algo |-> algo, mule |-> FALSE, jobs |-> Dispatchers, near |-> Peers,
     own |-> TRUE, prev |-> None, block |-> None, metadata |-> FALSE]
Foreign(algo, block) ==
    [Own(algo) EXCEPT !.own = FALSE, !.prev = "q", !.block = block]

AllSetups ==
    {Own("spray"), Foreign("spray", None),
     [Own("spray") EXCEPT !.mule = TRUE, !.jobs = {"handler"}],
     Own("binary_spray"), Foreign("binary_spray", 2),
     [Own("binary_spray") EXCEPT !.mule = TRUE, !.jobs = {"handler"}],
     Own("prophet"), Foreign("prophet", None),
     [Own("prophet") EXCEPT !.metadata = TRUE],
     [Own("dtlsr") EXCEPT !.jobs = {"handler"}, !.near = {"d", "p"}],
     [Foreign("dtlsr", None) EXCEPT !.metadata = TRUE, !.jobs = {"handler"},
                                    !.near = {"p"}]}

\* A vector of probabilities that leads to the destination, and one with a
\* negative number for it.
PeerVectors ==
    { [n \in Nodes |-> IF n = Dest THEN x ELSE IF n = "p" THEN 1 ELSE 0] :
        x \in {3, -2} }

\* p was connected to the destination, then lost it; q is connected to p.
PeerReports ==
    {<<"p", [ts |-> 1, peers |-> [x \in {Dest} |-> 0]]>>,
     <<"p", [ts |-> 2, peers |-> [x \in {Dest} |-> 2]]>>,
     <<"q", [ts |-> 1, peers |-> [x \in {"p"} |-> 0]]>>}
=============================================================================

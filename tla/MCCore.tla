------------------------------- MODULE MCCore -------------------------------
(***************************************************************************)
(* Small instances of Core.                                                *)
(***************************************************************************)
EXTENDS Core

\* A bundle without any flags from a source elsewhere.
Plain(t, dst) ==
    [tpl |-> t, seq |-> 0, src |-> None, dst |-> dst, admin |-> FALSE,
     wellFormed |-> TRUE, refs |-> {}, requests |-> {}, reports |-> {"rep"},
     unknown |-> {}, hopExceeded |-> FALSE]

\* A status report sent from this node to the endpoint dst.
Report(t, dst) ==
    [Plain(t, dst) EXCEPT !.admin = TRUE, !.reports = {}, !.src = Self]

RelayAttr == [b \in {"a", "rep"} |->
                 IF b = "a" THEN Plain("t1", "far") ELSE Report("t2", "far")]

\* A bundle for the neighbour itself.
DirectAttr == [RelayAttr EXCEPT !["a"].dst = "p"]

\* The same, and an administrative record for this node that is broken.
BrokenAttr ==
    [b \in {"a", "bad", "rep"} |->
        IF b = "bad"
        THEN [Report("t3", "self") EXCEPT !.wellFormed = FALSE, !.src = None]
        ELSE DirectAttr[b]]

\* A bundle for an endpoint of this node that asks for every report, one
\* whose hop limit is exceeded, and one with an unknown block.
LocalAttr ==
    [b \in {"a", "hop", "odd", "rep"} |->
        CASE b = "a" -> [Plain("t1", "self") EXCEPT !.requests = Status]
          [] b = "hop" -> [Plain("t1", "far") EXCEPT !.seq = 1,
                             !.hopExceeded = TRUE, !.requests = {"deleted"}]
          [] b = "odd" -> [Plain("t3", "far") EXCEPT
                             !.unknown = {"report", "delete"}]
          [] b = "rep" -> Report("t2", "p")]

\* A bundle of a local agent, one whose source is another node, and from a
\* neighbour a status report that declares the first one delivered.
MixAttr ==
    [b \in {"a", "b", "ack", "rep"} |->
        CASE b = "a" -> [Plain("t1", "far") EXCEPT !.src = "self",
                           !.requests = {"forwarded"}]
          [] b = "b" -> [Plain("t3", "far") EXCEPT !.src = "far"]
          [] b = "ack" -> [Report("t3", "far") EXCEPT !.seq = 1,
                             !.refs = {<<"t1", 0>>}, !.src = None]
          [] b = "rep" -> Report("t2", "p")]

\* A bundle for this node's own endpoint that asks for a delivery report.
SelfAttr == [RelayAttr EXCEPT !["a"].dst = "self", !["rep"].dst = "p",
                              !["a"].requests = {"delivered"}]

\* Two bundles an agent creates in the same millisecond.
OutAttr == [b \in {"a", "b", "rep"} |->
               IF b = "rep" THEN Report("t2", "far") ELSE Plain("t1", "p")]
=============================================================================

-------------------------------- MODULE Spray --------------------------------
(***************************************************************************)
(* What SprayAndWait and BinarySpray (algorithm_spray.go) keep for a       *)
(* bundle and how they change it.  A sprayMetaData is a record             *)
(* [sent, copies]; module Routing calls these operators the way Core does. *)
(***************************************************************************)
EXTENDS RoutingBase

CONSTANT Multiplicity   \* SprayConfig.Multiplicity

ASSUME SprayAssumption == Multiplicity \in Nat \ {0}

MetaData == [sent : SUBSET Peers, copies : Nat]

-----------------------------------------------------------------------------
\* SprayAndWait.NotifyNewBundle: only the originator may spray.
SprayNotify(own, prev) ==
    IF own THEN [sent |-> {}, copies |-> Multiplicity]
           ELSE [sent |-> PrevNodes(prev), copies |-> 1]

\* Mutant of SpraySenders: the copies that are sent are not counted.
SpraySendersUncounted(m, connected) ==
    LET fresh == connected \ m.sent
        n == Min({Cardinality(fresh), m.copies - 1})
    IN  { [to |-> S, share |-> 1,
           meta |-> [sent |-> m.sent \cup S, copies |-> m.copies]] :
             S \in kSubset(n, fresh) }

\* Mutant of SpraySenders: the last copy may be given away, too.
SpraySendersAll(m, connected) ==
    LET fresh == connected \ m.sent
        n == Min({Cardinality(fresh), m.copies})
    IN  { [to |-> S, share |-> 1,
           meta |-> [sent |-> m.sent \cup S, copies |-> m.copies - n]] :
             S \in kSubset(n, fresh) }

(***************************************************************************)
(* The results the loop of SprayAndWait.SenderForBundle can have, one for  *)
(* every order in which the neighbours may be listed: peers that have not  *)
(* got the bundle, as long as there is more than one copy.                 *)
(***************************************************************************)
SpraySenders(m, connected) ==
    LET fresh == connected \ m.sent
        n == Min({Cardinality(fresh), m.copies - 1})
    IN  { [to |-> S, share |-> 1,
           meta |-> [sent |-> m.sent \cup S, copies |-> m.copies - n]] :
             S \in kSubset(n, fresh) }

\* SprayAndWait.ReportFailure
SprayFailure(m, p) == [sent |-> m.sent \ {p}, copies |-> m.copies + 1]

-----------------------------------------------------------------------------
\* BinarySpray.NotifyNewBundle: block is the value of the bundle's
\* BinarySprayBlock, or None.
BinaryNotify(block, prev) ==
    IF block # None THEN [sent |-> PrevNodes(prev), copies |-> block]
                    ELSE [sent |-> {}, copies |-> Multiplicity]

\* BinarySpray.SenderForBundle: the first peer of the list that has not got
\* the bundle gets half of the copies.
BinarySenders(m, connected) ==
    LET half == m.copies \div 2
    IN  IF connected \subseteq m.sent
        THEN {[to |-> {}, share |-> 0, meta |-> m]}
        ELSE { [to |-> {p}, share |-> half,
                meta |-> [sent |-> m.sent \cup {p},
                          copies |-> m.copies - half]] :
                 p \in connected \ m.sent }

\* BinarySpray.ReportFailure: the copies are added up in the block of the
\* bundle, not in the metadata.
BinaryFailure(m, p) == [m EXCEPT !.sent = @ \ {p}]
=============================================================================

------------------------------- MODULE Prophet -------------------------------
(***************************************************************************)
(* The delivery predictabilities of Prophet (algorithm_prophet.go).  The   *)
(* probabilities, float64 in the code, are fixed-point numbers: One stands *)
(* for 1, and a product is rounded down.  A missing map entry is a zero,   *)
(* as in the code.  Nothing checks what a neighbour sends: a ProphetBlock  *)
(* may hold any number.  Every action below runs under dataMutex.          *)
(***************************************************************************)
EXTENDS RoutingBase, Sequences

CONSTANTS
    One, PInit, Beta, Gamma,  \* ProphetConfig in units of 1/One
    Vectors                   \* predictabilities that neighbours may send

ASSUME ProphetAssumption ==
    /\ One \in Nat \ {0}
    /\ {PInit, Beta, Gamma} \subseteq 0..One
    /\ Vectors \subseteq [Nodes -> Int]

VARIABLES
    pred,      \* predictabilities
    peerPred,  \* peerPredictabilities
    honest     \* what an observer saw: every vector that came since the node
               \* started was made of probabilities

prophetVars == <<pred, peerPred, honest>>

Mul(a, b) == (a * b) \div One

\* Mutants of Raise: the old value does not count, or counts in full.
RaiseAnew(p, x) == x
RaiseFully(p, x) == p + x

\* pOld + (1 - pOld) * x
Raise(p, x) == p + Mul(One - p, x)

ProphetTypeOK ==
    /\ pred \in [Nodes -> Int]
    /\ peerPred \in [Peers -> Vectors \cup {None}]
    /\ honest \in BOOLEAN
    /\ honest => pred \in [Nodes -> 0..One]

ProphetInit ==
    /\ pred = [n \in Nodes |-> 0]
    /\ peerPred = [p \in Peers |-> None]
    /\ honest = TRUE

ProphetRestart ==
    /\ pred' = [n \in Nodes |-> 0]
    /\ peerPred' = [p \in Peers |-> None]
    /\ honest' = TRUE

Encounter(p) == pred' = [pred EXCEPT ![p] = Raise(@, PInit)]

AgeCron == pred' = [n \in Nodes |-> Mul(pred[n], Gamma)]

(***************************************************************************)
(* transitivity walks over the peer's map in any order.  It reads the own  *)
(* predictability of the peer anew for every entry, and one of the entries *)
(* may be the peer itself: all others use the value from before or after.  *)
(***************************************************************************)
Transitivity(p, v) ==
    \E before \in SUBSET (Nodes \ {p}) :
       LET new == Raise(pred[p], Mul(Mul(pred[p], v[p]), Beta))
           via(n) == IF n \in before \cup {p} THEN pred[p] ELSE new
       IN  pred' = [n \in Nodes |->
                       Raise(pred[n], Mul(Mul(via(n), v[n]), Beta))]

\* NotifyNewBundle with a ProphetBlock that is meant for this node.
ReceiveVector(p, v) ==
    /\ peerPred' = [peerPred EXCEPT ![p] = v]
    /\ Transitivity(p, v)
    /\ honest' = (honest /\ v \in [Nodes -> 0..One])

\* The neighbours SenderForBundle takes for better than this node.
Better(connected) ==
    { p \in connected : peerPred[p] # None /\ peerPred[p][Dest] > pred[Dest] }
=============================================================================

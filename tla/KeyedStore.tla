----------------------------- MODULE KeyedStore -----------------------------
(***************************************************************************)
(* What the Store promises about one bundle ID: its item appears, grows    *)
(* and goes in single steps.  It holds either the whole bundle or some of  *)
(* its fragments, never both; a new item is not pending, and only an       *)
(* existing item changes its state.                                        *)
(***************************************************************************)
CONSTANT Whole   \* the name of the part that is the whole bundle

VARIABLES parts,     \* the names of the item's parts; without an item, none
          pending    \* the item's Pending field

kvars == <<parts, pending>>

Init == parts = {} /\ pending = FALSE

Insert ==
    /\ parts = {}
    /\ \E n \in parts' : parts' = {n}
    /\ pending' = FALSE

AddFragment ==
    /\ parts # {}
    /\ Whole \notin parts /\ Whole \notin parts'
    /\ \E n \in parts' \ parts : parts' = parts \cup {n}
    /\ UNCHANGED pending

SetPending(v) == parts # {} /\ pending' = v /\ UNCHANGED parts

Remove == parts # {} /\ parts' = {} /\ pending' = FALSE

Next ==
    \/ Insert \/ AddFragment
    \/ \E v \in BOOLEAN : SetPending(v)
    \/ Remove

Spec == Init /\ [][Next]_kvars
=============================================================================

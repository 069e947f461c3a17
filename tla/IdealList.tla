------------------------------ MODULE IdealList -----------------------------
(***************************************************************************)
(* What the finder expects of a list of slmacros.h: the items it has put   *)
(* there stay, in the order in which they came, no two with the same key.  *)
(***************************************************************************)
EXTENDS Sequences, Functions

CONSTANT Key

VARIABLE order  \* the keys of the items, the oldest first

Init == order = <<>>

Add(k) == k \notin Range(order) /\ order' = Append(order, k)

Empty == order' = <<>>

Next == Empty \/ \E k \in Key : Add(k)

Spec == Init /\ [][Next]_order

=============================================================================

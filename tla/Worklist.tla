------------------------------- MODULE Worklist -------------------------------
(***************************************************************************)
(* What compose_pcontent (finder.c) promises of its worklist, whatever the *)
(* instructions do: items are evaluated one at a time; only an evaluation  *)
(* finds new items, and asks for the evaluation of others or of itself     *)
(* again; nothing that was asked for is ever forgotten.  The work is       *)
(* complete when no item awaits an evaluation.  It may be cut short, but   *)
(* never with an item whose end is not known.                              *)
(***************************************************************************)
CONSTANTS
  Item,       \* what may be found
  Nothing     \* no item

VARIABLES
  found,      \* the items found
  pending,    \* the items that await an evaluation
  ended,      \* the items whose end is known
  busy,       \* the item under evaluation, or Nothing
  outcome     \* working, or how the work ended

wvars == <<found, pending, ended, busy, outcome>>

Init ==
  /\ \E first \in Item : found = {first}
  /\ pending = found
  /\ ended = {}
  /\ busy = Nothing
  /\ outcome = "working"

Begin ==
  /\ busy = Nothing /\ outcome = "working"
  /\ busy' \in pending
  /\ pending' = pending \ {busy'}
  /\ UNCHANGED <<found, ended, outcome>>

(* Nothing is forgotten, and what is found awaits its evaluation.          *)
Grows ==
  /\ found \subseteq found' /\ found' \subseteq Item
  /\ pending \cup (found' \ found) \subseteq pending'
  /\ pending' \subseteq found'
  /\ ended \subseteq ended' /\ ended' \subseteq found'

Evaluate ==
  /\ busy # Nothing
  /\ Grows
  /\ UNCHANGED <<busy, outcome>>

(* The end of the item is known then; it may have been invalidated.        *)
End ==
  /\ busy # Nothing
  /\ Grows
  /\ busy \in ended'
  /\ busy' = Nothing
  /\ UNCHANGED outcome

Complete ==
  /\ busy = Nothing /\ outcome = "working"
  /\ pending = {} /\ ended = found
  /\ outcome' = "complete"
  /\ UNCHANGED <<found, pending, ended, busy>>

CutShort ==
  /\ busy = Nothing /\ outcome = "working"
  /\ ended = found
  /\ outcome' = "cut"
  /\ UNCHANGED <<found, pending, ended, busy>>

(* An error in the middle of an evaluation.                                *)
GiveUp ==
  /\ busy # Nothing
  /\ busy' = Nothing
  /\ outcome' = "failed"
  /\ UNCHANGED <<found, pending, ended>>

Next == Begin \/ Evaluate \/ End \/ Complete \/ CutShort \/ GiveUp

Spec == Init /\ [][Next]_wvars

=============================================================================

------------------------------- MODULE MCHeap -------------------------------
(* Instances of WordValues, PagedList and StackPages for the model checker. *)
(* The structures do not meet: a behaviour uses one of them.                *)
EXTENDS WordValues, PagedList, StackPages

VARIABLE used

HeapInit ==
  /\ Init /\ ListInit /\ StackInit
  /\ used \in {"map", "list", "stack"}

HeapNext ==
  /\ UNCHANGED used
  /\ \/ used = "map" /\ Next /\ UNCHANGED <<listVars, stackVars>>
     \/ used = "list" /\ ListNext /\ UNCHANGED <<vars, stackVars>>
     \/ used = "stack" /\ StackNext /\ UNCHANGED <<vars, listVars>>

HeapSpec == HeapInit /\ [][HeapNext]_<<vars, listVars, stackVars, used>>

=============================================================================

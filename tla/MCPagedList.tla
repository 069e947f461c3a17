----------------------------- MODULE MCPagedList ----------------------------
(* Instances of PagedList for the model checker.                           *)
EXTENDS PagedList
=============================================================================

---------------------------- MODULE MCExecution -----------------------------
(***************************************************************************)
(* Instances of Execution for the model checker: the images of one family, *)
(* and what memory that was never initialised holds.                       *)
(***************************************************************************)
EXTENDS Execution, Images

MCPrograms == AllImages

MCUninitialized == {0}

=============================================================================

----------------------------- MODULE MCFuncFind -----------------------------
(***************************************************************************)
(* Instances of FuncFind for the model checker: the images of one family,  *)
(* and what memory that was never initialised holds.                       *)
(***************************************************************************)
EXTENDS FuncFind, Images

MCPrograms == AllImages

MCUninitialized == {0}

=============================================================================

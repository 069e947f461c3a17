------------------------------ MODULE MCFinder ------------------------------
(***************************************************************************)
(* Instances of Finder for the model checker: the images of one family,    *)
(* and what memory that was never initialised holds.                       *)
(***************************************************************************)
EXTENDS Finder, Images

MCPrograms == AllImages

(* More than one value only where registers that nobody has written are    *)
(* compared: in the states of interrupt handlers.                          *)
MCUninitialized == IF Family = "transfers" THEN {0, 1} ELSE {0}

=============================================================================

--------------------------- MODULE MCRegisterFile ---------------------------
(* Registers of two bytes of two values each. *)
EXTENDS RegisterFile

MCImmediate == {0, 1}

MCGarbage == {0}

AllMoves == {<<"ax", "bp">>, <<"bp", "ax">>, <<"ax", "sp">>, <<"sp", "ax">>,
             <<"bp", "sp">>, <<"sp", "bp">>}

(* A frame is set up with mov bp, sp, and given up with pop bp. *)
FrameMoves == {<<"sp", "bp">>}

(* The programs that have no frames. *)
NoFrames == AllMoves \ {<<"sp", "bp">>}

=============================================================================

----------------------------- MODULE MCListing -----------------------------
EXTENDS Listing

MCByte == {"nop", "inc", "mov", "bad", "and", "jmp"}
MCLength == [nop |-> 1, inc |-> 1, mov |-> 3, bad |-> 0, and |-> 2, jmp |-> 2]
MCFarJump == {"jmp"}
MCText == {"inc", "and"}
MCImages ==
  {[p \in 0..4 |-> s[p + 1]] :
     s \in {<<"nop", "mov", "inc", "nop", "inc">>,
            <<"mov", "inc", "inc", "inc", "and">>,
            <<"inc", "and", "nop", "bad", "nop">>,
            <<"bad", "jmp", "nop", "bad", "inc">>,
            <<"nop", "jmp", "nop", "inc", "and">>}}
MCSegments == {<<1, 3>>}
=============================================================================

----------------------------- MODULE IdealValues ----------------------------
(***************************************************************************)
(* What the finder expects of the values that it keeps for the words of    *)
(* the program: a working table, and the table of the origin of a block,   *)
(* which starts as a copy and can only lose knowledge when the block is    *)
(* reached again.                                                          *)
(***************************************************************************)
CONSTANTS
  Key,       \* the variables
  Known,     \* what may be known of a variable
  Unknown,   \* its value is not known
  Original   \* it has not been written: its value stands in the image

VARIABLES values, kept

vars == <<values, kept>>

Table == [Key -> Known \cup {Unknown, Original}]

Init == values = [k \in Key |-> Original] /\ kept = values

Store(k) ==
  /\ values' \in Table
  /\ \A j \in Key \ {k} : values'[j] = values[j]
  /\ UNCHANGED kept

Keep == kept' = values /\ UNCHANGED values

Lose ==
  /\ kept' \in Table
  /\ \A k \in Key : kept'[k] # kept[k] => kept[k] \in Known /\ kept'[k] = Unknown
  /\ UNCHANGED values

Resume == values' = kept /\ UNCHANGED kept

Next ==
  \/ \E k \in Key : Store(k)
  \/ Keep \/ Lose \/ Resume

Spec == Init /\ [][Next]_vars

=============================================================================

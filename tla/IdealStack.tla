----------------------------- MODULE IdealStack -----------------------------
(***************************************************************************)
(* What the finder expects of the stacks it follows: a working stack that  *)
(* never ends, and the stack kept by the origin of a block, which knows an *)
(* entry only as long as every stack that arrived there agrees on it.      *)
(***************************************************************************)
EXTENDS Integers

CONSTANTS
  Value,    \* the words a stack may hold
  Unknown,  \* what is known of all other entries
  Depth     \* bound: entries that are told apart

VARIABLES
  stack,    \* the working stack, from its top
  saved     \* the stack of the origin

vars == <<stack, saved>>

Entry == Value \cup {Unknown}
Stack == [0..(Depth - 1) -> Entry]
Empty == [i \in 0..(Depth - 1) |-> Unknown]

Init == stack = Empty /\ saved = Empty

Push ==
  /\ stack' \in Stack
  /\ \A i \in DOMAIN stack \ {0} : stack'[i] = stack[i - 1]
  /\ UNCHANGED saved

Pop ==
  /\ stack' = [i \in DOMAIN stack |->
                 IF i + 1 \in DOMAIN stack THEN stack[i + 1] ELSE Unknown]
  /\ UNCHANGED saved

Put(i) ==
  /\ stack' \in Stack
  /\ \A j \in DOMAIN stack \ {i} : stack'[j] = stack[j]
  /\ UNCHANGED saved

Keep == saved' = stack /\ UNCHANGED stack

(* Knowledge may be lost, and is lost where the stacks differ.             *)
Agree ==
  /\ saved' \in Stack
  /\ \A i \in DOMAIN saved : saved'[i] # Unknown =>
       saved'[i] = saved[i] /\ saved'[i] = stack[i]
  /\ UNCHANGED stack

Resume == stack' = saved /\ UNCHANGED saved

Next ==
  \/ Push \/ Pop \/ \E i \in DOMAIN stack : Put(i)
  \/ Keep \/ Agree \/ Resume

Spec == Init /\ [][Next]_vars

=============================================================================

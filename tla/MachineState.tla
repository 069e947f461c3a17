---------------------------- MODULE MachineState ----------------------------
(***************************************************************************)
(* What the disassembler knows about the machine at one point of the       *)
(* program it reads: the registers (register.c), the stack (stack.c) and   *)
(* the words stored in global variables (gvwvmap.c), reduced to one        *)
(* general register, the stack and one word variable, which is what        *)
(* finder.c needs to find indirect targets and return addresses.           *)
(*                                                                         *)
(* A word is a number of 0..Size: an address of the image, or Size for any *)
(* value that is not an address of the image.                              *)
(***************************************************************************)
EXTENDS Naturals, Sequences

CONSTANTS
  Size,       \* bytes of the image that is disassembled
  Undef,      \* a stack entry or a variable whose value is not known
  Original    \* a variable that still has the value stored in the image

Word == 0..Size

(***************************************************************************)
(* The value bytes of a register survive when its defined bit is cleared,  *)
(* and changes_on_merging_registers reads them all the same.               *)
(***************************************************************************)
Register == [def : BOOLEAN, val : Word]

(* The head of the sequence is the top of the stack. *)
Stack == Seq(Word \cup {Undef})

Variable == Word \cup {Undef, Original}

State == [reg : Register, stack : Stack, var : Variable]

-----------------------------------------------------------------------------
(* The stack.  Below its bottom every entry is undefined.                  *)

Top(stack) == IF stack = <<>> THEN Undef ELSE Head(stack)

PushWord(stack, w) == <<w>> \o stack

PopWord(stack) == IF stack = <<>> THEN stack ELSE Tail(stack)

-----------------------------------------------------------------------------
(* The effect of the instructions that only move data.  A pop of an        *)
(* undefined top leaves the value bytes of the register as they were.      *)

SetRegister(s, w) == [s EXCEPT !.reg = [def |-> TRUE, val |-> w]]

UndefineRegister(s) == [s EXCEPT !.reg.def = FALSE]

RegisterWord(s) == IF s.reg.def THEN s.reg.val ELSE Undef

PushRegister(s) == [s EXCEPT !.stack = PushWord(@, RegisterWord(s))]

PopRegister(s) ==
  LET popped == [s EXCEPT !.stack = PopWord(@)]
  IN IF Top(s.stack) = Undef THEN UndefineRegister(popped)
                             ELSE SetRegister(popped, Top(s.stack))

(* A variable that gets its original value back leaves the map.            *)
StoreRegister(s, original) ==
  [s EXCEPT !.var = IF RegisterWord(s) = original THEN Original
                                                  ELSE RegisterWord(s)]

PushReturn(s, ip) == [s EXCEPT !.stack = PushWord(@, ip)]

PopReturn(s) == [s EXCEPT !.stack = PopWord(@)]

-----------------------------------------------------------------------------
(* Merging: what is known when the code may be reached with the state a or *)
(* with the state b.  Only entries that a defines are looked at: a value   *)
(* that only b knows, and an original value that b has replaced, go        *)
(* unnoticed.                                                              *)

JoinRegister(a, b) ==
  [a EXCEPT !.def = a.def /\ b.def /\ a.val = b.val]

SameEntry(a, b, i) == i <= Len(b) /\ b[i] = a[i]

JoinStack(a, b) ==
  [i \in 1..Len(a) |-> IF SameEntry(a, b, i) THEN a[i] ELSE Undef]

JoinVariable(a, b) == IF a \in Word /\ b # a THEN Undef ELSE a

Join(a, b) == [reg   |-> JoinRegister(a.reg, b.reg),
               stack |-> JoinStack(a.stack, b.stack),
               var   |-> JoinVariable(a.var, b.var)]

(* Whether merging b into a would change a, as finder.c asks before it     *)
(* merges.  The values of a register are compared even when undefined.     *)

ChangesRegister(a, b) == (a.def /\ ~b.def) \/ a.val # b.val

ChangesStack(a, b) ==
  \E i \in 1..Len(a) : a[i] # Undef /\ ~SameEntry(a, b, i)

ChangesVariable(a, b) == a \in Word /\ b # a

Changes(a, b) == \/ ChangesRegister(a.reg, b.reg)
                 \/ ChangesStack(a.stack, b.stack)
                 \/ ChangesVariable(a.var, b.var)

(* The merge that leaves the stack alone, where only the registers and the *)
(* variables are compared.                                                 *)
ChangesButStack(a, b) == \/ ChangesRegister(a.reg, b.reg)
                         \/ ChangesVariable(a.var, b.var)

JoinButStack(a, b) == [Join(a, b) EXCEPT !.stack = a.stack]

(* The states first and others merged one after the other into the first. *)
JoinAll(first, others) ==
  [reg   |-> [first.reg EXCEPT
               !.def = @ /\ \A s \in others : s.reg = first.reg],
   stack |-> [i \in 1..Len(first.stack) |->
               IF \A s \in others : SameEntry(first.stack, s.stack, i)
               THEN first.stack[i] ELSE Undef],
   var   |-> IF first.var \in Word /\ \E s \in others : s.var # first.var
             THEN Undef ELSE first.var]

-----------------------------------------------------------------------------
(* The information order: whatever weak says of the machine, strong says   *)
(* too.  An Original variable counts as a value of its own.                *)

Weaker(weak, strong) ==
  /\ weak.reg.def => weak.reg = strong.reg
  /\ \A i \in 1..Len(weak.stack) :
       weak.stack[i] # Undef => SameEntry(weak.stack, strong.stack, i)
  /\ weak.var # Undef => weak.var = strong.var

=============================================================================

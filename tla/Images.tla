------------------------------- MODULE Images -------------------------------
(***************************************************************************)
(* Images for the model checker: every sequence of a few instructions of a *)
(* menu, laid out from address 0.  The bytes inside of an instruction      *)
(* decode as "next"; the bytes behind the last one are padding.            *)
(*                                                                         *)
(* In a menu the operand of a jump, or of "set", is the place of an        *)
(* instruction in the sequence: code is entered at instruction starts, as  *)
(* in any program a compiler emits.  Slots + 1 is the padding, Slots + 2   *)
(* the end of the image.                                                   *)
(***************************************************************************)
EXTENDS MachineState

CONSTANTS
  Slots,     \* instructions of an image
  Family     \* the menu the instructions are taken from

Addr == 0..(Size - 1)

Place == 1..(Slots + 1)
EndOfImage == Slots + 2

I(op, len, arg) == [op |-> op, len |-> len, arg |-> arg]
Plain(op) == I(op, 1, 0)
Jumping(op, len, places) == {I(op, len, p) : p \in places}

Branches == {Plain("next"), I("set", 1, 1), Plain("push")}
            \cup Jumping("jcc", 2, Place) \cup Jumping("short", 2, Place)

Calls == {Plain("ret"), Plain("push"), Plain("pop")}
         \cup Jumping("jcc", 2, {1, 3}) \cup Jumping("call", 3, Place)

Executables == {Plain("ret"), Plain("next"), Plain("push"), Plain("pop"),
                I("int", 2, 0), I("dos", 2, 0)}
               \cup Jumping("call", 2, Place) \cup Jumping("short", 2, Place)
               \cup Jumping("jcc", 2, Place)

Indirect == {I("set", 1, 3), Plain("store"), Plain("load"), Plain("ret"),
             I("icall", 2, 0), I("ijmp", 2, 0)}
            \cup Jumping("jcc", 2, {2, 4})

Interrupts == {I("set", 1, 3), I("int", 2, 0), I("dos", 2, 0), I("clock", 2, 0),
               Plain("vector"), Plain("hook"), Plain("sti"), Plain("unknown"),
               I("short", 2, 2)}

Functions == {Plain("ret"), I("ret", 1, 2), Plain("push"), Plain("pop"),
              I("short", 2, 7), I("call", 3, 6)}
             \cup Jumping("jcc", 2, {4, 6})

Edges == {Plain("unknown"), Plain("bad"), Plain("far"), Plain("store"),
          I("set", 1, EndOfImage), I("ijmp", 2, 0)}
         \cup Jumping("near", 3, {1, 2, EndOfImage})
         \cup Jumping("jcc", 2, {2, EndOfImage})

Menu == [branches   |-> Branches,   calls |-> Calls, indirect |-> Indirect,
         interrupts |-> Interrupts, edges |-> Edges]

Transfers == {"calls", "indirect", "interrupts", "edges"}

(* Nothing falls into a subroutine: what is called stands behind a return  *)
(* or a jump.                                                              *)
Structured(is) ==
  \A i \in 1..Slots : is[i].op = "call" =>
    is[i].arg > 1 /\ is[is[i].arg - 1].op \in {"ret", "short"}

(* A program that calls two functions comes before the functions.          *)
MainProgram(p) == <<I("call", 3, p), I("call", 3, 6), I("exit", 2, 0)>>

(* A program calls a function behind an interrupt handler and the code     *)
(* that the function returns to.                                           *)
HandlerProgram == <<I("call", 3, 4), I("short", 2, 2), I("short", 2, 3)>>

Hooking == {I("set", 1, 3), Plain("hook"), Plain("sti"), Plain("ret")}

Of(family) == [1..Slots -> Menu[family]]

Listings ==
  CASE Family = "executables" -> {is \in [1..Slots -> Executables] : Structured(is)}
    [] Family = "functions"   -> {MainProgram(p) \o is :
                                    p \in {4, 6}, is \in [1..(Slots - 3) -> Functions]}
    [] Family = "handlers"    -> {HandlerProgram \o is :
                                    is \in [1..(Slots - 3) -> Hooking]}
    [] Family = "transfers"   -> UNION {Of(f) : f \in Transfers}
    [] OTHER                  -> Of(Family)

Takes(is, family) == Family = "transfers" /\ is \in Of(family)

(* The instruction behind the last one.  The images at the edges run off   *)
(* their end.                                                              *)
Padding(is) ==
  CASE Takes(is, "indirect") -> "ret"
    [] Takes(is, "edges")    -> "next"
    [] OTHER                 -> "exit"

(* The word of the image matters to the indirect jumps only.               *)
WordPlaces(is) == IF Takes(is, "indirect") THEN 2..Slots ELSE {1}

(* The address of every place.                                             *)
Offsets(is) ==
  LET start[i \in 1..EndOfImage] ==
        CASE i = 1          -> 0
          [] i = EndOfImage -> Size
          [] OTHER          -> start[i - 1] + is[i - 1].len
  IN start

Layout(is, start, padding) ==
  LET At(a) == {i \in 1..Slots : start[i] = a}
      Resolved(i) == IF i.arg = 0 \/ i.op = "ret" THEN i
                     ELSE [i EXCEPT !.arg = start[@]]
  IN [a \in Addr |->
       IF At(a) # {} THEN Resolved(is[CHOOSE i \in At(a) : TRUE])
       ELSE Plain(IF a >= start[Slots + 1] THEN padding ELSE "next")]

Assembled(is, start, w) ==
  [code |-> Layout(is, start, Padding(is)), entry |-> 0, word |-> start[w]]

AllImages ==
  LET fitting == {is \in Listings : Offsets(is)[Slots + 1] <= Size}
  IN {Assembled(i[1], Offsets(i[1]), i[2]) :
        i \in {<<is, w>> \in fitting \X (1..Slots) : w \in WordPlaces(is)}}

=============================================================================

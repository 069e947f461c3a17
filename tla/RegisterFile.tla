---------------------------- MODULE RegisterFile ----------------------------
(***************************************************************************)
(* register.c in detail: what is known of AX, with a bit for each half, of *)
(* the stack and base pointers, which may be tied to each other while both *)
(* are unknown, and of a segment register; and what the origin of a block  *)
(* keeps when the block is reached again and again.                        *)
(*                                                                         *)
(* The machine is modelled beside the registers, as far as the             *)
(* instructions that finder.c reports to register.c change it: a known     *)
(* value should be the value of every machine that gets there.             *)
(*                                                                         *)
(* Left out: CX, DX, BX, SI, DI and the other segments, which are handled  *)
(* as AX, BP and DS are; values known to be a word of the stack ("local"), *)
(* which nothing but the merge looks at; last_update, value_origin and     *)
(* merged, which lead from a value back to the instruction that set it.    *)
(***************************************************************************)
EXTENDS Integers, FiniteSets

CONSTANTS
  Base,       \* the values of a byte: a word is a number below Base * Base
  Immediate,  \* the words that instructions hold
  Garbage,    \* what the value bytes of an unknown register may hold
  None,       \* nothing is kept for the origin yet
  Moves,      \* the moves from a register to another that programs make
  Length,     \* instructions between two arrivals
  Machines    \* machines that arrive at the block

Byte == 0..(Base - 1)
Word == 0..(Base * Base - 1)

(* Mutant: pointers are wider than a word.                                 *)
Unwrapped(n) == n

(* uint16_t                                                                *)
Wrapped(n) == n % (Base * Base)

Low(w) == w % Base
High(w) == w \div Base

Halves == {"al", "ah"}
Words == {"sp", "bp", "ds"}
MainWords == {"ax", "sp", "bp"}
AllWords == {"ax"} \cup Words

(* relative: the values that are counted from the start of the segment.    *)
(* tied: bit 0 of the field, SP = BP + val.sp, which only counts while     *)
(* neither SP nor BP is known.                                             *)
Registers == [al : Byte, ah : Byte, sp : Word, bp : Word, ds : Word,
              defined  : SUBSET (Halves \cup Words),
              relative : SUBSET AllWords,
              tied     : BOOLEAN]

Ax(r) == r.ah * Base + r.al

AxKnown(r) == Halves \subseteq r.defined

WordKnown(r, w) == IF w = "ax" THEN AxKnown(r) ELSE w \in r.defined

WordValue(r, w) == IF w = "ax" THEN Ax(r) ELSE r[w]

Tied(r) == r.tied /\ r.defined \cap {"sp", "bp"} = {} /\ "sp" \notin r.relative

ASSUME RegisterFileAssumption ==
  /\ Base \in Nat \ {0, 1}
  /\ Immediate \subseteq Word /\ Garbage \subseteq Word
  /\ None \notin Registers
  /\ Moves \subseteq (MainWords \X MainWords)
  /\ Length \in Nat /\ Machines \in Nat

(* The value of a machine register: a number counted from zero, from the   *)
(* start of the segment, from where SP stood when the program started, or  *)
(* from a value that nobody knows.                                         *)
Origin == {"zero", "segment", "stack", "unknown"}
Value == [from : Origin, n : Word]
Machine == [Halves \cup Words -> Value]

VARIABLES
  regs,     \* the registers while a block is read
  real,     \* the machine that executes the same instructions
  kept,     \* the registers that the origin of the block keeps
  seen,     \* the machines that arrived at the block
  steps     \* instructions since the last arrival

vars == <<regs, real, kept, seen, steps>>

TypeOK ==
  /\ regs \in Registers
  /\ real \in Machine
  /\ kept \in Registers \cup {None}
  /\ seen \subseteq Machine
  /\ steps \in 0..Length

-----------------------------------------------------------------------------
(* What the instructions tell register.c.                                  *)

SetByte(r, h, v) ==
  [r EXCEPT ![h] = v, !.defined = @ \cup {h}, !.relative = @ \ {"ax"}]

SetBytes(r, v) ==
  [r EXCEPT !.al = Low(v), !.ah = High(v), !.defined = @ \cup Halves]

SetWord(r, w, v) ==
  IF w = "ax" THEN [SetBytes(r, v) EXCEPT !.relative = @ \ {"ax"}]
  ELSE [r EXCEPT ![w] = v, !.defined = @ \cup {w}, !.relative = @ \ {w}]

SetRelative(r, w, v) ==
  IF w = "ax" THEN [SetBytes(r, v) EXCEPT !.relative = @ \cup {"ax"}]
  ELSE [r EXCEPT ![w] = v, !.defined = @ \cup {w}, !.relative = @ \cup {w}]

UndefineWord(r, w) ==
  IF w = "ax" THEN [r EXCEPT !.defined = @ \ Halves, !.relative = @ \ {"ax"}]
  ELSE [r EXCEPT !.defined = @ \ {w}, !.relative = @ \ {w},
                 !.tied = @ /\ w # "sp"]

(* set_register_al_undefined and set_register_ah_undefined: both clear the *)
(* bit of AL.                                                              *)
UndefineByte(r, h) ==
  [r EXCEPT !.defined = @ \ {"al"}, !.relative = @ \ {"ax"}]

(* Copies what is known of the word v of the registers s.                  *)
CopyWord(r, w, s, v) ==
  CASE WordKnown(s, v) /\ v \in s.relative -> SetRelative(r, w, WordValue(s, v))
    [] WordKnown(s, v) /\ v \notin s.relative -> SetWord(r, w, WordValue(s, v))
    [] OTHER -> UndefineWord(r, w)

(* set_register_sp_relative_from_bp                                        *)
TieStack(r, n) ==
  LET sum == Wrapped(r.bp + n)
  IN CASE "bp" \in r.defined /\ "bp" \in r.relative -> SetRelative(r, "sp", sum)
       [] "bp" \in r.defined /\ "bp" \notin r.relative -> SetWord(r, "sp", sum)
       [] OTHER -> [r EXCEPT !.sp = Wrapped(n), !.defined = @ \ {"sp"},
                             !.relative = @ \ {"sp"}, !.tied = TRUE]

(* A push or a pop moves SP by n.                                          *)
MoveStack(r, n) ==
  CASE "sp" \in r.defined /\ "sp" \in r.relative ->
         SetRelative(r, "sp", Wrapped(r.sp + n))
    [] "sp" \in r.defined /\ "sp" \notin r.relative ->
         SetWord(r, "sp", Wrapped(r.sp + n))
    [] Tied(r) -> TieStack(r, r.sp + n)
    [] OTHER -> r

-----------------------------------------------------------------------------
(* Merging (merge_registers) and the question whether it would change      *)
(* anything (changes_on_merging_registers).                                *)

SameHalves(r, o) == {h \in Halves \cap r.defined \cap o.defined : r[h] = o[h]}

(* A half that both know stays known, even when the other registers knew   *)
(* a relative word and these only the half.                                *)
MergedHalves(r, o) ==
  IF AxKnown(r) /\ AxKnown(o) /\ "ax" \in r.relative \cup o.relative
  THEN IF "ax" \in r.relative \cap o.relative /\ Ax(r) = Ax(o) THEN Halves ELSE {}
  ELSE SameHalves(r, o)

(* Mutant: a word that the others do not know stays known.                 *)
MergedWordsOfOne(r, o) ==
  {w \in Words \cap r.defined :
     w \in o.defined => r[w] = o[w] /\ (w \in r.relative <=> w \in o.relative)}

MergedWords(r, o) ==
  {w \in Words \cap r.defined \cap o.defined :
     r[w] = o[w] /\ (w \in r.relative <=> w \in o.relative)}

MergedRelative(r, o) ==
  {w \in r.relative \cap o.relative :
     WordValue(r, w) = WordValue(o, w) /\ (WordKnown(r, w) <=> WordKnown(o, w))}

(* Bit 0 is only looked at when neither knows SP.                          *)
MergedTie(r, o, defined) ==
  LET unknown == "sp" \notin r.defined \cup o.defined \cup r.relative
      untied == \/ "sp" \in o.relative
                \/ /\ "bp" \notin defined
                   /\ "bp" \in o.defined \/ (r.tied /\ (~o.tied \/ r.sp # o.sp))
  IN r.tied /\ ~(unknown /\ untied)

Merge(r, o) ==
  LET defined == MergedHalves(r, o) \cup MergedWords(r, o)
  IN [r EXCEPT !.defined = defined, !.relative = MergedRelative(r, o),
               !.tied = MergedTie(r, o, defined)]

(* Bit 0 of both is compared with AX: the loop over the general registers  *)
(* begins with AX, the first pass is meant for SP.                         *)
TieChanges(r, o) ==
  IF "ax" \in r.relative THEN Ax(r) # Ax(o)
  ELSE "bp" \notin r.defined /\ (r.tied # o.tied \/ (r.tied /\ Ax(r) # Ax(o)))

WordChanges(r, o, w) ==
  w \in r.defined \cup r.relative /\ r[w] # o[w]

(* Nothing is compared when only one half is known.                        *)
AxChanges(r, o) ==
  /\ AxKnown(r) \/ Halves \cap r.defined = {}
  /\ ~("ax" \in r.relative <=> "ax" \in o.relative) \/ Ax(r) # Ax(o)

(* Mutant: SP, BP and the segments are compared by their values only.      *)
ChangesByValue(r, o) ==
  \/ ~(r.defined \subseteq o.defined)
  \/ TieChanges(r, o)
  \/ \E w \in Words : WordChanges(r, o, w)
  \/ AxChanges(r, o)

Changes(r, o) ==
  \/ ~(r.defined \subseteq o.defined)
  \/ ~(Words \cap r.relative \subseteq o.relative)
  \/ TieChanges(r, o)
  \/ \E w \in Words : WordChanges(r, o, w)
  \/ AxChanges(r, o)

-----------------------------------------------------------------------------
(* The machine.                                                            *)

Unknown == [from |-> "unknown", n |-> 0]
Number(n) == [from |-> "zero", n |-> n]
Segment(n) == [from |-> "segment", n |-> n]

Plus(value, n) == [value EXCEPT !.n = Wrapped(@ + n)]

MachineAx(m) ==
  CASE m.al = m.ah -> m.al
    [] m.al # m.ah /\ m.al.from = "zero" /\ m.ah.from = "zero" ->
         Number(High(m.ah.n) * Base + Low(m.al.n))
    [] OTHER -> Unknown

MachineWord(m, w) == IF w = "ax" THEN MachineAx(m) ELSE m[w]

Put(m, w, value) ==
  IF w = "ax" THEN [m EXCEPT !.al = value, !.ah = value]
  ELSE [m EXCEPT ![w] = value]

-----------------------------------------------------------------------------
(* Init: the registers of the origin of type OS.  In a COM file DS is the  *)
(* segment of the program.                                                 *)

OsRegisters(garbage, ds) ==
  [al |-> Low(garbage), ah |-> High(garbage), sp |-> garbage, bp |-> garbage,
   ds |-> IF ds = Unknown THEN garbage ELSE ds.n,
   defined  |-> IF ds = Unknown THEN {} ELSE {"ds"},
   relative |-> IF ds = Unknown THEN {} ELSE {"ds"},
   tied     |-> FALSE]

OsMachine(ds) ==
  [r \in Halves \cup Words |-> CASE r = "sp" -> [from |-> "stack", n |-> 0]
                                 [] r = "ds" -> ds
                                 [] OTHER    -> Unknown]

AtStart(r, m) ==
  \E garbage \in Garbage, ds \in {Unknown, Segment(0)} :
    r = OsRegisters(garbage, ds) /\ m = OsMachine(ds)

Init ==
  /\ AtStart(regs, real)
  /\ kept = None
  /\ seen = {}
  /\ steps = 0

-----------------------------------------------------------------------------
(* The instructions (finder.c).                                            *)

Executed(r, m) ==
  /\ steps < Length /\ Cardinality(seen) < Machines
  /\ steps' = steps + 1
  /\ regs' = r
  /\ real' = m
  /\ UNCHANGED <<kept, seen>>

MoveImmediate ==
  \E w \in MainWords, v \in Immediate :
    Executed(SetWord(regs, w, v), Put(real, w, Number(v)))

(* A word that the table of relocations of the file lists.                 *)
MoveRelocated ==
  \E v \in Immediate : Executed(SetRelative(regs, "ax", v), Put(real, "ax", Segment(v)))

MoveByte ==
  \/ \E v \in Byte : Executed(SetByte(regs, "al", v), [real EXCEPT !.al = Number(v)])
  \/ \E v \in Byte :
       Executed(SetByte(regs, "ah", v), [real EXCEPT !.ah = Number(v * Base)])

(* mov al, [v] and cbw with an unknown al                                  *)
LoadByte ==
  \E h \in Halves :
    /\ h = "ah" => "al" \notin regs.defined
    /\ Executed(UndefineByte(regs, h), [real EXCEPT ![h] = Unknown])

LoadWord == Executed(UndefineWord(regs, "ax"), Put(real, "ax", Unknown))

(* mov between registers.  BP is left as it was when SP, which is moved to *)
(* it, is not known: SP is tied to BP, or set if BP was known.             *)
MoveRegister ==
  \E move \in Moves :
    LET source == move[1]
        target == move[2]
        ties == ~WordKnown(regs, source) /\ {source, target} = {"sp", "bp"}
    IN Executed(IF ties THEN TieStack(regs, 0) ELSE CopyWord(regs, target, regs, source),
                Put(real, target, MachineWord(real, source)))

MoveSegment ==
  \/ Executed(CopyWord(regs, "ds", regs, "ax"), Put(real, "ds", MachineAx(real)))
  \/ Executed(CopyWord(regs, "ax", regs, "ds"), Put(real, "ax", real.ds))

(* sub reg, imm.  Nothing is done to a word of which one half is known.    *)
Subtract ==
  \E w \in MainWords, v \in Immediate :
    LET less == Wrapped(WordValue(regs, w) - v)
    IN Executed(CASE WordKnown(regs, w) /\ w \in regs.relative -> SetRelative(regs, w, less)
                  [] WordKnown(regs, w) /\ w \notin regs.relative -> SetWord(regs, w, less)
                  [] w = "sp" /\ Tied(regs) -> TieStack(regs, regs.sp - v)
                  [] w = "bp" /\ Tied(regs) -> TieStack(regs, regs.sp + v)
                  [] OTHER -> regs,
                Put(real, w, Plus(MachineWord(real, w), -v)))

Push == Executed(MoveStack(regs, -2), [real EXCEPT !.sp = Plus(@, -2)])

(* What was pushed is known, or it is not.                                 *)
Popped(r, w, top) ==
  CASE top.from = "zero"    -> SetWord(r, w, top.n)
    [] top.from = "segment" -> SetRelative(r, w, top.n)
    [] OTHER                -> UndefineWord(r, w)

Tops == {Unknown} \cup {Number(n) : n \in Immediate} \cup {Segment(n) : n \in Immediate}

Pop ==
  \E w \in {"ax", "bp", "ds"}, top \in Tops :
    Executed(MoveStack(Popped(regs, w, top), 2),
             Put([real EXCEPT !.sp = Plus(@, 2)], w, top))

-----------------------------------------------------------------------------
(* The block is reached from the origin.                                   *)

(* The first arrival leaves its registers there.  Each further one is      *)
(* merged if that changes something, or if a block falls in or a call      *)
(* returns with a stack or variables that change what is kept of those.    *)
Kept(r) ==
  CASE kept = None -> {r}
    [] kept # None /\ Changes(kept, r) -> {Merge(kept, r)}
    [] OTHER -> {kept, Merge(kept, r)}

(* The block is then read with what the origin keeps, and any machine that *)
(* arrived may execute it; or the origin is reached on another path.       *)
Arrive ==
  /\ Cardinality(seen) < Machines
  /\ kept' \in Kept(regs)
  /\ seen' = seen \cup {real}
  /\ steps' = 0
  /\ \/ regs' = kept' /\ real' \in seen'
     \/ AtStart(regs', real')

Next ==
  \/ MoveImmediate \/ MoveRelocated \/ MoveByte \/ LoadByte \/ LoadWord
  \/ MoveRegister \/ MoveSegment \/ Subtract \/ Push \/ Pop \/ Arrive

Spec == Init /\ [][Next]_vars

-----------------------------------------------------------------------------
(* Correctness properties.                                                 *)

RelativeIn(r, m) ==
  \A w \in r.relative :
    WordKnown(r, w) => MachineWord(m, w) = Segment(WordValue(r, w))

(* A value that is known to count from the segment does so in every        *)
(* machine: finder.c turns it into an address of the image and makes a     *)
(* variable, a string or a block of what stands there.                     *)
RelativeAgrees ==
  /\ RelativeIn(regs, real)
  /\ kept # None => \A m \in seen : RelativeIn(kept, m)

(* Registers that arrive once more change nothing, so that the block is    *)
(* not read again and again; unless AX is not known or SP is tied to BP:   *)
(* then the bytes of AX are compared whether they are known or not, or a   *)
(* tie that only those that arrive have is noticed and cannot be merged.   *)
MergeSettles ==
  [][Arrive /\ AxKnown(kept') /\ ~kept'.tied /\ ~regs.tied
       => ~Changes(kept', regs)]_vars

(* register.h: if bit 0 is set, SP is known to be BP + v.                  *)
TiedStackAgrees ==
  Tied(regs) => real.sp = Plus(real.bp, regs.sp)

=============================================================================

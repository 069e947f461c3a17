------------------------------- MODULE Finder -------------------------------
(***************************************************************************)
(* compose_pcontent (finder.c): the worklist that finds the code blocks of *)
(* an image.  Every block that may have changed is decoded from its start  *)
(* with what its origins agree on; jumps, calls, returns and interrupts    *)
(* register further blocks and origins, which may invalidate blocks that   *)
(* were decoded before, until a whole loop finds nothing to evaluate or    *)
(* CBLOCK_EVALUATION_LOOP_LIMIT is reached.                                *)
(*                                                                         *)
(* The program is sequential.  An action is one instruction handler of     *)
(* read_block_instruction_internal, one pass of the loop in read_block     *)
(* that follows it, one origin visited by update_call_origins or one turn  *)
(* of the loops of compose_pcontent.                                       *)
(***************************************************************************)
EXTENDS MachineState, FiniteSets

CONSTANTS
  Limit,          \* CBLOCK_EVALUATION_LOOP_LIMIT
  Programs,       \* the images that are analysed
  Uninitialized,  \* what the value bytes of an undefined register may hold
  None            \* an absent block, origin, interrupt vector or error result

(***************************************************************************)
(* The instructions, by what finder.c does with them.  arg is a jump       *)
(* target, the immediate value of "set" or the bytes that a "ret" pops.    *)
(*   next     nothing of the state changes (nop, inc, cmp...)              *)
(*   set      mov ax, imm            load   mov ax, [v]                    *)
(*   store    mov [v], ax            push, pop                             *)
(*   jcc      conditional jumps      short  jmp rel8 (EB)                  *)
(*   near     jmp rel16 (E9)         call   call rel16 (E8)                *)
(*   icall    call [v] (FF /2)       ijmp   jmp [v] (FF /4)                *)
(*   ret      C2, C3                 int    an interrupt that returns      *)
(*   dos      int 21 that clobbers ax       exit   int 20, int 21/4C       *)
(*   clock    int 1A with a known ah other than 0                          *)
(*   vector   int 21/25, the handler in ax                                 *)
(*   hook     mov [4*n], ax          sti                                   *)
(*   far      jmp ptr16:16 (EA)                                            *)
(*   unknown  an opcode of no case   bad    an opcode answered by return 1 *)
(***************************************************************************)
DataOps == {"next", "set", "load", "store", "push", "pop"}
JumpOps == {"jcc", "short", "near", "call", "icall", "ijmp"}
Ops == DataOps \cup JumpOps \cup
       {"ret", "int", "dos", "exit", "clock", "vector", "hook", "sti", "far",
        "unknown", "bad"}

Instruction == [op : Ops, len : 1..4, arg : Word]

(* entry: where the OS starts the program; word: the word that the image   *)
(* stores in the variable.  No instruction extends beyond the image.       *)
Image == {p \in [code  : [0..(Size - 1) -> Instruction],
                  entry : 0..(Size - 1),
                  word  : Word] :
            \A a \in 0..(Size - 1) :
              /\ a + p.code[a].len <= Size
              /\ p.code[a].op \in {"call", "icall"} => p.code[a].len \in 2..4}

(***************************************************************************)
(* The origins of a block are sorted by type, call returns then by the     *)
(* length of the call and jumps by their address; a key is the place of an *)
(* origin in that order.                                                   *)
(***************************************************************************)
OS == 0
Interruption == 1
Continue == 2
CallReturn(len) == len + 1
Jump(a) == a + 6

Key == 0..(Size + 5)
CallReturns == {CallReturn(len) : len \in 2..4}
Jumps == {Jump(a) : a \in 0..(Size - 1)}

Origins == [Key -> State \cup {None}]

(* slot: the place of the block in the order of insertion.  A block whose  *)
(* end is its start has not been read yet.                                 *)
Block == [end : Word, valid : BOOLEAN, slot : Nat, origins : Origins]

BlockList == [Word -> Block \cup {None}]

ASSUME ConstantsAssumption ==
  /\ Size \in Nat
  /\ Limit \in Nat \ {0}
  /\ Programs \subseteq Image
  /\ Uninitialized \subseteq Word
  /\ Undef \notin Word
  /\ Original \notin Word \cup {Undef}
  /\ None \notin Word /\ None \notin State /\ None \notin Block
  /\ None \notin BlockList

VARIABLES
  prog,     \* the image
  blocks,   \* the list of blocks (cblock_list)
  loop,     \* evaluation_loop
  index,    \* block_index, in the order of insertion
  any,      \* any_evaluated
  phase,    \* where the program is
  cur,      \* the block that is being read
  pos,      \* the position of the reader
  st,       \* regs, stack and var_values while a block is read
  reached,  \* next_instruction_potentially_reached
  vec,      \* the handler that int_table holds
  trail     \* the calls of update_call_origins in progress, innermost first

vars == <<prog, blocks, loop, index, any, phase, cur, pos, st, reached, vec,
          trail>>

Phase == {"scan", "decode", "link", "backtrack", "done", "failed", "overrun"}

Frame == [block : Word, next : Nat]

TypeOK ==
  /\ prog \in Image
  /\ blocks \in BlockList
  /\ loop \in 1..(Limit + 1)
  /\ index \in Nat
  /\ any \in BOOLEAN
  /\ phase \in Phase
  /\ cur \in Word
  /\ pos \in Word
  /\ st \in State
  /\ reached \in BOOLEAN
  /\ vec \in Word \cup {None}
  /\ trail \in Seq(Frame)

-----------------------------------------------------------------------------
(* The block list (mcblist.c).                                             *)

Listed(bs) == {a \in Word : bs[a] # None}

Count(bs) == Cardinality(Listed(bs))

Known(bs, b) == bs[b].end > b

Rank(bs, a) == Cardinality({b \in Listed(bs) : b < a})

AtRank(bs, k) == CHOOSE a \in Listed(bs) : Rank(bs, a) = k

(* What is left to search: from the first rank, up to before the last.     *)
Stretches(bs) == (0..Count(bs)) \X (0..Count(bs))

(* Mutant: the search for a position turns left at a block that starts     *)
(* there.                                                                  *)
RankBefore(bs, p) ==
  LET search[s \in Stretches(bs)] ==
        LET mid == (s[1] + s[2]) \div 2
            a == AtRank(bs, mid)
        IN IF s[1] >= s[2] THEN s[1]
           ELSE IF a >= p THEN search[<<s[1], mid>>]
           ELSE IF p < bs[a].end THEN mid + 1
           ELSE search[<<mid + 1, s[2]>>]
  IN search[<<0, Count(bs)>>]

(***************************************************************************)
(* The binary search of index_of_cblock_containing_position.  It stops at  *)
(* the first probe that contains p, which need not be the block that       *)
(* starts at p when blocks overlap, and answers the last block before p    *)
(* when none contains it.                                                  *)
(***************************************************************************)
RankContaining(bs, p) ==
  LET search[s \in Stretches(bs)] ==
        LET mid == (s[1] + s[2]) \div 2
            a == AtRank(bs, mid)
        IN IF s[1] >= s[2] THEN s[1]
           ELSE IF a > p THEN search[<<s[1], mid>>]
           ELSE IF a = p \/ p < bs[a].end THEN mid + 1
           ELSE search[<<mid + 1, s[2]>>]
  IN search[<<0, Count(bs)>>]

(* None when no block starts at or before p: the search answers no block   *)
(* that starts after p.                                                    *)
Containing(bs, p) ==
  LET found == {a \in Listed(bs) : a <= p /\ Rank(bs, a) + 1 = RankContaining(bs, p)}
  IN IF found = {} THEN None ELSE CHOOSE a \in found : TRUE

Following(bs, b, a) ==
  /\ a \in Listed(bs) /\ a > b
  /\ \A c \in Listed(bs) : c > b => a <= c

SetEnd(bs, b, end) == [bs EXCEPT ![b].end = end]

(* Mutant: the block that contains a new start is left as it is.           *)
ShrinkNothing(bs, c, end) == bs

(* set_mcblock_end and invalidate_mcblock_check on the block that contains *)
(* a position that turns out to be the start of another one.               *)
Shrink(bs, c, end) ==
  IF c = None THEN bs
  ELSE [bs EXCEPT ![c].end = end, ![c].valid = FALSE]

(* Mutant: a new block does not ask for its evaluation.                    *)
InsertValid(bs, b, key, s) ==
  IF b \in Listed(bs) THEN None
  ELSE [bs EXCEPT ![b] =
         [end |-> b, valid |-> TRUE, slot |-> Count(bs),
          origins |-> [k \in Key |-> IF k = key THEN s ELSE None]]]

(* prepare_new_cblock, initialize_mcblock and insert_cblock with a first   *)
(* origin.  The list refuses a start it already has.                       *)
Insert(bs, b, key, s) ==
  IF b \in Listed(bs) THEN None
  ELSE [bs EXCEPT ![b] =
         [end |-> b, valid |-> FALSE, slot |-> Count(bs),
          origins |-> [k \in Key |-> IF k = key THEN s ELSE None]]]

-----------------------------------------------------------------------------
(* The origins of a block (cbolist.c, mcblock.c).                          *)

Present(b) == {k \in Key : b.origins[k] # None}

IsFirst(b, key) == key \in Present(b) /\ \A k \in Present(b) : key <= k

FirstState(b) == b.origins[CHOOSE key \in Key : IsFirst(b, key)]

(* accumulate_..._from_cbolist                                             *)
Accumulated(b) == JoinAll(FirstState(b), {b.origins[k] : k \in Present(b)})

PutOrigin(bs, b, key, s) == [bs EXCEPT ![b].origins[key] = s]

Invalidate(bs, b) == [bs EXCEPT ![b].valid = FALSE]

(* Mutant: the new state replaces the old one instead of being merged into *)
(* it.                                                                     *)
ReplaceOrigin(bs, b, key, s) ==
  IF Changes(bs[b].origins[key], s)
  THEN Invalidate(PutOrigin(bs, b, key, s), b)
  ELSE bs

(* Mutant: the block is evaluated again even if the merge changes nothing. *)
MergeAnyway(bs, b, key, s) ==
  Invalidate(PutOrigin(bs, b, key, Join(bs[b].origins[key], s)), b)

(* A state that reaches the block again from an origin it has.             *)
MergeOrigin(bs, b, key, s) ==
  IF Changes(bs[b].origins[key], s)
  THEN Invalidate(PutOrigin(bs, b, key, Join(bs[b].origins[key], s)), b)
  ELSE bs

(* A new origin invalidates the block when there were others and it adds   *)
(* something to what they agree on.                                        *)
AddOrigin(bs, b, key, s, before) ==
  LET added == PutOrigin(bs, b, key, s)
  IN IF Changes(before, s) THEN Invalidate(added, b) ELSE added

RegisterOrigin(bs, b, key, s) ==
  IF bs[b].origins[key] # None THEN MergeOrigin(bs, b, key, s)
  ELSE AddOrigin(bs, b, key, s, Accumulated(bs[b]))

(* Call returns that are only recorded: nothing is merged or invalidated.  *)
RecordCallReturn(bs, b, key, s) ==
  IF bs[b].origins[key] # None THEN bs ELSE PutOrigin(bs, b, key, s)

-----------------------------------------------------------------------------
(* Registration of the targets of a jump (finder.c).                       *)

(***************************************************************************)
(* The end of add_jump_type_cborigin_in_block: an indirect call from a     *)
(* whose target is a ret that need not be evaluated again.  The block the  *)
(* call returns to, which the call has just pushed, is registered at once  *)
(* unless it is there already.                                             *)
(***************************************************************************)
RegisterReturn(bs, a, s) ==
  LET r == a + prog.code[a].len
      c == Containing(bs, r)
  IN IF r = Size \/ c = r THEN bs
     ELSE Insert(Shrink(bs, c, r), r, CallReturn(r - a), PopReturn(s))

(* add_jump_type_cborigin_in_block on a block that is in the list.         *)
AddJump(bs, b, a, s) ==
  LET registered == RegisterOrigin(bs, b, Jump(a), s)
      returnsAtOnce ==
        /\ bs[b].origins[Jump(a)] = None
        /\ ~Changes(Accumulated(bs[b]), s)
        /\ b < Size /\ prog.code[b].op = "ret" /\ prog.code[b].arg = 0
        /\ prog.code[a].op = "icall"
  IN IF returnsAtOnce THEN RegisterReturn(registered, a, s) ELSE registered

(* register_jump_target_block, for a jump at a to target.                  *)
RegisterTarget(bs, a, target, s) ==
  LET c == Containing(bs, target)
  IN IF c = target THEN AddJump(bs, target, a, s)
     ELSE Insert(Shrink(bs, c, target), target, Jump(a), s)

(* register_next_block: the code goes on at the end of the block b.        *)
RegisterNext(bs, b, s) ==
  LET next == bs[b].end
  IN IF next \in Listed(bs) THEN RegisterOrigin(bs, next, Continue, s)
     ELSE Insert(bs, next, Continue, s)

(* The handler of E8 and E9: the container is cut only if it had been    *)
(* read when the instruction was met and reaches the target.               *)
RegisterNear(bs, a, target, s) ==
  LET c == Containing(bs, target)
      cut == c # None /\ Known(bs, c) /\ bs[c].end > target
  IN IF c = target THEN AddJump(bs, target, a, s)
     ELSE Insert(IF cut THEN Shrink(bs, c, target) ELSE bs, target, Jump(a), s)

(* add_call_return_origin_after_interruption: b ends at its end.           *)
RegisterInterruptReturn(bs, b, s) ==
  LET next == bs[b].end
  IN IF next \in Listed(bs) THEN RecordCallReturn(bs, next, CallReturn(2), s)
     ELSE Insert(bs, next, CallReturn(2), s)

HandlerState(s, reg) == [s EXCEPT !.reg = reg, !.stack = <<>>]

-----------------------------------------------------------------------------
(* The loops of compose_pcontent.                                          *)

OsState(garbage) ==
  [reg |-> [def |-> FALSE, val |-> garbage], stack |-> <<>>, var |-> Original]

Init ==
  /\ prog \in Programs
  /\ st \in {OsState(garbage) : garbage \in Uninitialized}
  /\ blocks = Insert([a \in Word |-> None], prog.entry, OS, st)
  /\ loop = 1
  /\ index = 0
  /\ any = FALSE
  /\ phase = "scan"
  /\ cur = prog.entry
  /\ pos = prog.entry
  /\ reached = FALSE
  /\ vec = None
  /\ trail = <<>>

SkipBlock ==
  /\ phase = "scan"
  /\ \E b \in Listed(blocks) : blocks[b].slot = index /\ blocks[b].valid
  /\ index' = index + 1
  /\ UNCHANGED <<prog, blocks, loop, any, phase, cur, pos, st, reached, vec,
                 trail>>

(* Mutant: any_evaluated is not set.                                       *)
BeginBlockUnnoticed ==
  /\ phase = "scan"
  /\ \E b \in Listed(blocks) :
       /\ blocks[b].slot = index
       /\ ~blocks[b].valid
       /\ cur' = b
       /\ pos' = b
       /\ st' = Accumulated(blocks[b])
       /\ blocks' = [blocks EXCEPT ![b].valid = TRUE]
  /\ vec' = None
  /\ phase' = "decode"
  /\ UNCHANGED <<prog, loop, index, any, reached, trail>>

BeginBlock ==
  /\ phase = "scan"
  /\ \E b \in Listed(blocks) :
       /\ blocks[b].slot = index
       /\ ~blocks[b].valid
       /\ cur' = b
       /\ pos' = b
       /\ st' = Accumulated(blocks[b])
       /\ blocks' = [blocks EXCEPT ![b].valid = TRUE]
  /\ any' = TRUE
  /\ vec' = None
  /\ phase' = "decode"
  /\ UNCHANGED <<prog, loop, index, reached, trail>>

(* Mutant: the loops are not counted.                                      *)
NextLoopUncounted ==
  /\ phase = "scan"
  /\ index = Count(blocks)
  /\ loop < Limit /\ any
  /\ index' = 0
  /\ any' = FALSE
  /\ UNCHANGED <<prog, blocks, loop, phase, cur, pos, st, reached, vec, trail>>

NextLoop ==
  /\ phase = "scan"
  /\ index = Count(blocks)
  /\ loop < Limit /\ any
  /\ loop' = loop + 1
  /\ index' = 0
  /\ any' = FALSE
  /\ UNCHANGED <<prog, blocks, phase, cur, pos, st, reached, vec, trail>>

Finish ==
  /\ phase = "scan"
  /\ index = Count(blocks)
  /\ loop = Limit \/ ~any
  /\ loop' = loop + 1
  /\ phase' = "done"
  /\ UNCHANGED <<prog, blocks, index, any, cur, pos, st, reached, vec, trail>>

-----------------------------------------------------------------------------
(* One instruction (read_block_instruction_internal).                      *)

Instr == prog.code[pos]

(* Mutant: an operand byte too many is read.                               *)
AfterTooMuch == pos + Instr.len + 1

After == pos + Instr.len

Decodes(ops) == phase = "decode" /\ pos < Size /\ Instr.op \in ops

(* The end of a handler, with the block list bs, or with None when a block *)
(* could not be inserted: compose_pcontent then gives up.                  *)
Handled(bs, s, mayGoOn) ==
  /\ phase' = IF bs = None THEN "failed" ELSE "link"
  /\ blocks' = IF bs = None THEN blocks ELSE bs
  /\ st' = s
  /\ reached' = mayGoOn
  /\ pos' = After
  /\ UNCHANGED <<prog, loop, index, any, cur, trail>>

(* Mutant: a block ends before its last instruction.                       *)
EndedBefore(bs) == IF bs = None THEN None ELSE SetEnd(bs, cur, pos)

Ended(bs) == IF bs = None THEN None ELSE SetEnd(bs, cur, After)

Moved == CASE Instr.op = "next"  -> st
           [] Instr.op = "set"   -> SetRegister(st, Instr.arg)
           [] Instr.op = "load"  -> UndefineRegister(st)
           [] Instr.op = "store" -> StoreRegister(st, prog.word)
           [] Instr.op = "push"  -> PushRegister(st)
           [] Instr.op = "pop"   -> PopRegister(st)

(* A variable that gets its original value back is removed from the map of *)
(* values.  When it was the only one the map is reallocated to no bytes,   *)
(* which the C library answers with NULL: taken for a lack of memory.      *)
MapEmptied ==
  /\ Instr.op = "store"
  /\ st.var # Original /\ RegisterWord(st) = prog.word

MoveData ==
  /\ Decodes(DataOps)
  /\ Handled(IF MapEmptied THEN None ELSE blocks, Moved, TRUE)
  /\ UNCHANGED vec

(* Mutant: a branch is taken for a jump.                                   *)
ForwardJump ==
  /\ Decodes({"jcc"})
  /\ Instr.arg >= After
  /\ \E ended \in {Ended(blocks)} :
       Handled(RegisterTarget(ended, pos, Instr.arg, st), st, TRUE)
  /\ UNCHANGED vec

ForwardBranch ==
  /\ Decodes({"jcc"})
  /\ Instr.arg >= After
  /\ \E next \in {RegisterNext(Ended(blocks), cur, st)} :
       Handled(RegisterTarget(next, pos, Instr.arg, st), st, TRUE)
  /\ UNCHANGED vec

(* A branch into the block itself ends the block there; the block goes on  *)
(* at its own end, which is then the target and not the next instruction.  *)
BackwardBranch ==
  /\ Decodes({"jcc"})
  /\ Instr.arg < After
  /\ \E ended \in {IF Instr.arg <= cur THEN Ended(blocks)
                   ELSE Shrink(blocks, cur, Instr.arg)} :
     \E registered \in {RegisterTarget(ended, pos, Instr.arg, st)} :
       Handled(IF registered = None THEN None
               ELSE RegisterNext(registered, cur, st), st, TRUE)
  /\ UNCHANGED vec

ShortJump ==
  /\ Decodes({"short"})
  /\ \E ended \in {Ended(blocks)} :
       Handled(RegisterTarget(ended, pos, Instr.arg, st), st, FALSE)
  /\ UNCHANGED vec

NearJumpOrCall ==
  /\ Decodes({"near", "call"})
  /\ LET s == IF Instr.op = "call" THEN PushReturn(st, After) ELSE st
     IN Handled(Ended(RegisterNear(blocks, pos, Instr.arg, s)), s, FALSE)
  /\ UNCHANGED vec

(* Through the variable, or through its word in the image when nothing     *)
(* was stored in it.  Targets outside of the image are skipped.            *)
IndirectTarget == IF st.var = Original THEN prog.word ELSE st.var

IndirectJumpOrCall ==
  /\ Decodes({"ijmp", "icall"})
  /\ IF IndirectTarget \in 0..(Size - 1)
     THEN LET s == IF Instr.op = "icall" THEN PushReturn(st, After) ELSE st
          IN Handled(Ended(RegisterTarget(blocks, pos, IndirectTarget, s)),
                     s, FALSE)
     ELSE Handled(Ended(blocks), st, FALSE)
  /\ UNCHANGED vec

FarJumpOrExit ==
  /\ Decodes({"far", "exit"})
  /\ Handled(Ended(blocks), st, FALSE)
  /\ UNCHANGED vec

(* The block is not ended and nothing is said of the next instruction.     *)
ClockInterrupt ==
  /\ Decodes({"clock"})
  /\ Handled(blocks, st, FALSE)
  /\ UNCHANGED vec

(* Mutant: no interrupt returns.                                           *)
InterruptWithoutReturn ==
  /\ Decodes({"int", "dos"})
  /\ LET s == IF Instr.op = "dos" THEN UndefineRegister(st) ELSE st
     IN Handled(Ended(blocks), s, FALSE)
  /\ UNCHANGED vec

Interrupt ==
  /\ Decodes({"int", "dos"})
  /\ LET s == IF Instr.op = "dos" THEN UndefineRegister(st) ELSE st
     IN Handled(RegisterInterruptReturn(Ended(blocks), cur, s), s, FALSE)
  /\ UNCHANGED vec

(* int 21/25, the handler in reg.  One that is a block already gets no     *)
(* origin.                                                                 *)
RegisterHandler(reg) ==
  LET c == Containing(blocks, reg.val)
  IN IF ~reg.def \/ c = reg.val THEN blocks
     ELSE Insert(Shrink(blocks, c, reg.val), reg.val, Interruption,
                 HandlerState(st, reg))

SetVector ==
  /\ Decodes({"vector"})
  /\ \E registered \in {RegisterHandler(st.reg)} :
       Handled(IF registered = None THEN None
               ELSE RegisterInterruptReturn(Ended(registered), cur, st),
               st, FALSE)
  /\ UNCHANGED vec

(* A handler stored in the interrupt table with mov.                       *)
HookVector ==
  /\ Decodes({"hook"})
  /\ Handled(blocks, st, TRUE)
  /\ vec' = IF st.reg.def THEN st.reg.val ELSE vec

(* sti registers the handler that was stored; the block that contains it   *)
(* is cut but not invalidated, and its registers are never initialised.    *)
EnableInterrupts ==
  /\ Decodes({"sti"})
  /\ IF vec = None \/ Containing(blocks, vec) = vec THEN Handled(blocks, st, TRUE)
     ELSE \E garbage \in Uninitialized :
            LET c == Containing(blocks, vec)
                cut == IF c = None THEN blocks ELSE SetEnd(blocks, c, vec)
                undefined == [def |-> FALSE, val |-> garbage]
            IN Handled(Insert(cut, vec, Interruption,
                              HandlerState(st, undefined)), st, TRUE)
  /\ UNCHANGED vec

(* An opcode of no case ends the block at the next one, or at the end of   *)
(* the image, and the decoding goes on behind the opcode.                  *)
UnknownOpcode ==
  /\ Decodes({"unknown"})
  /\ LET ends == {a \in Listed(blocks) : a > cur} \cup {Size}
     IN \E end \in ends :
          /\ \A e \in ends : end <= e
          /\ Handled(SetEnd(blocks, cur, end), st, FALSE)
  /\ UNCHANGED vec

BadOpcode ==
  /\ Decodes({"bad"})
  /\ phase' = "failed"
  /\ UNCHANGED <<prog, blocks, loop, index, any, cur, pos, st, reached, vec,
                 trail>>

(* The reader has no bound: it goes on with the bytes behind the image.    *)
ReadPastImage ==
  /\ phase = "decode"
  /\ pos >= Size
  /\ phase' = "overrun"
  /\ UNCHANGED <<prog, blocks, loop, index, any, cur, pos, st, reached, vec,
                 trail>>

-----------------------------------------------------------------------------
(* A return instruction: update_call_origins walks the origins back to the *)
(* calls, depth first, and never enters a block that it is already in.     *)

Return ==
  /\ Decodes({"ret"})
  /\ blocks' = Ended(blocks)
  /\ trail' = <<[block |-> cur, next |-> 0]>>
  /\ phase' = "backtrack"
  /\ pos' = After
  /\ reached' = FALSE
  /\ UNCHANGED <<prog, loop, index, any, cur, st, vec>>

OriginAt(b, key, i) ==
  key \in Present(b) /\ Cardinality({k \in Present(b) : k < key}) = i

Visits(key) ==
  /\ phase = "backtrack"
  /\ OriginAt(blocks[Head(trail).block], key, Head(trail).next)

Advanced == <<[Head(trail) EXCEPT !.next = @ + 1]>> \o Tail(trail)

Descend(b) ==
  trail' = IF b = None \/ \E i \in 1..Len(trail) : trail[i].block = b
           THEN Advanced
           ELSE <<[block |-> b, next |-> 0]>> \o Advanced

(* The previous block of the list, when it ends where b starts.            *)
Predecessors(b) == {p \in Listed(blocks) : Following(blocks, p, b) /\ blocks[p].end = b}

VisitContinuation ==
  /\ \E key \in {Continue} \cup CallReturns : Visits(key)
  /\ IF Predecessors(Head(trail).block) = {} THEN trail' = Advanced
     ELSE \E p \in Predecessors(Head(trail).block) : Descend(p)
  /\ UNCHANGED <<prog, blocks, loop, index, any, phase, cur, pos, st, reached,
                 vec>>

VisitJump ==
  /\ \E a \in 0..(Size - 1) :
       /\ Visits(Jump(a))
       /\ prog.code[a].op \notin {"call", "icall"}
       /\ Descend(Containing(blocks, a))
  /\ UNCHANGED <<prog, blocks, loop, index, any, phase, cur, pos, st, reached,
                 vec>>

(* Mutant: a return whose address is not known returns to no call.         *)
ReturnsToKnown(r, call) == Top(st.stack) = r

(***************************************************************************)
(* ensure_call_return_origin: the call at a, with the state call at its    *)
(* target, returns if the return address is on the top of the stack, or    *)
(* was there at the target when the top is not known.  A call return that  *)
(* is new to a block does not invalidate it.                               *)
(***************************************************************************)
ReturnsTo(r, call) ==
  \/ Top(st.stack) = r
  \/ Top(st.stack) = Undef /\ Top(call.stack) = r

EnsureCallReturn(bs, a) ==
  LET r == a + prog.code[a].len
      key == CallReturn(prog.code[a].len)
  IN IF r \notin Listed(bs) THEN Insert(bs, r, key, PopReturn(st))
     ELSE IF bs[r].origins[key] = None THEN PutOrigin(bs, r, key, PopReturn(st))
     ELSE MergeOrigin(bs, r, key, PopReturn(st))

VisitCall ==
  /\ \E a \in 0..(Size - 1) :
       /\ Visits(Jump(a))
       /\ prog.code[a].op \in {"call", "icall"}
       /\ blocks' = IF ReturnsTo(a + prog.code[a].len,
                                blocks[Head(trail).block].origins[Jump(a)])
                    THEN EnsureCallReturn(blocks, a) ELSE blocks
  /\ trail' = Advanced
  /\ UNCHANGED <<prog, loop, index, any, phase, cur, pos, st, reached, vec>>

VisitEntry ==
  /\ \E key \in {OS, Interruption} : Visits(key)
  /\ trail' = Advanced
  /\ UNCHANGED <<prog, blocks, loop, index, any, phase, cur, pos, st, reached,
                 vec>>

LeaveBlock ==
  /\ phase = "backtrack"
  /\ ~\E key \in Key : Visits(key)
  /\ trail' = Tail(trail)
  /\ phase' = IF Len(trail) = 1 THEN "link" ELSE "backtrack"
  /\ UNCHANGED <<prog, blocks, loop, index, any, cur, pos, st, reached, vec>>

-----------------------------------------------------------------------------
(* What read_block does after every instruction: the block ends where the  *)
(* following one starts, which it may continue into.                       *)

(* Mutant: a new origin is compared with nothing.                          *)
ContinueIntoUnnoticed(bs, b) ==
  LET old == bs[b].origins[Continue]
  IN IF old # None
     THEN IF ChangesButStack(old, st)
          THEN Invalidate(PutOrigin(bs, b, Continue, JoinButStack(old, st)), b)
          ELSE bs
     ELSE IF reached THEN PutOrigin(bs, b, Continue, st)
     ELSE bs

(* The block under evaluation falls into b.  A new origin is compared with  *)
(* FirstState alone: the loop in read_block that should accumulate all the *)
(* origins of b merges the first one with itself.                          *)
ContinueInto(bs, b) ==
  LET old == bs[b].origins[Continue]
  IN IF old # None
     THEN IF ChangesButStack(old, st)
          THEN Invalidate(PutOrigin(bs, b, Continue, JoinButStack(old, st)), b)
          ELSE bs
     ELSE IF reached THEN AddOrigin(bs, b, Continue, st, FirstState(bs[b]))
     ELSE bs

Follower == {b \in Listed(blocks) : Following(blocks, cur, b) /\ b <= pos}

(* Mutant: the reader goes on into the following block.                    *)
LinkedThrough ==
  IF Follower = {} THEN blocks
  ELSE LET b == CHOOSE b \in Follower : TRUE
       IN IF b = pos THEN ContinueInto(blocks, b) ELSE blocks

Linked ==
  IF Follower = {} THEN blocks
  ELSE LET b == CHOOSE b \in Follower : TRUE
           ended == SetEnd(blocks, cur, b)
       IN IF b = pos THEN ContinueInto(ended, b) ELSE ended

ReadOn ==
  /\ phase = "link"
  /\ blocks' = Linked
  /\ ~Known(blocks', cur) \/ pos < blocks'[cur].end
  /\ phase' = "decode"
  /\ UNCHANGED <<prog, loop, index, any, cur, pos, st, reached, vec, trail>>

EndBlock ==
  /\ phase = "link"
  /\ blocks' = Linked
  /\ Known(blocks', cur) /\ pos >= blocks'[cur].end
  /\ phase' = "scan"
  /\ index' = index + 1
  /\ UNCHANGED <<prog, loop, any, cur, pos, st, reached, vec, trail>>

-----------------------------------------------------------------------------

Stopped == phase \in {"done", "failed", "overrun"} /\ UNCHANGED vars

Loops == SkipBlock \/ BeginBlock \/ NextLoop \/ Finish

Handlers ==
  \/ MoveData \/ ForwardBranch \/ BackwardBranch \/ ShortJump
  \/ NearJumpOrCall \/ IndirectJumpOrCall \/ FarJumpOrExit
  \/ ClockInterrupt \/ Interrupt \/ SetVector \/ HookVector
  \/ EnableInterrupts \/ UnknownOpcode \/ BadOpcode \/ ReadPastImage
  \/ Return

Backtracking ==
  \/ VisitContinuation \/ VisitJump \/ VisitCall \/ VisitEntry
  \/ LeaveBlock

Progress == Loops \/ Handlers \/ Backtracking \/ ReadOn \/ EndBlock

Next == Progress \/ Stopped

Spec == Init /\ [][Next]_vars /\ WF_vars(Next)

-----------------------------------------------------------------------------
(* Correctness properties.                                                 *)

(* Whatever stops the loops, the limit included, every block in the list   *)
(* has been read: initialize_cblock asserts start < end on each of them    *)
(* when the result is composed.                                            *)
NoEmptyBlocks ==
  phase = "done" => \A b \in Listed(blocks) : Known(blocks, b)

(* When the loops stop before the limit, no block waits for an evaluation: *)
(* an invalidation that comes behind block_index, in the last loop or from *)
(* the block under evaluation itself, is never lost.                       *)
NothingPending ==
  phase = "done" /\ loop <= Limit => \A b \in Listed(blocks) : blocks[b].valid

(* The blocks of the result do not overlap: dumpers.c prints them one      *)
(* after the other and funcfind.c looks blocks up by position.  This is    *)
(* said of images that are entered at the starts of instructions and in    *)
(* which sti leaves the code behind calls alone (see InsertedOutside).     *)
DisjointBlocks ==
  phase = "done" =>
    \A a, b \in Listed(blocks) : a < b => blocks[a].end <= b

(* mcblist.h: insert_cblock returns -1 for a block that overlaps one of a  *)
(* list, so that a block is never inserted at a position that another one  *)
(* covers, before and after the instruction that inserts it.               *)
InsertedOutside ==
  [][\A b \in Listed(blocks') \ Listed(blocks), p \in Listed(blocks) :
       p < b => blocks[p].end <= b \/ blocks'[p].end <= b]_vars

(* No block is refused by insert_cblock, which would discard the analysis. *)
NeverRefused == phase # "failed"

(* The loops reach the limit only when every block that still awaits an    *)
(* evaluation has an origin with an unknown register: the bytes of unknown *)
(* registers are compared, so that the same states may look different      *)
(* again and again (changes_on_merging_registers).  Nothing else keeps the *)
(* analysis from converging.                                               *)
Converges ==
  phase = "done" /\ loop > Limit =>
    \A b \in Listed(blocks) : blocks[b].valid
      \/ \E key \in Present(blocks[b]) : ~blocks[b].origins[key].reg.def

(* The state kept for an origin only ever loses information: this is what  *)
(* makes the worklist converge.                                            *)
OriginsOnlyLose ==
  [][\A b \in Word : blocks[b] # None =>
       \A key \in Present(blocks[b]) :
         Weaker(blocks'[b].origins[key], blocks[b].origins[key])]_vars

(* What a new origin takes away from what the origins of a block agree on, *)
(* all of them, is noticed: the block is evaluated again.  The comparison  *)
(* in read_block, with the first origin alone, errs on the safe side.      *)
(* The origins of call returns are left out: the code records a new one    *)
(* without a comparison.                                                   *)
NewOriginsAreNoticed ==
  [][\A b \in Listed(blocks), key \in Key \ CallReturns :
       /\ blocks'[b].valid
       /\ blocks[b].origins[key] = None
       /\ blocks'[b].origins[key] # None
       => ~Changes(Accumulated(blocks[b]), blocks'[b].origins[key])]_vars

(* Every jump and call that is the origin of a block is itself an          *)
(* instruction of a block: funcfind.c looks up the block of the jump by    *)
(* the position kept in the origin, whatever was cut since it was found.   *)
JumpsAreCode ==
  phase = "done" =>
    \A b \in Listed(blocks), a \in 0..(Size - 1) :
      Jump(a) \in Present(blocks[b]) =>
        \E p \in Listed(blocks) : p <= a /\ a < blocks[p].end

(* cborigin.h: a block with an origin of type continue or call return      *)
(* starts at the end of another block.                                     *)
ContinuesAnother ==
  phase = "done" =>
    \A b \in Listed(blocks) :
      ({Continue} \cup CallReturns) \cap Present(blocks[b]) # {} =>
        \E p \in Listed(blocks) : blocks[p].end = b

-----------------------------------------------------------------------------
(* What it rests on that blocks do not overlap.                            *)

Reading == phase \in {"decode", "backtrack", "link"}

Decoding == phase = "decode" /\ pos < Size

(* A block reaches over the start of another one only while it is being    *)
(* read, or as long as it still awaits the evaluation that gives it its    *)
(* end again.                                                              *)
BlocksApart ==
  phase \notin {"failed", "overrun"} =>
    \A a, b \in Listed(blocks) :
      a < b /\ blocks[a].valid /\ ~(Reading /\ a = cur) => blocks[a].end <= b

(* A block starts within the instruction that is about to be handled.      *)
EnteredInside ==
  Decoding /\ \E b \in Listed(blocks) : pos < b /\ b < After

(* The positions that the handler looks up.                                *)
LookedUp ==
  Word \cap
    CASE Instr.op \in {"jcc", "short", "near", "call"} -> {Instr.arg}
      [] Instr.op = "ijmp" -> {IndirectTarget}
      [] Instr.op = "icall" -> {IndirectTarget, After}
      [] Instr.op = "vector" -> {st.reg.val}
      [] Instr.op = "sti" -> {vec}
      [] OTHER -> {}

(* The handler looks up a position that a block reaches over with another  *)
(* one behind it: index_of_cblock_containing_position may stop at it.      *)
Misled ==
  Decoding /\ \E p \in LookedUp, a, b \in Listed(blocks) :
                a < b /\ b <= p /\ p < blocks[a].end

(* A call returns into the middle of a block that counts as evaluated.     *)
ReturnsInside ==
  phase = "backtrack" /\
    \E r \in Listed(blocks') \ Listed(blocks), a \in Listed(blocks) \ {cur} :
      blocks[a].valid /\ a < r /\ r < blocks[a].end

Disturbed == EnteredInside \/ Misled \/ ReturnsInside

(* Blocks come to overlap for no other reason: whatever is entered by a    *)
(* jump, a call, an interrupt handler or by falling into it, the blocks    *)
(* that were there are cut, sent back to an evaluation or given their end  *)
(* by the loop of read_block.                                              *)
OverlapsAreDisturbances == [][BlocksApart => BlocksApart' \/ Disturbed]_vars

(* insert_cblock refuses a block, so that the analysis is given up, only   *)
(* when the search has missed the block that is there.  Otherwise it was   *)
(* the opcode, or a map of values that became empty (see MapEmptied).      *)
RefusalsAreDisturbances ==
  [][phase # "failed" /\ phase' = "failed" =>
       EnteredInside \/ Misled \/ Instr.op = "bad" \/ MapEmptied]_vars

(* Code that is entered at its instructions, with no interrupt handlers    *)
(* behind a call that returns, meets none of the three.                    *)
NeverDisturbed == [][~Disturbed]_vars

-----------------------------------------------------------------------------
(* The inductive invariant behind TypeOK, NoEmptyBlocks and NothingPending.*)

(* Every block has an origin, and the slots number the blocks.             *)
WellFormed(bs) ==
  /\ bs \in BlockList
  /\ \A b \in Listed(bs) : Present(bs[b]) # {} /\ bs[b].slot < Count(bs)
  /\ \A a, b \in Listed(bs) : bs[a].slot = bs[b].slot => a = b

Position ==
  /\ cur \in Listed(blocks) /\ cur <= pos
  /\ index <= Count(blocks)
  /\ Reading => any /\ blocks[cur].slot = index
  /\ phase = "backtrack" => trail # <<>>
  /\ phase # "done" => loop <= Limit

(* A block that has not been read is still in front of block_index.  A     *)
(* valid one has been read, or is being read.                              *)
UnreadAhead ==
  \A b \in Listed(blocks) :
    /\ ~Known(blocks, b) => index <= blocks[b].slot
    /\ blocks[b].valid =>
         Known(blocks, b) \/ (b = cur /\ phase \notin {"scan", "done"})

(* Until any_evaluated is set, every block that was passed is valid.       *)
PassedValid ==
  ~any => \A b \in Listed(blocks) : blocks[b].slot < index => blocks[b].valid

Inductive ==
  /\ TypeOK /\ WellFormed(blocks) /\ Position /\ UnreadAhead /\ PassedValid
  /\ NoEmptyBlocks /\ NothingPending

-----------------------------------------------------------------------------
(* The worklist that Finder implements.                                    *)

Awaiting(bs) == {b \in Listed(bs) : ~bs[b].valid}

EndedBlocks(bs) == {b \in Listed(bs) : Known(bs, b)}

Outcome == CASE phase = "done" -> IF loop <= Limit THEN "complete" ELSE "cut"
             [] phase \in {"failed", "overrun"} -> "failed"
             [] OTHER -> "working"

Abstract == INSTANCE Worklist WITH
  Item    <- Word,
  Nothing <- None,
  found   <- Listed(blocks),
  pending <- Awaiting(blocks),
  ended   <- EndedBlocks(blocks),
  busy    <- IF Reading THEN cur ELSE None,
  outcome <- Outcome

(* The loops over block_index, the flag any_evaluated and the valid flags  *)
(* of the blocks, which evaluations clear in front of and behind the loop, *)
(* amount to a worklist that forgets nothing.                              *)
ImplementsWorklist == Abstract!Spec

=============================================================================

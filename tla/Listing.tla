------------------------------ MODULE Listing ------------------------------
(***************************************************************************)
(* The assembly output.  compose_pcontent (finder.c) first gives an end to *)
(* every variable whose length is still unknown; dump (dumpers.c) then     *)
(* walks over the code blocks, the variables and the segment starts, each  *)
(* a sorted list with an index of its own, and writes labels, instructions *)
(* and data.  A step of the model is one round of its loop.  The lists     *)
(* come from the finder; blocks and variables may overlap, as they do in   *)
(* programs that write to their own code.                                  *)
(*                                                                         *)
(* What a line says beyond the bytes it stands for (mnemonics, operands,   *)
(* references, names) is left out.  A byte of the image is represented by  *)
(* the instruction that starts with it.                                    *)
(***************************************************************************)
EXTENDS Integers, Sequences, FiniteSetsExt, SequencesExt

CONSTANTS
  Byte,         \* what a byte of the image may be
  Length,       \* the length of the instruction a byte starts, 0 if unknown
  FarJump,      \* the bytes that start a far jump (EA)
  Text,         \* the bytes that may stand between quotes
  Dollar,       \* the byte that ends a string for int 21/09
  Size,         \* the number of bytes of the image
  Images,       \* bound: the images
  Segments,     \* bound: the sorted segment starts
  MaxMessage,   \* bound: the length of a message for int 21/40
  MaxVariables, \* bound: variables
  MaxBlocks     \* bound: code blocks

ASSUME ListingAssumption ==
  /\ Length \in [Byte -> Nat]
  /\ FarJump \subseteq Byte /\ Text \subseteq Byte /\ Dollar \in Text
  /\ \A b \in FarJump : Length[b] > 0
  /\ Images \subseteq [0..(Size - 1) -> Byte]
  /\ Segments \subseteq Seq(0..(Size - 1))
  /\ \A s \in Segments : \A i, j \in DOMAIN s : i < j => s[i] < s[j]
  /\ Size \in Nat \ {0} /\ MaxMessage \in Nat /\ MaxVariables \in Nat /\ MaxBlocks \in Nat

VARIABLES
  image,     \* the bytes of the program
  blocks,    \* its code blocks, sorted by start
  variables, \* its variables, sorted by start
  starts,    \* the starts of its segments, sorted
  phase,     \* "ends", "dump", "done" or "aborted"
  ending,    \* the variable whose end is next to be determined
  segment,   \* segment_start_index of dump
  block,     \* code_block_index
  variable,  \* global_variable_index
  position,  \* the position of the next line, None after the last one
  unknown,   \* unknown_opcode_found_in_block
  listing    \* the lines written

program == <<image, blocks, starts>>
cursor == <<segment, block, variable, position, unknown, listing>>
vars == <<program, variables, phase, ending, cursor>>

Positions == 0..(Size - 1)
None == -1

Block == [start: Positions, end: 1..Size, label: BOOLEAN]
SizeOf == [byte |-> 1, word |-> 2, far |-> 4]
Arrays == {"bytes", "words", "dollar"}
Kinds == DOMAIN SizeOf \cup Arrays
Variable == [start: 0..Size, kind: Kinds, end: 0..Size]

End(v) == IF v.kind \in Arrays THEN v.end ELSE v.start + SizeOf[v.kind]
LengthKnown(v) == v.kind \in Arrays => v.start # v.end

(* A line stands for the bytes from "from" to before "to"; a label stands  *)
(* for none.                                                               *)
Data(from, to) == [line |-> "data", from |-> from, to |-> to]
Code(from, to) == [line |-> "code", from |-> from, to |-> to]
Label(what, at) == [line |-> what, from |-> at, to |-> at]

-----------------------------------------------------------------------------
(* The program as the finder leaves it.                                    *)

(* The last instruction of a block that the finder read: it stops at a far *)
(* jump and at an opcode it does not know.                                 *)
LastOf(b) ==
  LET last[p \in b.start..(b.end - 1)] ==
        LET next == p + Length[image[p]]
        IN  IF next > p /\ next < b.end /\ image[p] \notin FarJump
            THEN last[next]
            ELSE p
  IN  last[b.start]

(* A block ends with an instruction, or is cut where the following block   *)
(* starts; a block with an unknown opcode reaches to the following block.  *)
Evaluated(i) ==
  LET p == LastOf(blocks[i])
      follower == IF i < Len(blocks) THEN blocks[i + 1].start ELSE Size
  IN  \/ Length[image[p]] > 0 /\ blocks[i].end = p + Length[image[p]]
      \/ Length[image[p]] > 0 /\ i < Len(blocks)
           /\ blocks[i].end = follower /\ follower < p + Length[image[p]]
      \/ Length[image[p]] = 0 /\ blocks[i].end = follower

(* Accesses and int 21/09 may point behind the image; lods and int 21/40   *)
(* make a variable inside it only, the latter of a known length.           *)
Registered(v) ==
  CASE v.kind = "bytes" -> v.start \in Positions /\ v.end - v.start \in 0..MaxMessage
    [] v.kind = "words" -> v.start \in Positions /\ v.end = v.start
    [] OTHER -> v.end = v.start

Sorted(s) == \A i, j \in DOMAIN s : i < j => s[i].start < s[j].start

Init ==
  /\ image \in Images
  /\ blocks \in BoundedSeq(Block, MaxBlocks)
  /\ Sorted(blocks)
  /\ \A i \in DOMAIN blocks :
       /\ blocks[i].start < blocks[i].end
       /\ i < Len(blocks) => blocks[i].end <= blocks[i + 1].start
       /\ Evaluated(i)
       /\ ~blocks[i].label => i > 1 /\ blocks[i - 1].end = blocks[i].start
  /\ variables \in BoundedSeq({v \in Variable : Registered(v)}, MaxVariables)
  /\ Sorted(variables)
  /\ starts \in Segments
  /\ phase = "ends" /\ ending = 1
  /\ segment = 1 /\ block = 1 /\ variable = 1
  /\ position = None /\ unknown = FALSE /\ listing = <<>>

-----------------------------------------------------------------------------
(* The ends of the variables (compose_pcontent).                           *)

UpToNext(i) ==
  IF i < Len(variables) THEN variables[i + 1].start ELSE Size

(* The first block that starts at or after a position, Len(blocks) + 1 if  *)
(* there is none.                                                          *)
Nearest(p) ==
  Min({i \in DOMAIN blocks : blocks[i].start >= p} \cup {Len(blocks) + 1})

(* A string for int 21/09 is searched for a dollar up to the end of the    *)
(* block that follows it.                                                  *)
DollarEnd(start) ==
  LET near == Nearest(start)
      limit == IF near <= Len(blocks) THEN blocks[near].end ELSE Size
      dollars == {p \in start..(limit - 1) : image[p] = Dollar}
  IN  CASE near <= Len(blocks) /\ blocks[near].start = start -> limit
        [] dollars # {} -> Min(dollars) + 1
        [] OTHER -> Max({start, limit})

NewEnd(i) ==
  LET start == variables[i].start
      next == UpToNext(i)
  IN  CASE variables[i].kind = "bytes" -> next
        [] variables[i].kind = "words" -> next - ((next - start) % 2)
        [] variables[i].kind = "dollar" -> DollarEnd(start)

KeepEnd ==
  /\ phase = "ends" /\ ending <= Len(variables)
  /\ LengthKnown(variables[ending])
  /\ ending' = ending + 1
  /\ UNCHANGED <<program, variables, phase, cursor>>

(* Mutant: an assertion that lets an empty variable pass.                 *)
SetVariableEndEmpty ==
  /\ phase = "ends" /\ ending <= Len(variables)
  /\ ~LengthKnown(variables[ending])
  /\ variables' = [variables EXCEPT ![ending].end = NewEnd(ending)]
  /\ ending' = ending + 1
  /\ UNCHANGED <<program, phase, cursor>>

(* set_gvar_end asserts that the end is behind the start.                  *)
SetVariableEnd ==
  /\ phase = "ends" /\ ending <= Len(variables)
  /\ ~LengthKnown(variables[ending])
  /\ LET end == NewEnd(ending)
     IN  IF end > variables[ending].start
         THEN /\ variables' = [variables EXCEPT ![ending].end = end]
              /\ ending' = ending + 1
              /\ UNCHANGED phase
         ELSE phase' = "aborted" /\ UNCHANGED <<variables, ending>>
  /\ UNCHANGED <<program, cursor>>

-----------------------------------------------------------------------------
(* Helpers of dump.                                                        *)

HasBlock == block <= Len(blocks)
HasVariable == variable <= Len(variables)
B == blocks[block]
V == variables[variable]
InBlock == HasBlock /\ B.start <= position /\ position < B.end
InVariable == HasVariable /\ V.start <= position /\ position < End(V)

(* The earliest of the next segment start, block and variable, if a block  *)
(* or a variable is left: the segments behind the last ones are not met.   *)
DeterminePosition(s, b, v) ==
  LET ahead == {blocks[i].start : i \in {b} \cap DOMAIN blocks}
                 \cup {variables[i].start : i \in {v} \cap DOMAIN variables}
      segments == {starts[i] : i \in {s} \cap DOMAIN starts}
  IN  IF ahead = {} THEN None ELSE Min(ahead \cup segments)

(* At the top of the loop the segment starts behind are skipped, and the   *)
(* one at the position is labelled.                                        *)
Skipped ==
  Max({segment} \cup {i + 1 : i \in {j \in DOMAIN starts :
                                       starts[j] < position}})
AtSegment == Skipped <= Len(starts) /\ starts[Skipped] = position
(* Mutant: a segment start is passed before its position is reached.      *)
SegmentAfterAnyway == Skipped + 1
SegmentAfter == IF AtSegment THEN Skipped + 1 ELSE Skipped
SegmentLines ==
  IF AtSegment THEN <<Label("segment", position)>> ELSE <<>>

CodeLabel ==
  IF B.start = position /\ B.label
  THEN <<Label("block", position)>> ELSE <<>>

(* dump_variable: how much it prints depends on the start of the next      *)
(* variable, except for strings of plain text, words and far pointers.     *)
PrintLength ==
  LET next == variable + 1
  IN  Min({End(V)} \cup {variables[i].start :
                           i \in {next} \cap DOMAIN variables}) - V.start

IsText ==
  /\ V.kind \in {"bytes", "dollar"}
  /\ \A p \in V.start..(V.end - 1) : p \in Positions /\ image[p] \in Text

VariableLines ==
  <<Label("variable", V.start)>> \o
    (CASE IsText -> <<Data(V.start, V.end)>>
       [] V.kind = "word" \/ (V.kind = "far" /\ PrintLength = 2) ->
            <<Data(V.start, V.start + 2)>>
       [] V.kind = "far" /\ PrintLength # 2 ->
            <<Data(V.start, V.start + 2), Data(V.start + 4, V.start + 6)>>
       [] OTHER -> <<Data(V.start, V.start + PrintLength)>>)

Write(lines) == listing' = listing \o SegmentLines \o lines

(* Mutant: behind a block the position does not go back to what the line   *)
(* has passed.                                                             *)
MoveOnAhead(q, v, found) ==
  /\ segment' = SegmentAfter
  /\ variable' = v
  /\ IF q >= B.end
     THEN /\ unknown' = FALSE
          /\ block' = block + 1
          /\ LET next == DeterminePosition(SegmentAfter, block + 1, v)
             IN  position' = IF next = None THEN None ELSE Max({q, next})
     ELSE /\ unknown' = found
          /\ position' = q
          /\ UNCHANGED block

(* After a line of code or data inside a block: on to q, or to what comes  *)
(* next when the block is at its end.                                      *)
MoveOn(q, v, found) ==
  /\ segment' = SegmentAfter
  /\ variable' = v
  /\ IF q >= B.end
     THEN /\ unknown' = FALSE
          /\ block' = block + 1
          /\ position' = DeterminePosition(SegmentAfter, block + 1, v)
     ELSE /\ unknown' = found
          /\ position' = q
          /\ UNCHANGED block

(* read_for_instruction_length inside the block: where it stops, and       *)
(* whether it failed, on an unknown opcode or at the end of the block.     *)
Fails(p) ==
  p >= B.end \/ Length[image[p]] = 0 \/ p + Length[image[p]] > B.end
StopsAt(p) ==
  CASE p >= B.end -> {p}
    [] p < B.end /\ Length[image[p]] = 0 -> {p + 1} \cup ({p + 2} \cap 0..B.end)
    [] OTHER -> Min({p + Length[image[p]], B.end})..(p + Length[image[p]])

-----------------------------------------------------------------------------
(* dump.                                                                   *)

BeginDump ==
  /\ phase = "ends" /\ ending > Len(variables)
  /\ phase' = "dump"
  /\ position' = DeterminePosition(1, 1, 1)
  /\ UNCHANGED <<program, variables, ending, segment, block, variable,
                 unknown, listing>>

Dumping ==
  /\ phase = "dump" /\ position # None
  /\ UNCHANGED <<program, variables, phase, ending>>

Gap ==
  /\ Dumping
  /\ ~InBlock /\ ~InVariable
  /\ Write(<<>>)
  /\ segment' = SegmentAfter
  /\ position' = DeterminePosition(SegmentAfter, block, variable)
  /\ UNCHANGED <<block, variable, unknown>>

DumpVariable ==
  /\ Dumping
  /\ InVariable /\ ~InBlock
  /\ HasBlock => B.start >= End(V)
  /\ Write(VariableLines)
  /\ segment' = SegmentAfter
  /\ variable' = variable + 1
  /\ position' = DeterminePosition(SegmentAfter, block, variable + 1)
  /\ UNCHANGED <<block, unknown>>

(* One byte of a block whose instructions are no longer told apart.        *)
DumpByte ==
  /\ Dumping
  /\ InBlock /\ ~InVariable
  /\ unknown
  /\ Write(CodeLabel \o <<Data(position, position + 1)>>)
  /\ MoveOn(position + 1, variable, TRUE)

(* An opcode that is unknown, or an instruction that runs over the end of  *)
(* the block or over the start of the next variable.                       *)
DumpUndecoded ==
  /\ Dumping
  /\ InBlock /\ ~InVariable
  /\ ~unknown
  /\ \/ Fails(position)
     \/ HasVariable /\ position + Length[image[position]] > V.start
  /\ Write(CodeLabel \o <<Data(position, position + 1)>>)
  /\ MoveOn(position + 1, variable, TRUE)

(* dump_instruction does not return after a far jump: it goes on with the  *)
(* instruction that follows, wherever the block or the image ends.         *)
Instructions(p) ==
  LET lines[q \in Nat] ==
        IF q >= Size THEN <<Code(q, q + 1)>>
        ELSE IF image[q] \in FarJump
             THEN <<Code(q, q + Length[image[q]])>> \o lines[q + Length[image[q]]]
             ELSE <<Code(q, q + Max({1, Length[image[q]]}))>>
  IN  lines[p]

(* dump_instruction returns whether it met an opcode it does not know; it  *)
(* may behind a far jump only, and behind the image it is any byte.        *)
FindsUnknown(p) ==
  LET q == Last(Instructions(p)).from
  IN  IF q < Size THEN {Length[image[q]] = 0} ELSE BOOLEAN

(* Mutant: the instruction may run over the start of a variable.           *)
DumpInstructionOver ==
  /\ Dumping
  /\ InBlock /\ ~InVariable
  /\ ~unknown
  /\ ~Fails(position)
  /\ Write(CodeLabel \o Instructions(position))
  /\ \E found \in FindsUnknown(position) :
       MoveOn(position + Length[image[position]], variable, found)

DumpInstruction ==
  /\ Dumping
  /\ InBlock /\ ~InVariable
  /\ ~unknown
  /\ ~Fails(position)
  /\ HasVariable => position + Length[image[position]] <= V.start
  /\ Write(CodeLabel \o Instructions(position))
  /\ \E found \in FindsUnknown(position) :
       MoveOn(position + Length[image[position]], variable, found)

(* A variable that overlaps a block.                                       *)
Overlapping ==
  /\ Dumping
  /\ InVariable
  /\ HasBlock
  /\ InBlock \/ B.start < End(V)

DumpVariableInBytes ==
  /\ Overlapping
  /\ unknown
  /\ Write(CodeLabel \o VariableLines)
  /\ MoveOn(position + End(V) - V.start, variable + 1, TRUE)

(* Where the decoding that starts at the position has passed the variable. *)
Passed ==
  LET passed[p \in position..(End(V) - 1)] ==
        IF Fails(p) THEN StopsAt(p)
        ELSE LET next == p + Length[image[p]]
             IN  IF next < End(V) THEN passed[next] ELSE {next}
  IN  passed[position]

(* Mutant: the bytes of the instruction behind the variable are forgotten. *)
DumpVariableOnly ==
  /\ Overlapping
  /\ ~unknown
  /\ \E next \in Passed :
       /\ Write(CodeLabel \o VariableLines)
       /\ MoveOn(Max({End(V), next}), variable + 1, FALSE)

DumpVariableInCode ==
  /\ Overlapping
  /\ ~unknown
  /\ \E next \in Passed :
       LET q == Max({End(V), next})
       IN  /\ Write(CodeLabel \o VariableLines \o
                      IF q > End(V) THEN <<Data(End(V), q)>> ELSE <<>>)
           /\ MoveOn(q, variable + 1, FALSE)

Finish ==
  /\ phase = "dump" /\ position = None
  /\ phase' = "done"
  /\ UNCHANGED <<program, variables, ending, cursor>>

Stopped == phase \in {"done", "aborted"} /\ UNCHANGED vars

Next ==
  \/ KeepEnd \/ SetVariableEnd
  \/ BeginDump \/ Gap \/ DumpVariable \/ DumpByte \/ DumpUndecoded
  \/ DumpInstruction \/ DumpVariableInBytes \/ DumpVariableInCode
  \/ Finish \/ Stopped

Spec == Init /\ [][Next]_vars /\ WF_vars(Next)

-----------------------------------------------------------------------------
(* Properties.                                                             *)

Lines == Range(listing)
Bytes(line) == line.from..(line.to - 1)
Written == UNION {Bytes(line) : line \in Lines}

InBlocks == UNION {b.start..(b.end - 1) : b \in Range(blocks)}
InVariables == UNION {v.start..(End(v) - 1) : v \in Range(variables)}

(* The positions where instructions of a block start.                      *)
Starts(b) ==
  {p \in b.start..(b.end - 1) : LastOf([b EXCEPT !.end = p + 1]) = p}

Apart(i, j) == End(variables[i]) <= variables[j].start
After(i) == {j \in DOMAIN variables : j > i}

(* No variable lies within a string.                                       *)
StringsApart ==
  \A i \in DOMAIN variables :
     variables[i].kind \in Arrays => \A j \in After(i) : Apart(i, j)
VariablesApart == \A i \in DOMAIN variables : \A j \in After(i) : Apart(i, j)

(* Two variables that overlap are outside of the blocks.  In a block whose *)
(* instructions are no longer told apart, dump goes on by the size of a    *)
(* variable from where it is, which may be within the variable by then.    *)
OverlapsOutside ==
  \A i \in DOMAIN variables : \A j \in After(i) :
     \/ Apart(i, j)
     \/ \A b \in Range(blocks) :
          End(variables[j]) <= b.start \/ b.end <= variables[j].start

NoFarPointers == \A v \in Range(variables) : v.kind # "far"
NoFarJumps ==
  \A b \in Range(blocks) : \A p \in Starts(b) : image[p] \notin FarJump

(* Programs may write into their instructions, behind the opcode.          *)
OpcodesApart ==
  \A v \in Range(variables) : \A b \in Range(blocks) :
     /\ v.start \notin Starts(b)
     /\ ~(v.start < b.start /\ b.start < End(v))

(* The model's variables keep their types, and the indexes of dump never   *)
(* pass the ends of their lists.                                           *)
TypeOK ==
  /\ blocks \in Seq(Block) /\ variables \in Seq(Variable)
  /\ phase \in {"ends", "dump", "done", "aborted"}
  /\ ending \in 1..(Len(variables) + 1)
  /\ segment \in 1..(Len(starts) + 1)
  /\ block \in 1..(Len(blocks) + 1)
  /\ variable \in 1..(Len(variables) + 1)
  /\ position \in 0..Size \cup {None}
  /\ unknown \in BOOLEAN

(* No byte of a block or of a variable is left out of the listing, however *)
(* blocks and variables overlap: assembled again, the program has all of   *)
(* its bytes.  Three things dump gets wrong are left aside, see README: a  *)
(* string with another variable in it, the second word of a far pointer,   *)
(* and the bytes behind words that overlap within a block.                 *)
Complete ==
  phase = "done" /\ StringsApart /\ NoFarPointers /\ OverlapsOutside =>
    InBlocks \cup InVariables \subseteq Written

(* The start of a segment within what a single line stands for has no      *)
(* place of its own.                                                       *)
Hidden(label) ==
  /\ label.line = "segment"
  /\ \E other \in Lines : other.from < label.from /\ label.from < other.to

(* A segment that starts behind all code and all variables gets no label.  *)
Beyond(p) ==
  /\ \A b \in Range(blocks) : b.end <= p
  /\ \A v \in Range(variables) : End(v) <= p

(* The lines are in the order of the bytes, with every byte written once,  *)
(* every label right before its byte, every label of a block, a variable   *)
(* and a segment there, and no variable hidden in an instruction: also in  *)
(* code that is written to behind its opcodes.  The label of a segment is  *)
(* there unless it starts within a line or beyond the last one.  Variables *)
(* at an opcode, variables across the start of a block and far jumps are   *)
(* left aside, see README.                                                 *)
InOrder ==
  /\ phase = "done" /\ VariablesApart /\ NoFarPointers /\ NoFarJumps
  /\ OpcodesApart
  =>
  /\ \A i, j \in DOMAIN listing :
       i < j => \/ Hidden(listing[i]) \/ Hidden(listing[j])
                \/ listing[i].to <= listing[j].from
  /\ \A b \in Range(blocks) : b.label => Label("block", b.start) \in Lines
  /\ \A v \in Range(variables) : Label("variable", v.start) \in Lines
  /\ \A p \in Range(starts) :
       \/ Label("segment", p) \in Lines
       \/ Hidden(Label("segment", p))
       \/ Beyond(p)

(* A block loses its label to a variable that reaches over its start, and  *)
(* to nothing else, and a variable never: neither an instruction or a      *)
(* string that has been read into them, nor the segments, the variables    *)
(* and the unknown opcodes in between.                                     *)
LabelsAreKept ==
  phase = "done" =>
    /\ \A b \in Range(blocks) :
         b.label => \/ Label("block", b.start) \in Lines
                    \/ \E v \in Range(variables) :
                         v.start < b.start /\ b.start < End(v)
    /\ \A v \in Range(variables) : Label("variable", v.start) \in Lines

(* dump comes to its end, though its position also goes back, to a block   *)
(* or a variable that the bytes of another one have already passed.        *)
DumpEnds == <>(phase \in {"done", "aborted"})

(* What set_gvar_end asserts: every variable gets an end behind its start  *)
(* (gvar.c:50).                                                            *)
EndsBehindStarts == phase # "aborted"

=============================================================================

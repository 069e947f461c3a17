----------------------------- MODULE StackPages -----------------------------
(***************************************************************************)
(* The stack of stack.c: an array of words that grows by pages, at its     *)
(* start when something is pushed on a full array, at its end when         *)
(* something deep is written, and that gives pages back when much has been *)
(* popped.  The stack grows towards the start, "top" is the index of the   *)
(* last word pushed.                                                       *)
(*                                                                         *)
(* The module follows the two stacks that meet when a block is reached:    *)
(* the working stack of the code that jumps, and the stack kept by the     *)
(* origin.  A word is known, with its bit in "relative", or nothing or     *)
(* only something merged is known of it.  What the words outside of the    *)
(* stack hold, and the bits of unknown words, never shows: both are left   *)
(* by what was there before, and the bit appears with the word.  Single    *)
(* bytes and the origins of the values are left out.                       *)
(***************************************************************************)
EXTENDS Integers, FiniteSetsExt

CONSTANTS
  Absolutes,  \* words that are absolute
  Relatives,  \* words that are relative to CS
  NotKnown,   \* nothing is known of a word
  Merged,     \* different words have been merged
  PageWords,  \* the words of a page (32)
  MaxWords,   \* bound: words of a stack
  MaxOffset,  \* bound: how deep a word is written
  MaxKept     \* bound: words of a stack that arrives

StackValue == Absolutes \cup Relatives

ASSUME StackAssumption ==
  /\ PageWords \in Nat \ {0} /\ MaxOffset \in Nat
  /\ MaxWords \in Nat /\ MaxKept \in Nat
  /\ Absolutes \cap Relatives = {} /\ Merged # NotKnown
  /\ {NotKnown, Merged} \cap (StackValue \X BOOLEAN) = {}

VARIABLES
  stack,    \* the working stack
  saved,    \* the stack of the origin
  arrived,  \* whether the origin exists
  overrun   \* whether the array has been written behind its end

stackVars == <<stack, saved, arrived, overrun>>

KnownWord == StackValue \X BOOLEAN
Cell == KnownWord \cup {NotKnown, Merged}

Words(s) == s.pages * PageWords
Live(s) == Words(s) - s.top
ShrinkThreshold == 2 * PageWords

EmptyStack == [pages |-> 0, top |-> 0, words |-> <<>>]

WordDefined(s, w) == w < Words(s) /\ s.words[w] \in KnownWord
DefinedOrMerged(s, w) == w < Words(s) /\ s.words[w] # NotKnown

-----------------------------------------------------------------------------
(* Pages.                                                                  *)

(* Mutant: the words stay where they were.                                 *)
AddPageUnmoved(s) ==
  [pages |-> s.pages + 1,
   top   |-> s.top + PageWords,
   words |-> [w \in 0..(Words(s) + PageWords - 1) |->
                IF w < Words(s) THEN s.words[w] ELSE NotKnown]]

AddPageAtStart(s) ==
  [pages |-> s.pages + 1,
   top   |-> s.top + PageWords,
   words |-> [w \in 0..(Words(s) + PageWords - 1) |->
                IF w >= PageWords THEN s.words[w - PageWords] ELSE NotKnown]]

AddPagesAtEnd(s, count) ==
  [s EXCEPT !.pages = @ + count,
            !.words = [w \in 0..(Words(s) + count * PageWords - 1) |->
                         IF w < Words(s) THEN s.words[w] ELSE NotKnown]]

(* Mutant: the top stays where it was.                                     *)
RemovePageOnly(s) ==
  [pages |-> s.pages - 1,
   top   |-> s.top,
   words |-> [w \in 0..(Words(s) - PageWords - 1) |-> s.words[w + PageWords]]]

RemovePageAtStart(s) ==
  [pages |-> s.pages - 1,
   top   |-> s.top - PageWords,
   words |-> [w \in 0..(Words(s) - PageWords - 1) |-> s.words[w + PageWords]]]

-----------------------------------------------------------------------------
(* Operations.                                                             *)

Room(s) == IF s.top = 0 THEN AddPageAtStart(s) ELSE s

(* Both the word and its bit are written, or the word is made unknown.     *)
Pushed(s, cell) ==
  LET r == Room(s) IN [r EXCEPT !.top = @ - 1, !.words[r.top - 1] = cell]

Popped(s) ==
  IF s.top = Words(s) THEN s
  ELSE LET p == [s EXCEPT !.top = @ + 1, !.words[s.top] = NotKnown]
       IN  IF p.top >= ShrinkThreshold THEN RemovePageAtStart(p) ELSE p

(* Mutant: the pages are not rounded up.                                   *)
MissingWholePages(s, w) ==
  IF w > Words(s) THEN (w - Words(s)) \div PageWords ELSE 0

(* A word is written from the top on.  The array grows only when the index *)
(* is greater than its size, and to a size that may equal the index.       *)
MissingPages(s, w) ==
  IF w > Words(s) THEN (w - Words(s) + PageWords - 1) \div PageWords ELSE 0

Grown(s, w) == AddPagesAtEnd(s, MissingPages(s, w))

(* The bit in "relative" that is cleared is computed from the index of the *)
(* byte, not of the word (shifts are taken modulo the bits of a page).     *)
ClearedBit(w) ==
  (w - (w % PageWords)) + ((2 * (w % PageWords)) % PageWords)

(* The bit the word had before stays, whatever it is if it was unknown.    *)
BitsBefore(s, w) == IF WordDefined(s, w) THEN {s.words[w][2]} ELSE BOOLEAN

WordSet(s, w, v, bit) ==
  [s EXCEPT !.words =
     [i \in DOMAIN @ |->
        LET cell == IF i = w THEN <<v, bit>> ELSE @[i]
        IN  IF i = ClearedBit(w) /\ cell \in KnownWord
            THEN <<cell[1], FALSE>> ELSE cell]]

WordUndefined(s, w) ==
  IF w < Words(s) THEN [s EXCEPT !.words[w] = NotKnown] ELSE s

-----------------------------------------------------------------------------
(* Merging.  Words are compared from the tops on, down to the deepest one  *)
(* that either stack knows something of.                                   *)

Required(s, o) ==
  Max({0} \cup {i + 1 : i \in
         {j \in 0..(Max({Live(s), Live(o)}) - 1) :
            DefinedOrMerged(s, s.top + j) \/ DefinedOrMerged(o, o.top + j)}})

SameWord(s, o, i) ==
  /\ WordDefined(s, s.top + i) /\ WordDefined(o, o.top + i)
  /\ s.words[s.top + i] = o.words[o.top + i]

(* Mutant: what only the origin knows is kept.                             *)
MergedWordOfOne(s, o, i) ==
  CASE \/ SameWord(s, o, i)
       \/ WordDefined(s, s.top + i) /\ ~WordDefined(o, o.top + i) ->
         s.words[s.top + i]
    [] DefinedOrMerged(s, s.top + i) \/ DefinedOrMerged(o, o.top + i) -> Merged
    [] OTHER -> NotKnown

MergedWord(s, o, i) ==
  CASE SameWord(s, o, i) -> s.words[s.top + i]
    [] ~SameWord(s, o, i) /\ (\/ DefinedOrMerged(s, s.top + i)
                              \/ DefinedOrMerged(o, o.top + i)) -> Merged
    [] OTHER -> NotKnown

MergeStacks(s, o) ==
  LET required == Required(s, o)
      pages == (required + PageWords - 1) \div PageWords
      top == pages * PageWords - required
  IN  [pages |-> pages,
       top   |-> top,
       words |-> [w \in 0..(pages * PageWords - 1) |->
                    IF w < top THEN NotKnown ELSE MergedWord(s, o, w - top)]]

StackChanges(s, o) ==
  \E i \in 0..(Required(s, o) - 1) :
     WordDefined(s, s.top + i) /\ ~SameWord(s, o, i)

-----------------------------------------------------------------------------
(* The finder's use of it.                                                 *)

StackInit ==
  /\ stack = EmptyStack /\ saved = EmptyStack
  /\ arrived = FALSE /\ overrun = FALSE

Working == ~overrun /\ UNCHANGED <<saved, arrived, overrun>>

Push ==
  /\ Working
  /\ Live(stack) < MaxWords
  /\ \/ \E v \in StackValue : stack' = Pushed(stack, <<v, v \in Relatives>>)
     \/ stack' = Pushed(stack, NotKnown)

Pop == Working /\ stack' = Popped(stack)

(* A word is written at an even offset from the top, as an absolute one:   *)
(* set_relative_word_in_stack_from_top marks other bytes than it writes    *)
(* and is left out.                                                        *)
SetWordAt(i) ==
  /\ ~overrun
  /\ LET w == stack.top + i
         s == Grown(stack, w)
     IN  /\ Live(s) <= MaxWords
         /\ IF w < Words(s)
            THEN /\ \E v \in Absolutes : \E bit \in BitsBefore(s, w) :
                      stack' = WordSet(s, w, v, bit)
                 /\ UNCHANGED overrun
            ELSE overrun' = TRUE /\ UNCHANGED stack
  /\ UNCHANGED <<saved, arrived>>

SetWord == \E i \in 0..MaxOffset : SetWordAt(i)

SetUndefined ==
  /\ Working
  /\ \E i \in 0..MaxOffset : stack' = WordUndefined(stack, stack.top + i)

(* The first arrival at a block leaves its stack there.  Each further one  *)
(* is merged if that changes the stack, or if a block falls in or a call   *)
(* returns with registers or variables that change what is kept of those.  *)
StackArrives ==
  /\ ~overrun /\ Live(stack) <= MaxKept
  /\ arrived' = TRUE
  /\ \/ ~arrived /\ saved' = stack
     \/ arrived /\ saved' = MergeStacks(saved, stack)
     \/ arrived /\ ~StackChanges(saved, stack) /\ saved' = saved
  /\ UNCHANGED <<stack, overrun>>

(* A block is read with the stack of its origin.                           *)
ResumeStack ==
  /\ ~overrun /\ arrived
  /\ stack' = saved
  /\ UNCHANGED <<saved, arrived, overrun>>

StackNext ==
  Push \/ Pop \/ SetWord \/ SetUndefined \/ StackArrives \/ ResumeStack

StackSpec == StackInit /\ [][StackNext]_stackVars

-----------------------------------------------------------------------------
(* Properties.                                                             *)

StackRecord(s) ==
  /\ s.pages \in Nat /\ s.top \in 0..Words(s)
  /\ s.words \in [0..(Words(s) - 1) -> Cell]

StackTypeOK ==
  /\ StackRecord(stack) /\ StackRecord(saved)
  /\ arrived \in BOOLEAN /\ overrun \in BOOLEAN

KnownEntries(s) ==
  [i \in 0..(MaxWords - 1) |->
     IF WordDefined(s, s.top + i) THEN s.words[s.top + i][1] ELSE NotKnown]

PlainStack == INSTANCE IdealStack WITH
  stack <- KnownEntries(stack), saved <- KnownEntries(saved),
  Value <- StackValue, Unknown <- NotKnown, Depth <- MaxWords

(* The pages do not show: however the array has grown, shrunk, been copied *)
(* and merged, the entries read from the top are the ones pushed, and the  *)
(* stack of the origin knows only what all stacks that arrived agree on.   *)
ImplementsStack == PlainStack!Spec

(* What has arrived has nothing left to change: the block is read again    *)
(* for another stack only.                                                 *)
ArrivalSettles == [][StackArrives => ~StackChanges(saved', stack')]_stackVars

(* stack.c:266-288: a word is written behind the end of the array only if  *)
(* it is the first of a page that the array does not have: everywhere else *)
(* the array has been made long enough.                                    *)
OverrunOnlyAtPages ==
  [][\A i \in 0..MaxOffset : SetWordAt(i) /\ overrun' =>
       (stack.top + i) % PageWords = 0 /\ stack.top + i >= Words(stack)]_stackVars

=============================================================================

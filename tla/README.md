# A verification project for c-disassembler

The program under `src/` reads a DOS program (a flat binary or an `MZ`
executable), finds out which of its bytes are code by following the control
flow from the entry point, groups the code into functions and prints an
assembly listing in which the rest is data.  This directory holds TLA+ modules
that model its analysis, the data structures under it and the walk that prints
the listing; configurations that model-check them with TLC on small instances;
and proofs, for instances of every size, checked by TLAPS.

    tlc -workers 2 -config MCFinder_transfers.cfg MCFinder.tla
    tlapm FinderProofs.tla

A run is named after its configuration: the module is what stands before the
underscore.  `PROJECT.json` lists the runs, and for every definition the lines
of the source it stands for.

## 1. The system

The program is sequential, without threads, signals or persistent state:
`disasm.c` reads the file, calls `compose_pcontent` (finder.c), then
`find_functions` (funcfind.c), then the dumpers; it ends at the first error
code.  What makes it hard is one level up: the analysis is a *worklist over
mutable data*.  Blocks are discovered, cut, invalidated and read again in an
order that depends on the image; facts found in one evaluation are used in a
later one, when the blocks they were found in have changed.  Under it lie
hand-made structures (paged lists, a stack that grows at both ends, packed
bits) whose reallocations happen on inputs that no test is large enough for.

| component | sources | state | operations | modules |
|---|---|---|---|---|
| code block finder | finder.c | loop counter, `block_index`, `any_evaluated`, the reader, the machine state and the interrupt table of the block being read, the recursion of `update_call_origins` | `compose_pcontent`, `read_block`, one handler per opcode group, `update_call_origins`, `ensure_call_return_origin` | Finder, Worklist, Execution |
| mutable blocks and their list | mcblock.c, mcblist.c, slmacros.h | start, end, valid flag and origins of every block; a paged array in the order of insertion and a sorted index | insertion, search by start, by position, next start; `set_mcblock_end`, invalidation | Finder, PagedList |
| origins of a block | cborigin.c, cbolist.c | for each way a block is reached, the machine state it is reached with | insertion by type, merging, accumulation of all of them | Finder, PagedList |
| machine state | register.c, stack.c, gvwvmap.c | what is known of the registers, the stack and global word variables | set, undefine, push, pop, merge, `changes_on_merging` | MachineState, RegisterFile, StackPages, WordValues |
| interruption table | itable.c | the handlers a program stored in the vectors | set, read by `sti` | Finder |
| reader | reader.c | a position | next byte, next word, without a bound | Finder, FuncFind |
| result blocks | cblock.c, pcontent.c | start, end, origins | `initialize_cblock` asserts that no block is empty | Finder, Listing |
| function finder | funcfind.c, funclist.c, function.c | available blocks, the candidate, the depth of the stack at every block of it, the functions | candidate, inclusion, stack check, `insert_func` | FuncFind |
| instruction lengths | counter.c | none | the length of the instruction at the reader | FuncFind, Listing |
| global variables, segment starts | gvar.c, gvlist.c, sslist.c | sorted lists filled by the handlers of finder.c | insertion, search, determination of ends | Listing |
| output | dumpers.c, printu.c | three indexes and a position | the walk over blocks, variables and segment starts; formatting | Listing |
| references | mref.c, mreflist.c, ref.c | sorted lists filled by the handlers | insertion, search | - |
| packed bits | packed.c | bit arrays | get, set, count, compare | - |
| relocations | relocu.c, srresult.c | the relocation table of the executable | sorting, search | - |
| command line, formats, names | disasm.c, renames.c | none that lasts | options, file headers, names, exit | - |

What makes each of them correct:

* the *finder* ends; every block it returns has been read; no invalidation is
  lost; blocks do not overlap; code that the program executes is in a block;
  what is kept of an origin only gets weaker;
* a *list* is never asked to insert a start it has, finds every item it has,
  never moves one, and its searches answer the right block while blocks overlap
  for a time;
* a *continuation origin* means that a block ends there, a *jump origin* that
  there is a block with the jump;
* the *registers, stack and variables*: what is said to be known is true of the
  machine; pages and sorted arrays do not show; a state that has arrived at a
  block has nothing left to change there;
* the *function finder* ends, gives no block to two functions, and accepts a
  function only if control stays in it and its stack balances on every path;
* the *listing* ends, contains every byte of code and data once and in order,
  and has every label.

The behaviours that are hard to test are listed with their lines under
"hazards" in `PROJECT.json`: evaluations that invalidate each other, blocks cut
after they were read, origins that outlive the code they were found in, the
loop limit in the middle of discovery, the matching of returns to calls, the
order in which functions claim blocks, arrays at the end of their pages, maps
that are compared at each other's indexes, and ranges of the listing that
overlap.

## 2. The modules

    Worklist                what compose_pcontent promises
    MachineState            registers, stack, a variable; merging
      Finder                compose_pcontent and everything it calls; => Worklist
        FinderProofs        theorems about Finder                        (TLAPS)
        Execution           Finder, then a processor that runs the image
        FuncFind            Finder, then find_functions
          FuncFindProofs    theorems about functions                     (TLAPS)
    Images                  families of small images
      MCFinder  MCExecution  MCFuncFind

    RegisterFile            register.c beside the machine it speaks of
      RegisterFileProofs    theorems about RegisterFile                  (TLAPS)
      MCRegisterFile
    StackPages              stack.c;   => IdealStack
      StackPagesProofs      theorems about StackPages                    (TLAPS)
    WordValues              gvwvmap.c; => IdealValues
      WordValuesProofs      theorems about WordValues                    (TLAPS)
    PagedList               slmacros.h; => IdealList
      PagedListProofs       theorems about PagedList                     (TLAPS)
      MCPagedList
      MCHeap                WordValues, PagedList and StackPages side by side

    Listing                 ends of variables, then dump
      ListingProofs         theorems about Listing                       (TLAPS)
      MCListing

    ProofFacts              numbers and sequences, for the proofs        (TLAPS)

`=>` marks a refinement: the detailed module implements the abstract one under
the mapping in its last section.

### Worklist

The abstract specification of the loops of `compose_pcontent`: items are found
and evaluated, an evaluation may ask for others or for itself again, nothing
that was asked for is forgotten, and the work is complete when nothing is
pending.  It may be cut short, but never with an item whose end is unknown.
`Finder!ImplementsWorklist` maps a pending item to a block that is neither
valid nor being read.

### MachineState

Operators only.  A state is what finder.c knows at an instruction: `reg` (AX),
`stack` (a sequence of words) and `var` (one word variable in the data
segment).  Each is a word or unknown.  The C code keeps the value bytes of an
undefined register and compares them; so does `Register` (`def`, `val`).
`Original` is a variable that still has the word the image stores in it; below
the bottom of the stack every entry is unknown.  `Join*` are the merge functions,
`Changes*` are the `changes_on_merging_*` functions, each as the code computes
it and not as the meet of a lattice.  `Join*ButStack` and `Changes*ButStack` are
what `read_block` does with the CONTINUE origin of the block that follows
(finder.c:2581-2588), which leaves the stack alone;
`add_continue_type_cborigin_in_mcblock` merges it.

### Finder

| variable | in the code |
|---|---|
| `prog` | the bytes, as instructions; the entry point; the initial word of the variable |
| `blocks` | `cblock_list`: a function from starts to blocks or `None`; `slot` is the place in the order of insertion, `end` equals the start while it is not known |
| `loop`, `index`, `any` | `evaluation_loop`, `block_index`, `any_evaluated` |
| `phase` | where the program is: the loops (`scan`), a handler (`decode`), what `read_block` does behind it (`link`), `update_call_origins` (`backtrack`), or how it ended |
| `cur`, `pos`, `st`, `reached` | the block being read, the reader, `regs`/`stack`/`var_values`, `next_instruction_potentially_reached` |
| `vec` | the interruption table |
| `trail` | the calls of `update_call_origins` in progress |

An origin is a *key*, its place in the sorted origin list (OS, interruption,
continue, call return by the length of the call, jump by its address), with the
state kept for it.  The actions are the ones of the program: `SkipBlock`,
`BeginBlock`, `NextLoop`, `Finish` for the loops of `compose_pcontent`; one
action per instruction handler; `VisitContinuation`, `VisitJump`, `VisitCall`,
`VisitEntry`, `LeaveBlock` for one origin in `update_call_origins`; `ReadOn`
and `EndBlock` for the linking that follows every instruction.

Instructions are classes (comment at `Ops`): what the handler does with the
state, the list and the flow.  `load` stands for everything that leaves AX
unknown.  Opcodes whose handler returns an error, opcodes of no case, and code
that runs off the image are in.  An analysis that reads behind the image stops
in phase `overrun`: what it would decode is out of the model.  A store that
gives the only variable its original value back ends the analysis in phase
`failed` (`MapEmptied`), because the map is then reallocated to no bytes.

### Execution

Once the analysis has converged, a processor (external: it is not code of the
repository) runs the image from its entry, with the calling conventions
of the instruction classes.  `ExecutedCodeIsInBlocks` is the promise of the
analysis as a whole.

### FuncFind

`find_functions` after an analysis by Finder.  `task` is the loop that runs and
`at` its index: `select` a block that only calls lead to (`BeginFunction`),
`include` one block after the other in sweeps (`EvaluateBlock`, `RejectBlock`),
check the `stack` in one sweep (`CheckBlockStack`, `PassOver`, `RejectStack`)
and register the function (`AddFunction`), starting again until a pass adds
none (`NextPass`).  `func` is `FuncState`, `depth` is `stack_size`, `available`
is `available_blocks`, and `funcs` the sorted list with the binary search that
funclist.c uses (it misses functions around which another one stands, and the
model misses them too).

### RegisterFile

`regs` is `struct Registers`, reduced to AX with a bit for each half, SP and BP
with the tie between them, and one segment register; `kept` is the copy in the
origin of a block, `seen` the machines that have arrived there.  `real` is the
machine that executes the same instructions: a value with what it is counted
from.  Every action is an instruction as a handler of finder.c reports it to
register.c, together with what it does to the machine; `Arrive` is
`changes_on_merging_registers` and `merge_registers` when the block is reached,
after which the block is read with what is kept, or reached on another path.
`Finder` uses one register of this file; here the question is whether what is
known is true.

### StackPages, WordValues, PagedList

The structures under the finder, each with the abstract one it implements.

* `StackPages`: an array of words in pages, with `top`; `AddPage` at the start
  on a push, growth at the end on a deep write, pages given back on a pop,
  copy and merge.  What the words outside of the stack hold never shows
  (`IdealStack`).  A word right behind the end is written outside of the array
  (`overrun`), where the model ends.  The bit that says whether a word is
  relative is kept apart from the word, as in the code, and may be wrong
  (section 4); `IdealStack` has no such bit.
* `WordValues`: the array sorted by position with a kind per entry (two packed
  bits); insertion moves the entries behind, a store of the original value
  removes one.  `merge_gvwvmap` reads the other map at the index of its own
  entry, and never drops a relative one.  Removing the last entry ends the
  analysis (`failed`).
* `PagedList`: `pages` in the order of insertion, the `sorted` array, `room` for
  both, an item that is `prepared` and inserted, refused or given up.
  `outside` is set when an array is written behind its end.

### Listing

Phase `ends` is the loop at the end of `compose_pcontent` that gives every
variable of unknown length an end, one variable per step; phase `dump` is one
round of the loop of `dump` per step, over `segment`, `block` and `variable`,
the indexes of its three sorted lists, and `position`.  `listing` collects the
lines written, each as the range of bytes it stands for.  `DeterminePosition`
is asked where neither a block nor a variable is at hand; when the last of both
is written it answers that nothing is left, though segment starts may be
(dumpers.c:927).

## 3. Instances, bounds and fairness

**Images for the finder.**  `Images` builds every sequence of `Slots`
instructions of a menu in an image of `Size` bytes.  Operands name places in the
sequence, so that jumps lead to instruction starts.  The bytes inside of an
instruction decode as `next`, the bytes behind the last one as `Padding`.

| family | menu | bounds | what it is for |
|---|---|---|---|
| transfers | the union of the four below | `Size` 9, `Slots` 4, `Limit` 3 | everything that transfers control |
| - calls | call to every place, ret, push, pop, jcc | | call returns, walks over call cycles, recursion, return addresses that are moved |
| - indirect | stores, loads, call and jump through the variable | | targets that are found, lost and found again |
| - interrupts | interrupts, vectors set by int 21/25 or mov, sti | | handlers as blocks |
| - edges | targets at the end of the image, unknown opcodes, errors | | the edges of the image |
| handlers | a call, the code behind it, a handler, and a function of set, mov to the vector, sti, ret | `Size` 11, `Slots` 7, `Limit` 20 | the end of a block moved by sti |
| executables | branches, jumps, interrupts and calls to every place, ret, push, pop; nothing falls into a subroutine | `Size` 7, `Slots` 4, `Limit` 20, `Depth` 4 | convergence, execution |
| functions | two calls and an exit, then sequences of ret, ret 2, push, pop, jumps, a call | `Size` 20, 17 or 12, `Slots` 7 or 6, `Limit` 20 | functions that overlap |

(`branches` is the menu of `executables` without calls; no run needs it.)
Four instructions are enough for a block to be discovered, read, cut by a later
jump, invalidated and read again, and for two such sequences to cross.  In
`functions`, up to four instructions behind a main program of three make two
functions that share, enter or call each other.  `Limit` is 20 in the code;
with 3 the limit also stops unfinished analyses, which is what the invariants of
the worklist have to survive, while most analyses still end below it.  The
values of memory that was never written (`Uninitialized`) matter in the states
of interrupt handlers; `MCFinder_transfers` uses two of them.  `Depth` bounds
the stack of an execution.

**Registers.**  `Base` is 2, so that a byte has two values and a word four; a
wrap happens at once, and every constellation of known halves, relative bits
and tie occurs.  `Length` 2 with `Machines` 2: two arrivals with two
instructions each are the shortest case in which a merge can be wrong for the
machine that came first.  The run with frames needs two instructions (`Length`
is 3), one machine, and `mov bp,sp` as the only move between registers
(`FrameMoves`).  `MCRegisterFile_merging` leaves `mov bp,sp` out of `Moves`, see
section 5.

**Stack, variables, lists.**  `PageWords` 2 with up to four words makes a
second page at the start and a third at the end, and gives them back; offsets up
to 2 write below the top, at the end and behind it.  Three variables with two numbers and one address make an insertion
at the start, in the middle and at the end of the array.  A list with two items
per page and a granularity of 2 (64 and 8, or 4 and 8, in the code) is
reallocated at its third page and written outside at the seventh item; six keys
reach everything before that, a seventh item is only prepared.  In `MCHeap`,
`used` says which of the three structures a behaviour uses: they share no state.

**Listings.**  Five images of five bytes (instructions of one to three bytes, an
unknown opcode at the start or within, a far jump, text with and without a
dollar), every pair of
blocks and every pair of variables of every type, segment starts at bytes 1 and 3 (so that
both may lie in one line): every way in which two ranges overlap occurs.  `MaxMessage` bounds the
length of an int 21/40 message.

**Fairness.**  `Finder!Spec` has weak fairness of `Next`, `FindSpec` of
`FindNext`, `Listing!Spec` of its next-state action: a sequential program goes
on as long as it has a step.  There is no other fairness.  `CHECK_DEADLOCK
FALSE` stands where the program ends: a processor that has exited or is out of
bounds, a search for functions that is finished, a stack that was written
outside of its array, an analysis given up by a map; the registers stop at
`Length` instructions and the list at its keys.  In `Finder` and `Listing` the
end is a step, so that a deadlock there would be a program that hangs in the
middle; none does.

## 4. What the runs show

| run | shows |
|---|---|
| MCFinder_transfers | the inductive invariant of the proofs; blocks of the result are disjoint and have been read; no block awaits an evaluation below the limit; every CONTINUE has a block that ends there; every jump origin lies in a block; the state of an origin only loses information; an origin that is new to a block that was read has nothing to tell it, or the block is read again; the analysis implements `Worklist`; evaluated blocks come to overlap, and blocks are refused, by a disturbance only (section 5), and no program of the menu meets one |
| MCExecution_programs | no block is refused by the list; only unknown registers keep an analysis from converging; every instruction that an execution reaches is in a block |
| MCFuncFind_functions | the block before a continued one goes on; no block in two functions; `insert_func` never refuses; all returns of a function agree in size; control leaves a function by calls and returns only |
| MCFuncFind_ending | the program ends: the loops of the analysis, the walks over call cycles, and the search for functions |
| MCRegisterFile_merging | a value that is said to count from the segment does so in every machine that arrived; registers that have arrived have nothing left to change |
| MCHeap_structures | `WordValues` implements `IdealValues` and `PagedList` implements `IdealList`; every item is found; the arrays hold until there is one page more than the granularity; the pages of a stack never show: `StackPages` implements `IdealStack`; a word is written behind the array only where it is the first of a missing page; a merged stack has nothing left to change; a merged map keeps no value that the code arriving does not know |
| MCListing_overlaps | no byte of code or data is lost; the lines are in order with every label at its place; a block loses its label only to a variable across its start; the loop ends |
| MCFinder_insertions, MCFuncFind_depths, MCRegisterFile_frames, MCListing_ends, MCPagedList_grows | the disagreements below |

The type invariant of Finder is a part of `Inductive`, and that of StackPages is
proved and not checked by a run: `ImplementsStack` and `OverrunOnlyAtPages` say
more of the same structure.

Every property of the passing runs comes with a mutant: a definition of the model
changed the way a slip in the code would change it, under which TLC finds the
property violated.  The mutants stand before the definitions they change.

### Disagreements between the code and its comments

Five runs expect a violation.  Each was reproduced with a debug build of the
program on the bytes given.

* **MCFinder_insertions** (`InsertedOutside`).  `mcblist.h:44` says that
  `insert_cblock` refuses a block that overlaps another one.  It refuses only a
  start that is there already: the block before is not asked for its end, and
  the new one has none yet (`mcblist.c:35`).  When a handler is installed that
  stands behind the code behind a call, sti extends the block that calls up to
  the handler and does not invalidate it (`finder.c:2223`); the return, which is
  read later, inserts the code behind the call within it.  With
  `E8 04 00 EB FE EB FE B8 00 00 8E D8 B8 05 01 A3 24 00 8C C8 A3 26 00 FB C3`
  the result has the blocks 100-105 and 103-105, and the jump at 103 is printed
  twice.
* **MCFuncFind_depths** (`DepthsAreKnown`).  `funcfind.c:43` says that the depth
  of every block is known when the stack check ends.  The check is one sweep
  that passes over blocks of unknown depth, and no depth is set for a block that
  is reached by falling into it or behind an interrupt.  With
  `E8 02 00 CD 20 74 01 50 C3` the function at 105 is accepted although one of
  its paths returns with AX on the stack.
* **MCRegisterFile_frames** (`TiedStackAgrees`).  `register.h:66` says that bit 0
  of `relative` means SP = BP + v.  When BP gets a value that is not known, here
  by a pop of BP (`finder.c:1006`), `set_word_register_undefined` clears the
  bits of BP and leaves this one (`register.c:800`); SP is moved on from the BP
  that was there before.  TLC shows `mov bp,sp` and then `pop bp`; behind
  `8B EC 5D` the program prints SP=BP+2, BP=?.
* **MCListing_ends** (`EndsBehindStarts`).  `gvar.c:50` asserts that the end of
  an array lies behind its start.  A string for int 21/09 behind the image, or a
  word string of one byte, is given an end at its start (`finder.c:2716`,
  `2739`).  The com file `B4 09 BA 00 05 CD 21 CD 20` fails the assertion.
* **MCPagedList_grows** (`GrowsWithItsItems`).  `slmacros.h:9` says that a list
  grows as items are added.  The arrays are reallocated at the ninth page, by
  one page, and the tenth is written outside: 37 times `74 xx` with the
  same target and `CD 20 CD 20` corrupt the heap (36 times do not), and so do
  1200 times `EB 00`.

### What the properties leave aside

`Converges` allows an analysis that never converges when an unknown register is
among the states: the value bytes of undefined registers are compared
(`register.c:1290`), and `E8 02 00 EB FE 58 EB FD` goes on until the limit.
`MergeSettles` is about registers with a known AX and without a tie for the
same reason.  `MergedValuesAgree` says that a value that is kept is the one of
the code that arrived where both maps have the variable at one index only: at
different ones `merge_gvwvmap` compares the words of different variables
(`gvwvmap.c:319`), and may keep one that differs.

The properties of the listing have hypotheses, each for something that `dump`
gets wrong (the model does the same):

| hypothesis | without it |
|---|---|
| `NoFarJumps` | the branch for `EA` does not return (`dumpers.c:659`): the next instruction is printed twice |
| `NoFarPointers` | the second word of a far pointer is read four bytes on (`dumpers.c:896`) |
| `OverlapsOutside` | in a block whose instructions are no longer told apart, `dump` moves on by the size of a variable from where it is, which is within the second of two words that overlap: the byte behind it is not written (`dumpers.c:1168`) |
| `StringsApart`, `VariablesApart` | a string with another variable in it loses or repeats bytes; a string without a dollar before the next block is searched up to the end of that block and swallows its label (`finder.c:2729`) |
| `OpcodesApart` | two variables at an opcode are printed twice (`B8 01 00 A0 00 01 A0 01 01 CD 20`); a variable across the start of a block hides its label |

A segment that starts inside of an instruction has its label late or not at all
(`Hidden`), one that starts behind the last block and the last variable has none
(`Beyond`).  `LabelsAreKept` has no hypothesis: whatever else goes wrong, the
label of a block is lost to nothing but a variable that reaches over its start.

### Other observations

These were met while modelling, and no run claims them as a violation; where a
comment of the source says otherwise it is named.

* `mcblock.h:54` says that a new end of a block is smaller than the known one;
  with `E8 02 00 90 50 50 74 FC CD 20` the end of the first block grows from 103
  to 104, since `register_jump_target_block` cuts the block *before* a target
  without asking whether it reaches it (`finder.c:471`).  That block is invalid
  then, and gets its right end when it is read again.
* `stack.h:35` says that `relative` tells whether a word is relative to CS.
  Writing a number below the top clears the bit at the index of the byte, not of
  the word (`stack.c:288`): the word written over stays relative, and another
  one may lose its bit.  With `0E 8B EC B8 01 00 89 46 00 58 CD 20` the program
  prints AX=1 before the write and AX=+1 behind `pop ax`.
* Code that is entered inside of an instruction: the block of the outer
  instruction is cut there, and the code behind an outer call lies within the
  inner block when the call returns.  With `74 02 90 E8 03 00 90 CD 20 C3` the
  result has the blocks 104-109 and 106-109, and `nop`, `int 0x20` are printed
  twice.  The images of the passing runs are entered at the starts of
  instructions, and `DisjointBlocks` is a statement about such images without
  the handlers of `InsertedOutside`.
* `EB 02 90 90 CD 20`, a direct jump over data: `set_mcblock_end` extends the
  first block over the data for a time, the reader links it to the target, and
  the CONTINUE origin stays when the block gets its right end, against
  `cborigin.h:27`.  `ContinuesAnother` is therefore checked with menus in which
  an unconditional jump forward skips nothing (`MCFinder_transfers`), and not
  with those of the other runs.
* `E8 02 00 CD 20 E8 00 00 C3`: the code behind the first call is never found.
  The return is matched to its call when the return is read, and a call return
  that is new to a block does not invalidate it.  This is why the images of
  `MCExecution_programs` have no code that falls into a subroutine.
* The state a block is read with need not be one the program can have there:
  recorded call returns are not merged into what is known, and the merge of a
  CONTINUE origin leaves the stack out.
* `B8 34 12 A3 10 01 B8 00 00 A3 10 01 CD 20` and zeros: the last entry of a map
  is removed, `realloc` to no bytes returns NULL, and the program prints no
  listing.
* `B8 01 00 8B EC 89 46 00 CD 20`: a word right behind the end of the stack is
  written outside of the array.
* The loop in `read_block` that should accumulate all the origins of the
  following block merges the first one with itself (`ContinueInto`).  What all
  of them agree on says no more than the first, so that comparing with the first
  reads a block too often and never too seldom (`NewOriginsAreNoticed`).
* An executable that loads the segment of 0x20 into DS and reads the byte at
  offset FFF0: the address wraps to 0x10, the segment is behind the last
  variable, and its label, which the operand names, is printed nowhere
  (`B8 02 00 8E D8 8A 1E F0 FF CD 20`, the word at 1 relocated; with
  `8A 1E 04 00` it is printed).  `mov al,[x]` by opcodes A0 to A3 registers no
  segment start at all (`finder.c:1562`), with the same effect
  (`B8 02 00 8E D8 A0 00 00 CD 20`).
* The stack check looks for the target of a near call or jump without the wrap
  to 16 bits; a target that lies behind is never found, and no function with
  such an instruction is accepted (`TargetFound`, `funcfind.c:552`).
* For a jump origin evaluate_block finds the block of the jump and then asks for
  the block it evaluates, which is included already (`funcfind.c:168`): a block
  that jumps in from outside of the function is never noticed.
* The handler of FF tells inc from dec by the bits of the value in memory, not of
  the opcode (`finder.c:2335`).
* The search for the function with a block can miss one that stands to the left
  of a function around the block (`FunctionWith`, `funclist.c:96`).
* Not in a model: `function.c:32` allocates a bit set for more than 64 blocks and
  then changes `block_count`, so that the pointer is used as the bits;
  `sslist.c:36` reallocates to a number of bytes, not pointers;
  `set_relative_word_in_stack_from_top` (`stack.c:315`) marks other bits than it
  writes; `register.c:1233` looks up DL, DH, BL and BH with the masks of words;
  `register.c:105` asks for SI instead of DI; `finder.c:622` passes the value of
  DS as CX.

## 5. What is proved

TLAPS proves the following for every value of the constants that the assumption
of each module allows: `ConstantsAssumption` of `Finder` (no instruction extends
beyond the image, calls are two to four bytes long, the marker values are not
words), `ListAssumption`, `StackAssumption`, `VariablesAssumption`,
`RegisterFileAssumption` and `ListingAssumption`, which say of what type the
constants are; the last one also that segment starts are sorted and none is
there twice, which is how `insert_segment_start` keeps them (sslist.c:31).

| module | theorem | says |
|---|---|---|
| FinderProofs | `InductiveInvariant` | `Spec => []Inductive` |
| | `TypeCorrect` | `Spec => []TypeOK` |
| | `AllBlocksRead` | `Spec => []NoEmptyBlocks`: the assertion of `initialize_cblock` holds, whatever stopped the loops |
| | `NoPendingBlock` | `Spec => []NothingPending`: below the limit, no invalidation was lost |
| | `WorklistImplemented` | `Spec => ImplementsWorklist` |
| | `MergesOnlyLose` | `Spec => OriginsOnlyLose` |
| | `OverlapsFollowDisturbances` | `Spec => OverlapsAreDisturbances`: no other step makes an evaluated block reach over another one |
| | `RefusalsFollowDisturbances` | `Spec => RefusalsAreDisturbances`: `insert_cblock` refuses a block only when the search was misled |
| | `UndisturbedBlocksAreDisjoint` | `Spec /\ NeverDisturbed => [](loop <= Limit => DisjointBlocks)` |
| | `UndisturbedIsNotRefused` | `Spec /\ NeverDisturbed => []NeverRefused` for images without opcodes that are answered by return 1 and stores that empty the map of values |
| FuncFindProofs | `AllReturnsAgree` | `FindSpec => []ReturnsAgree` |
| | `FunctionsStayClosed` | `FindSpec => []FunctionsAreClosed` |
| | `NoBlockInTwoFunctions` | `FindSpec => [](ContinuedBlocksGoOn => BlocksAreNotShared)` |
| | `EveryFunctionIsTaken` | `FindSpec => [](ContinuedBlocksGoOn => NoFunctionRefused)` |
| | `FunctionsKeepToTheBlocks` | `FindSpec => []FuncTypeOK`: the stack check never counts less than no words |
| PagedListProofs | `ListFits` | `ListSpec => []ListTypeOK` |
| | `OutsideWithTheLastPage` | `ListSpec => []OutsideOnlyBeyond` |
| | `EveryItemFound` | `ListSpec => []EveryItemIsFound` |
| | `ListImplemented` | `ListSpec => ImplementsList` |
| WordValuesProofs | `MapsStaySorted` | `Spec => []TypeOK` |
| | `ValuesImplemented` | `Spec => ImplementsValues` |
| | `MergesAgree` | `Spec => MergedValuesAgree`: a merge keeps no value that the code arriving does not know |
| StackPagesProofs | `StacksStayInPages` | `StackSpec => []StackTypeOK` |
| | `StackImplemented` | `StackSpec => ImplementsStack` |
| | `ArrivedStackSettles` | `StackSpec => ArrivalSettles` |
| | `OverrunsOnlyAtPages` | `StackSpec => OverrunOnlyAtPages`: no word but the first of a missing page is written behind the array |
| RegisterFileProofs | `RelativeWordsAgree` | `Spec => []RelativeAgrees` for programs that do not move SP to BP |
| | `RegistersKeepTheirWidth` | `Spec => []TypeOK` |
| | `ArrivedRegistersSettle` | `Spec => MergeSettles` |
| ListingProofs | `IndexesStayInLists` | `Spec => []TypeOK` |
| | `NoByteLeftOut` | `Spec => []Complete` |
| | `LinesInOrder` | `Spec => []InOrder`: no byte twice, every label right before its byte, and every label there that is not hidden, beyond the end or across a variable |
| | `NoOtherLabelIsLost` | `Spec => []LabelsAreKept`: a block loses its label only to a variable across its start |

**The finder.**  `NoEmptyBlocks` and `NothingPending` speak of the end of the
analysis and say nothing of how it gets there, so neither is inductive.
`Inductive` adds

* `WellFormed`: the slots number the blocks without gaps, so that `index` visits
  every block;
* `Position`: in each phase, where the reader, the current block and the walk
  are: the current block is the one at `index`, and `any` is set while it is
  read;
* `UnreadAhead`: a block that has not been read is at or ahead of `index`, and
  it is not valid unless it is being read.  New blocks are put at the end of
  the insertion order, which is what makes the limit harmless: it is asked only
  between loops;
* `PassedValid`: as long as `any` is not set, every block behind `index` is
  valid.  One that is invalid later was invalidated by an evaluation, which has
  set `any`, so that another loop follows.

The proof reduces every handler to one relation, `Extends`, between the list
before and after: no block disappears or moves, ends that are known stay known,
no block becomes valid, new blocks are appended and invalid, and the state of an
origin only loses.  One lemma per operation on lists shows that it extends, one
lemma per action that it preserves the invariant.  `WorklistImplemented` maps
each action to a step of `Worklist` or a stutter: that the work is complete in
`Finish` is `PassedValid`.  `MergesOnlyLose` needs that the order "says less" is
transitive, as one instruction may register several origins, and that a join is
below its first argument.

**Blocks that overlap.**  While the analysis runs, blocks do overlap: the block
that is read has no end yet, or one that a jump forward has moved, and a block
that was cut and invalidated keeps an end that may be wrong until it is read
again.  What holds at every step is `BlocksApart`: a block that is valid and not
being read reaches over the start of no other one.  Three things break it, and
`OverlapsFollowDisturbances` says that nothing else does:

* `EnteredInside`: a block starts inside of the instruction that is handled, so
  that what follows the instruction lies in that block;
* `Misled`: the handler looks up a position that a block reaches over with
  another one behind it.  `index_of_cblock_containing_position` then may stop at
  the first of them, and the caller cuts that one or finds no block where there
  is one;
* `ReturnsInside`: a return registers the code behind a call within a valid
  block, which nothing cuts (MCFinder_insertions).

Without the first two no block is refused either.  The four theorems rest on
what the search answers.  `SearchCounts`: if no block reaches over a position
with another one behind it (`Clear`), the halving search answers the number of
blocks up to the position, whether it stops early or not; every stretch it is
asked for counts the same (`AnswerOfHalf`).  So the container is the last block
up to the position (`ContainingIsLast`), a block that is inserted is not there
yet, and all blocks before the container end before it starts, so that it is the
only one to cut (`InsertedWhereLast`).  What comes behind an instruction needs
`Between`: no block starts between the one that is read and the reader, as the
link behind every instruction ends the block at its follower.  The block that is
read settles when it ends: at its follower, or before the reader has met one
(`EndBlockSettles`).

The theorems about `DisjointBlocks` and `NeverRefused` have the hypothesis
`NeverDisturbed`, which is about the image: there are images with overlapping
blocks (section 4).  The run MCFinder_transfers shows that its menu, in which
blocks are cut, extended and invalidated, meets none of the three.  Above the
limit blocks may be left that wait for an evaluation, and of these nothing is
said.

**The functions.**  `ReturnsAgree` and `FunctionsAreClosed` are about accepted
functions; `FindInductive` says the same of the candidate, restricted to the
blocks that have been evaluated (`CandidateObeys`), that all of them have been
when the stack check begins (`AllEvaluated`), and that the blocks do not change
any more (`FindsAfterwards`).  The insertion into the sorted list keeps what is
known of each function.

`evaluate_block` includes the block before a continued one without asking
whether it is available (funcfind.c:154), so that functions need not be
disjoint for a local reason.  The argument of `NoBlockInTwoFunctions`: if that
block belongs to an accepted function, so does what it goes on to, since
functions are closed; that is no longer available, and the candidate is given up
when the turn of the block comes.  It needs that the block goes on to anything
at all (`ContinuedBlocksGoOn`), a promise of the finder about its origins.  The
run MCFuncFind_functions checks it; a proof of it would have to follow every
origin back to the instruction it was found at.  The stronger promise, that it
goes on to the very block with the origin, is false: a jump over data leaves a
CONTINUE origin behind (section 4).

`FuncTypeOK` is more than types: the depth of a block is what is left after the
pushes, pops and calls of other blocks.  It is never negative since the check
asks for it before every pop and every call (`StackStaysThere`), and the size
that a call pops is that of a function in the list, which is where the binary
search comes in (`FunctionsHavePlaces`).

**Lists.**  `ListTypeOK` relates the number of items, pages and room, which is
the arithmetic of `prepare_new`; `outside` becomes true only in `Prepare`,
where the number of pages is then known.  `EveryItemFound` and `ListImplemented`
rest on `Arranged`: the sorted array holds every inserted item once, in the
order of the keys, and its entries are places in the pages that are in use.
That the search ends at the item follows from what holds of every span it is
asked for: the items to the left of the span have smaller keys, those to the
right larger ones.

**Maps and stacks.**  A map is its set of entries, with one for each variable;
a store, a removal and every step of the merging loop are each shown to change
that set for one variable only, so that a lookup in `TableOf` changes for that
one.  `StackInvariant` says where `top` is, and that the array has the words
of its pages; the mapping to `IdealStack` counts entries from the top.  Adding
or giving back a page at the start moves all words and `top` alike, and a page
is given back only when `top` is at least two pages from the start.  A write
below the top makes the array as long as whole pages, enough for every index but
the one that equals its size: this is where `OverrunsOnlyAtPages` comes from.

**Registers.**  `RelativeAgrees` is proved from an invariant that also
speaks of the machines seen and of what is kept.  The hypothesis
`<<"sp", "bp">> \notin Moves` cannot be dropped: `mov bp,sp` is the instruction
that ties SP to BP, or sets SP from BP.  The two other theorems have no such
hypothesis.  `MergeSettles` follows from what a merge makes equal, word by word:
an equal word says nothing new (`SameRegistersSettle`), and a word that differs
is unknown after the merge, apart from the cases the property names.

**The listing.**  `Complete` speaks of the end of the walk.  `Rest` says what
is written at every round: all bytes of the blocks and variables that the
indexes have passed, and those of the current block up to `position`
(`Covered`).  Two of its parts are what an attempt without them showed to be
missing.  With instructions no longer told apart, `position` may stand inside of
the next variable, and only if an earlier one reaches into it; this is where
`OverlapsOutside` is needed, and where the proof found the byte that is lost
without it (section 4).  And where `position` is None both lists are at their
ends.  Then every action writes at least the bytes it steps over
(`MoveOnCovers`): an instruction its length (`InstructionIsWritten`), a variable
what is printed of it (`PrintedWhole`), a variable in code its bytes and the
rest of the instruction behind it.

`InOrder` speaks of pairs of lines, at the end.  `LaidOut` is what makes it
inductive.  `Ahead`: `position` is never behind the next block or variable, and
within a block it is where an instruction starts, counted from the start of the
block (`Entered`), unless instructions are no longer told apart; a segment start
that is still to come and behind `position` is hidden.  `Behind`: every line
written is before `position`, with one exception.  Where a segment starts within
a line that was just written, `dump` goes back into that line (`Inside`), and
then writes nothing there but a label, which is hidden.  `Labelled`: all labels
that the indexes have passed are there.  A segment start that is left when the
walk ends is hidden or behind every line that was written; with `Complete` it
lies beyond every block and variable.  `LabelsAreKept` needs none of the hypotheses:
no block is passed before its bytes are, and `position` gets behind the start of
the next block without its label only through a variable that reaches over it
(`LabelsSoFar`).

What is hard is a variable within an instruction.  Code is written up to the
instruction that holds the variable, and `StartsGoOn`
relates the walk from `position` to the one from the start of the block, which is
the one that the hypothesis `OpcodesApart` speaks of.  With it a variable never
lies at an opcode, so that `DumpVariableInCode` is not reached at all
(`NoVariableInCode`), and a far jump or a far pointer, whose second word is
written as one of another segment, is left aside as the property says.  That
variables have ends when the walk begins (`Ended`) is part of the invariant.

**Recursive definitions.**  The searches, `Course`, `Passed` and `Instructions`
are recursive functions.  The provers cannot use the library's induction
theorems, so each property of such a function is shown by contradiction from the
least number of steps at which it fails (`Least` in `ProofFacts`), and that the
function exists at all in the same way (`PassedExists`, `InstructionsExist`,
`LastExists`, `SearchExists`, `CourseExists`).  For `SearchCounts` the function
that gives the right answers is itself one that satisfies the recursion.

Only model-checked: `JumpsAreCode`, `ContinuesAnother`, `NewOriginsAreNoticed`,
`Converges`, `ExecutedCodeIsInBlocks` of the finder, and `ContinuedBlocksGoOn`.  They hold
for the menus of their runs and some are false beyond (section 4).  The first
two speak of origins that were found in code which a cut may have taken away:
whether the part that was cut off, read again from its own start, meets the same
instructions is a matter of the image.  `NewOriginsAreNoticed` speaks of all the
origins of a block folded into one state, in their order, while the code
compares with the first.  `Converges` and `ExecutedCodeIsInBlocks`
depend on how many loops an image takes, for which there is no bound that the
code knows of.  `NeverDisturbed` is checked as a property of the images, and is a
hypothesis of the theorems.
TLAPS does not reason about fairness, so that `ProgramEnds` and `DumpEnds` stay
with TLC, too.

## 6. What is not modelled

* *Within modelled components.*  The finder follows one register and one
  variable, one segment, near returns only; it does not resolve addresses
  through several registers and does not collect references and variables.  The
  function finder leaves out BP, calls through it and far returns.
  `RegisterFile` leaves out CX to DI, ES and SS, which are handled like the
  registers that are in but for DL, DH, BL and BH, which the merge looks up with
  the masks of words (`register.c:1233`), local values and the origins of values; `StackPages`
  single bytes, odd offsets and relative words written below the top.  `Listing`
  gets its blocks and variables as inputs, at most two of each.
* *References and messages* (mref.c, mreflist.c, ref.c, the insertions of
  gvlist.c, and the backtracking of int 21/40 messages in finder.c): they decide
  what an operand is called and which variables exist, and nothing in the
  analysis of control flow reads them.  Their lists are instances of `PagedList`.
* *Packed bits* (packed.c): accessors of bit arrays, used by funcfind.c as sets.
* *Relocations* (relocu.c, srresult.c): a table that is sorted once and searched;
  that a word is relocated is an alternative of `RegisterFile`.
* *Function bit sets* (function.c) and *segment starts* (sslist.c): an overrun of
  the heap and the bits of a pointer have no effect that a model could state.
* *Opcode table* (counter.c): lengths of instructions are constants.
* *Text* (the operands in dumpers.c, renames.c, printu.c) is formatting of a
  finished result; *files and options* (disasm.c) are I/O.

------------------------------ MODULE FuncFind ------------------------------
(***************************************************************************)
(* find_functions (funcfind.c): groups the blocks that compose_pcontent    *)
(* found into functions.  A block that only calls lead to is the start of  *)
(* a candidate; the candidate includes what its blocks jump, return or     *)
(* fall to; it is a function when the words that its blocks push and pop   *)
(* balance.  Functions that call others are found after them, so that the  *)
(* search starts again until it adds no function.                          *)
(*                                                                         *)
(* The blocks are the ones that Finder ends with, whatever program it was  *)
(* given.  An action is one block in one of the loops of funcfind.c.  BP   *)
(* and calls through it are left out, and so are far returns.              *)
(***************************************************************************)
EXTENDS Finder

LOCAL INSTANCE FiniteSetsExt
LOCAL INSTANCE SequencesExt

VARIABLES
  funcs,      \* the functions found, sorted by their first block
  available,  \* available_blocks: the blocks of no function
  added,      \* new_function_added
  task,       \* the loop that runs: select, include, stack; or how it ended
  at,         \* where the loop goes on: the first block that is left
  func,       \* the candidate (FuncState)
  depth       \* stack_size: the words on the stack where a block starts

fvars == <<funcs, available, added, task, at, func, depth>>

Candidate == [start     : Word,
              included  : SUBSET Word,
              evaluated : SUBSET Word,
              starting  : SUBSET Word,
              size      : Word \cup {None}]

NoCandidate == [start |-> 0, included |-> {}, evaluated |-> {}, starting |-> {},
                size |-> None]

FuncTypeOK ==
  /\ \A i \in 1..Len(funcs) :
       /\ funcs[i].blocks \in SUBSET Listed(blocks) /\ funcs[i].blocks # {}
       /\ funcs[i].starting \in SUBSET funcs[i].blocks
       /\ funcs[i].size \in Word
  /\ available \in SUBSET Listed(blocks)
  /\ added \in BOOLEAN
  /\ task \in {"wait", "select", "include", "stack", "found", "refused"}
  /\ at \in 0..(Size + 1)
  /\ func \in Candidate
  /\ depth \in [Word -> Nat \cup {None}]

FindInit ==
  /\ Init
  /\ funcs = <<>> /\ available = {} /\ added = FALSE
  /\ task = "wait" /\ at = 0
  /\ func = NoCandidate
  /\ depth = [b \in Word |-> None]

-----------------------------------------------------------------------------
(* What the code of a block does.                                          *)

Op(p) == prog.code[p].op

Behind(p) == p + prog.code[p].len

Instructions(b) ==
  LET from[p \in Word] ==
        IF p >= blocks[b].end THEN {} ELSE {p} \cup from[Behind(p)]
  IN from[b]

Rets(b) == {p \in 0..(Size - 1) : p \in Instructions(b) /\ Op(p) = "ret"}

InterruptOps == {"int", "dos", "exit", "clock", "vector"}

(* The blocks that must be part of the function if the instruction is.     *)
Leads(p) == CASE Op(p) \in {"jcc", "short", "near"}     -> {prog.code[p].arg}
              [] Op(p) \in {"call"} \cup InterruptOps     -> {Behind(p)}
              [] OTHER                                  -> {}

FallsInto(b) == {c \in Listed(blocks) :
                   /\ Following(blocks, b, c) /\ c = blocks[b].end
                   /\ Continue \in Present(blocks[c])}

(* The blocks that have to be part of the function of b.                   *)
GoesOnTo(b) == FallsInto(b) \cup UNION {Leads(p) : p \in Instructions(b)}

(* Mutant: the block before is taken whatever the type of the origin.      *)
IsContinuedByAny(b) == Present(blocks[b]) # {}

(* The block before, which a CONTINUE or CALL_RETURN origin stands for.    *)
IsContinued(b) == ({Continue} \cup CallReturns) \cap Present(blocks[b]) # {}

Previous(b) == {p \in Listed(blocks) : IsContinued(b) /\ Following(blocks, p, b)}

JumpsTo(b, ops) ==
  {a \in 0..(Size - 1) : Jump(a) \in Present(blocks[b]) /\ Op(a) \in ops}

(* A call returns to the next block, which knows that the call is 3 bytes. *)
ReturnsBehind(b, p) ==
  Following(blocks, b, Behind(p)) /\ CallReturn(3) \in Present(blocks[Behind(p)])

-----------------------------------------------------------------------------
(* The functions found (funclist.c).                                       *)

(***************************************************************************)
(* The binary search of index_of_func_containing_block_start: 0 when it    *)
(* finds none, which may miss a function whose blocks stand around another *)
(* one.                                                                    *)
(***************************************************************************)
FunctionWith(b) ==
  LET search[span \in (0..Len(funcs)) \X (0..Len(funcs))] ==
        LET mid == (span[1] + span[2]) \div 2
        IN IF span[1] >= span[2] THEN 0
           ELSE IF b < Min(funcs[mid + 1].blocks) THEN search[<<span[1], mid>>]
           ELSE IF b \in funcs[mid + 1].blocks THEN mid + 1
           ELSE search[<<mid + 1, span[2]>>]
  IN search[<<0, Len(funcs)>>]

(* insert_func refuses a function whose first block another one has.       *)
InsertFunction(f) ==
  LET before == Cardinality({i \in 1..Len(funcs) : Min(funcs[i].blocks) < Min(f.blocks)})
  IN InsertAt(funcs, before + 1, f)

Refused(f) == \E i \in 1..Len(funcs) : Min(funcs[i].blocks) = Min(f.blocks)

-----------------------------------------------------------------------------
(* find_functions: the choice of a start.                                  *)

StartFinding ==
  /\ phase = "done" /\ task = "wait"
  /\ task' = "select"
  /\ available' = Listed(blocks)
  /\ UNCHANGED <<funcs, added, at, func, depth, vars>>

OnlyCalled(b) ==
  /\ Present(blocks[b]) # {}
  /\ \A key \in Present(blocks[b]) :
       \E a \in JumpsTo(b, {"call", "icall", "ijmp"}) : key = Jump(a)

Starts == {b \in available : b >= at /\ OnlyCalled(b)}

BeginFunction ==
  /\ task = "select"
  /\ Starts # {}
  /\ LET b == Min(Starts)
     IN func' = [NoCandidate EXCEPT !.start = b, !.included = {b}, !.starting = {b}]
  /\ task' = "include"
  /\ at' = 0
  /\ UNCHANGED <<funcs, available, added, depth, vars>>

(* Mutant: new_function_added is not reset.                                *)
NextPassAgain ==
  /\ task = "select"
  /\ Starts = {}
  /\ IF added THEN at' = 0 /\ UNCHANGED task ELSE task' = "found" /\ UNCHANGED at
  /\ UNCHANGED <<funcs, available, added, func, depth, vars>>

NextPass ==
  /\ task = "select"
  /\ Starts = {}
  /\ IF added THEN at' = 0 /\ UNCHANGED task ELSE task' = "found" /\ UNCHANGED at
  /\ added' = FALSE
  /\ UNCHANGED <<funcs, available, func, depth, vars>>

(* The candidate is no function; the search goes on behind its start.      *)
Reject ==
  /\ task' = "select"
  /\ at' = func.start + 1
  /\ UNCHANGED <<funcs, available, added, func, depth, vars>>

-----------------------------------------------------------------------------
(* find_all_blocks_in_function and evaluate_block.                         *)

Pending == func.included \ func.evaluated

(* The loop goes over the blocks from the first one again and again.       *)
Turn(bs) == IF \E b \in bs : b >= at THEN Min({b \in bs : b >= at}) ELSE Min(bs)

OriginsAllowed(b) ==
  /\ IsContinued(b) => Previous(b) # {}
  /\ JumpsTo(b, {"ijmp"}) = {}
  /\ \A a \in JumpsTo(b, {"near", "jcc", "short"}) :
       \E p \in Listed(blocks) : p <= a /\ a < blocks[p].end

Sizes(b) == {prog.code[p].arg : p \in Rets(b)}
            \cup ({func.size} \ {None})

(* Mutant: the blocks of other functions are taken, too.                   *)
InstructionAllowedAnywhere(b, p) ==
  /\ Op(p) \notin {"icall", "ijmp", "far", "unknown", "bad"}
  /\ Behind(p) <= blocks[b].end
  /\ Leads(p) \subseteq Listed(blocks)
  /\ Op(p) = "call" => prog.code[p].arg \in Listed(blocks) /\ ReturnsBehind(b, p)

InstructionAllowed(b, p) ==
  /\ Op(p) \notin {"icall", "ijmp", "far", "unknown", "bad"}
  /\ Behind(p) <= blocks[b].end
  /\ Leads(p) \subseteq available
  /\ Op(p) = "call" => prog.code[p].arg \in Listed(blocks) /\ ReturnsBehind(b, p)

(* Mutant: returns of different sizes are taken.                           *)
AllowedOfAnySize(b) ==
  /\ OriginsAllowed(b)
  /\ \A p \in Instructions(b) : InstructionAllowed(b, p)
  /\ FallsInto(b) \subseteq available

Allowed(b) ==
  /\ OriginsAllowed(b)
  /\ \A p \in Instructions(b) : InstructionAllowed(b, p)
  /\ \A m, n \in Sizes(b) : m = n
  /\ FallsInto(b) \subseteq available

(* Mutant: the block that the code falls into is forgotten.                *)
EvaluateWithoutFall ==
  /\ task = "include"
  /\ Pending # {}
  /\ LET b == Turn(Pending)
         led == UNION {Leads(p) : p \in Instructions(b)}
     IN /\ Allowed(b)
        /\ func' = [func EXCEPT
             !.included = @ \cup Previous(b) \cup led,
             !.evaluated = @ \cup {b},
             !.starting = IF JumpsTo(b, {"call", "icall"}) # {} THEN @ \cup {b} ELSE @,
             !.size = IF Sizes(b) = {} THEN None ELSE CHOOSE n \in Sizes(b) : TRUE]
        /\ at' = b + 1
  /\ UNCHANGED <<funcs, available, added, task, depth, vars>>

(* The previous block is included whether it is available or not.          *)
EvaluateBlock ==
  /\ task = "include"
  /\ Pending # {}
  /\ LET b == Turn(Pending)
         led == UNION {Leads(p) : p \in Instructions(b)}
     IN /\ Allowed(b)
        /\ func' = [func EXCEPT
             !.included = @ \cup Previous(b) \cup led \cup FallsInto(b),
             !.evaluated = @ \cup {b},
             !.starting = IF JumpsTo(b, {"call", "icall"}) # {} THEN @ \cup {b} ELSE @,
             !.size = IF Sizes(b) = {} THEN None ELSE CHOOSE n \in Sizes(b) : TRUE]
        /\ at' = b + 1
  /\ UNCHANGED <<funcs, available, added, task, depth, vars>>

RejectBlock ==
  /\ task = "include"
  /\ Pending # {}
  /\ ~Allowed(Turn(Pending))
  /\ Reject

(* Mutant: a function need not return.                                     *)
BeginStackCheckAnyway ==
  /\ task = "include"
  /\ Pending = {}
  /\ task' = "stack"
  /\ at' = 0
  /\ depth' = [b \in Word |-> IF b = func.start THEN 0 ELSE None]
  /\ UNCHANGED <<funcs, available, added, func, vars>>

(* A function returns somewhere.                                           *)
BeginStackCheck ==
  /\ task = "include"
  /\ Pending = {}
  /\ func.size # None
  /\ task' = "stack"
  /\ at' = 0
  /\ depth' = [b \in Word |-> IF b = func.start THEN 0 ELSE None]
  /\ UNCHANGED <<funcs, available, added, func, vars>>

RejectEndless ==
  /\ task = "include"
  /\ Pending = {}
  /\ func.size = None
  /\ Reject

-----------------------------------------------------------------------------
(* check_stack_in_all_blocks and check_block_stack.                        *)

Left == {b \in func.included : b >= at}

Popped(p) == funcs[FunctionWith(prog.code[p].arg)].size

(* check_block_stack finds the target of a call or of a near jump without  *)
(* the wrap to 16 bits: it never finds one that lies behind.               *)
TargetFound(p) ==
  Op(p) \in {"call", "near"} => prog.code[p].arg >= Behind(p)

(* What check_block_stack asks of an instruction with n words on the stack. *)
Balanced(p, n) ==
  /\ Op(p) \notin {"far", "icall", "ijmp"}
  /\ Op(p) = "pop" => n > 0
  /\ Op(p) = "ret" => n = 0
  /\ TargetFound(p)
  /\ Op(p) \in {"jcc", "short", "near"} => prog.code[p].arg \in func.included
  /\ Op(p) = "call" =>
       /\ FunctionWith(prog.code[p].arg) # 0
       /\ Popped(p) % 2 = 0 /\ Popped(p) <= 2 * n

StackBehind(p, n) == CASE Op(p) = "push" -> n + 1
                       [] Op(p) = "pop"  -> n - 1
                       [] Op(p) = "call" -> n - (Popped(p) \div 2)
                       [] OTHER          -> n

(* The instructions of b with the words before them, up to one that fails. *)
Course(b) ==
  LET from[s \in Word \X Nat] ==
        IF s[1] >= blocks[b].end THEN {}
        ELSE {s} \cup (IF Balanced(s[1], s[2])
                       THEN from[<<Behind(s[1]), StackBehind(s[1], s[2])>>]
                       ELSE {})
  IN from[<<b, depth[b]>>]

(* The depths that the jumps and calls of b leave to other blocks.         *)
Demanded(b) ==
  LET Target(p) == IF Op(p) = "call" THEN Behind(p) ELSE prog.code[p].arg
  IN {<<Target(s[1]), StackBehind(s[1], s[2])>> :
        s \in {s \in Course(b) : Op(s[1]) \in {"jcc", "short", "near", "call"}}}

StackAllowed(b) ==
  /\ \A s \in Course(b) : Balanced(s[1], s[2])
  /\ \A d, e \in Demanded(b) : d[1] = e[1] => d[2] = e[2]
  /\ \A d \in Demanded(b) : depth[d[1]] \in {None, d[2]}

CheckBlockStack ==
  /\ task = "stack"
  /\ Left # {}
  /\ LET b == Min(Left)
     IN /\ depth[b] # None
        /\ StackAllowed(b)
        /\ depth' = [c \in Word |->
             IF \E d \in Demanded(b) : d[1] = c
             THEN (CHOOSE d \in Demanded(b) : d[1] = c)[2] ELSE depth[c]]
        /\ at' = b + 1
  /\ UNCHANGED <<funcs, available, added, task, func, vars>>

(* A block whose depth is not known when its turn comes is passed over.    *)
PassOver ==
  /\ task = "stack"
  /\ Left # {}
  /\ depth[Min(Left)] = None
  /\ at' = Min(Left) + 1
  /\ UNCHANGED <<funcs, available, added, task, func, depth, vars>>

RejectStack ==
  /\ task = "stack"
  /\ Left # {}
  /\ depth[Min(Left)] # None /\ ~StackAllowed(Min(Left))
  /\ Reject

(* Mutant: the blocks of the function stay available.                      *)
AddFunctionUnclaimed ==
  /\ task = "stack"
  /\ Left = {}
  /\ LET f == [blocks |-> func.included, starting |-> func.starting, size |-> func.size]
     IN IF Refused(f)
        THEN task' = "refused" /\ UNCHANGED <<funcs, added, at>>
        ELSE /\ funcs' = InsertFunction(f)
             /\ added' = TRUE
             /\ task' = "select"
             /\ at' = func.start + 1
  /\ UNCHANGED <<available, func, depth, vars>>

AddFunction ==
  /\ task = "stack"
  /\ Left = {}
  /\ LET f == [blocks |-> func.included, starting |-> func.starting, size |-> func.size]
     IN IF Refused(f)
        THEN task' = "refused" /\ UNCHANGED <<funcs, available, added, at>>
        ELSE /\ funcs' = InsertFunction(f)
             /\ available' = available \ func.included
             /\ added' = TRUE
             /\ task' = "select"
             /\ at' = func.start + 1
  /\ UNCHANGED <<func, depth, vars>>

Find == \/ StartFinding \/ BeginFunction \/ NextPass
        \/ EvaluateBlock \/ RejectBlock \/ BeginStackCheck \/ RejectEndless
        \/ CheckBlockStack \/ PassOver \/ RejectStack \/ AddFunction

FindNext == (Progress /\ UNCHANGED fvars) \/ Find

FindSpec == FindInit /\ [][FindNext]_<<vars, fvars>> /\ WF_<<vars, fvars>>(FindNext)

-----------------------------------------------------------------------------

(* What evaluate_block relies on when it includes the block before one     *)
(* that is said to be continued: that block goes on to some block.  Where  *)
(* an origin has outlived its code it need not be the one with the origin. *)
ContinuedBlocksGoOn ==
  phase = "done" =>
    \A b \in Listed(blocks) : \A p \in Previous(b) : GoesOnTo(p) # {}

(* function.h: the blocks of a function belong to no other function.       *)
BlocksAreNotShared ==
  \A i, j \in 1..Len(funcs) :
    i # j => funcs[i].blocks \cap funcs[j].blocks = {}

(* Two functions never begin with the same block: insert_func would refuse *)
(* the second one and main would print nothing at all.                     *)
NoFunctionRefused == task # "refused"

(* function.h: all the returns of a function are of the same size.         *)
ReturnsAgree ==
  \A i \in 1..Len(funcs) : \A b \in funcs[i].blocks : \A p \in Rets(b) :
    prog.code[p].arg = funcs[i].size

(* The code of a function stays in the function: it is left by calls and   *)
(* returns only.                                                           *)
FunctionsAreClosed ==
  \A i \in 1..Len(funcs) : \A b \in funcs[i].blocks :
    /\ FallsInto(b) \subseteq funcs[i].blocks
    /\ \A p \in Instructions(b) : Leads(p) \subseteq funcs[i].blocks

(* funcfind.c: at the end of the analysis the depth of every block of the  *)
(* function is known.                                                      *)
DepthsAreKnown ==
  task = "stack" /\ Left = {} => \A b \in func.included : depth[b] # None

(* Whatever the program, the analysis and the search for functions end:    *)
(* the loops of compose_pcontent at the limit, the walks over the origins  *)
(* although calls and jumps form cycles, the passes of find_functions.     *)
ProgramEnds ==
  <>(phase \in {"failed", "overrun"} \/ task \in {"found", "refused"})

=============================================================================

------------------------------ MODULE Execution ------------------------------
(***************************************************************************)
(* The program that was disassembled, executed by a processor once the     *)
(* analysis has converged: what the analysis promises of the blocks it     *)
(* found.  The processor is not code of the repository; its instructions   *)
(* do what the handlers of finder.c take them to do.                       *)
(*                                                                         *)
(* The images have no indirect jumps, so that the only data that decides   *)
(* where the execution goes are the return addresses, on the stack or in   *)
(* the register; any other word is Undef here.  An execution that returns  *)
(* to a word that no call has pushed is not followed any further.          *)
(***************************************************************************)
EXTENDS Finder

CONSTANTS
  Depth       \* the words that an execution may have on its stack

VARIABLES
  machine     \* the processor [pc, ax, stack], None until the program starts

ExecInit == Init /\ machine = None

Analyse == Progress /\ UNCHANGED machine

Start ==
  /\ phase = "done" /\ loop <= Limit
  /\ machine = None
  /\ machine' = [pc |-> prog.entry, ax |-> Undef, stack |-> <<>>]
  /\ UNCHANGED vars

Executes(ops) ==
  /\ machine # None
  /\ machine.pc < Size
  /\ prog.code[machine.pc].op \in ops
  /\ UNCHANGED vars

Ip == machine.pc + prog.code[machine.pc].len

Target == prog.code[machine.pc].arg

ExecuteOther ==
  /\ Executes({"next", "int", "clock", "vector", "hook", "sti"})
  /\ machine' = [machine EXCEPT !.pc = Ip]

ExecuteSet ==
  /\ Executes({"set", "dos"})
  /\ machine' = [machine EXCEPT !.pc = Ip, !.ax = Undef]

ExecutePush ==
  /\ Executes({"push"})
  /\ Len(machine.stack) < Depth
  /\ machine' = [machine EXCEPT !.pc = Ip, !.stack = <<machine.ax>> \o @]

ExecutePop ==
  /\ Executes({"pop"})
  /\ machine.stack # <<>>
  /\ machine' = [machine EXCEPT !.pc = Ip, !.ax = Head(machine.stack),
                                !.stack = Tail(@)]

ExecuteJump ==
  /\ Executes({"short", "near"})
  /\ machine' = [machine EXCEPT !.pc = Target]

ExecuteBranch ==
  /\ Executes({"jcc"})
  /\ \E pc \in {Ip, Target} : machine' = [machine EXCEPT !.pc = pc]

ExecuteCall ==
  /\ Executes({"call"})
  /\ Len(machine.stack) < Depth
  /\ machine' = [machine EXCEPT !.pc = Target, !.stack = <<Ip>> \o @]

ExecuteReturn ==
  /\ Executes({"ret"})
  /\ machine.stack # <<>>
  /\ Head(machine.stack) # Undef
  /\ machine' = [machine EXCEPT !.pc = Head(machine.stack), !.stack = Tail(@)]

Processor ==
  \/ ExecuteOther \/ ExecuteSet \/ ExecutePush \/ ExecutePop \/ ExecuteJump
  \/ ExecuteBranch \/ ExecuteCall \/ ExecuteReturn

ExecNext == Analyse \/ Start \/ Processor

ExecSpec == ExecInit /\ [][ExecNext]_<<vars, machine>>

-----------------------------------------------------------------------------

(* Every instruction that an execution reaches is in a block: no code is   *)
(* left out of the listing as data.  compose_pcontent finds the code in an *)
(* order of its own, cutting blocks and skipping the valid ones.           *)
ExecutedCodeIsInBlocks ==
  machine # None /\ machine.pc < Size =>
    \E b \in Listed(blocks) : b <= machine.pc /\ machine.pc < blocks[b].end

=============================================================================

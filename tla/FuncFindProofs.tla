--------------------------- MODULE FuncFindProofs ---------------------------
(***************************************************************************)
(* Theorems about FuncFind: what a function that is accepted promises to   *)
(* the ones that call it, whatever image the blocks come from; and that no *)
(* block is given to two functions, and no function is refused by the      *)
(* list, as long as the block before one that is said to be continued goes *)
(* on to some block.  evaluate_block includes that block whether it is     *)
(* available or not.  Where it belongs to an accepted function already, so *)
(* do the blocks that it goes on to; they are no longer available, and the *)
(* candidate is given up when its turn comes.                              *)
(***************************************************************************)
EXTENDS FuncFind, FinderProofs

LOCAL INSTANCE FiniteSetsExt
LOCAL INSTANCE SequencesExt

-----------------------------------------------------------------------------
(* What is in a sequence after an insertion.                               *)
LEMMA Inserted ==
  ASSUME NEW X, NEW s \in Seq(X), NEW i \in 1..(Len(s) + 1), NEW e \in X
  PROVE  /\ InsertAt(s, i, e) \in Seq(X)
         /\ \A j \in 1..Len(InsertAt(s, i, e)) :
              \/ InsertAt(s, i, e)[j] = e
              \/ \E k \in 1..Len(s) : InsertAt(s, i, e)[j] = s[k]
  <1> DEFINE a == SubSeq(s, 1, i - 1)
             b == SubSeq(s, i, Len(s))
             mid == a \o <<e>>
             new == mid \o b
  <1>1. Len(s) \in Nat
    OBVIOUS
  <1>2. a \in Seq(X) /\ Len(a) = i - 1 /\ \A j \in 1..Len(a) : a[j] = s[j] /\ j \in 1..Len(s)
    BY <1>1
  <1>3. b \in Seq(X) /\ Len(b) = Len(s) + 1 - i
        /\ \A j \in 1..Len(b) : b[j] = s[i + j - 1] /\ i + j - 1 \in 1..Len(s)
    BY <1>1
  <1> HIDE DEF a, b
  <1>4. mid \in Seq(X) /\ Len(mid) = Len(a) + 1
        /\ mid[Len(a) + 1] = e /\ \A j \in 1..Len(a) : mid[j] = a[j]
    BY <1>2
  <1> HIDE DEF mid
  <1>5. new \in Seq(X) /\ Len(new) = Len(mid) + Len(b)
        /\ (\A j \in 1..Len(mid) : new[j] = mid[j])
        /\ \A j \in 1..Len(b) : new[Len(mid) + j] = b[j]
    <2>1. new \in Seq(X) /\ Len(new) = Len(mid) + Len(b)
          /\ \A j \in 1..(Len(mid) + Len(b)) :
               new[j] = IF j <= Len(mid) THEN mid[j] ELSE b[j - Len(mid)]
      BY <1>3, <1>4, ConcatProperties, Zenon
    <2>2. Len(mid) \in Nat /\ Len(b) \in Nat
      BY <1>3, <1>4
    <2> HIDE DEF new
    <2>3. \A j \in 1..Len(b) :
            /\ Len(mid) + j \in 1..(Len(mid) + Len(b))
            /\ ~(Len(mid) + j <= Len(mid)) /\ (Len(mid) + j) - Len(mid) = j
      BY <2>2
    <2>4. \A j \in 1..Len(mid) : j \in 1..(Len(mid) + Len(b)) /\ j <= Len(mid)
      BY <2>2
    <2> QED
      BY <2>1, <2>3, <2>4, Zenon
  <1>6. InsertAt(s, i, e) = new
    BY DEF InsertAt, a, b, mid
  <1> HIDE DEF new
  <1>7. ASSUME NEW j \in 1..Len(new)
        PROVE  new[j] = e \/ \E k \in 1..Len(s) : new[j] = s[k]
    <2>1. CASE j \in 1..Len(a)
      BY <1>2, <1>4, <1>5, <2>1
    <2>2. CASE j = Len(a) + 1
      BY <1>2, <1>4, <1>5, <2>2
    <2>3. CASE j - Len(mid) \in 1..Len(b)
      <3>1. new[Len(mid) + (j - Len(mid))] = b[j - Len(mid)]
        BY <1>5, <2>3
      <3>2. Len(mid) + (j - Len(mid)) = j
        BY <1>2, <1>4
      <3> QED
        BY <1>3, <2>3, <3>1, <3>2
    <2> QED
      BY <1>2, <1>3, <1>4, <1>5, <2>1, <2>2, <2>3
  <1> QED
    BY <1>5, <1>6, <1>7

LEMMA MinIsMember ==
  ASSUME NEW S \in SUBSET Nat, S # {}
  PROVE  Min(S) \in S
  BY Least DEF Min

-----------------------------------------------------------------------------
(***************************************************************************)
(* The invariant: the blocks that the candidate has evaluated lead to      *)
(* blocks that it has included, and their returns are of the size it took  *)
(* from the first one.                                                     *)
(***************************************************************************)
Obeys(b, bs, size) ==
  /\ FallsInto(b) \subseteq bs
  /\ \A p \in Instructions(b) : Leads(p) \subseteq bs
  /\ \A p \in Rets(b) : prog.code[p].arg = size

Accepted == [blocks : SUBSET Word, starting : SUBSET Word, size : Word]

FindTypes ==
  /\ funcs \in Seq(Accepted)
  /\ available \subseteq Word
  /\ func \in Candidate
  /\ task \in {"wait", "select", "include", "stack", "found", "refused"}

(* The analysis is finished when the search for functions begins.          *)
FindsAfterwards ==
  IF task = "wait" THEN funcs = <<>> /\ available = {} ELSE phase = "done"

FunctionsObey ==
  \A i \in 1..Len(funcs) : \A b \in funcs[i].blocks :
    Obeys(b, funcs[i].blocks, funcs[i].size)

CandidateObeys ==
  task \in {"include", "stack"} =>
    \A b \in func.evaluated : Obeys(b, func.included, func.size)

AllEvaluated ==
  task = "stack" => func.included \subseteq func.evaluated /\ func.size # None

FindInductive ==
  /\ Inductive /\ FindTypes /\ FindsAfterwards
  /\ FunctionsObey /\ CandidateObeys /\ AllEvaluated

(* What the code of a block says depends on the image and on the blocks.   *)
LEMMA SameCode ==
  ASSUME UNCHANGED <<prog, blocks>>, NEW b
  PROVE  /\ FallsInto(b)' = FallsInto(b)
         /\ Instructions(b)' = Instructions(b)
         /\ Rets(b)' = Rets(b)
         /\ Leads(b)' = Leads(b)
  <1>1. Instructions(b)' = Instructions(b)
    BY DEF Instructions, Op, Behind
  <1>2. FallsInto(b)' = FallsInto(b)
    BY DEF FallsInto, Following, Listed, Present
  <1>3. Leads(b)' = Leads(b)
    BY DEF Leads, Op, Behind
  <1>4. Rets(b)' = Rets(b)
    BY <1>1 DEF Rets, Op
  <1> QED
    BY <1>1, <1>2, <1>3, <1>4

LEMMA FunctionsStillObey ==
  ASSUME FunctionsObey, UNCHANGED <<prog, blocks, funcs>>
  PROVE  FunctionsObey'
  BY SameCode DEF FunctionsObey, Obeys

LEMMA CandidateStillObeys ==
  ASSUME FindInductive, UNCHANGED <<prog, blocks, func>>,
         task' \in {"include", "stack"} => task \in {"include", "stack"}
  PROVE  CandidateObeys'
  <1> SUFFICES ASSUME task' \in {"include", "stack"}, NEW b \in func.evaluated
               PROVE  Obeys(b, func.included, func.size)'
    BY DEF CandidateObeys
  <1>1. Obeys(b, func.included, func.size)
    BY DEF FindInductive, CandidateObeys
  <1> QED
    BY <1>1, SameCode DEF Obeys

(* A step of find_functions leaves the blocks alone.                       *)
LEMMA FindLeavesBlocks ==
  ASSUME FindInductive, UNCHANGED vars
  PROVE  /\ Inductive'
         /\ UNCHANGED <<prog, blocks, phase>>
  BY NextInductive DEF FindInductive, vars

(* A step that takes no block and no function.                             *)
LEMMA QuietFindStep ==
  ASSUME FindInductive, UNCHANGED <<vars, funcs, available, func>>,
         task # "wait",
         task' \in {"select", "include", "stack", "found", "refused"},
         task' \in {"include", "stack"} => task \in {"include", "stack"},
         task' = "stack" =>
           task = "stack" \/ (func.included \subseteq func.evaluated /\ func.size # None)
  PROVE  FindInductive'
  <1>1. Inductive' /\ UNCHANGED <<prog, blocks, phase>>
    BY FindLeavesBlocks
  <1>2. FindTypes' /\ FindsAfterwards' /\ AllEvaluated'
    BY <1>1 DEF FindInductive, FindTypes, FindsAfterwards, AllEvaluated
  <1>3. FunctionsObey' /\ CandidateObeys'
    BY <1>1, FunctionsStillObey, CandidateStillObeys DEF FindInductive
  <1> QED
    BY <1>1, <1>2, <1>3 DEF FindInductive

-----------------------------------------------------------------------------
(* The steps.                                                              *)

(* The analysis is over when the first function is found.                  *)
LEMMA NothingFoundYet ==
  ASSUME FindInductive, Progress
  PROVE  task = "wait" /\ funcs = <<>> /\ available = {}
  <1>1. phase # "done"
    BY DEF Progress, Loops, Handlers, Backtracking, SkipBlock, BeginBlock, NextLoop, Finish,
           Decodes, MoveData, ForwardBranch, BackwardBranch, ShortJump, NearJumpOrCall,
           IndirectJumpOrCall, FarJumpOrExit, ClockInterrupt, Interrupt, SetVector, HookVector,
           EnableInterrupts, UnknownOpcode, BadOpcode, ReadPastImage, Return, Visits,
           VisitContinuation, VisitJump, VisitCall, VisitEntry, LeaveBlock, ReadOn, EndBlock
  <1> QED
    BY <1>1 DEF FindInductive, FindsAfterwards

LEMMA AnalysisStep ==
  ASSUME FindInductive, Progress, UNCHANGED fvars
  PROVE  FindInductive'
  <1>2. task = "wait" /\ funcs = <<>> /\ available = {}
    BY NothingFoundYet
  <1>3. Inductive'
    BY NextInductive DEF FindInductive, Next
  <1>4. UNCHANGED <<funcs, available, task, func>>
    BY DEF fvars
  <1>5. FindTypes' /\ FindsAfterwards'
    BY <1>2, <1>4 DEF FindInductive, FindTypes, FindsAfterwards
  <1>6. FunctionsObey' /\ CandidateObeys' /\ AllEvaluated'
    BY <1>2, <1>4 DEF FunctionsObey, CandidateObeys, AllEvaluated
  <1> QED
    BY <1>3, <1>5, <1>6 DEF FindInductive

LEMMA StartFindingStep ==
  ASSUME FindInductive, StartFinding
  PROVE  FindInductive'
  <1>1. phase = "done" /\ task = "wait" /\ task' = "select" /\ available' = Listed(blocks)
        /\ UNCHANGED <<funcs, func, vars>>
    BY DEF StartFinding
  <1>2. Inductive' /\ UNCHANGED <<prog, blocks, phase>>
    BY <1>1, FindLeavesBlocks
  <1>3. FindTypes' /\ FindsAfterwards' /\ AllEvaluated' /\ CandidateObeys'
    BY <1>1, <1>2
    DEF FindInductive, FindTypes, FindsAfterwards, AllEvaluated, CandidateObeys, Listed
  <1>4. FunctionsObey'
    BY <1>1, <1>2, FunctionsStillObey DEF FindInductive
  <1> QED
    BY <1>2, <1>3, <1>4 DEF FindInductive

LEMMA BeginFunctionStep ==
  ASSUME FindInductive, BeginFunction
  PROVE  FindInductive'
  <1> DEFINE b == Min(Starts)
  <1>1. task = "select" /\ task' = "include" /\ Starts # {}
        /\ func' = [NoCandidate EXCEPT !.start = b, !.included = {b}, !.starting = {b}]
        /\ UNCHANGED <<funcs, available, vars>>
    BY DEF BeginFunction
  <1>2. Inductive' /\ UNCHANGED <<prog, blocks, phase>>
    BY <1>1, FindLeavesBlocks
  <1>3. b \in Word
    <2>1. Starts \subseteq available /\ available \subseteq Word
      BY DEF Starts, FindInductive, FindTypes
    <2>2. Word \subseteq Nat
      BY ConstantsAssumption DEF Word
    <2>3. Starts \in SUBSET Nat
      BY <2>1, <2>2
    <2> QED
      BY <1>1, <2>1, <2>3, MinIsMember
  <1> HIDE DEF b
  <1>4. func' \in Candidate /\ func'.evaluated = {}
    BY <1>1, <1>3, ConstantsAssumption DEF NoCandidate, Candidate, Word
  <1>5. FindTypes' /\ FindsAfterwards' /\ AllEvaluated' /\ CandidateObeys'
    BY <1>1, <1>2, <1>4 DEF FindInductive, FindTypes, FindsAfterwards, AllEvaluated, CandidateObeys
  <1>6. FunctionsObey'
    BY <1>1, <1>2, FunctionsStillObey DEF FindInductive
  <1> QED
    BY <1>2, <1>5, <1>6 DEF FindInductive

(* What evaluate_block knows of the returns of a block.                    *)
LEMMA SizesAreWords ==
  ASSUME FindInductive, NEW b
  PROVE  /\ Sizes(b) \subseteq Word
         /\ \A p \in Rets(b) : prog.code[p].arg \in Sizes(b)
  <1>1. prog \in Image /\ func.size \in Word \cup {None}
    BY DEF FindInductive, Inductive, TypeOK, FindTypes, Candidate
  <1>2. \A p \in Rets(b) : prog.code[p].arg \in Word
    BY <1>1, ImageInstruction DEF Rets
  <1> QED
    BY <1>1, <1>2 DEF Sizes

LEMMA EvaluateBlockStep ==
  ASSUME FindInductive, EvaluateBlock
  PROVE  FindInductive'
  <1> DEFINE b == Turn(Pending)
             led == UNION {Leads(p) : p \in Instructions(b)}
             size == IF Sizes(b) = {} THEN None ELSE CHOOSE n \in Sizes(b) : TRUE
  <1>1. /\ task = "include" /\ task' = task /\ Pending # {} /\ Allowed(b)
        /\ func' = [func EXCEPT
             !.included = @ \cup Previous(b) \cup led \cup FallsInto(b),
             !.evaluated = @ \cup {b},
             !.starting = IF JumpsTo(b, {"call", "icall"}) # {} THEN @ \cup {b} ELSE @,
             !.size = size]
        /\ UNCHANGED <<funcs, available, vars>>
    BY DEF EvaluateBlock
  <1>2. Inductive' /\ UNCHANGED <<prog, blocks, phase>>
    BY <1>1, FindLeavesBlocks
  <1>3. func \in Candidate /\ available \subseteq Word
    BY DEF FindInductive, FindTypes
  <1>4. b \in Word
    <2>1. Pending \subseteq Word /\ Pending \in SUBSET Nat
      BY <1>3, ConstantsAssumption DEF Pending, Candidate, Word
    <2>2. Min(Pending) \in Pending
      BY <1>1, <2>1, MinIsMember
    <2>3. (\E c \in Pending : c >= at) => Min({c \in Pending : c >= at}) \in Pending
      BY <2>1, MinIsMember
    <2> QED
      BY <2>1, <2>2, <2>3 DEF Turn
  <1>5. led \subseteq Word /\ FallsInto(b) \subseteq Word /\ Previous(b) \subseteq Word
    <2>1. \A p \in Instructions(b) : Leads(p) \subseteq available
      BY <1>1 DEF Allowed, InstructionAllowed
    <2>2. FallsInto(b) \subseteq available
      BY <1>1 DEF Allowed
    <2> QED
      BY <1>3, <2>1, <2>2 DEF Previous, Listed
  <1>6. size \in Word \cup {None} /\ \A n \in Sizes(b) : n = size
    BY <1>1, SizesAreWords DEF Allowed
  <1>7. (\A p \in Instructions(b) : Leads(p) \subseteq led)
        /\ \A p \in Rets(b) : prog.code[p].arg = size
    BY <1>6, SizesAreWords
  <1> HIDE DEF b, led, size
  <1>8. /\ func' \in Candidate
        /\ func'.evaluated = func.evaluated \cup {b}
        /\ func.included \cup led \cup FallsInto(b) \subseteq func'.included
        /\ func'.size = size
    BY <1>1, <1>3, <1>4, <1>5, <1>6 DEF Candidate
  <1>9. ASSUME NEW c \in func'.evaluated
        PROVE  Obeys(c, func.included, func.size)'
    <2>1. CASE c = b
      <3>1. /\ FallsInto(c) \subseteq func'.included
            /\ \A p \in Instructions(c) : Leads(p) \subseteq func'.included
            /\ \A p \in Rets(c) : prog.code[p].arg = func'.size
        BY <1>7, <1>8, <2>1
      <3> QED
        BY <1>2, <3>1, SameCode DEF Obeys
    <2>2. CASE c \in func.evaluated
      <3>1. Obeys(c, func.included, func.size)
        BY <1>1, <2>2 DEF FindInductive, CandidateObeys
      <3>2. \A p \in Rets(c) : prog.code[p].arg = size
        <4> SUFFICES ASSUME NEW p \in Rets(c) PROVE prog.code[p].arg = size
          OBVIOUS
        <4>1. func.size = prog.code[p].arg /\ func.size \in Word
          BY <3>1, SizesAreWords DEF Obeys
        <4>2. func.size \in Sizes(b)
          BY <4>1, ConstantsAssumption DEF Sizes
        <4> QED
          BY <1>6, <4>1, <4>2
      <3>3. /\ FallsInto(c) \subseteq func'.included
            /\ \A p \in Instructions(c) : Leads(p) \subseteq func'.included
            /\ \A p \in Rets(c) : prog.code[p].arg = func'.size
        BY <1>8, <3>1, <3>2 DEF Obeys
      <3> QED
        BY <1>2, <3>3, SameCode DEF Obeys
    <2> QED
      BY <1>8, <2>1, <2>2
  <1>10. CandidateObeys'
    BY <1>9 DEF CandidateObeys
  <1>11. FindTypes' /\ FindsAfterwards' /\ AllEvaluated'
    BY <1>1, <1>2, <1>8 DEF FindInductive, FindTypes, FindsAfterwards, AllEvaluated
  <1>12. FunctionsObey'
    BY <1>1, <1>2, FunctionsStillObey DEF FindInductive
  <1> QED
    BY <1>2, <1>10, <1>11, <1>12 DEF FindInductive

LEMMA RejectStep ==
  ASSUME FindInductive, Reject, task # "wait"
  PROVE  FindInductive'
  BY QuietFindStep DEF Reject

LEMMA NextPassStep ==
  ASSUME FindInductive, NextPass
  PROVE  FindInductive'
  BY QuietFindStep DEF NextPass

LEMMA BeginStackCheckStep ==
  ASSUME FindInductive, BeginStackCheck
  PROVE  FindInductive'
  BY QuietFindStep DEF BeginStackCheck, Pending

LEMMA StackStep ==
  ASSUME FindInductive, CheckBlockStack \/ PassOver
  PROVE  FindInductive'
  BY QuietFindStep DEF CheckBlockStack, PassOver

(* The function is accepted, and its blocks are no longer available.       *)
(* insert_func adds the function, and nothing else.                        *)
LEMMA FunctionInserted ==
  ASSUME FindTypes, NEW f \in Accepted, funcs' = InsertFunction(f)
  PROVE  /\ funcs' \in Seq(Accepted)
         /\ \A j \in 1..Len(funcs') :
              funcs'[j] = f \/ \E k \in 1..Len(funcs) : funcs'[j] = funcs[k]
         /\ \E n \in 1..(Len(funcs) + 1) : funcs' = InsertAt(funcs, n, f)
  <1> DEFINE earlier == {i \in 1..Len(funcs) : Min(funcs[i].blocks) < Min(f.blocks)}
             n == Cardinality(earlier) + 1
  <1>1. funcs \in Seq(Accepted) /\ Len(funcs) \in Nat
    BY DEF FindTypes
  <1>2. n \in 1..(Len(funcs) + 1)
    <2>1. IsFiniteSet(1..Len(funcs)) /\ Cardinality(1..Len(funcs)) = Len(funcs)
      BY <1>1, FS_Interval
    <2>2. earlier \subseteq 1..Len(funcs)
      OBVIOUS
    <2> HIDE DEF earlier
    <2>3. IsFiniteSet(earlier) /\ Cardinality(earlier) <= Len(funcs)
      BY <2>1, <2>2, FS_Subset
    <2>4. Cardinality(earlier) \in Nat
      BY <2>3, FS_CardinalityType
    <2> QED
      BY <1>1, <2>3, <2>4
  <1>3. funcs' = InsertAt(funcs, n, f)
    BY DEF InsertFunction
  <1> HIDE DEF n
  <1>4. /\ InsertAt(funcs, n, f) \in Seq(Accepted)
        /\ \A j \in 1..Len(InsertAt(funcs, n, f)) :
             \/ InsertAt(funcs, n, f)[j] = f
             \/ \E k \in 1..Len(funcs) : InsertAt(funcs, n, f)[j] = funcs[k]
    BY <1>1, <1>2, Inserted
  <1>5. /\ funcs' \in Seq(Accepted)
        /\ \A j \in 1..Len(funcs') :
             funcs'[j] = f \/ \E k \in 1..Len(funcs) : funcs'[j] = funcs[k]
    BY <1>3, <1>4, Zenon
  <1> QED
    BY <1>2, <1>3, <1>5

LEMMA AddFunctionStep ==
  ASSUME FindInductive, AddFunction
  PROVE  FindInductive'
  <1> DEFINE f == [blocks |-> func.included, starting |-> func.starting, size |-> func.size]
  <1>1. task = "stack" /\ UNCHANGED <<func, vars>>
    BY DEF AddFunction
  <1>2. Inductive' /\ UNCHANGED <<prog, blocks, phase>>
    BY <1>1, FindLeavesBlocks
  <1>3. CASE Refused(f)
    <2>1. task' = "refused" /\ UNCHANGED <<funcs, available>>
      BY <1>3 DEF AddFunction
    <2> QED
      BY <1>1, <2>1, QuietFindStep
  <1>4. CASE ~Refused(f)
    <2>1. funcs' = InsertFunction(f) /\ available' = available \ func.included /\ task' = "select"
      BY <1>4 DEF AddFunction
    <2>2. func.included \subseteq func.evaluated /\ func.size \in Word /\ f \in Accepted
      BY <1>1 DEF FindInductive, AllEvaluated, FindTypes, Candidate, Accepted
    <2>3. FindTypes
      BY DEF FindInductive
    <2> HIDE DEF f
    <2>4. /\ funcs' \in Seq(Accepted)
          /\ \A j \in 1..Len(funcs') :
               funcs'[j] = f \/ \E k \in 1..Len(funcs) : funcs'[j] = funcs[k]
      BY <2>1, <2>2, <2>3, FunctionInserted
    <2>5. ASSUME NEW j \in 1..Len(funcs'), NEW b \in funcs'[j].blocks
          PROVE  Obeys(b, funcs[j].blocks, funcs[j].size)'
      <3>1. Obeys(b, funcs'[j].blocks, funcs'[j].size)
        <4>1. CASE funcs'[j] = f
          BY <1>1, <2>2, <2>5, <4>1 DEF FindInductive, CandidateObeys, f
        <4>2. CASE \E k \in 1..Len(funcs) : funcs'[j] = funcs[k]
          BY <2>5, <4>2 DEF FindInductive, FunctionsObey
        <4> QED
          BY <2>4, <2>5, <4>1, <4>2
      <3> QED
        BY <1>2, <3>1, SameCode DEF Obeys
    <2>6. FunctionsObey'
      BY <2>5 DEF FunctionsObey
    <2>7. FindTypes' /\ FindsAfterwards' /\ AllEvaluated' /\ CandidateObeys'
      BY <1>1, <1>2, <2>1, <2>4
      DEF FindInductive, FindTypes, FindsAfterwards, AllEvaluated, CandidateObeys
    <2> QED
      BY <1>2, <2>6, <2>7 DEF FindInductive
  <1> QED
    BY <1>3, <1>4

-----------------------------------------------------------------------------
(* The theorems.                                                           *)

LEMMA FindInitInductive ==
  ASSUME FindInit
  PROVE  FindInductive
  <1>1. Inductive
    BY InitInductive DEF FindInit
  <1>2. FindTypes
    <2>1. NoCandidate \in Candidate
      BY ConstantsAssumption DEF NoCandidate, Candidate, Word
    <2> QED
      BY <2>1 DEF FindInit, FindTypes
  <1>3. FindsAfterwards /\ FunctionsObey /\ CandidateObeys /\ AllEvaluated
    BY DEF FindInit, FindsAfterwards, FunctionsObey, CandidateObeys, AllEvaluated
  <1> QED
    BY <1>1, <1>2, <1>3 DEF FindInductive

LEMMA FindNextInductive ==
  ASSUME FindInductive, [FindNext]_<<vars, fvars>>
  PROVE  FindInductive'
  <1>1. CASE UNCHANGED <<vars, fvars>>
    <2>1. UNCHANGED <<vars, funcs, available, func, task>>
      BY <1>1 DEF fvars
    <2>2. Inductive' /\ UNCHANGED <<prog, blocks, phase>>
      BY <2>1, FindLeavesBlocks
    <2>3. FindTypes' /\ FindsAfterwards' /\ AllEvaluated'
      BY <2>1, <2>2 DEF FindInductive, FindTypes, FindsAfterwards, AllEvaluated
    <2>4. FunctionsObey' /\ CandidateObeys'
      BY <2>1, <2>2, FunctionsStillObey, CandidateStillObeys DEF FindInductive
    <2> QED
      BY <2>2, <2>3, <2>4 DEF FindInductive
  <1>2. CASE Progress /\ UNCHANGED fvars
    BY <1>2, AnalysisStep
  <1>3. CASE StartFinding \/ BeginFunction \/ NextPass
    BY <1>3, StartFindingStep, BeginFunctionStep, NextPassStep
  <1>4. CASE EvaluateBlock
    BY <1>4, EvaluateBlockStep
  <1>5. CASE RejectBlock \/ RejectEndless \/ RejectStack
    BY <1>5, RejectStep DEF RejectBlock, RejectEndless, RejectStack
  <1>6. CASE BeginStackCheck
    BY <1>6, BeginStackCheckStep
  <1>7. CASE CheckBlockStack \/ PassOver
    BY <1>7, StackStep
  <1>8. CASE AddFunction
    BY <1>8, AddFunctionStep
  <1> QED
    BY <1>1, <1>2, <1>3, <1>4, <1>5, <1>6, <1>7, <1>8 DEF FindNext, Find

LEMMA FoundFunctionsObey == FindSpec => []FindInductive
  <1>1. FindInit => FindInductive
    BY FindInitInductive
  <1>2. FindInductive /\ [FindNext]_<<vars, fvars>> => FindInductive'
    BY FindNextInductive
  <1> QED
    BY <1>1, <1>2, PTL DEF FindSpec

(* evaluate_block: the returns of a function that find_functions accepts   *)
(* are all of the size that its callers are told, however its blocks were  *)
(* found and in whatever order they were included.                         *)
THEOREM AllReturnsAgree == FindSpec => []ReturnsAgree
  <1>1. FindInductive => ReturnsAgree
    BY DEF FindInductive, FunctionsObey, Obeys, ReturnsAgree
  <1> QED
    BY <1>1, FoundFunctionsObey, PTL

(* find_all_blocks_in_function: no jump, no call that returns and no block *)
(* that goes on leaves a function that find_functions accepts.             *)
THEOREM FunctionsStayClosed == FindSpec => []FunctionsAreClosed
  <1>1. FindInductive => FunctionsAreClosed
    BY DEF FindInductive, FunctionsObey, Obeys, FunctionsAreClosed
  <1> QED
    BY <1>1, FoundFunctionsObey, PTL

-----------------------------------------------------------------------------
(* No block is given to two functions.                                     *)

(* Where the items of a sequence are after an insertion.                   *)
LEMMA InsertedInOrder ==
  ASSUME NEW X, NEW s \in Seq(X), NEW i \in 1..(Len(s) + 1), NEW e \in X
  PROVE  /\ Len(InsertAt(s, i, e)) = Len(s) + 1
         /\ \A j \in 1..(Len(s) + 1) :
              /\ j < i => InsertAt(s, i, e)[j] = s[j]
              /\ j = i => InsertAt(s, i, e)[j] = e
              /\ j > i => InsertAt(s, i, e)[j] = s[j - 1]
  <1> DEFINE a == SubSeq(s, 1, i - 1)
             b == SubSeq(s, i, Len(s))
             mid == a \o <<e>>
             new == mid \o b
  <1>1. Len(s) \in Nat
    OBVIOUS
  <1>2. a \in Seq(X) /\ Len(a) = i - 1 /\ \A j \in 1..Len(a) : a[j] = s[j]
    BY <1>1
  <1>3. b \in Seq(X) /\ Len(b) = Len(s) + 1 - i
        /\ \A j \in 1..Len(b) : b[j] = s[i + j - 1]
    BY <1>1
  <1> HIDE DEF a, b
  <1>4. mid \in Seq(X) /\ Len(mid) = i
        /\ mid[i] = e /\ \A j \in 1..(i - 1) : mid[j] = s[j]
    BY <1>2
  <1> HIDE DEF mid
  <1>5. new \in Seq(X) /\ Len(new) = Len(mid) + Len(b)
        /\ \A j \in 1..(Len(mid) + Len(b)) :
             new[j] = IF j <= Len(mid) THEN mid[j] ELSE b[j - Len(mid)]
    BY <1>3, <1>4, ConcatProperties, Zenon
  <1>6. InsertAt(s, i, e) = new
    BY DEF InsertAt, a, b, mid
  <1> HIDE DEF new
  <1>7. Len(new) = Len(s) + 1
    BY <1>1, <1>3, <1>4, <1>5
  <1>8. ASSUME NEW j \in 1..(Len(s) + 1)
        PROVE  /\ j < i => new[j] = s[j]
               /\ j = i => new[j] = e
               /\ j > i => new[j] = s[j - 1]
    <2>1. j \in 1..(Len(mid) + Len(b))
      BY <1>1, <1>3, <1>4
    <2>2. CASE j <= i
      BY <1>1, <1>4, <1>5, <2>1, <2>2
    <2>3. CASE j > i
      <3>1. new[j] = b[j - i]
        BY <1>1, <1>4, <1>5, <2>1, <2>3
      <3>2. j - i \in 1..Len(b) /\ i + (j - i) - 1 = j - 1
        BY <1>1, <1>3, <2>3
      <3> QED
        BY <1>1, <1>3, <2>3, <3>1, <3>2
    <2> QED
      BY <1>1, <2>2, <2>3
  <1> QED
    BY <1>6, <1>7, <1>8

(* Sets that are apart stay apart when one more that is apart from all of  *)
(* them is inserted.                                                       *)
LEMMA InsertedApart ==
  ASSUME NEW s \in Seq(Accepted), NEW i \in 1..(Len(s) + 1), NEW e \in Accepted,
         \A j, k \in 1..Len(s) : j # k => s[j].blocks \cap s[k].blocks = {},
         \A j \in 1..Len(s) : s[j].blocks \cap e.blocks = {}
  PROVE  \A j, k \in 1..Len(InsertAt(s, i, e)) :
           j # k => InsertAt(s, i, e)[j].blocks \cap InsertAt(s, i, e)[k].blocks = {}
  <1> DEFINE new == InsertAt(s, i, e)
             old(j) == IF j < i THEN j ELSE j - 1
  <1>1. Len(s) \in Nat
    OBVIOUS
  <1>2. /\ Len(new) = Len(s) + 1
        /\ \A j \in 1..(Len(s) + 1) :
             /\ j < i => new[j] = s[j]
             /\ j = i => new[j] = e
             /\ j > i => new[j] = s[j - 1]
    BY InsertedInOrder
  <1> HIDE DEF new
  <1>3. ASSUME NEW j \in 1..(Len(s) + 1), j # i
        PROVE  new[j] = s[old(j)] /\ old(j) \in 1..Len(s)
    BY <1>1, <1>2, <1>3
  <1>4. ASSUME NEW j \in 1..(Len(s) + 1), NEW k \in 1..(Len(s) + 1), j # k
        PROVE  new[j].blocks \cap new[k].blocks = {}
    <2>1. CASE j = i
      BY <1>2, <1>3, <1>4, <2>1
    <2>2. CASE k = i
      BY <1>2, <1>3, <1>4, <2>2
    <2>3. CASE j # i /\ k # i
      <3>1. old(j) # old(k)
        BY <1>1, <1>4, <2>3
      <3> QED
        BY <1>3, <2>3, <3>1
    <2> QED
      BY <2>1, <2>2, <2>3
  <1> QED
    BY <1>2, <1>4 DEF new

-----------------------------------------------------------------------------
(***************************************************************************)
(* The invariant.  What is available belongs to no function.  A candidate  *)
(* takes what is available, and blocks before one that is continued; what  *)
(* it has evaluated goes on to available blocks only.                      *)
(***************************************************************************)
AvailableAreFree ==
  /\ available \subseteq Listed(blocks)
  /\ \A i \in 1..Len(funcs) :
       funcs[i].blocks # {} /\ funcs[i].blocks \cap available = {}

CandidateClaims ==
  task \in {"include", "stack"} =>
    /\ func.included # {} /\ func.included \subseteq Listed(blocks)
    /\ \A b \in func.included \ available : \E c \in Listed(blocks) : b \in Previous(c)
    /\ \A b \in func.evaluated : GoesOnTo(b) \subseteq available

FunctionsApart ==
  ContinuedBlocksGoOn => BlocksAreNotShared /\ NoFunctionRefused

Claims == AvailableAreFree /\ CandidateClaims /\ FunctionsApart

(* As long as the blocks stay, so does what is said of them.               *)
LEMMA SameBlocks ==
  ASSUME UNCHANGED <<prog, blocks, phase>>, NEW b
  PROVE  /\ Listed(blocks)' = Listed(blocks)
         /\ Previous(b)' = Previous(b)
         /\ GoesOnTo(b)' = GoesOnTo(b)
         /\ ContinuedBlocksGoOn' = ContinuedBlocksGoOn
  <1>1. Listed(blocks)' = Listed(blocks)
    BY DEF Listed
  <1>2. ASSUME NEW c PROVE Previous(c)' = Previous(c)
    BY DEF Previous, IsContinued, Following, Listed, Present
  <1>3. ASSUME NEW c PROVE GoesOnTo(c)' = GoesOnTo(c)
    BY SameCode DEF GoesOnTo
  <1>4. ContinuedBlocksGoOn' = ContinuedBlocksGoOn
    BY <1>1, <1>2, <1>3 DEF ContinuedBlocksGoOn
  <1> QED
    BY <1>1, <1>2, <1>3, <1>4

LEMMA FreeStay ==
  ASSUME AvailableAreFree, UNCHANGED <<prog, blocks, phase, funcs, available>>
  PROVE  AvailableAreFree'
  BY SameBlocks DEF AvailableAreFree

LEMMA ApartStay ==
  ASSUME FunctionsApart, UNCHANGED <<prog, blocks, phase, funcs>>, task' # "refused"
  PROVE  FunctionsApart'
  <1>1. ContinuedBlocksGoOn' = ContinuedBlocksGoOn
    BY SameBlocks
  <1> QED
    BY <1>1 DEF FunctionsApart, BlocksAreNotShared, NoFunctionRefused

(* A step that takes no block and no function.                             *)
LEMMA QuietClaims ==
  ASSUME FindInductive, Claims, UNCHANGED <<vars, funcs, available, func>>,
         task' # "refused",
         task' \in {"include", "stack"} => task \in {"include", "stack"}
  PROVE  Claims'
  <1>1. UNCHANGED <<prog, blocks, phase>>
    BY FindLeavesBlocks
  <1>2. AvailableAreFree' /\ FunctionsApart'
    BY <1>1, FreeStay, ApartStay DEF Claims
  <1>3. CandidateClaims'
    BY <1>1, SameBlocks DEF Claims, CandidateClaims
  <1> QED
    BY <1>2, <1>3 DEF Claims

-----------------------------------------------------------------------------
(* The steps.                                                              *)

LEMMA StartFindingClaims ==
  ASSUME FindInductive, Claims, StartFinding
  PROVE  Claims'
  <1>1. /\ task = "wait" /\ task' = "select" /\ available' = Listed(blocks)
        /\ UNCHANGED <<funcs, func, vars>>
    BY DEF StartFinding
  <1>2. UNCHANGED <<prog, blocks, phase>>
    BY <1>1, FindLeavesBlocks
  <1>3. funcs = <<>>
    BY <1>1 DEF FindInductive, FindsAfterwards
  <1>4. AvailableAreFree'
    BY <1>1, <1>2, <1>3, SameBlocks DEF AvailableAreFree
  <1>5. CandidateClaims' /\ FunctionsApart'
    BY <1>1, <1>2, ApartStay DEF Claims, CandidateClaims
  <1> QED
    BY <1>4, <1>5 DEF Claims

LEMMA BeginFunctionClaims ==
  ASSUME FindInductive, Claims, BeginFunction
  PROVE  Claims'
  <1> DEFINE b == Min(Starts)
  <1>1. /\ task = "select" /\ task' = "include" /\ Starts # {}
        /\ func' = [NoCandidate EXCEPT !.start = b, !.included = {b}, !.starting = {b}]
        /\ UNCHANGED <<funcs, available, vars>>
    BY DEF BeginFunction
  <1>2. UNCHANGED <<prog, blocks, phase>>
    BY <1>1, FindLeavesBlocks
  <1>3. b \in available
    <2>1. Starts \subseteq available /\ available \subseteq Word
      BY DEF Starts, FindInductive, FindTypes
    <2>2. Starts \in SUBSET Nat
      BY <2>1, ConstantsAssumption DEF Word
    <2> QED
      BY <1>1, <2>1, <2>2, MinIsMember
  <1> HIDE DEF b
  <1>4. func'.included = {b} /\ func'.evaluated = {}
    BY <1>1 DEF NoCandidate
  <1>5. CandidateClaims'
    BY <1>1, <1>2, <1>3, <1>4, SameBlocks DEF Claims, AvailableAreFree, CandidateClaims
  <1>6. AvailableAreFree' /\ FunctionsApart'
    BY <1>1, <1>2, FreeStay, ApartStay DEF Claims
  <1> QED
    BY <1>5, <1>6 DEF Claims

LEMMA EvaluateBlockClaims ==
  ASSUME FindInductive, Claims, EvaluateBlock
  PROVE  Claims'
  <1> DEFINE b == Turn(Pending)
             led == UNION {Leads(p) : p \in Instructions(b)}
  <1>1. /\ task = "include" /\ task' = task /\ Pending # {} /\ Allowed(b)
        /\ func'.included = func.included \cup Previous(b) \cup led \cup FallsInto(b)
        /\ func'.evaluated = func.evaluated \cup {b}
        /\ UNCHANGED <<funcs, available, vars>>
    <2>1. func \in Candidate
      BY DEF FindInductive, FindTypes
    <2> QED
      BY <2>1 DEF EvaluateBlock, Candidate
  <1>2. UNCHANGED <<prog, blocks, phase>>
    BY <1>1, FindLeavesBlocks
  <1>3. b \in func.included
    <2>1. Pending \in SUBSET Nat
      BY ConstantsAssumption DEF FindInductive, FindTypes, Pending, Candidate, Word
    <2>2. Min(Pending) \in Pending
      BY <1>1, <2>1, MinIsMember
    <2>3. (\E c \in Pending : c >= at) => Min({c \in Pending : c >= at}) \in Pending
      BY <2>1, MinIsMember
    <2>4. b \in Pending
      BY <2>2, <2>3 DEF Turn
    <2> QED
      BY <2>4 DEF Pending
  <1>4. led \subseteq available /\ FallsInto(b) \subseteq available
    BY <1>1 DEF Allowed, InstructionAllowed
  <1>5. GoesOnTo(b) \subseteq available
    BY <1>4 DEF GoesOnTo
  <1>6. /\ func.included \subseteq Listed(blocks) /\ available \subseteq Listed(blocks)
        /\ \A c \in func.included \ available : \E d \in Listed(blocks) : c \in Previous(d)
        /\ \A c \in func.evaluated : GoesOnTo(c) \subseteq available
    BY <1>1 DEF Claims, CandidateClaims, AvailableAreFree
  <1>7. Previous(b) \subseteq Listed(blocks)
    BY DEF Previous
  <1> HIDE DEF b, led
  <1>8. /\ func'.included # {} /\ func'.included \subseteq Listed(blocks)
        /\ \A c \in func'.included \ available : \E d \in Listed(blocks) : c \in Previous(d)
        /\ \A c \in func'.evaluated : GoesOnTo(c) \subseteq available
    BY <1>1, <1>3, <1>4, <1>5, <1>6, <1>7
  <1>9. CandidateClaims'
    BY <1>1, <1>2, <1>8, SameBlocks DEF CandidateClaims
  <1>10. AvailableAreFree' /\ FunctionsApart'
    BY <1>1, <1>2, FreeStay, ApartStay DEF Claims
  <1> QED
    BY <1>9, <1>10 DEF Claims

(* A block of a function that the candidate has included, too, would go on *)
(* to a block that is both available and the function's.                   *)
LEMMA CandidateApart ==
  ASSUME FindInductive, Claims, ContinuedBlocksGoOn, task = "stack",
         NEW i \in 1..Len(funcs)
  PROVE  funcs[i].blocks \cap func.included = {}
  <1> SUFFICES ASSUME NEW b \in funcs[i].blocks, b \in func.included
               PROVE  FALSE
    OBVIOUS
  <1>1. phase = "done"
    BY DEF FindInductive, FindsAfterwards
  <1>2. b \notin available /\ funcs[i].blocks \cap available = {}
    BY DEF Claims, AvailableAreFree
  <1>3. PICK c \in Listed(blocks) : b \in Previous(c)
    BY <1>2 DEF Claims, CandidateClaims
  <1>4. GoesOnTo(b) # {}
    BY <1>1, <1>3 DEF ContinuedBlocksGoOn
  <1>5. GoesOnTo(b) \subseteq available
    BY DEF FindInductive, AllEvaluated, Claims, CandidateClaims
  <1>6. GoesOnTo(b) \subseteq funcs[i].blocks
    BY DEF FindInductive, FunctionsObey, Obeys, GoesOnTo
  <1> QED
    BY <1>2, <1>4, <1>5, <1>6

LEMMA AddFunctionClaims ==
  ASSUME FindInductive, Claims, AddFunction
  PROVE  Claims'
  <1> DEFINE f == [blocks |-> func.included, starting |-> func.starting, size |-> func.size]
  <1>1. task = "stack" /\ UNCHANGED <<func, vars>>
    BY DEF AddFunction
  <1>2. UNCHANGED <<prog, blocks, phase>>
    BY <1>1, FindLeavesBlocks
  <1>3. /\ f \in Accepted /\ f.blocks = func.included /\ f.blocks # {}
        /\ f.blocks \in SUBSET Nat
    BY <1>1, ConstantsAssumption
    DEF FindInductive, AllEvaluated, FindTypes, Candidate, Accepted, Claims,
        CandidateClaims, Word
  <1>4. funcs \in Seq(Accepted) /\ Len(funcs) \in Nat
    BY DEF FindInductive, FindTypes
  <1>5. CASE Refused(f)
    <2>1. task' = "refused" /\ UNCHANGED <<funcs, available>>
      BY <1>5 DEF AddFunction
    <2>2. PICK i \in 1..Len(funcs) : Min(funcs[i].blocks) = Min(f.blocks)
      BY <1>5 DEF Refused
    <2>3. Min(f.blocks) \in f.blocks
      BY <1>3, MinIsMember
    <2>4. Min(funcs[i].blocks) \in funcs[i].blocks
      <3>1. funcs[i] \in Accepted
        BY <1>4
      <3>2. funcs[i].blocks \in SUBSET Nat /\ funcs[i].blocks # {}
        BY <3>1, ConstantsAssumption DEF Accepted, Word, Claims, AvailableAreFree
      <3> QED
        BY <3>2, MinIsMember
    <2>5. ~ContinuedBlocksGoOn
      BY <1>1, <1>3, <2>2, <2>3, <2>4, CandidateApart
    <2>6. FunctionsApart'
      BY <1>2, <2>5, SameBlocks DEF FunctionsApart
    <2>7. AvailableAreFree' /\ CandidateClaims'
      BY <1>2, <2>1, FreeStay DEF Claims, CandidateClaims
    <2> QED
      BY <2>6, <2>7 DEF Claims
  <1>6. CASE ~Refused(f)
    <2>1. /\ funcs' = InsertFunction(f) /\ available' = available \ func.included
          /\ task' = "select"
      BY <1>6 DEF AddFunction
    <2>2. FindTypes
      BY DEF FindInductive
    <2> HIDE DEF f
    <2>3. PICK n \in 1..(Len(funcs) + 1) : funcs' = InsertAt(funcs, n, f)
      BY <1>3, <2>1, <2>2, FunctionInserted
    <2>4. \A j \in 1..Len(funcs') :
            funcs'[j] = f \/ \E k \in 1..Len(funcs) : funcs'[j] = funcs[k]
      BY <1>3, <2>1, <2>2, FunctionInserted
    <2>5. AvailableAreFree'
      <3>1. available' \subseteq Listed(blocks)'
        BY <1>2, <2>1, SameBlocks DEF Claims, AvailableAreFree
      <3>2. ASSUME NEW j \in 1..Len(funcs')
            PROVE  funcs'[j].blocks # {} /\ funcs'[j].blocks \cap available' = {}
        <4>1. CASE funcs'[j] = f
          BY <1>3, <2>1, <4>1
        <4>2. CASE \E k \in 1..Len(funcs) : funcs'[j] = funcs[k]
          BY <2>1, <4>2 DEF Claims, AvailableAreFree
        <4> QED
          BY <2>4, <3>2, <4>1, <4>2
      <3> QED
        BY <3>1, <3>2 DEF AvailableAreFree
    <2>6. FunctionsApart'
      <3> SUFFICES ASSUME ContinuedBlocksGoOn' PROVE (BlocksAreNotShared /\ NoFunctionRefused)'
        BY DEF FunctionsApart
      <3>1. ContinuedBlocksGoOn
        BY <1>2, SameBlocks
      <3>2. \A i, j \in 1..Len(funcs) : i # j => funcs[i].blocks \cap funcs[j].blocks = {}
        BY <3>1 DEF Claims, FunctionsApart, BlocksAreNotShared
      <3>3. \A i \in 1..Len(funcs) : funcs[i].blocks \cap f.blocks = {}
        BY <1>1, <1>3, <3>1, CandidateApart
      <3>4. \A i, j \in 1..Len(InsertAt(funcs, n, f)) :
              i # j => InsertAt(funcs, n, f)[i].blocks
                         \cap InsertAt(funcs, n, f)[j].blocks = {}
        BY <1>3, <1>4, <2>3, <3>2, <3>3, InsertedApart
      <3>5. BlocksAreNotShared'
        BY <2>3, <3>4, Zenon DEF BlocksAreNotShared
      <3> QED
        BY <2>1, <3>5 DEF NoFunctionRefused
    <2> QED
      BY <2>1, <2>5, <2>6 DEF Claims, CandidateClaims
  <1> QED
    BY <1>5, <1>6

-----------------------------------------------------------------------------
(* The theorems.                                                           *)

LEMMA FindInitClaims ==
  ASSUME FindInit
  PROVE  Claims
  BY DEF FindInit, Claims, AvailableAreFree, CandidateClaims, FunctionsApart,
         BlocksAreNotShared, NoFunctionRefused

LEMMA FindNextClaims ==
  ASSUME FindInductive, Claims, [FindNext]_<<vars, fvars>>
  PROVE  Claims'
  <1>1. CASE UNCHANGED <<vars, fvars>>
    <2>1. UNCHANGED <<vars, funcs, available, func, task>>
      BY <1>1 DEF fvars
    <2>2. UNCHANGED <<prog, blocks, phase>>
      BY <2>1, FindLeavesBlocks
    <2>3. AvailableAreFree' /\ CandidateClaims'
      BY <2>1, <2>2, FreeStay, SameBlocks DEF Claims, CandidateClaims
    <2>4. FunctionsApart'
      BY <2>1, <2>2, SameBlocks
      DEF Claims, FunctionsApart, BlocksAreNotShared, NoFunctionRefused
    <2> QED
      BY <2>3, <2>4 DEF Claims
  <1>2. CASE Progress /\ UNCHANGED fvars
    <2>1. FindInductive' /\ UNCHANGED <<funcs, available, task>>
      BY <1>2, AnalysisStep DEF fvars
    <2>3. task = "wait" /\ funcs = <<>> /\ available = {}
      BY <1>2, NothingFoundYet
    <2> QED
      BY <2>1, <2>3
      DEF Claims, AvailableAreFree, CandidateClaims, FunctionsApart, BlocksAreNotShared,
          NoFunctionRefused
  <1>3. CASE StartFinding \/ BeginFunction
    BY <1>3, StartFindingClaims, BeginFunctionClaims
  <1>4. CASE EvaluateBlock
    BY <1>4, EvaluateBlockClaims
  <1>5. CASE RejectBlock \/ RejectEndless \/ RejectStack
    BY <1>5, QuietClaims DEF RejectBlock, RejectEndless, RejectStack, Reject
  <1>6. CASE NextPass
    BY <1>6, QuietClaims DEF NextPass
  <1>7. CASE BeginStackCheck
    BY <1>7, QuietClaims DEF BeginStackCheck
  <1>8. CASE CheckBlockStack \/ PassOver
    BY <1>8, QuietClaims DEF CheckBlockStack, PassOver
  <1>9. CASE AddFunction
    BY <1>9, AddFunctionClaims
  <1> QED
    BY <1>1, <1>2, <1>3, <1>4, <1>5, <1>6, <1>7, <1>8, <1>9 DEF FindNext, Find

LEMMA FunctionsClaim == FindSpec => []Claims
  <1>1. FindInit => Claims
    BY FindInitClaims
  <1>2. FindInductive /\ Claims /\ [FindNext]_<<vars, fvars>> => Claims'
    BY FindNextClaims
  <1> QED
    BY <1>1, <1>2, FoundFunctionsObey, PTL DEF FindSpec

(* find_functions: no block is given to two functions, although            *)
(* evaluate_block includes the block before without asking whether it is   *)
(* available.                                                              *)
THEOREM NoBlockInTwoFunctions == FindSpec => [](ContinuedBlocksGoOn => BlocksAreNotShared)
  <1>1. Claims => (ContinuedBlocksGoOn => BlocksAreNotShared)
    BY DEF Claims, FunctionsApart
  <1> QED
    BY <1>1, FunctionsClaim, PTL

(* find_functions: insert_func never refuses a function, which would give  *)
(* up the listing.                                                         *)
THEOREM EveryFunctionIsTaken == FindSpec => [](ContinuedBlocksGoOn => NoFunctionRefused)
  <1>1. Claims => (ContinuedBlocksGoOn => NoFunctionRefused)
    BY DEF Claims, FunctionsApart
  <1> QED
    BY <1>1, FunctionsClaim, PTL

-----------------------------------------------------------------------------
(* The binary search of the functions.                                     *)

Spans == (0..Len(funcs)) \X (0..Len(funcs))

(* What FunctionWith says of a span; f says it of the shorter ones.        *)
SearchFrom(f, b, span) ==
  LET mid == (span[1] + span[2]) \div 2
  IN IF span[1] >= span[2] THEN 0
     ELSE IF b < Min(funcs[mid + 1].blocks) THEN f[<<span[1], mid>>]
     ELSE IF b \in funcs[mid + 1].blocks THEN mid + 1
     ELSE f[<<mid + 1, span[2]>>]

LEMMA SearchExists ==
  ASSUME Len(funcs) \in Nat, NEW b
  PROVE  \E f : f = [span \in Spans |-> SearchFrom(f, b, span)]
  <1> DEFINE Solves(f, k) ==
               /\ f = [span \in Spans |-> f[span]]
               /\ \A span \in Spans : span[2] - span[1] <= k => f[span] = SearchFrom(f, b, span)
             Unsolved == {k \in Nat : ~\E f : Solves(f, k)}
  <1>1. \A span \in Spans : /\ span[1] \in 0..Len(funcs) /\ span[2] \in 0..Len(funcs)
                            /\ span[1] \in Nat /\ span[2] \in Nat
    BY DEF Spans
  <1>2. \A lo, hi \in 0..Len(funcs) : <<lo, hi>> \in Spans
    BY DEF Spans
  <1>3. Unsolved = {}
    <2>1. SUFFICES ASSUME Unsolved # {} PROVE FALSE
      OBVIOUS
    <2>2. PICK k \in Unsolved : \A j \in Unsolved : k <= j
      <3>1. Unsolved \in SUBSET Nat
        OBVIOUS
      <3> HIDE DEF Unsolved
      <3> QED BY <2>1, <3>1, Least
    <2>3. k # 0
      <3> DEFINE e == [span \in Spans |-> 0]
      <3>1. \A span \in Spans : span[2] - span[1] <= 0 => e[span] = SearchFrom(e, b, span)
        <4> SUFFICES ASSUME NEW span \in Spans, span[2] - span[1] <= 0
                     PROVE  e[span] = SearchFrom(e, b, span)
          OBVIOUS
        <4>1. span[1] >= span[2]
          BY <1>1
        <4> QED BY <4>1 DEF SearchFrom
      <3>2. e = [span \in Spans |-> e[span]]
        OBVIOUS
      <3> HIDE DEF e
      <3>3. Solves(e, 0)
        BY <3>1, <3>2
      <3> QED BY <2>2, <3>3
    <2>4. k - 1 \in Nat /\ k - 1 \notin Unsolved
      BY <2>2, <2>3
    <2>5. PICK f : Solves(f, k - 1)
      BY <2>4
    <2> DEFINE g == [span \in Spans |->
                       IF span[2] - span[1] = k THEN SearchFrom(f, b, span) ELSE f[span]]
    <2>6. \A span \in Spans :
            g[span] = IF span[2] - span[1] = k THEN SearchFrom(f, b, span) ELSE f[span]
      OBVIOUS
    <2>7. g = [span \in Spans |-> g[span]]
      OBVIOUS
    <2> HIDE DEF g
    <2>8. ASSUME NEW span \in Spans, span[2] - span[1] <= k
          PROVE  g[span] = SearchFrom(g, b, span)
      <3> DEFINE lo == span[1]
                 hi == span[2]
                 mid == (lo + hi) \div 2
      <3>1. lo \in 0..Len(funcs) /\ hi \in 0..Len(funcs) /\ lo \in Nat /\ hi \in Nat /\ k \in Nat
        BY <1>1, <2>2
      <3>2. SearchFrom(g, b, span) = SearchFrom(f, b, span)
        <4>1. CASE lo >= hi
          BY <4>1 DEF SearchFrom
        <4>2. CASE ~(lo >= hi)
          <5>1. /\ mid \in 0..Len(funcs) /\ mid + 1 \in 0..Len(funcs)
                /\ mid - lo < hi - lo /\ hi - (mid + 1) < hi - lo
            BY <3>1, <4>2, Halves
          <5>2. <<lo, mid>> \in Spans /\ <<mid + 1, hi>> \in Spans
            BY <1>2, <3>1, <5>1
          <5>3. g[<<lo, mid>>] = f[<<lo, mid>>]
            <6>1. mid - lo # k
              BY <2>8, <3>1, <5>1
            <6> HIDE DEF lo, hi, mid
            <6> QED BY <2>6, <5>2, <6>1
          <5>4. g[<<mid + 1, hi>>] = f[<<mid + 1, hi>>]
            <6>1. hi - (mid + 1) # k
              BY <2>8, <3>1, <5>1
            <6> HIDE DEF lo, hi, mid
            <6> QED BY <2>6, <5>2, <6>1
          <5> QED BY <5>3, <5>4 DEF SearchFrom
        <4> QED BY <4>1, <4>2
      <3>3. CASE hi - lo = k
        BY <2>6, <3>2, <3>3
      <3>4. CASE hi - lo # k
        <4>1. hi - lo <= k - 1
          BY <2>8, <3>1, <3>4
        <4> QED BY <2>5, <2>6, <3>2, <3>4, <4>1
      <3> QED BY <3>3, <3>4
    <2>9. Solves(g, k)
      BY <2>7, <2>8
    <2> QED BY <2>2, <2>9
  <1>4. PICK f : Solves(f, Len(funcs))
    BY <1>3
  <1>5. \A span \in Spans : f[span] = SearchFrom(f, b, span)
    <2> SUFFICES ASSUME NEW span \in Spans PROVE f[span] = SearchFrom(f, b, span)
      OBVIOUS
    <2>1. span[2] - span[1] <= Len(funcs)
      BY <1>1
    <2> QED BY <1>4, <2>1
  <1>6. f = [span \in Spans |-> SearchFrom(f, b, span)]
    BY <1>4, <1>5
  <1> QED BY <1>6

(* The search answers the place of a function, or 0.                       *)
LEMMA FunctionsHavePlaces ==
  ASSUME Len(funcs) \in Nat, NEW b
  PROVE  FunctionWith(b) \in 0..Len(funcs)
  <1> DEFINE search == CHOOSE f : f = [span \in Spans |-> SearchFrom(f, b, span)]
             Astray == {k \in Nat : \E span \in Spans :
                          span[2] - span[1] <= k /\ search[span] \notin 0..Len(funcs)}
  <1>1. FunctionWith(b) = search[<<0, Len(funcs)>>]
    BY DEF FunctionWith, SearchFrom, Spans
  <1>2. search = [span \in Spans |-> SearchFrom(search, b, span)]
    BY SearchExists
  <1> HIDE DEF search
  <1>3. \A span \in Spans : search[span] = SearchFrom(search, b, span)
    BY <1>2
  <1>4. \A span \in Spans : /\ span[1] \in 0..Len(funcs) /\ span[2] \in 0..Len(funcs)
                            /\ span[1] \in Nat /\ span[2] \in Nat
    BY DEF Spans
  <1>5. \A lo, hi \in 0..Len(funcs) : <<lo, hi>> \in Spans
    BY DEF Spans
  <1>6. Astray = {}
    <2>1. SUFFICES ASSUME Astray # {} PROVE FALSE
      OBVIOUS
    <2>2. PICK k \in Astray : \A j \in Astray : k <= j
      <3>1. Astray \in SUBSET Nat
        OBVIOUS
      <3> HIDE DEF Astray
      <3> QED BY <2>1, <3>1, Least
    <2>3. PICK span \in Spans : span[2] - span[1] <= k /\ search[span] \notin 0..Len(funcs)
      BY <2>2
    <2> DEFINE lo == span[1]
               hi == span[2]
               mid == (lo + hi) \div 2
    <2>4. /\ search[span] = IF lo >= hi THEN 0
                            ELSE IF b < Min(funcs[mid + 1].blocks) THEN search[<<lo, mid>>]
                            ELSE IF b \in funcs[mid + 1].blocks THEN mid + 1
                            ELSE search[<<mid + 1, hi>>]
      BY <1>3 DEF SearchFrom
    <2>5. lo \in 0..Len(funcs) /\ hi \in 0..Len(funcs) /\ lo \in Nat /\ hi \in Nat /\ k \in Nat
      BY <1>4, <2>2
    <2>6. ~(lo >= hi) /\ lo < hi
      <3>1. ~(lo >= hi)
        BY <2>3, <2>4
      <3> QED BY <2>5, <3>1
    <2>7. /\ mid \in 0..Len(funcs) /\ mid + 1 \in 0..Len(funcs)
          /\ mid - lo < hi - lo /\ hi - (mid + 1) < hi - lo
      BY <2>5, <2>6, Halves
    <2>8. PICK l, h \in 0..Len(funcs) :
            h - l < hi - lo /\ search[<<l, h>>] \notin 0..Len(funcs)
      BY <2>3, <2>4, <2>5, <2>6, <2>7
    <2>9. <<l, h>> \in Spans
      BY <1>5
    <2>10. k - 1 \in Nat /\ h - l <= k - 1
      BY <2>3, <2>5, <2>6, <2>8
    <2>11. k - 1 \in Astray
      <3> DEFINE s == <<l, h>>
      <3>1. s[2] - s[1] <= k - 1 /\ search[s] \notin 0..Len(funcs)
        BY <2>8, <2>10
      <3> HIDE DEF s
      <3>2. s \in Spans
        BY <2>9 DEF s
      <3> QED BY <2>10, <3>1, <3>2
    <2> HIDE DEF Astray
    <2> QED BY <2>2, <2>5, <2>11
  <1>7. \A span \in Spans : search[span] \in 0..Len(funcs)
    <2> SUFFICES ASSUME NEW span \in Spans, search[span] \notin 0..Len(funcs) PROVE FALSE
      OBVIOUS
    <2>1. span[2] - span[1] <= Len(funcs)
      BY <1>4
    <2>2. Len(funcs) \in Astray
      BY <2>1
    <2> QED BY <1>6, <2>2
  <1> QED BY <1>1, <1>5, <1>7

-----------------------------------------------------------------------------
(* The depths of the stack in a block.                                     *)

Moments == Word \X Nat

(* What Course says of an instruction with the words before it.            *)
CourseFrom(f, b, s) ==
  IF s[1] >= blocks[b].end THEN {}
  ELSE {s} \cup (IF Balanced(s[1], s[2])
                 THEN f[<<Behind(s[1]), StackBehind(s[1], s[2])>>]
                 ELSE {})

(* A balanced instruction leaves no less than nothing on the stack.        *)
LEMMA StackStaysThere ==
  ASSUME FindInductive, NEW p \in Word, NEW n \in Nat, Balanced(p, n)
  PROVE  StackBehind(p, n) \in Nat
  <1>1. funcs \in Seq(Accepted) /\ Word \subseteq Nat
    BY ConstantsAssumption DEF FindInductive, FindTypes, Word
  <1>2. CASE Op(p) = "call"
    <2> DEFINE i == FunctionWith(prog.code[p].arg)
    <2>1. i # 0 /\ i \in 0..Len(funcs) /\ Len(funcs) \in Nat
      BY <1>1, <1>2, FunctionsHavePlaces DEF Balanced
    <2>2. Popped(p) = funcs[i].size
      BY DEF Popped
    <2> HIDE DEF i
    <2>3. funcs[i] \in Accepted
      BY <1>1, <2>1
    <2>4. Popped(p) \in Nat
      BY <1>1, <2>2, <2>3 DEF Accepted
    <2>5. Popped(p) <= 2 * n
      BY <1>2 DEF Balanced
    <2>6. n - (Popped(p) \div 2) \in Nat
      <3> DEFINE m == Popped(p)
      <3>1. m \in Nat /\ m <= 2 * n
        BY <2>4, <2>5
      <3> HIDE DEF m
      <3>2. n - (m \div 2) \in Nat
        BY <3>1
      <3> QED BY <3>2 DEF m
    <2>7. StackBehind(p, n) = n - (Popped(p) \div 2)
      BY <1>2 DEF StackBehind
    <2> QED BY <2>6, <2>7
  <1>3. CASE Op(p) = "pop"
    <2>1. n > 0 /\ StackBehind(p, n) = n - 1
      BY <1>3 DEF Balanced, StackBehind
    <2> QED BY <2>1
  <1>4. CASE Op(p) = "push"
    BY <1>4 DEF StackBehind
  <1>5. CASE Op(p) \notin {"call", "pop", "push"}
    BY <1>5 DEF StackBehind
  <1> QED BY <1>2, <1>3, <1>4, <1>5

(* From one moment to the next the code goes on, within the image.         *)
LEMMA CodeGoesOn ==
  ASSUME FindInductive, NEW b \in Word, blocks[b] # None, NEW s \in Moments,
         ~(s[1] >= blocks[b].end), Balanced(s[1], s[2])
  PROVE  LET next == <<Behind(s[1]), StackBehind(s[1], s[2])>>
         IN  /\ next \in Moments /\ next[1] > s[1]
  <1>1. /\ prog \in Image /\ blocks \in BlockList /\ Size \in Nat
        /\ s[1] \in Word /\ s[2] \in Nat
    BY ConstantsAssumption DEF FindInductive, Inductive, TypeOK, Moments
  <1>2. blocks[b].end \in Word
    BY <1>1 DEF BlockList, Block
  <1>3. s[1] \in 0..(Size - 1)
    BY <1>1, <1>2 DEF Word
  <1>4. prog.code[s[1]].len \in 1..4 /\ s[1] + prog.code[s[1]].len <= Size
    BY <1>1, <1>3 DEF Image, Instruction
  <1>5. Behind(s[1]) \in Word /\ Behind(s[1]) > s[1]
    BY <1>1, <1>3, <1>4 DEF Behind, Word
  <1>6. StackBehind(s[1], s[2]) \in Nat
    BY <1>1, StackStaysThere
  <1> QED BY <1>5, <1>6 DEF Moments

LEMMA CourseExists ==
  ASSUME FindInductive, NEW b \in Word, blocks[b] # None
  PROVE  \E f : f = [s \in Moments |-> CourseFrom(f, b, s)]
  <1> DEFINE e == blocks[b].end
             Solves(f, k) ==
               /\ f = [s \in Moments |-> f[s]]
               /\ \A s \in Moments : s[1] + k >= e => f[s] = CourseFrom(f, b, s)
             Unsolved == {k \in Nat : ~\E f : Solves(f, k)}
  <1>1. e \in Nat
    BY ConstantsAssumption DEF FindInductive, Inductive, TypeOK, BlockList, Block, Word
  <1>2. \A s \in Moments : s[1] \in Nat /\ s[2] \in Nat
    BY ConstantsAssumption DEF Moments, Word
  <1>3. Unsolved = {}
    <2>1. SUFFICES ASSUME Unsolved # {} PROVE FALSE
      OBVIOUS
    <2>2. PICK k \in Unsolved : \A j \in Unsolved : k <= j
      <3>1. Unsolved \in SUBSET Nat
        OBVIOUS
      <3> HIDE DEF Unsolved
      <3> QED BY <2>1, <3>1, Least
    <2>3. k # 0
      <3> DEFINE z == [s \in Moments |-> {}]
      <3>1. \A s \in Moments : s[1] + 0 >= e => z[s] = CourseFrom(z, b, s)
        <4> SUFFICES ASSUME NEW s \in Moments, s[1] + 0 >= e
                     PROVE  z[s] = CourseFrom(z, b, s)
          OBVIOUS
        <4>1. s[1] >= e
          BY <1>2
        <4> QED BY <4>1 DEF CourseFrom
      <3>2. z = [s \in Moments |-> z[s]]
        OBVIOUS
      <3> HIDE DEF z
      <3>3. Solves(z, 0)
        BY <3>1, <3>2
      <3> QED BY <2>2, <3>3
    <2>4. k - 1 \in Nat /\ k - 1 \notin Unsolved
      BY <2>2, <2>3
    <2>5. PICK f : Solves(f, k - 1)
      BY <2>4
    <2> DEFINE g == [s \in Moments |-> IF s[1] + k = e THEN CourseFrom(f, b, s) ELSE f[s]]
    <2>6. \A s \in Moments : g[s] = IF s[1] + k = e THEN CourseFrom(f, b, s) ELSE f[s]
      OBVIOUS
    <2>7. g = [s \in Moments |-> g[s]]
      OBVIOUS
    <2> HIDE DEF g
    <2>8. ASSUME NEW s \in Moments, s[1] + k >= e
          PROVE  g[s] = CourseFrom(g, b, s)
      <3>1. s[1] \in Nat /\ k \in Nat
        BY <1>2, <2>2
      <3>2. CourseFrom(g, b, s) = CourseFrom(f, b, s)
        <4>1. CASE s[1] >= e \/ ~Balanced(s[1], s[2])
          BY <4>1 DEF CourseFrom
        <4>2. CASE ~(s[1] >= e) /\ Balanced(s[1], s[2])
          <5> DEFINE next == <<Behind(s[1]), StackBehind(s[1], s[2])>>
          <5>1. next \in Moments /\ next[1] > s[1]
            BY <4>2, CodeGoesOn
          <5>2. g[next] = f[next]
            <6> HIDE DEF next
            <6>1. next[1] + k # e
              BY <1>1, <1>2, <2>8, <3>1, <5>1
            <6> QED BY <2>6, <5>1, <6>1
          <5> QED BY <5>2 DEF CourseFrom
        <4> QED BY <4>1, <4>2
      <3>3. CASE s[1] + k = e
        BY <2>6, <3>2, <3>3
      <3>4. CASE s[1] + k # e
        <4>1. s[1] + (k - 1) >= e
          BY <1>1, <2>8, <3>1, <3>4
        <4> QED BY <2>5, <2>6, <3>2, <3>4, <4>1
      <3> QED BY <3>3, <3>4
    <2>9. Solves(g, k)
      BY <2>7, <2>8
    <2> QED BY <2>2, <2>9
  <1>4. PICK f : Solves(f, e)
    BY <1>1, <1>3
  <1>5. \A s \in Moments : f[s] = CourseFrom(f, b, s)
    <2> SUFFICES ASSUME NEW s \in Moments PROVE f[s] = CourseFrom(f, b, s)
      OBVIOUS
    <2>1. s[1] + e >= e
      BY <1>1, <1>2
    <2> QED BY <1>4, <2>1
  <1>6. f = [s \in Moments |-> CourseFrom(f, b, s)]
    BY <1>4, <1>5
  <1> QED BY <1>6

(* The words on the stack are never less than none, as long as the code    *)
(* balances.                                                               *)
LEMMA CourseStaysThere ==
  ASSUME FindInductive, NEW b \in Word, blocks[b] # None, depth[b] \in Nat
  PROVE  Course(b) \subseteq Moments
  <1> DEFINE e == blocks[b].end
             from == CHOOSE f : f = [s \in Moments |-> CourseFrom(f, b, s)]
             Astray == {k \in Nat : \E s \in Moments :
                          s[1] + k >= e /\ ~(from[s] \subseteq Moments)}
  <1>1. Course(b) = from[<<b, depth[b]>>]
    BY DEF Course, CourseFrom, Moments
  <1>2. from = [s \in Moments |-> CourseFrom(from, b, s)]
    BY CourseExists
  <1> HIDE DEF from
  <1>3. \A s \in Moments : from[s] = CourseFrom(from, b, s)
    BY <1>2
  <1>4. e \in Nat
    BY ConstantsAssumption DEF FindInductive, Inductive, TypeOK, BlockList, Block, Word
  <1>5. \A s \in Moments : s[1] \in Nat /\ s[2] \in Nat
    BY ConstantsAssumption DEF Moments, Word
  <1>6. Astray = {}
    <2>1. SUFFICES ASSUME Astray # {} PROVE FALSE
      OBVIOUS
    <2>2. PICK k \in Astray : \A j \in Astray : k <= j
      <3>1. Astray \in SUBSET Nat
        OBVIOUS
      <3> HIDE DEF Astray
      <3> QED BY <2>1, <3>1, Least
    <2>3. PICK s \in Moments : s[1] + k >= e /\ ~(from[s] \subseteq Moments)
      BY <2>2
    <2>4. from[s] = CourseFrom(from, b, s)
      BY <1>3
    <2>5. ~(s[1] >= e) /\ Balanced(s[1], s[2])
      BY <2>3, <2>4 DEF CourseFrom
    <2> DEFINE next == <<Behind(s[1]), StackBehind(s[1], s[2])>>
    <2>6. next \in Moments /\ next[1] > s[1]
      BY <2>5, CodeGoesOn
    <2>7. ~(from[next] \subseteq Moments)
      BY <2>3, <2>4, <2>5 DEF CourseFrom
    <2> HIDE DEF next
    <2>8. s[1] \in Nat /\ next[1] \in Nat /\ k \in Nat
      BY <1>5, <2>2, <2>6
    <2>9. k - 1 \in Nat /\ next[1] + (k - 1) >= e
      BY <1>4, <2>3, <2>5, <2>6, <2>8
    <2>10. k - 1 \in Astray
      BY <2>6, <2>7, <2>9
    <2> HIDE DEF Astray
    <2> QED BY <2>2, <2>8, <2>10
  <1>7. \A s \in Moments : from[s] \subseteq Moments
    <2> SUFFICES ASSUME NEW s \in Moments, ~(from[s] \subseteq Moments) PROVE FALSE
      OBVIOUS
    <2>1. s[1] + e >= e
      BY <1>4, <1>5
    <2>2. e \in Astray
      BY <1>4, <2>1
    <2> QED BY <1>6, <2>2
  <1>8. <<b, depth[b]>> \in Moments
    BY DEF Moments
  <1> QED BY <1>1, <1>7, <1>8

-----------------------------------------------------------------------------
(* The types of the search.                                                *)

FuncTypes ==
  /\ FuncTypeOK
  /\ task \in {"include", "stack"} => func.starting \subseteq func.included

LEMMA TurnIsPending ==
  ASSUME FindInductive, Pending # {}
  PROVE  Turn(Pending) \in func.included /\ Turn(Pending) \in Word
  <1>1. Pending \subseteq Word /\ Pending \in SUBSET Nat
    BY ConstantsAssumption DEF FindInductive, FindTypes, Pending, Candidate, Word
  <1>2. Min(Pending) \in Pending
    BY <1>1, MinIsMember
  <1>3. (\E c \in Pending : c >= at) => Min({c \in Pending : c >= at}) \in Pending
    BY <1>1, MinIsMember
  <1>4. Turn(Pending) \in Pending
    BY <1>2, <1>3 DEF Turn
  <1> QED BY <1>1, <1>4 DEF Pending

(* What a step does to the loops that run, while the functions stay.       *)
LEMMA FunctionsStay ==
  ASSUME FindInductive, Claims, FuncTypes, FindInductive',
         UNCHANGED <<vars, funcs, available, func>>,
         added' \in BOOLEAN, at' \in 0..(Size + 1), depth' \in [Word -> Nat \cup {None}],
         task' \in {"include", "stack"} => task \in {"include", "stack"}
  PROVE  FuncTypes'
  <1>1. UNCHANGED <<prog, blocks, phase>>
    BY FindLeavesBlocks
  <1>2. Listed(blocks)' = Listed(blocks)
    BY <1>1, SameBlocks
  <1>3. func' \in Candidate /\ task' \in {"wait", "select", "include", "stack", "found", "refused"}
    BY DEF FindInductive, FindTypes
  <1> QED BY <1>2, <1>3 DEF FuncTypes, FuncTypeOK

LEMMA FunctionSteps ==
  ASSUME FindInductive, Claims, FuncTypes, FindInductive',
         StartFinding \/ BeginFunction \/ EvaluateBlock
  PROVE  FuncTypes'
  <1>1. UNCHANGED <<vars, funcs, depth, added>>
    BY DEF StartFinding, BeginFunction, EvaluateBlock
  <1>2. UNCHANGED <<prog, blocks, phase>>
    BY <1>1, FindLeavesBlocks
  <1>3. Listed(blocks)' = Listed(blocks)
    BY <1>2, SameBlocks
  <1>4. func' \in Candidate /\ task' \in {"wait", "select", "include", "stack", "found", "refused"}
    BY DEF FindInductive, FindTypes
  <1>5. available' \in SUBSET Listed(blocks)'
    BY <1>3 DEF StartFinding, BeginFunction, EvaluateBlock, FuncTypes, FuncTypeOK
  <1>6. Size \in Nat /\ at \in 0..(Size + 1)
    BY ConstantsAssumption DEF FuncTypes, FuncTypeOK
  <1>7. at' \in 0..(Size + 1)
    <2>1. CASE StartFinding \/ BeginFunction
      BY <1>6, <2>1 DEF StartFinding, BeginFunction
    <2>2. CASE EvaluateBlock
      <3>1. Turn(Pending) \in Word /\ at' = Turn(Pending) + 1
        BY <2>2, TurnIsPending DEF EvaluateBlock
      <3> QED BY <1>6, <3>1 DEF Word
    <2> QED BY <2>1, <2>2
  <1>8. task' \in {"include", "stack"} => func'.starting \subseteq func'.included
    <2>1. CASE StartFinding
      BY <2>1 DEF StartFinding
    <2>2. CASE BeginFunction
      <3>1. func' = [NoCandidate EXCEPT !.start = Min(Starts), !.included = {Min(Starts)},
                                        !.starting = {Min(Starts)}]
        BY <2>2 DEF BeginFunction
      <3> QED BY <3>1 DEF NoCandidate
    <2>3. CASE EvaluateBlock
      <3> DEFINE b == Turn(Pending)
      <3>1. b \in func.included /\ task = "include" /\ func \in Candidate
        BY <2>3, TurnIsPending DEF EvaluateBlock, FindInductive, FindTypes
      <3>2. func'.starting \subseteq func.starting \cup {b}
            /\ func.included \subseteq func'.included
        <4> HIDE DEF b
        <4> QED BY <2>3, <3>1 DEF EvaluateBlock, Candidate, b
      <3> QED BY <3>1, <3>2 DEF FuncTypes
    <2> QED BY <2>1, <2>2, <2>3
  <1> QED BY <1>1, <1>3, <1>4, <1>5, <1>7, <1>8 DEF FuncTypes, FuncTypeOK

LEMMA RejectSteps ==
  ASSUME FindInductive, Claims, FuncTypes, FindInductive',
         RejectBlock \/ RejectEndless \/ RejectStack \/ NextPass \/ BeginStackCheck \/ PassOver
  PROVE  FuncTypes'
  <1>1. /\ UNCHANGED <<vars, funcs, available, func>>
        /\ task' \in {"include", "stack"} => task \in {"include", "stack"}
    BY DEF RejectBlock, RejectEndless, RejectStack, Reject, NextPass, BeginStackCheck, PassOver
  <1>2. Size \in Nat /\ at \in 0..(Size + 1) /\ added \in BOOLEAN /\ Word = 0..Size
        /\ func.start \in Word /\ depth \in [Word -> Nat \cup {None}]
    BY ConstantsAssumption DEF FuncTypes, FuncTypeOK, Word, Candidate
  <1>3. CASE RejectBlock \/ RejectEndless \/ RejectStack
    <2>1. at' = func.start + 1 /\ added' = added /\ depth' = depth
      BY <1>3 DEF RejectBlock, RejectEndless, RejectStack, Reject
    <2>2. at' \in 0..(Size + 1)
      BY <1>2, <2>1
    <2> QED BY <1>1, <1>2, <2>1, <2>2, FunctionsStay
  <1>4. CASE NextPass
    <2>1. at' \in {0, at} /\ added' = FALSE /\ depth' = depth
      BY <1>4 DEF NextPass
    <2>2. at' \in 0..(Size + 1)
      BY <1>2, <2>1
    <2>3. added' \in BOOLEAN
      BY <2>1
    <2> QED BY <1>1, <1>2, <2>1, <2>2, <2>3, FunctionsStay
  <1>5. CASE BeginStackCheck
    <2>1. at' = 0 /\ added' = added
          /\ depth' = [b \in Word |-> IF b = func.start THEN 0 ELSE None]
      BY <1>5 DEF BeginStackCheck
    <2>2. at' \in 0..(Size + 1) /\ depth' \in [Word -> Nat \cup {None}]
      BY <1>2, <2>1
    <2> QED BY <1>1, <1>2, <2>1, <2>2, FunctionsStay
  <1>6. CASE PassOver
    <2>1. Left # {} /\ at' = Min(Left) + 1 /\ added' = added /\ depth' = depth
      BY <1>6 DEF PassOver
    <2>2. Left \in SUBSET Nat /\ Left \subseteq Word
      BY <1>2 DEF Left, FuncTypes, FuncTypeOK, Candidate
    <2>3. Min(Left) \in Word
      BY <2>1, <2>2, MinIsMember
    <2>4. at' \in 0..(Size + 1)
      BY <1>2, <2>1, <2>3
    <2> QED BY <1>1, <1>2, <2>1, <2>4, FunctionsStay
  <1> QED BY <1>3, <1>4, <1>5, <1>6

LEMMA CheckStackTypes ==
  ASSUME FindInductive, Claims, FuncTypes, FindInductive', CheckBlockStack
  PROVE  FuncTypes'
  <1> DEFINE b == Min(Left)
  <1>1. /\ task = "stack" /\ task' = task /\ Left # {} /\ depth[b] # None /\ StackAllowed(b)
        /\ depth' = [c \in Word |->
             IF \E d \in Demanded(b) : d[1] = c
             THEN (CHOOSE d \in Demanded(b) : d[1] = c)[2] ELSE depth[c]]
        /\ at' = b + 1
        /\ UNCHANGED <<funcs, available, added, func, vars>>
    BY Zenon DEF CheckBlockStack
  <1>2. /\ Size \in Nat /\ added \in BOOLEAN /\ Word = 0..Size /\ func \in Candidate
        /\ depth \in [Word -> Nat \cup {None}]
    BY ConstantsAssumption DEF FuncTypes, FuncTypeOK, Word
  <1>3. b \in Left /\ b \in Word /\ b \in func.included
    <2>1. Left \in SUBSET Nat /\ Left \subseteq Word
      BY <1>2 DEF Left, Candidate
    <2>2. b \in Left
      BY <1>1, <2>1, MinIsMember
    <2> QED BY <2>1, <2>2 DEF Left
  <1> HIDE DEF b
  <1>4. blocks[b] # None
    BY <1>1, <1>3 DEF Claims, CandidateClaims, Listed
  <1>5. depth[b] \in Nat
    BY <1>1, <1>2, <1>3
  <1>6. Course(b) \subseteq Moments
    BY <1>3, <1>4, <1>5, CourseStaysThere
  <1>7. ASSUME NEW d \in Demanded(b)
        PROVE  d[2] \in Nat
    <2>1. PICK s \in Course(b) : d[2] = StackBehind(s[1], s[2])
      BY <1>7 DEF Demanded
    <2>2. Balanced(s[1], s[2])
      BY <1>1 DEF StackAllowed
    <2>3. s[1] \in Word /\ s[2] \in Nat
      BY <1>6 DEF Moments
    <2> QED BY <2>1, <2>2, <2>3, StackStaysThere
  <1>8. depth' \in [Word -> Nat \cup {None}]
    BY <1>1, <1>2, <1>7
  <1>9. at' \in 0..(Size + 1)
    BY <1>1, <1>2, <1>3
  <1> QED BY <1>1, <1>2, <1>8, <1>9, FunctionsStay

LEMMA AddFunctionTypes ==
  ASSUME FindInductive, Claims, FuncTypes, FindInductive', AddFunction
  PROVE  FuncTypes'
  <1> DEFINE f == [blocks |-> func.included, starting |-> func.starting, size |-> func.size]
  <1>1. task = "stack" /\ UNCHANGED <<func, depth, vars>>
    BY DEF AddFunction
  <1>2. Size \in Nat /\ at \in 0..(Size + 1) /\ Word = 0..Size /\ func \in Candidate
        /\ depth \in [Word -> Nat \cup {None}]
    BY ConstantsAssumption DEF FuncTypes, FuncTypeOK, Word
  <1>3. CASE Refused(f)
    <2>1. task' = "refused" /\ UNCHANGED <<funcs, available, added, at>>
      BY <1>3 DEF AddFunction
    <2> QED BY <1>1, <1>2, <2>1, FunctionsStay DEF FuncTypes, FuncTypeOK
  <1>4. CASE ~Refused(f)
    <2>1. /\ funcs' = InsertFunction(f) /\ available' = available \ func.included
          /\ added' = TRUE /\ task' = "select" /\ at' = func.start + 1
      BY <1>4 DEF AddFunction
    <2>2. UNCHANGED <<prog, blocks, phase>>
      BY <1>1, FindLeavesBlocks
    <2>3. Listed(blocks)' = Listed(blocks)
      BY <2>2, SameBlocks
    <2>4. f \in Accepted /\ f.size \in Word
      BY <1>1, <1>2 DEF FindInductive, AllEvaluated, Candidate, Accepted
    <2>5. /\ f.blocks \in SUBSET Listed(blocks) /\ f.blocks # {}
          /\ f.starting \in SUBSET f.blocks
      BY <1>1 DEF Claims, CandidateClaims, FuncTypes
    <2>6. FindTypes
      BY DEF FindInductive
    <2> HIDE DEF f
    <2>7. \A j \in 1..Len(funcs') :
            funcs'[j] = f \/ \E k \in 1..Len(funcs) : funcs'[j] = funcs[k]
      BY <2>1, <2>4, <2>6, FunctionInserted
    <2>8. \A i \in 1..Len(funcs') :
            /\ funcs'[i].blocks \in SUBSET Listed(blocks) /\ funcs'[i].blocks # {}
            /\ funcs'[i].starting \in SUBSET funcs'[i].blocks
            /\ funcs'[i].size \in Word
      BY <2>4, <2>5, <2>7 DEF FuncTypes, FuncTypeOK
    <2>9. at' \in 0..(Size + 1)
      <3>1. func.start \in Word
        BY <1>2 DEF Candidate
      <3> QED BY <1>2, <2>1, <3>1
    <2>10. available' \in SUBSET Listed(blocks)
      BY <2>1 DEF FuncTypes, FuncTypeOK
    <2> QED BY <1>1, <1>2, <2>1, <2>3, <2>8, <2>9, <2>10 DEF FuncTypes, FuncTypeOK
  <1> QED BY <1>3, <1>4

LEMMA FindNextTypes ==
  ASSUME FindInductive, Claims, FuncTypes, [FindNext]_<<vars, fvars>>
  PROVE  FuncTypes'
  <1>1. FindInductive'
    BY FindNextInductive
  <1>2. CASE UNCHANGED <<vars, fvars>>
    <2>1. UNCHANGED <<vars, funcs, available, func, task, added, at, depth>>
      BY <1>2 DEF fvars
    <2> QED BY <1>1, <2>1, FunctionsStay DEF FuncTypes, FuncTypeOK
  <1>3. CASE Progress /\ UNCHANGED fvars
    <2>1. UNCHANGED fvars /\ funcs = <<>> /\ available = {}
      BY <1>3, NothingFoundYet
    <2>2. UNCHANGED <<funcs, available, added, task, at, func, depth>>
      BY <2>1 DEF fvars
    <2> QED BY <2>1, <2>2 DEF FuncTypes, FuncTypeOK
  <1>4. CASE StartFinding \/ BeginFunction \/ EvaluateBlock
    BY <1>1, <1>4, FunctionSteps
  <1>5. CASE RejectBlock \/ RejectEndless \/ RejectStack \/ NextPass \/ BeginStackCheck \/ PassOver
    BY <1>1, <1>5, RejectSteps
  <1>6. CASE CheckBlockStack \/ AddFunction
    BY <1>1, <1>6, CheckStackTypes, AddFunctionTypes
  <1> QED BY <1>2, <1>3, <1>4, <1>5, <1>6 DEF FindNext, Find

LEMMA FindInitTypes == FindInit => FuncTypes
  <1> SUFFICES ASSUME FindInit PROVE FuncTypes
    OBVIOUS
  <1>1. /\ funcs = <<>> /\ available = {} /\ added = FALSE /\ task = "wait" /\ at = 0
        /\ func = NoCandidate /\ depth = [b \in Word |-> None]
    BY DEF FindInit
  <1>2. 0 \in Word /\ at \in 0..(Size + 1)
    BY <1>1, ConstantsAssumption DEF Word
  <1>3. func \in Candidate /\ depth \in [Word -> Nat \cup {None}]
    BY <1>1, <1>2 DEF NoCandidate, Candidate
  <1> QED BY <1>1, <1>2, <1>3 DEF FuncTypes, FuncTypeOK

(* find_functions keeps to the blocks of the analysis; the words that it   *)
(* counts on the stack of a block are never less than none, whatever the   *)
(* functions pop that it calls; and the search for a function answers one  *)
(* of the list or none.                                                    *)
THEOREM FunctionsKeepToTheBlocks == FindSpec => []FuncTypeOK
  <1>1. FindInit => FuncTypes
    BY FindInitTypes
  <1>2. FindInductive /\ Claims /\ FuncTypes /\ [FindNext]_<<vars, fvars>> => FuncTypes'
    BY FindNextTypes
  <1>3. FuncTypes => FuncTypeOK
    BY DEF FuncTypes
  <1> QED
    BY <1>1, <1>2, <1>3, FoundFunctionsObey, FunctionsClaim, PTL DEF FindSpec

=============================================================================

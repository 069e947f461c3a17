---------------------------- MODULE ListingProofs ----------------------------
(***************************************************************************)
(* Theorems about Listing: dump keeps its indexes within the lists, and    *)
(* leaves no byte out, for every image, every table of instruction lengths *)
(* and any number of blocks and variables that overlap.                    *)
(***************************************************************************)
EXTENDS Listing, ProofFacts

-----------------------------------------------------------------------------
(* The operators of the community modules.                                 *)

LEMMA MinIsLeast ==
  ASSUME NEW S \in SUBSET Nat, S # {}
  PROVE  Min(S) \in S /\ \A x \in S : Min(S) <= x
BY Least DEF Min

LEMMA MaxIsGreatest ==
  ASSUME NEW n \in Nat, NEW S \in SUBSET (0..n), S # {}
  PROVE  Max(S) \in S /\ \A x \in S : x <= Max(S)
<1>1. PICK x \in S : \A y \in S : x >= y
  BY Greatest
<1> QED BY <1>1 DEF Max

LEMMA MaxOfTwo ==
  ASSUME NEW a \in Nat, NEW b \in Nat
  PROVE  Max({a, b}) \in {a, b} /\ a <= Max({a, b}) /\ b <= Max({a, b})
<1>1. \E x \in {a, b} : \A y \in {a, b} : x >= y
  <2>1. CASE a >= b
    BY <2>1
  <2>2. CASE b >= a
    BY <2>2
  <2> QED BY <2>1, <2>2
<1>2. Max({a, b}) \in {a, b} /\ \A y \in {a, b} : Max({a, b}) >= y
  BY <1>1 DEF Max
<1>3. Max({a, b}) >= a /\ Max({a, b}) >= b
  BY <1>2
<1> QED BY <1>2, <1>3

LEMMA BoundedSequences ==
  ASSUME NEW S, NEW n \in Nat, NEW s \in BoundedSeq(S, n)
  PROVE  s \in Seq(S)
BY DEF BoundedSeq, SeqOf

-----------------------------------------------------------------------------
(* The types.                                                              *)

(* What the program is and stays, and how the variables begin.             *)
Setting ==
  /\ image \in [Positions -> Byte]
  /\ starts \in Seq(Positions)
  /\ \A i, j \in DOMAIN starts : i < j => starts[i] < starts[j]
  /\ Sorted(blocks) /\ Sorted(variables)
  /\ \A i \in DOMAIN blocks :
       /\ blocks[i].start < blocks[i].end
       /\ i < Len(blocks) => blocks[i].end <= blocks[i + 1].start
  /\ \A i \in DOMAIN variables :
       variables[i].kind \in Arrays => variables[i].start <= variables[i].end

(* Nothing is written before the ends of the variables are known.          *)
Fresh ==
  phase = "ends" =>
    /\ segment = 1 /\ block = 1 /\ variable = 1
    /\ position = None /\ unknown = FALSE /\ listing = <<>>

Types == TypeOK /\ Setting /\ Fresh

LEMMA Limits ==
  /\ Size \in Nat /\ Size > 0
  /\ Positions \subseteq 0..Size
  /\ \A b \in Byte : Length[b] \in Nat
BY ListingAssumption DEF Positions

LEMMA Members ==
  ASSUME TypeOK
  PROVE  /\ Len(blocks) \in Nat /\ DOMAIN blocks = 1..Len(blocks)
         /\ Len(variables) \in Nat /\ DOMAIN variables = 1..Len(variables)
         /\ \A i \in DOMAIN blocks :
              blocks[i].start \in 0..Size /\ blocks[i].end \in 0..Size
         /\ \A i \in DOMAIN variables :
              /\ variables[i] \in Variable
              /\ variables[i].start \in 0..Size /\ variables[i].end \in 0..Size
              /\ variables[i].kind \in Kinds
<1>1. blocks \in Seq(Block) /\ variables \in Seq(Variable)
  BY DEF TypeOK
<1>2. /\ Len(blocks) \in Nat /\ DOMAIN blocks = 1..Len(blocks)
      /\ Len(variables) \in Nat /\ DOMAIN variables = 1..Len(variables)
      /\ \A i \in DOMAIN blocks : blocks[i] \in Block
      /\ \A i \in DOMAIN variables : variables[i] \in Variable
  BY <1>1
<1>3. \A x \in Block : x.start \in 0..Size /\ x.end \in 0..Size
  BY ListingAssumption DEF Block, Positions
<1>4. \A x \in Variable : x.start \in 0..Size /\ x.end \in 0..Size /\ x.kind \in Kinds
  BY DEF Variable
<1> QED BY <1>2, <1>3, <1>4

LEMMA InitTypes == Init => Types
<1> SUFFICES ASSUME Init PROVE Types
  OBVIOUS
<1>1. blocks \in Seq(Block) /\ variables \in Seq({v \in Variable : Registered(v)})
  BY ListingAssumption, BoundedSequences DEF Init
<1>2. variables \in Seq(Variable)
  BY <1>1
<1>3. \A i \in DOMAIN variables : Registered(variables[i]) /\ variables[i] \in Variable
  BY <1>1
<1>4. ASSUME NEW i \in DOMAIN variables, variables[i].kind \in Arrays
      PROVE  variables[i].start <= variables[i].end
  BY <1>3, <1>4, ListingAssumption, Limits DEF Registered, Variable, Arrays
<1>5. /\ image \in [Positions -> Byte] /\ starts \in Seq(Positions)
      /\ \A i, j \in DOMAIN starts : i < j => starts[i] < starts[j]
  BY ListingAssumption DEF Init, Positions
<1>6. Setting
  BY <1>4, <1>5 DEF Init, Setting
<1>7. TypeOK
  <2>1. Len(variables) \in Nat /\ Len(blocks) \in Nat /\ Len(starts) \in Nat
    BY <1>1, <1>2, <1>5
  <2>2. 1 \in 1..(Len(variables) + 1) /\ 1 \in 1..(Len(blocks) + 1) /\ 1 \in 1..(Len(starts) + 1)
    BY <2>1
  <2> QED BY <1>1, <1>2, <2>2 DEF Init, TypeOK
<1> QED BY <1>6, <1>7 DEF Init, Types, Fresh

(* Where dump goes on: not behind the block or the variable that is next,  *)
(* and nowhere only if nothing is left.                                    *)
LEMMA NextPosition ==
  ASSUME Types, NEW s, NEW b, NEW v
  PROVE  /\ DeterminePosition(s, b, v) \in 0..Size \cup {None}
         /\ b \in DOMAIN blocks =>
              DeterminePosition(s, b, v) # None /\ DeterminePosition(s, b, v) <= blocks[b].start
         /\ v \in DOMAIN variables =>
              DeterminePosition(s, b, v) # None /\ DeterminePosition(s, b, v) <= variables[v].start
<1> DEFINE ahead == {blocks[i].start : i \in {b} \cap DOMAIN blocks}
                      \cup {variables[i].start : i \in {v} \cap DOMAIN variables}
           segments == {starts[i] : i \in {s} \cap DOMAIN starts}
           all == ahead \cup segments
<1>1. all \subseteq 0..Size
  <2>1. \A i \in DOMAIN starts : starts[i] \in 0..Size
    <3>1. starts \in Seq(Positions)
      BY DEF Types, Setting
    <3>2. \A i \in DOMAIN starts : starts[i] \in Positions
      BY <3>1
    <3> QED BY <3>2, Limits
  <2>2. \A i \in DOMAIN blocks : blocks[i].start \in 0..Size
    BY Members DEF Types
  <2>3. \A i \in DOMAIN variables : variables[i].start \in 0..Size
    BY Members DEF Types
  <2> QED BY <2>1, <2>2, <2>3
<1>2. b \in DOMAIN blocks => blocks[b].start \in ahead
  OBVIOUS
<1>3. v \in DOMAIN variables => variables[v].start \in ahead
  OBVIOUS
<1>4. DeterminePosition(s, b, v) = IF ahead = {} THEN None ELSE Min(all)
  BY DEF DeterminePosition
<1>5. ahead \subseteq all
  OBVIOUS
<1> HIDE DEF ahead, segments, all
<1>6. all \in SUBSET Nat /\ Size \in Nat
  BY <1>1, Limits
<1>7. ASSUME ahead # {}
      PROVE  Min(all) \in 0..Size /\ Min(all) # None /\ \A x \in ahead : Min(all) <= x
  <2>1. Min(all) \in all /\ \A x \in all : Min(all) <= x
    BY <1>5, <1>6, <1>7, MinIsLeast
  <2>2. Min(all) \in 0..Size
    BY <1>1, <2>1
  <2> QED BY <1>5, <2>1, <2>2 DEF None
<1> QED BY <1>2, <1>3, <1>4, <1>7

LEMMA NextSegment ==
  ASSUME Types, position \in 0..Size
  PROVE  SegmentAfter \in 1..(Len(starts) + 1)
<1> DEFINE behind == {j \in DOMAIN starts : starts[j] < position}
           S == {segment} \cup {i + 1 : i \in behind}
<1>1. Len(starts) \in Nat /\ DOMAIN starts = 1..Len(starts)
  BY DEF Types, Setting
<1>2. segment \in 1..(Len(starts) + 1)
  BY DEF Types, TypeOK
<1>3. S \subseteq 1..(Len(starts) + 1)
  BY <1>1, <1>2
<1>4. S # {} /\ Skipped = Max(S)
  BY DEF Skipped
<1> HIDE DEF S
<1>5. S \in SUBSET (0..(Len(starts) + 1)) /\ Len(starts) + 1 \in Nat
  BY <1>1, <1>3
<1>6. Skipped \in 1..(Len(starts) + 1)
  BY <1>3, <1>4, <1>5, MaxIsGreatest
<1> QED BY <1>1, <1>6 DEF SegmentAfter, AtSegment

(* The end that a variable of unknown length is given is in the image.     *)
LEMMA EndsInside ==
  ASSUME Types, NEW i \in DOMAIN variables, ~LengthKnown(variables[i]),
         NewEnd(i) > variables[i].start
  PROVE  NewEnd(i) \in 0..Size
<1> DEFINE start == variables[i].start
           next == UpToNext(i)
<1>1. start \in 0..Size /\ Size \in Nat /\ start \in Nat
  BY Limits, Members DEF Types
<1>2. next \in 0..Size
  BY Limits, Members DEF Types, UpToNext
<1>3. variables[i].kind \in {"bytes", "words", "dollar"}
  BY DEF LengthKnown, Arrays
<1>4. CASE variables[i].kind = "bytes"
  BY <1>2, <1>4 DEF NewEnd
<1>5. CASE variables[i].kind = "words"
  <2>1. NewEnd(i) = next - ((next - start) % 2)
    BY <1>5 DEF NewEnd
  <2>2. (next - start) % 2 \in 0..1
    BY <1>1, <1>2
  <2> HIDE DEF start, next
  <2> QED BY <1>1, <1>2, <2>1, <2>2 DEF start
<1>6. CASE variables[i].kind = "dollar"
  <2> DEFINE near == Nearest(start)
             limit == IF near <= Len(blocks) THEN blocks[near].end ELSE Size
             dollars == {p \in start..(limit - 1) : image[p] = Dollar}
  <2>1. NewEnd(i) = DollarEnd(start)
    BY <1>6 DEF NewEnd
  <2>2. near \in 1..(Len(blocks) + 1)
    <3> DEFINE S == {j \in DOMAIN blocks : blocks[j].start >= start} \cup {Len(blocks) + 1}
    <3>1. Len(blocks) \in Nat /\ DOMAIN blocks = 1..Len(blocks)
      BY DEF Types, TypeOK
    <3>2. S \subseteq 1..(Len(blocks) + 1) /\ S \in SUBSET Nat /\ S # {}
      BY <3>1
    <3>3. near = Min(S)
      BY DEF Nearest
    <3> HIDE DEF S
    <3> QED BY <3>2, <3>3, MinIsLeast
  <2>3. limit \in 1..Size
    <3>1. near <= Len(blocks) => blocks[near] \in Block
      BY <2>2 DEF Types, TypeOK
    <3> QED BY <3>1, Limits DEF Block
  <2>4. DollarEnd(start) =
          CASE near <= Len(blocks) /\ blocks[near].start = start -> limit
            [] dollars # {} -> Min(dollars) + 1
            [] OTHER -> Max({start, limit})
    BY DEF DollarEnd
  <2>5. dollars # {} => Min(dollars) + 1 \in 0..Size
    <3>1. dollars \in SUBSET Nat
      BY <1>1, <2>3
    <3>2. dollars # {} => Min(dollars) \in dollars
      BY <3>1, MinIsLeast
    <3> QED BY <1>1, <2>3, <3>2
  <2> HIDE DEF near, limit, dollars
  <2>6. Max({start, limit}) \in {start, limit}
    <3>1. limit \in Nat
      BY <2>3
    <3> QED BY <1>1, <3>1, MaxOfTwo
  <2>7. DollarEnd(start) \in 0..Size
    BY <1>1, <2>3, <2>4, <2>5, <2>6
  <2> QED BY <2>1, <2>7
<1> QED BY <1>3, <1>4, <1>5, <1>6

-----------------------------------------------------------------------------
(* The recursive definitions of dump.                                      *)

(* What Passed says of the position p; f says it of those behind p.        *)
PassedFrom(f, p) ==
  IF Fails(p) THEN StopsAt(p)
  ELSE IF p + Length[image[p]] < End(V) THEN f[p + Length[image[p]]]
       ELSE {p + Length[image[p]]}

LEMMA DecodesForward ==
  ASSUME Types, HasBlock, NEW p \in Nat
  PROVE  /\ B.start \in 0..Size /\ B.end \in 0..Size
         /\ p < B.end => Length[image[p]] \in Nat
         /\ ~Fails(p) =>
              /\ p < B.end /\ p + Length[image[p]] <= B.end
              /\ p + Length[image[p]] \in Nat /\ p + Length[image[p]] > p
<1>1. block \in DOMAIN blocks
  BY Members DEF Types, TypeOK, HasBlock
<1>2. B.start \in 0..Size /\ B.end \in 0..Size
  BY <1>1, Members DEF Types, B
<1>3. ASSUME p < B.end
      PROVE  Length[image[p]] \in Nat
  <2>1. p \in Positions
    BY <1>2, <1>3, Limits DEF Positions
  <2>2. image[p] \in Byte
    BY <2>1 DEF Types, Setting
  <2> QED BY <2>2, Limits
<1>4. ASSUME ~Fails(p)
      PROVE  /\ p < B.end /\ p + Length[image[p]] <= B.end
             /\ p + Length[image[p]] \in Nat /\ p + Length[image[p]] > p
  <2>1. B.end \in Nat /\ Size \in Nat
    BY <1>2, Limits
  <2>2. p < B.end
    BY <1>4, <2>1 DEF Fails
  <2>3. Length[image[p]] \in Nat /\ Length[image[p]] # 0 /\ ~(p + Length[image[p]] > B.end)
    BY <1>3, <1>4, <2>2 DEF Fails
  <2> QED BY <2>1, <2>2, <2>3
<1> QED BY <1>2, <1>3, <1>4

LEMMA EndOfVariable ==
  ASSUME Types, HasVariable
  PROVE  variable \in DOMAIN variables /\ V.start \in 0..Size /\ End(V) \in Nat
<1>1. variable \in DOMAIN variables
  BY Members DEF Types, TypeOK, HasVariable
<1>2. V.start \in 0..Size /\ V.end \in 0..Size /\ V.kind \in Kinds
  BY <1>1, Members DEF Types, V
<1>3. \A k \in Kinds \ Arrays : SizeOf[k] \in Nat
  BY DEF Kinds, SizeOf
<1>4. End(V) \in Nat
  BY <1>2, <1>3, Limits DEF End
<1> QED BY <1>1, <1>2, <1>4

(* The recursion goes forward and ends before the end of the variable, so  *)
(* that the function is there.                                             *)
LEMMA PassedExists ==
  ASSUME Types, HasBlock, HasVariable, position \in Nat
  PROVE  \E f : f = [p \in position..(End(V) - 1) |-> PassedFrom(f, p)]
<1> DEFINE D == position..(End(V) - 1)
           Solves(f, k) ==
             /\ f = [p \in D |-> f[p]]
             /\ \A p \in D : p + k >= End(V) => f[p] = PassedFrom(f, p)
           Unsolved == {k \in Nat : ~\E f : Solves(f, k)}
<1>1. End(V) \in Nat
  BY EndOfVariable
<1>2. Unsolved = {}
  <2>1. SUFFICES ASSUME Unsolved # {} PROVE FALSE
    OBVIOUS
  <2>2. PICK k \in Unsolved : \A j \in Unsolved : k <= j
    <3>1. Unsolved \in SUBSET Nat
      OBVIOUS
    <3> HIDE DEF Unsolved
    <3> QED BY <2>1, <3>1, Least
  <2>3. k # 0
    <3>1. Solves([p \in D |-> {}], 0)
      BY <1>1
    <3> QED BY <3>1, <2>2
  <2>4. k - 1 \in Nat /\ k - 1 \notin Unsolved
    BY <2>2, <2>3
  <2>5. PICK f : Solves(f, k - 1)
    BY <2>4
  <2> DEFINE g == [p \in D |-> IF p + k = End(V) THEN PassedFrom(f, p) ELSE f[p]]
  <2>6. \A p \in D : g[p] = IF p + k = End(V) THEN PassedFrom(f, p) ELSE f[p]
    OBVIOUS
  <2>7. g = [p \in D |-> g[p]]
    OBVIOUS
  <2>8. ASSUME NEW p \in D, p + k >= End(V)
        PROVE  g[p] = PassedFrom(g, p)
    <3>1. p \in Nat /\ p < End(V)
      BY <1>1
    <3>2. PassedFrom(g, p) = PassedFrom(f, p)
      <4>1. CASE Fails(p) \/ ~(p + Length[image[p]] < End(V))
        BY <4>1 DEF PassedFrom
      <4>2. CASE ~Fails(p) /\ p + Length[image[p]] < End(V)
        <5> DEFINE q == p + Length[image[p]]
        <5>1. q \in Nat /\ q > p
          BY <3>1, <4>2, DecodesForward
        <5>2. q \in D /\ q + k # End(V)
          BY <1>1, <2>2, <2>8, <3>1, <4>2, <5>1
        <5>3. g[q] = f[q]
          BY <2>6, <5>2
        <5> QED BY <4>2, <5>3 DEF PassedFrom
      <4> QED BY <4>1, <4>2
    <3>3. CASE p + k = End(V)
      BY <2>6, <3>2, <3>3
    <3>4. CASE p + k # End(V)
      <4>1. p + (k - 1) >= End(V)
        BY <1>1, <2>2, <2>8, <3>1, <3>4
      <4> QED BY <2>5, <2>6, <3>2, <3>4, <4>1
    <3> QED BY <3>3, <3>4
  <2>9. Solves(g, k)
    <3> HIDE DEF g
    <3> QED BY <2>7, <2>8
  <2> QED BY <2>2, <2>9
<1>3. PICK f : Solves(f, End(V))
  BY <1>1, <1>2
<1>4. \A p \in D : f[p] = PassedFrom(f, p)
  BY <1>1, <1>3
<1>5. f = [p \in D |-> PassedFrom(f, p)]
  BY <1>3, <1>4
<1> QED BY <1>5

(* Decoding never goes back, and ends at a position.                       *)
LEMMA PassedIsAhead ==
  ASSUME Types, HasBlock, InVariable, position \in Nat
  PROVE  Passed \subseteq Nat
<1> DEFINE D == position..(End(V) - 1)
           passed == CHOOSE f : f = [p \in D |-> PassedFrom(f, p)]
           Astray == {k \in Nat : \E p \in D : p + k = End(V) /\ ~(passed[p] \subseteq Nat)}
<1>1. Passed = passed[position]
  BY DEF Passed, PassedFrom
<1>2. End(V) \in Nat /\ position < End(V) /\ HasVariable
  BY EndOfVariable DEF InVariable
<1>3. passed = [p \in D |-> PassedFrom(passed, p)]
  BY <1>2, PassedExists
<1> HIDE DEF passed
<1>4. \A p \in D : passed[p] = PassedFrom(passed, p)
  BY <1>3
<1>5. Astray = {}
  <2>1. SUFFICES ASSUME Astray # {} PROVE FALSE
    OBVIOUS
  <2>2. PICK k \in Astray : \A j \in Astray : k <= j
    <3>1. Astray \in SUBSET Nat
      OBVIOUS
    <3> HIDE DEF Astray
    <3> QED BY <2>1, <3>1, Least
  <2>3. PICK p \in D : p + k = End(V) /\ ~(passed[p] \subseteq Nat)
    BY <2>2
  <2>4. p \in Nat /\ p < End(V) /\ passed[p] = PassedFrom(passed, p)
    BY <1>2, <1>4
  <2>5. CASE Fails(p)
    <3>1. B.end \in Nat
      BY DecodesForward, Limits
    <3>2. StopsAt(p) \subseteq Nat
      <4>1. CASE p >= B.end
        BY <2>4, <3>1, <4>1 DEF StopsAt
      <4>2. CASE p < B.end /\ Length[image[p]] = 0
        BY <2>4, <3>1, <4>2 DEF StopsAt
      <4>3. CASE p < B.end /\ Length[image[p]] # 0
        <5>1. Length[image[p]] \in Nat
          BY <2>4, <4>3, DecodesForward
        <5>2. p + Length[image[p]] \in Nat
          BY <2>4, <5>1
        <5>3. Min({p + Length[image[p]], B.end}) \in Nat
          <6>1. {p + Length[image[p]], B.end} \in SUBSET Nat
            BY <3>1, <5>2
          <6>2. Min({p + Length[image[p]], B.end}) \in {p + Length[image[p]], B.end}
            BY <6>1, MinIsLeast
          <6> QED BY <6>1, <6>2
        <5>4. StopsAt(p) = Min({p + Length[image[p]], B.end})..(p + Length[image[p]])
          BY <2>4, <3>1, <4>3 DEF StopsAt
        <5> QED BY <5>2, <5>3, <5>4
      <4> QED BY <2>4, <3>1, <4>1, <4>2, <4>3
    <3> QED BY <2>3, <2>4, <2>5, <3>2 DEF PassedFrom
  <2>6. CASE ~Fails(p)
    <3> DEFINE q == p + Length[image[p]]
    <3>1. q \in Nat /\ q > p
      BY <2>4, <2>6, DecodesForward
    <3>2. CASE q < End(V)
      <4>1. q \in D /\ passed[p] = passed[q]
        BY <1>2, <2>4, <2>6, <3>1, <3>2 DEF PassedFrom
      <4>2. End(V) - q \in Nat /\ q + (End(V) - q) = End(V) /\ End(V) - q < k
        BY <1>2, <2>2, <2>3, <3>1, <3>2
      <4>3. End(V) - q \in Astray
        BY <2>3, <4>1, <4>2
      <4>4. k \in Nat
        BY <2>2
      <4> HIDE DEF Astray
      <4>5. k <= End(V) - q
        BY <2>2, <4>3
      <4> QED BY <4>2, <4>4, <4>5
    <3>3. CASE ~(q < End(V))
      BY <2>3, <2>4, <2>6, <3>1, <3>3 DEF PassedFrom
    <3> QED BY <3>2, <3>3
  <2> QED BY <2>5, <2>6
<1>6. position \in D /\ End(V) - position \in Nat /\ position + (End(V) - position) = End(V)
  BY <1>2
<1> QED BY <1>1, <1>5, <1>6

-----------------------------------------------------------------------------
(* The steps keep the types.                                               *)

LEMMA DumpingFacts ==
  ASSUME Types, Dumping
  PROVE  /\ position \in 0..Size /\ position \in Nat /\ phase = "dump"
         /\ SegmentAfter \in 1..(Len(starts) + 1)
         /\ UNCHANGED <<program, variables, phase, ending>>
<1>1. position \in 0..Size
  BY DEF Dumping, Types, TypeOK
<1> QED BY <1>1, NextSegment DEF Dumping

LEMMA CursorTypes ==
  ASSUME Types, Dumping,
         segment' \in 1..(Len(starts) + 1), block' \in 1..(Len(blocks) + 1),
         variable' \in 1..(Len(variables) + 1), position' \in 0..Size \cup {None},
         unknown' \in BOOLEAN
  PROVE  Types'
<1>1. /\ image' = image /\ blocks' = blocks /\ starts' = starts
      /\ variables' = variables /\ phase' = "dump" /\ ending' = ending
  BY DEF Dumping, program
<1>2. TypeOK'
  BY <1>1 DEF Types, TypeOK
<1>3. Setting'
  BY <1>1 DEF Types, Setting, Sorted
<1>4. Fresh'
  BY <1>1 DEF Fresh
<1> QED BY <1>2, <1>3, <1>4 DEF Types

LEMMA MoveOnTypes ==
  ASSUME Types, Dumping, HasBlock, NEW q \in Nat, NEW v \in 1..(Len(variables) + 1),
         NEW found \in BOOLEAN, MoveOn(q, v, found)
  PROVE  Types'
<1>1. SegmentAfter \in 1..(Len(starts) + 1)
  BY DumpingFacts
<1>2. block \in 1..Len(blocks) /\ Len(blocks) \in Nat
  BY Members DEF Types, TypeOK, HasBlock
<1>3. block + 1 \in 1..(Len(blocks) + 1) /\ block \in 1..(Len(blocks) + 1)
  BY <1>2
<1>4. segment' = SegmentAfter /\ variable' = v
  BY DEF MoveOn
<1>5. CASE q >= B.end
  <2>1. unknown' = FALSE /\ block' = block + 1
        /\ position' = DeterminePosition(SegmentAfter, block + 1, v)
    BY <1>5 DEF MoveOn
  <2>2. position' \in 0..Size \cup {None}
    BY <2>1, NextPosition
  <2> QED BY <1>1, <1>3, <1>4, <2>1, <2>2, CursorTypes
<1>6. CASE ~(q >= B.end)
  <2>1. unknown' = found /\ block' = block /\ position' = q
    BY <1>6 DEF MoveOn
  <2>2. q \in 0..Size
    BY <1>6, DecodesForward, Limits
  <2> QED BY <1>1, <1>3, <1>4, <2>1, <2>2, CursorTypes
<1> QED BY <1>5, <1>6

LEMMA UnknownOrNot == \A p : FindsUnknown(p) \subseteq BOOLEAN
BY DEF FindsUnknown

LEMMA LoopTypes ==
  ASSUME Types, Gap \/ DumpVariable \/ DumpByte \/ DumpUndecoded \/ DumpInstruction
  PROVE  Types'
<1>1. Dumping
  BY DEF Gap, DumpVariable, DumpByte, DumpUndecoded, DumpInstruction
<1>2. /\ block \in 1..(Len(blocks) + 1) /\ variable \in 1..(Len(variables) + 1)
      /\ unknown \in BOOLEAN /\ position \in Nat
      /\ SegmentAfter \in 1..(Len(starts) + 1)
  BY <1>1, DumpingFacts DEF Types, TypeOK
<1>3. CASE Gap
  BY <1>1, <1>2, <1>3, NextPosition, CursorTypes DEF Gap
<1>4. CASE DumpVariable
  <2>1. variable + 1 \in 1..(Len(variables) + 1)
    BY <1>2, <1>4, Members DEF DumpVariable, InVariable, HasVariable, Types
  <2>2. DeterminePosition(SegmentAfter, block, variable + 1) \in 0..Size \cup {None}
    BY NextPosition
  <2> QED BY <1>1, <1>2, <1>4, <2>1, <2>2, CursorTypes DEF DumpVariable
<1>5. CASE DumpByte \/ DumpUndecoded
  <2>1. HasBlock /\ MoveOn(position + 1, variable, TRUE)
    BY <1>5, Zenon DEF DumpByte, DumpUndecoded, InBlock
  <2>2. position + 1 \in Nat
    BY <1>2
  <2> QED BY <1>1, <1>2, <2>1, <2>2, MoveOnTypes
<1>6. CASE DumpInstruction
  <2>1. PICK found \in FindsUnknown(position) :
               MoveOn(position + Length[image[position]], variable, found)
    BY <1>6 DEF DumpInstruction
  <2>2. HasBlock /\ ~Fails(position) /\ found \in BOOLEAN
    BY <1>6, <2>1, UnknownOrNot DEF DumpInstruction, InBlock
  <2>3. position + Length[image[position]] \in Nat
    BY <1>2, <2>2, DecodesForward
  <2> QED BY <1>1, <1>2, <2>1, <2>2, <2>3, MoveOnTypes
<1> QED BY <1>3, <1>4, <1>5, <1>6

LEMMA OverlapTypes ==
  ASSUME Types, DumpVariableInBytes \/ DumpVariableInCode
  PROVE  Types'
<1>1. Dumping /\ InVariable /\ HasBlock /\ HasVariable
  BY DEF DumpVariableInBytes, DumpVariableInCode, Overlapping, InVariable
<1>2. position \in Nat /\ End(V) \in Nat /\ V.start \in Nat /\ V.start <= position
      /\ position < End(V)
  BY <1>1, DumpingFacts, EndOfVariable, Limits DEF InVariable
<1>3. variable + 1 \in 1..(Len(variables) + 1)
  BY <1>1, Members DEF Types, TypeOK, HasVariable
<1>4. CASE DumpVariableInBytes
  <2>1. position + End(V) - V.start \in Nat
    BY <1>2
  <2>2. MoveOn(position + End(V) - V.start, variable + 1, TRUE)
    BY <1>4 DEF DumpVariableInBytes
  <2> QED BY <1>1, <1>3, <2>1, <2>2, MoveOnTypes
<1>5. CASE DumpVariableInCode
  <2>1. PICK next \in Passed : MoveOn(Max({End(V), next}), variable + 1, FALSE)
    BY <1>5 DEF DumpVariableInCode
  <2>2. next \in Nat
    BY <1>1, <1>2, PassedIsAhead
  <2>3. Max({End(V), next}) \in Nat
    BY <1>2, <2>2, MaxOfTwo
  <2> QED BY <1>1, <1>3, <2>1, <2>3, MoveOnTypes
<1> QED BY <1>4, <1>5

LEMMA EndsTypes ==
  ASSUME Types, KeepEnd \/ SetVariableEnd \/ BeginDump
  PROVE  Types'
<1>1. phase = "ends"
  BY DEF KeepEnd, SetVariableEnd, BeginDump
<1>2. image' = image /\ blocks' = blocks /\ starts' = starts
  BY DEF KeepEnd, SetVariableEnd, BeginDump, program
<1>3. Len(variables) \in Nat /\ variables \in Seq(Variable) /\ ending \in 1..(Len(variables) + 1)
  BY Members DEF Types, TypeOK
<1>4. CASE KeepEnd
  <2>1. variables' = variables /\ phase' = phase /\ UNCHANGED cursor
        /\ ending' \in 1..(Len(variables) + 1)
    BY <1>3, <1>4 DEF KeepEnd
  <2> QED BY <1>2, <2>1 DEF Types, TypeOK, Setting, Sorted, Fresh, cursor
<1>5. CASE SetVariableEnd
  <2>1. /\ ending \in DOMAIN variables /\ ~LengthKnown(variables[ending])
        /\ UNCHANGED cursor
    BY <1>3, <1>5, Members DEF SetVariableEnd, Types
  <2>2. CASE NewEnd(ending) > variables[ending].start
    <3> DEFINE e == NewEnd(ending)
               v == [variables[ending] EXCEPT !.end = e]
    <3>1. /\ variables' = [variables EXCEPT ![ending] = v]
          /\ ending' = ending + 1 /\ phase' = phase
      BY <1>5, <2>2 DEF SetVariableEnd
    <3>2. e \in 0..Size /\ e > variables[ending].start
      BY <2>1, <2>2, EndsInside
    <3>3. variables[ending] \in Variable
      BY <2>1, Members DEF Types
    <3> HIDE DEF e
    <3>4. v \in Variable /\ v.start = variables[ending].start /\ v.end = e
          /\ v.kind = variables[ending].kind
      BY <3>2, <3>3 DEF Variable
    <3> HIDE DEF v
    <3>5. variables' \in Seq(Variable) /\ Len(variables') = Len(variables)
      BY <1>3, <3>1, <3>4, ExceptInSequence
    <3>6. DOMAIN variables' = DOMAIN variables
      BY <3>1
    <3>7. \A i \in DOMAIN variables :
            variables'[i] = IF i = ending THEN v ELSE variables[i]
      BY <3>1
    <3>8. \A i \in DOMAIN variables :
            /\ variables'[i].start = variables[i].start
            /\ variables'[i].kind = variables[i].kind
            /\ i # ending => variables'[i].end = variables[i].end
      BY <3>4, <3>7
    <3>9. Sorted(variables)'
      BY <3>6, <3>8 DEF Types, Setting, Sorted
    <3>10. ASSUME NEW i \in DOMAIN variables, variables'[i].kind \in Arrays
           PROVE  variables'[i].start <= variables'[i].end
      <4>1. CASE i = ending
        <5>1. variables'[i] = v /\ variables[ending].start \in Nat
          BY <2>1, <3>7, <4>1, Members, Limits DEF Types
        <5> QED BY <3>2, <3>4, <4>1, <5>1, Limits
      <4>2. CASE i # ending
        BY <3>8, <3>10, <4>2 DEF Types, Setting
      <4> QED BY <4>1, <4>2
    <3>11. Setting'
      BY <1>2, <3>6, <3>9, <3>10 DEF Types, Setting, Sorted
    <3>12. ending' \in 1..(Len(variables) + 1)
      BY <1>3, <2>1, <3>1, Members DEF Types
    <3>13. TypeOK'
      BY <1>2, <2>1, <3>1, <3>5, <3>12 DEF Types, TypeOK, cursor
    <3> QED BY <2>1, <3>1, <3>11, <3>13 DEF Types, Fresh, cursor
  <2>3. CASE ~(NewEnd(ending) > variables[ending].start)
    <3>1. phase' = "aborted" /\ variables' = variables /\ ending' = ending
      BY <1>5, <2>3 DEF SetVariableEnd
    <3> QED BY <1>2, <2>1, <3>1 DEF Types, TypeOK, Setting, Sorted, Fresh, cursor
  <2> QED BY <2>2, <2>3
<1>6. CASE BeginDump
  <2>1. /\ phase' = "dump" /\ position' = DeterminePosition(1, 1, 1)
        /\ UNCHANGED <<variables, ending, segment, block, variable, unknown>>
    BY <1>6 DEF BeginDump
  <2>2. position' \in 0..Size \cup {None}
    BY <2>1, NextPosition
  <2> QED BY <1>2, <2>1, <2>2 DEF Types, TypeOK, Setting, Sorted, Fresh
<1> QED BY <1>4, <1>5, <1>6

LEMMA NextTypes ==
  ASSUME Types, [Next]_vars
  PROVE  Types'
<1>1. CASE Finish
  BY <1>1 DEF Finish, Types, TypeOK, Setting, Sorted, Fresh, program, cursor
<1>2. CASE Stopped \/ UNCHANGED vars
  BY <1>2 DEF Stopped, Types, TypeOK, Setting, Sorted, Fresh, vars, program, cursor
<1> QED BY <1>1, <1>2, EndsTypes, LoopTypes, OverlapTypes DEF Next

(* The indexes of dump never pass the ends of their lists, however blocks  *)
(* and variables overlap, and its position stays in the image, although it *)
(* is moved by the lengths of instructions and of variables; the ends that *)
(* compose_pcontent gives to variables are in the image, too.              *)
THEOREM IndexesStayInLists == Spec => []TypeOK
<1>1. Init => Types
  BY InitTypes
<1>2. Types /\ [Next]_vars => Types'
  BY NextTypes
<1>3. Types => TypeOK
  BY DEF Types
<1> QED BY <1>1, <1>2, <1>3, PTL DEF Spec

-----------------------------------------------------------------------------
(* What lines stand for.                                                   *)

Line ==
  {line \in [line : {"data", "code", "block", "variable", "segment"}, from : Int, to : Int] :
     line.line = "segment" => line.to = line.from}

BytesOf(lines) == UNION {Bytes(lines[i]) : i \in DOMAIN lines}

LEMMA OneLine ==
  ASSUME NEW x \in Line
  PROVE  <<x>> \in Seq(Line) /\ BytesOf(<<x>>) = Bytes(x)
BY DEF BytesOf

LEMMA NoLine == <<>> \in Seq(Line) /\ BytesOf(<<>>) = {}
BY DEF BytesOf

LEMMA LinesFit ==
  ASSUME NEW a \in Int, NEW b \in Int
  PROVE  /\ Data(a, b) \in Line /\ Code(a, b) \in Line
         /\ Bytes(Data(a, b)) = a..(b - 1) /\ Bytes(Code(a, b)) = a..(b - 1)
         /\ \A what \in {"block", "variable", "segment"} : Label(what, a) \in Line
BY DEF Data, Code, Label, Line, Bytes

LEMMA LinesAppended ==
  ASSUME NEW s \in Seq(Line), NEW t \in Seq(Line)
  PROVE  s \o t \in Seq(Line) /\ BytesOf(s \o t) = BytesOf(s) \cup BytesOf(t)
<1>1. /\ Len(s) \in Nat /\ Len(t) \in Nat
      /\ DOMAIN s = 1..Len(s) /\ DOMAIN t = 1..Len(t)
  OBVIOUS
<1>2. /\ s \o t \in Seq(Line) /\ DOMAIN (s \o t) = 1..(Len(s) + Len(t))
      /\ \A i \in 1..(Len(s) + Len(t)) :
           (s \o t)[i] = IF i <= Len(s) THEN s[i] ELSE t[i - Len(s)]
  OBVIOUS
<1> DEFINE u == s \o t
<1> HIDE DEF u
<1>3. ASSUME NEW i \in DOMAIN u
      PROVE  Bytes(u[i]) \subseteq BytesOf(s) \cup BytesOf(t)
  <2>1. CASE i <= Len(s)
    BY <1>1, <1>2, <1>3, <2>1 DEF u, BytesOf
  <2>2. CASE ~(i <= Len(s))
    <3>1. i - Len(s) \in DOMAIN t /\ u[i] = t[i - Len(s)]
      BY <1>1, <1>2, <1>3, <2>2 DEF u
    <3> QED BY <3>1 DEF BytesOf
  <2> QED BY <2>1, <2>2
<1>4. ASSUME NEW i \in DOMAIN s
      PROVE  Bytes(s[i]) \subseteq BytesOf(u)
  <2>1. i \in DOMAIN u /\ u[i] = s[i]
    BY <1>1, <1>2 DEF u
  <2> QED BY <2>1 DEF BytesOf
<1>5. ASSUME NEW i \in DOMAIN t
      PROVE  Bytes(t[i]) \subseteq BytesOf(u)
  <2>1. i + Len(s) \in DOMAIN u /\ u[i + Len(s)] = t[i]
    <3>1. i + Len(s) \in 1..(Len(s) + Len(t)) /\ ~(i + Len(s) <= Len(s))
          /\ (i + Len(s)) - Len(s) = i
      BY <1>1
    <3> QED BY <1>2, <3>1 DEF u
  <2> QED BY <2>1 DEF BytesOf
<1>6. BytesOf(u) \subseteq BytesOf(s) \cup BytesOf(t)
  BY <1>3 DEF BytesOf
<1>7. BytesOf(s) \cup BytesOf(t) \subseteq BytesOf(u)
  BY <1>4, <1>5 DEF BytesOf
<1> QED BY <1>2, <1>6, <1>7 DEF u

LEMMA WrittenBytes == Written = BytesOf(listing)
BY DEF Written, Lines, Range, BytesOf

(* What is written stays written.                                          *)
LEMMA WritingAppends ==
  ASSUME listing \in Seq(Line), position \in Int, NEW lines \in Seq(Line), Write(lines)
  PROVE  listing' \in Seq(Line) /\ Written' = Written \cup BytesOf(SegmentLines) \cup BytesOf(lines)
<1>1. SegmentLines \in Seq(Line)
  BY LinesFit, OneLine, NoLine DEF SegmentLines
<1>2. /\ listing \o SegmentLines \in Seq(Line)
      /\ BytesOf(listing \o SegmentLines) = BytesOf(listing) \cup BytesOf(SegmentLines)
  BY <1>1, LinesAppended
<1> DEFINE before == listing \o SegmentLines
<1>3. listing' = before \o lines
  BY DEF Write
<1> HIDE DEF before
<1>4. listing' \in Seq(Line) /\ BytesOf(listing') = BytesOf(before) \cup BytesOf(lines)
  BY <1>2, <1>3, LinesAppended DEF before
<1>5. Written' = BytesOf(listing')
  BY DEF Written, Lines, Range, BytesOf, Bytes
<1> QED BY <1>2, <1>4, <1>5, WrittenBytes DEF before

LEMMA LabelFirst ==
  ASSUME position \in Int, NEW lines \in Seq(Line)
  PROVE  CodeLabel \o lines \in Seq(Line) /\ BytesOf(lines) \subseteq BytesOf(CodeLabel \o lines)
<1>1. CodeLabel \in Seq(Line)
  BY LinesFit, OneLine, NoLine DEF CodeLabel
<1> QED BY <1>1, LinesAppended

-----------------------------------------------------------------------------
(* The instructions that one call of dump_instruction writes.              *)

(* What Instructions says of q; f says it of the positions behind q.       *)
InstructionsFrom(f, q) ==
  IF q >= Size THEN <<Code(q, q + 1)>>
  ELSE IF image[q] \in FarJump
       THEN <<Code(q, q + Length[image[q]])>> \o f[q + Length[image[q]]]
       ELSE <<Code(q, q + Max({1, Length[image[q]]}))>>

LEMMA BytesInside ==
  ASSUME Types, NEW q \in Nat, q < Size
  PROVE  /\ Length[image[q]] \in Nat
         /\ image[q] \in FarJump => q + Length[image[q]] > q
<1>1. q \in Positions
  BY Limits DEF Positions
<1>2. image[q] \in Byte
  BY <1>1 DEF Types, Setting
<1> QED BY <1>2, Limits, ListingAssumption

LEMMA InstructionsExist ==
  ASSUME Types
  PROVE  \E f : f = [q \in Nat |-> InstructionsFrom(f, q)]
<1> DEFINE Solves(f, k) ==
             /\ f = [q \in Nat |-> f[q]]
             /\ \A q \in Nat : q + k >= Size => f[q] = InstructionsFrom(f, q)
           Unsolved == {k \in Nat : ~\E f : Solves(f, k)}
<1>1. Size \in Nat
  BY Limits
<1>2. Unsolved = {}
  <2>1. SUFFICES ASSUME Unsolved # {} PROVE FALSE
    OBVIOUS
  <2>2. PICK k \in Unsolved : \A j \in Unsolved : k <= j
    <3>1. Unsolved \in SUBSET Nat
      OBVIOUS
    <3> HIDE DEF Unsolved
    <3> QED BY <2>1, <3>1, Least
  <2>3. k # 0
    <3> DEFINE e == [q \in Nat |-> <<Code(q, q + 1)>>]
    <3>1. \A q \in Nat : q + 0 >= Size => e[q] = InstructionsFrom(e, q)
      BY <1>1 DEF InstructionsFrom
    <3>2. e = [q \in Nat |-> e[q]]
      OBVIOUS
    <3> HIDE DEF e
    <3>3. Solves(e, 0)
      BY <3>1, <3>2
    <3> QED BY <2>2, <3>3
  <2>4. k - 1 \in Nat /\ k - 1 \notin Unsolved
    BY <2>2, <2>3
  <2>5. PICK f : Solves(f, k - 1)
    BY <2>4
  <2> DEFINE g == [q \in Nat |-> IF q + k = Size THEN InstructionsFrom(f, q) ELSE f[q]]
  <2>6. \A q \in Nat : g[q] = IF q + k = Size THEN InstructionsFrom(f, q) ELSE f[q]
    OBVIOUS
  <2>7. g = [q \in Nat |-> g[q]]
    OBVIOUS
  <2> HIDE DEF g
  <2>8. ASSUME NEW q \in Nat, q + k >= Size
        PROVE  g[q] = InstructionsFrom(g, q)
    <3>1. InstructionsFrom(g, q) = InstructionsFrom(f, q)
      <4>1. CASE q < Size /\ image[q] \in FarJump
        <5> DEFINE n == q + Length[image[q]]
        <5>1. n \in Nat /\ n > q
          BY <4>1, BytesInside
        <5>2. n + k # Size
          BY <1>1, <2>2, <2>8, <5>1
        <5>3. g[n] = f[n]
          BY <2>6, <5>1, <5>2
        <5>4. ~(q >= Size)
          BY <1>1, <4>1
        <5> QED BY <4>1, <5>3, <5>4 DEF InstructionsFrom
      <4>2. CASE q >= Size
        BY <4>2 DEF InstructionsFrom
      <4>3. CASE ~(q >= Size) /\ ~(q < Size /\ image[q] \in FarJump)
        <5>1. image[q] \notin FarJump
          BY <1>1, <4>3
        <5> QED BY <4>3, <5>1 DEF InstructionsFrom
      <4> QED BY <4>1, <4>2, <4>3, <1>1
    <3>2. CASE q + k = Size
      BY <2>6, <3>1, <3>2
    <3>3. CASE q + k # Size
      <4>1. q + (k - 1) >= Size
        BY <1>1, <2>2, <2>8, <3>3
      <4> QED BY <2>5, <2>6, <3>1, <3>3, <4>1
    <3> QED BY <3>2, <3>3
  <2>9. Solves(g, k)
    BY <2>7, <2>8
  <2> QED BY <2>2, <2>9
<1>3. PICK f : Solves(f, Size)
  BY <1>1, <1>2
<1>4. \A q \in Nat : f[q] = InstructionsFrom(f, q)
  BY <1>1, <1>3
<1>5. f = [q \in Nat |-> InstructionsFrom(f, q)]
  BY <1>3, <1>4
<1> QED BY <1>5

(* They are lines, and the first one stands for the instruction there.     *)
LEMMA InstructionIsWritten ==
  ASSUME Types, NEW p \in Nat, p < Size
  PROVE  /\ Instructions(p) \in Seq(Line)
         /\ p..(p + Length[image[p]] - 1) \subseteq BytesOf(Instructions(p))
<1> DEFINE lines == CHOOSE f : f = [q \in Nat |-> InstructionsFrom(f, q)]
           Astray == {k \in Nat : \E q \in Nat : q + k >= Size /\ lines[q] \notin Seq(Line)}
<1>1. Instructions(p) = lines[p]
  BY DEF Instructions, InstructionsFrom
<1>2. lines = [q \in Nat |-> InstructionsFrom(lines, q)]
  BY InstructionsExist
<1> HIDE DEF lines
<1>3. \A q \in Nat : lines[q] = InstructionsFrom(lines, q)
  BY <1>2
<1>4. Size \in Nat
  BY Limits
<1>5. ASSUME NEW q \in Nat, q < Size
      PROVE  Length[image[q]] \in Nat /\ Max({1, Length[image[q]]}) \in Nat
             /\ Max({1, Length[image[q]]}) >= Length[image[q]]
  <2>1. Length[image[q]] \in Nat
    BY <1>5, BytesInside
  <2>2. Max({1, Length[image[q]]}) \in {1, Length[image[q]]}
        /\ Length[image[q]] <= Max({1, Length[image[q]]})
    BY <2>1, MaxOfTwo
  <2> QED BY <2>1, <2>2
<1>6. Astray = {}
  <2>1. SUFFICES ASSUME Astray # {} PROVE FALSE
    OBVIOUS
  <2>2. PICK k \in Astray : \A j \in Astray : k <= j
    <3>1. Astray \in SUBSET Nat
      OBVIOUS
    <3> HIDE DEF Astray
    <3> QED BY <2>1, <3>1, Least
  <2>3. PICK q \in Nat : q + k >= Size /\ lines[q] \notin Seq(Line)
    BY <2>2
  <2>4. lines[q] = InstructionsFrom(lines, q)
    BY <1>3
  <2>5. CASE q >= Size
    <3>1. lines[q] = <<Code(q, q + 1)>>
      <4>1. ~(q < Size)
        BY <1>4, <2>5
      <4> QED BY <2>4, <2>5, <4>1 DEF InstructionsFrom
    <3> QED BY <2>3, <3>1, LinesFit, OneLine
  <2>6. CASE q < Size /\ image[q] \in FarJump
    <3> DEFINE n == q + Length[image[q]]
    <3>1. n \in Nat /\ n > q
      BY <2>6, BytesInside
    <3>2. lines[q] = <<Code(q, n)>> \o lines[n]
      <4>1. ~(q >= Size)
        BY <1>4, <2>6
      <4> QED BY <2>4, <2>6, <4>1 DEF InstructionsFrom
    <3> HIDE DEF n
    <3>3. <<Code(q, n)>> \in Seq(Line)
      BY <3>1, LinesFit, OneLine
    <3>4. lines[n] \notin Seq(Line)
      BY <2>3, <3>2, <3>3, LinesAppended
    <3>5. k # 0
      BY <1>4, <2>3, <2>6
    <3>6. k - 1 \in Nat /\ n + (k - 1) >= Size
      BY <1>4, <2>2, <2>3, <3>1, <3>5
    <3>7. k - 1 \in Astray
      BY <3>1, <3>4, <3>6
    <3>8. k \in Nat
      BY <2>2
    <3> HIDE DEF Astray
    <3>9. k <= k - 1
      BY <2>2, <3>7
    <3> QED BY <3>8, <3>9
  <2>7. CASE q < Size /\ image[q] \notin FarJump
    <3>1. lines[q] = <<Code(q, q + Max({1, Length[image[q]]}))>>
      <4>1. ~(q >= Size)
        BY <1>4, <2>7
      <4> QED BY <2>4, <2>7, <4>1 DEF InstructionsFrom
    <3>2. q + Max({1, Length[image[q]]}) \in Int
      BY <1>5, <2>7
    <3> QED BY <2>3, <3>1, <3>2, LinesFit, OneLine
  <2> QED BY <1>4, <2>5, <2>6, <2>7
<1>7. \A q \in Nat : lines[q] \in Seq(Line)
  <2> SUFFICES ASSUME NEW q \in Nat, lines[q] \notin Seq(Line) PROVE FALSE
    OBVIOUS
  <2>1. Size \in Astray
    BY <1>4
  <2> QED BY <1>6, <2>1
<1>8. ~(p >= Size) /\ lines[p] = InstructionsFrom(lines, p)
  BY <1>3, <1>4
<1>9. CASE image[p] \in FarJump
  <2> DEFINE n == p + Length[image[p]]
  <2>0. Length[image[p]] \in Nat
    BY <1>5
  <2>1. n \in Nat
    BY <2>0
  <2>2. lines[p] = <<Code(p, n)>> \o lines[n]
    BY <1>8, <1>9 DEF InstructionsFrom
  <2>5. n - 1 = p + Length[image[p]] - 1
    BY <2>0
  <2> HIDE DEF n
  <2>3. <<Code(p, n)>> \in Seq(Line) /\ BytesOf(<<Code(p, n)>>) = p..(n - 1)
    BY <2>1, LinesFit, OneLine
  <2>4. BytesOf(lines[p]) = BytesOf(<<Code(p, n)>>) \cup BytesOf(lines[n])
    BY <1>7, <2>1, <2>2, <2>3, LinesAppended
  <2> QED BY <1>1, <1>7, <2>3, <2>4, <2>5
<1>10. CASE image[p] \notin FarJump
  <2> DEFINE n == p + Max({1, Length[image[p]]})
  <2>1. n \in Nat /\ p + Length[image[p]] <= n /\ p + Length[image[p]] \in Nat
    BY <1>5
  <2>2. lines[p] = <<Code(p, n)>>
    BY <1>8, <1>10 DEF InstructionsFrom
  <2>3. BytesOf(<<Code(p, n)>>) = p..(n - 1)
    BY <2>1, LinesFit, OneLine
  <2> HIDE DEF n
  <2>4. p..(p + Length[image[p]] - 1) \subseteq p..(n - 1)
    <3> DEFINE m == p + Length[image[p]]
    <3>1. m \in Nat /\ m <= n
      BY <2>1
    <3> HIDE DEF m
    <3>2. p..(m - 1) \subseteq p..(n - 1)
      BY <2>1, <3>1
    <3>3. m - 1 = p + Length[image[p]] - 1
      <4>1. Length[image[p]] \in Nat
        BY <1>5
      <4> QED BY <4>1 DEF m
    <3> QED BY <3>2, <3>3
  <2> QED BY <1>1, <1>7, <2>2, <2>3, <2>4
<1> QED BY <1>9, <1>10

-----------------------------------------------------------------------------
(* What dump_variable writes.                                              *)

Whole == StringsApart /\ NoFarPointers /\ OverlapsOutside

LEMMA EndByKind ==
  ASSUME TypeOK, NEW i \in DOMAIN variables
  PROVE  LET v == variables[i]
         IN  /\ v.start \in Nat /\ End(v) \in Nat
             /\ v.kind \in Arrays => End(v) = v.end
             /\ v.kind = "byte" => End(v) = v.start + 1
             /\ v.kind = "word" => End(v) = v.start + 2
             /\ v.kind = "far" => End(v) = v.start + 4
             /\ v.kind \in Arrays \cup {"byte", "word", "far"}
<1> DEFINE v == variables[i]
           Goal == /\ v.start \in Nat /\ End(v) \in Nat
                   /\ v.kind \in Arrays => End(v) = v.end
                   /\ v.kind = "byte" => End(v) = v.start + 1
                   /\ v.kind = "word" => End(v) = v.start + 2
                   /\ v.kind = "far" => End(v) = v.start + 4
                   /\ v.kind \in Arrays \cup {"byte", "word", "far"}
<1>1. v.start \in Nat /\ v.end \in Nat /\ v.kind \in Kinds
  BY Members, Limits
<1>2. Kinds = Arrays \cup {"byte", "word", "far"}
  BY DEF Kinds, SizeOf
<1>3. SizeOf["byte"] = 1 /\ SizeOf["word"] = 2 /\ SizeOf["far"] = 4
  BY DEF SizeOf
<1>4. {"byte", "word", "far"} \cap Arrays = {}
  BY DEF Arrays
<1>5. End(v) = IF v.kind \in Arrays THEN v.end ELSE v.start + SizeOf[v.kind]
  BY DEF End
<1>6. Goal
  <2> HIDE DEF v
  <2>1. CASE v.kind \in Arrays
    BY <1>1, <1>4, <1>5, <2>1
  <2>2. CASE v.kind = "byte"
    BY <1>1, <1>3, <1>4, <1>5, <2>2
  <2>3. CASE v.kind = "word"
    BY <1>1, <1>3, <1>4, <1>5, <2>3
  <2>4. CASE v.kind = "far"
    BY <1>1, <1>3, <1>4, <1>5, <2>4
  <2> QED BY <1>1, <1>2, <2>1, <2>2, <2>3, <2>4
<1> QED BY <1>6

(* A variable that no other one cuts short is printed to its end.          *)
LEMMA PrintedWhole ==
  ASSUME Types, HasVariable
  PROVE  /\ PrintLength \in Int
         /\ Whole /\ V.kind # "word" => V.start + PrintLength = End(V)
<1> DEFINE next == variable + 1
           S == {End(V)} \cup {variables[i].start : i \in {next} \cap DOMAIN variables}
<1>1. TypeOK /\ variable \in DOMAIN variables /\ V.start \in Nat /\ End(V) \in Nat
  BY EndOfVariable, Limits DEF Types
<1>2. S \in SUBSET Nat /\ S # {}
  BY <1>1, Members, Limits
<1>3. PrintLength = Min(S) - V.start
  BY DEF PrintLength
<1>4. Min(S) \in S /\ \A x \in S : Min(S) <= x
  <2> HIDE DEF S
  <2> QED BY <1>2, MinIsLeast
<1>5. PrintLength \in Int
  BY <1>1, <1>2, <1>3, <1>4
<1>6. ASSUME Whole, V.kind # "word"
      PROVE  V.start + PrintLength = End(V)
  <2>1. V.kind \in Arrays \cup {"byte"}
    <3>1. V.kind # "far"
      BY <1>1, <1>6 DEF Whole, NoFarPointers, Range, V
    <3> QED BY <1>1, <1>6, <3>1, EndByKind DEF V
  <2>2. ASSUME next \in DOMAIN variables
        PROVE  variables[next].start >= End(V)
    <3>1. variable < next
      BY <1>1, Members
    <3>2. CASE V.kind \in Arrays
      <4>1. Apart(variable, next)
        BY <1>1, <1>6, <2>2, <3>1, <3>2 DEF Whole, StringsApart, After, V
      <4>2. variables[next].start \in Nat
        BY <1>1, <2>2, Members, Limits
      <4> QED BY <1>1, <4>1, <4>2 DEF Apart, V
    <3>3. CASE V.kind = "byte"
      <4>1. V.start < variables[next].start /\ variables[next].start \in Nat
        BY <1>1, <2>2, <3>1, Members, Limits DEF Types, Setting, Sorted, V
      <4>2. End(V) = V.start + 1
        BY <1>1, <3>3, EndByKind DEF V
      <4> QED BY <1>1, <4>1, <4>2
    <3> QED BY <2>1, <3>2, <3>3
  <2>3. \A x \in S : x >= End(V)
    BY <1>1, <2>2
  <2>4. End(V) \in S
    OBVIOUS
  <2> HIDE DEF S
  <2>5. Min(S) = End(V)
    <3>1. Min(S) \in Nat /\ Min(S) >= End(V) /\ Min(S) <= End(V)
      BY <1>2, <1>4, <2>3, <2>4
    <3> QED BY <1>1, <3>1
  <2> QED BY <1>1, <1>3, <2>5
<1> QED BY <1>5, <1>6

LEMMA VariableIsWritten ==
  ASSUME Types, HasVariable
  PROVE  /\ VariableLines \in Seq(Line)
         /\ \E s \in Seq(Line) : VariableLines = <<Label("variable", V.start)>> \o s
         /\ Whole => V.start..(End(V) - 1) \subseteq BytesOf(VariableLines)
<1> DEFINE label == <<Label("variable", V.start)>>
           text == <<Data(V.start, V.end)>>
           word == <<Data(V.start, V.start + 2)>>
           far == <<Data(V.start, V.start + 2), Data(V.start + 4, V.start + 6)>>
           part == <<Data(V.start, V.start + PrintLength)>>
           rest == CASE IsText -> text
                     [] V.kind = "word" \/ (V.kind = "far" /\ PrintLength = 2) -> word
                     [] V.kind = "far" /\ PrintLength # 2 -> far
                     [] OTHER -> part
<1>1. TypeOK /\ variable \in DOMAIN variables /\ V.start \in Int /\ End(V) \in Int
      /\ V.end \in Int /\ PrintLength \in Int
  BY EndOfVariable, Members, Limits, PrintedWhole DEF Types, V
<1>2. label \in Seq(Line)
  BY <1>1, LinesFit, OneLine
<1>3. text \in Seq(Line) /\ BytesOf(text) = V.start..(V.end - 1)
  BY <1>1, LinesFit, OneLine
<1>4. word \in Seq(Line) /\ BytesOf(word) = V.start..((V.start + 2) - 1)
  <2>1. V.start + 2 \in Int
    BY <1>1
  <2> QED BY <1>1, <2>1, LinesFit, OneLine
<1>5. far \in Seq(Line)
  <2>1. V.start + 2 \in Int /\ V.start + 4 \in Int /\ V.start + 6 \in Int
    BY <1>1
  <2>2. Data(V.start, V.start + 2) \in Line /\ Data(V.start + 4, V.start + 6) \in Line
    BY <1>1, <2>1, LinesFit
  <2> QED BY <2>2
<1>6. part \in Seq(Line) /\ BytesOf(part) = V.start..((V.start + PrintLength) - 1)
  <2>1. V.start + PrintLength \in Int
    BY <1>1
  <2> QED BY <1>1, <2>1, LinesFit, OneLine
<1>7. VariableLines = label \o rest
  BY DEF VariableLines
<1> HIDE DEF label, text, word, far, part
<1>8. rest \in {text, word, far, part}
  OBVIOUS
<1>9. rest \in Seq(Line)
  BY <1>3, <1>4, <1>5, <1>6, <1>8
<1>10. ASSUME Whole
       PROVE  V.start..(End(V) - 1) \subseteq BytesOf(rest)
  <2>1. V.kind # "far"
    BY <1>1, <1>10 DEF Whole, NoFarPointers, Range, V
  <2>2. CASE IsText
    <3>1. rest = text
      <4>1. V.kind \notin {"word", "far"}
        BY <2>2 DEF IsText
      <4> QED BY <2>2, <4>1
    <3>2. V.kind \in Arrays
      BY <2>2 DEF IsText, Arrays
    <3>3. End(V) = V.end
      BY <1>1, <3>2, EndByKind DEF V
    <3> QED BY <1>3, <3>1, <3>3
  <2>3. CASE V.kind = "word"
    <3>1. ~IsText
      BY <2>3 DEF IsText
    <3>2. rest = word
      BY <2>3, <3>1
    <3>3. End(V) = V.start + 2
      BY <1>1, <2>3, EndByKind DEF V
    <3> QED BY <1>4, <3>2, <3>3
  <2>4. CASE ~IsText /\ V.kind # "word"
    <3>1. rest = part
      BY <2>1, <2>4
    <3>2. V.start + PrintLength = End(V)
      BY <1>10, <2>4, PrintedWhole
    <3> QED BY <1>6, <3>1, <3>2
  <2> QED BY <2>2, <2>3, <2>4
<1>11. \E s \in Seq(Line) : VariableLines = <<Label("variable", V.start)>> \o s
  BY <1>7, <1>9 DEF label
<1> HIDE DEF rest
<1> QED BY <1>2, <1>7, <1>9, <1>10, <1>11, LinesAppended

-----------------------------------------------------------------------------
(* No byte is left out.                                                    *)

BlockBytes(i) == blocks[i].start..(blocks[i].end - 1)
VariableBytes(i) == variables[i].start..(End(variables[i]) - 1)

(* What is in the listing when dump is at a position with the indexes b    *)
(* and v: the blocks and variables before, and the block b as far as the   *)
(* position.  Only with instructions no longer told apart may the position *)
(* be inside a variable that is still to be written, and then an earlier   *)
(* variable reaches into this one.                                         *)
Covered(b, v, at, undecoded, written) ==
  /\ \A i \in DOMAIN blocks : i < b => BlockBytes(i) \subseteq written
  /\ \A i \in DOMAIN variables : i < v => VariableBytes(i) \subseteq written
  /\ b \in DOMAIN blocks => \A p \in BlockBytes(b) : p < at => p \in written
  /\ undecoded /\ v \in DOMAIN variables
       /\ variables[v].start < at /\ at < End(variables[v]) =>
       \E i \in DOMAIN variables : i < v /\ ~Apart(i, v)

Rest ==
  /\ listing \in Seq(Line)
  /\ unknown => InBlock
  /\ phase \in {"dump", "done"} /\ position = None => ~HasBlock /\ ~HasVariable
  /\ phase = "done" => position = None
  /\ Whole => Covered(block, variable, position, unknown, Written)

LEMMA IndexesInUse ==
  ASSUME Types
  PROVE  /\ HasBlock <=> block \in DOMAIN blocks
         /\ HasVariable <=> variable \in DOMAIN variables
         /\ block \in Nat /\ variable \in Nat
         /\ \A i \in DOMAIN blocks : i \in Nat /\ BlockBytes(i) \subseteq Nat
         /\ \A i \in DOMAIN variables : i \in Nat
<1>1. TypeOK
  BY DEF Types
<1>2. \A i \in DOMAIN blocks : BlockBytes(i) \subseteq Nat
  BY <1>1, Members, Limits DEF BlockBytes
<1> QED BY <1>1, <1>2, Members DEF TypeOK, HasBlock, HasVariable

LEMMA BeforeAnyByte ==
  ASSUME Types, NEW at, at \in 0..Size \cup {None}, NEW written,
         1 \in DOMAIN blocks => at <= blocks[1].start
  PROVE  Covered(1, 1, at, FALSE, written)
<1>1. ASSUME 1 \in DOMAIN blocks, NEW p \in BlockBytes(1)
      PROVE  ~(p < at)
  <2>1. blocks[1].start \in Int /\ blocks[1].end \in Int /\ at \in Int /\ at <= blocks[1].start
    BY <1>1, Members, Limits DEF Types, None
  <2> QED BY <2>1 DEF BlockBytes
<1> QED BY <1>1, IndexesInUse, Members DEF Covered, Types

(* The step from one position to the next.                                 *)
LEMMA StepCovers ==
  ASSUME Types, Rest, Dumping, NEW lines \in Seq(Line), Write(lines),
         unknown' => InBlock',
         position' = None => ~HasBlock' /\ ~HasVariable',
         ASSUME Whole, Covered(block, variable, position, unknown, Written),
                BytesOf(lines) \subseteq Written', Written \subseteq Written'
         PROVE  Covered(block', variable', position', unknown', Written')
  PROVE  Rest'
<1>1. position \in Int /\ phase' = "dump" /\ blocks' = blocks /\ variables' = variables
  BY DumpingFacts DEF program
<1>2. listing' \in Seq(Line) /\ Written \subseteq Written' /\ BytesOf(lines) \subseteq Written'
  BY <1>1, WritingAppends DEF Rest
<1>3. Whole' => Whole
  BY <1>1 DEF Whole, StringsApart, NoFarPointers, OverlapsOutside, After, Apart, Range, End
<1>4. Whole => Covered(block', variable', position', unknown', Written')
  BY <1>2 DEF Rest
<1>5. Covered(block', variable', position', unknown', Written') =>
        Covered(block, variable, position, unknown, Written)'
  BY <1>1 DEF Covered, BlockBytes, VariableBytes, Apart, End
<1> QED BY <1>1, <1>2, <1>3, <1>4, <1>5 DEF Rest

(* Outside of a block, dump goes on at most at the start of the next one.  *)
LEMMA OutsideCovers ==
  ASSUME Types, Rest, Dumping, ~InBlock,
         NEW lines \in Seq(Line), Write(lines),
         NEW v \in {variable, variable + 1}, variable' = v,
         position' = DeterminePosition(SegmentAfter, block, v),
         UNCHANGED <<block, unknown>>,
         Whole /\ v # variable => VariableBytes(variable) \subseteq BytesOf(lines)
  PROVE  Rest'
<1>1. unknown = FALSE
  BY DEF Rest, Types, TypeOK
<1>2. /\ block' = block /\ unknown' = FALSE
      /\ blocks' = blocks /\ variables' = variables
  BY <1>1, DumpingFacts DEF program
<1>3. /\ block \in DOMAIN blocks => position' # None /\ position' <= blocks[block].start
      /\ v \in DOMAIN variables => position' # None
  BY NextPosition
<1>4. position' = None => ~HasBlock' /\ ~HasVariable'
  <2>1. Len(blocks) \in Nat /\ Len(variables) \in Nat /\ v \in 1..(Len(variables) + 2)
        /\ DOMAIN blocks = 1..Len(blocks) /\ DOMAIN variables = 1..Len(variables)
        /\ block \in 1..(Len(blocks) + 1)
    BY Members DEF Types, TypeOK
  <2> QED BY <1>2, <1>3, <2>1 DEF HasBlock, HasVariable
<1>5. position' \in 0..Size \cup {None}
  BY NextPosition
<1>6. ASSUME Whole, Covered(block, variable, position, unknown, Written),
             BytesOf(lines) \subseteq Written', Written \subseteq Written'
      PROVE  Covered(block, v, position', FALSE, Written')
  <2>1. ASSUME block \in DOMAIN blocks, NEW p \in BlockBytes(block)
        PROVE  ~(p < position')
    <3>1. blocks[block].start \in Int /\ blocks[block].end \in Int /\ position' \in Int
          /\ position' <= blocks[block].start
      BY <1>3, <1>5, <2>1, Members, Limits DEF Types, None
    <3> QED BY <2>1, <3>1 DEF BlockBytes
  <2>2. ASSUME NEW i \in DOMAIN variables, i < v
        PROVE  VariableBytes(i) \subseteq Written'
    <3>1. CASE i < variable
      BY <1>6, <3>1 DEF Covered
    <3>2. CASE ~(i < variable)
      <4>1. i = variable /\ v # variable
        BY <2>2, <3>2, IndexesInUse
      <4> QED BY <1>6, <4>1
    <3> QED BY <3>1, <3>2
  <2>3. \A i \in DOMAIN blocks : i < block => BlockBytes(i) \subseteq Written'
    BY <1>6 DEF Covered
  <2> QED BY <2>1, <2>2, <2>3 DEF Covered
<1>7. unknown' => InBlock'
  BY <1>2
<1> QED BY <1>2, <1>4, <1>6, <1>7, StepCovers

(* Inside a block, or with a variable that reaches into it, the lines      *)
(* written are those of the bytes from one position to the next.           *)
LEMMA MoveOnCovers ==
  ASSUME Types, Rest, Dumping, HasBlock,
         NEW lines \in Seq(Line), Write(lines),
         NEW q \in Nat, NEW v \in {variable, variable + 1}, NEW found \in BOOLEAN,
         MoveOn(q, v, found),
         found => B.start <= q,
         Whole /\ v # variable => VariableBytes(variable) \subseteq BytesOf(lines),
         Whole => \A p \in BlockBytes(block) : position <= p /\ p < q => p \in BytesOf(lines),
         Whole /\ found /\ v \in DOMAIN variables
             /\ variables[v].start < q /\ q < End(variables[v])
           => \E i \in DOMAIN variables : i < v /\ ~Apart(i, v)
  PROVE  Rest'
<1>1. /\ position \in Nat /\ block \in DOMAIN blocks /\ block \in Nat
      /\ blocks' = blocks /\ variables' = variables
      /\ B = blocks[block] /\ variable' = v
  BY DumpingFacts, IndexesInUse DEF program, B, MoveOn
<1>2. blocks[block].start \in Int /\ blocks[block].end \in Int
  BY <1>1, Members, Limits DEF Types
<1>3. ASSUME Whole, Covered(block, variable, position, unknown, Written),
             BytesOf(lines) \subseteq Written', Written \subseteq Written'
      PROVE  /\ \A i \in DOMAIN blocks : i < block => BlockBytes(i) \subseteq Written'
             /\ \A i \in DOMAIN variables : i < v => VariableBytes(i) \subseteq Written'
             /\ \A p \in BlockBytes(block) : p < q => p \in Written'
  <2>1. ASSUME NEW i \in DOMAIN variables, i < v
        PROVE  VariableBytes(i) \subseteq Written'
    <3>1. CASE i < variable
      BY <1>3, <3>1 DEF Covered
    <3>2. CASE ~(i < variable)
      <4>1. i = variable /\ v # variable
        BY <2>1, <3>2, IndexesInUse
      <4> QED BY <1>3, <4>1
    <3> QED BY <3>1, <3>2
  <2>2. ASSUME NEW p \in BlockBytes(block), p < q
        PROVE  p \in Written'
    <3>1. p \in Int
      BY <1>1, IndexesInUse
    <3>2. CASE p < position
      BY <1>1, <1>3, <3>2 DEF Covered
    <3>3. CASE ~(p < position)
      BY <1>1, <1>3, <2>2, <3>1, <3>3
    <3> QED BY <3>2, <3>3
  <2>3. \A i \in DOMAIN blocks : i < block => BlockBytes(i) \subseteq Written'
    BY <1>3 DEF Covered
  <2> QED BY <2>1, <2>2, <2>3
<1>4. CASE q >= B.end
  <2>1. /\ unknown' = FALSE /\ block' = block + 1
        /\ position' = DeterminePosition(SegmentAfter, block + 1, v)
    BY <1>4 DEF MoveOn
  <2>2. /\ block + 1 \in DOMAIN blocks =>
             position' # None /\ position' <= blocks[block + 1].start
        /\ v \in DOMAIN variables => position' # None
        /\ position' \in 0..Size \cup {None}
    BY <2>1, NextPosition
  <2>3. position' = None => ~HasBlock' /\ ~HasVariable'
    <3>1. Len(blocks) \in Nat /\ Len(variables) \in Nat /\ v \in 1..(Len(variables) + 2)
          /\ DOMAIN blocks = 1..Len(blocks) /\ DOMAIN variables = 1..Len(variables)
          /\ block \in 1..Len(blocks)
      BY <1>1, Members DEF Types, TypeOK
    <3> QED BY <1>1, <2>1, <2>2, <3>1 DEF HasBlock, HasVariable
  <2>4. ASSUME Whole, Covered(block, variable, position, unknown, Written),
               BytesOf(lines) \subseteq Written', Written \subseteq Written'
        PROVE  Covered(block + 1, v, position', FALSE, Written')
    <3>1. BlockBytes(block) \subseteq Written'
      <4>1. \A p \in BlockBytes(block) : p < q
        BY <1>1, <1>2, <1>4 DEF BlockBytes
      <4> QED BY <1>3, <2>4, <4>1
    <3>2. ASSUME NEW i \in DOMAIN blocks, i < block + 1
          PROVE  BlockBytes(i) \subseteq Written'
      <4>1. i < block \/ i = block
        BY <1>1, <3>2, IndexesInUse
      <4> QED BY <1>3, <2>4, <3>1, <4>1
    <3>3. ASSUME block + 1 \in DOMAIN blocks, NEW p \in BlockBytes(block + 1)
          PROVE  ~(p < position')
      <4>1. blocks[block + 1].start \in Int /\ blocks[block + 1].end \in Int
            /\ position' \in Int /\ position' <= blocks[block + 1].start
        BY <2>2, <3>3, Members, Limits DEF Types, None
      <4> QED BY <3>3, <4>1 DEF BlockBytes
    <3> QED BY <1>3, <2>4, <3>2, <3>3 DEF Covered
  <2>5. unknown' => InBlock'
    BY <2>1
  <2> QED BY <1>1, <2>1, <2>3, <2>4, <2>5, StepCovers
<1>5. CASE ~(q >= B.end)
  <2>1. unknown' = found /\ block' = block /\ position' = q
    BY <1>5 DEF MoveOn
  <2>2. position' # None
    BY <2>1 DEF None
  <2>3. unknown' => InBlock'
    <3>1. found => B.start <= q /\ q < B.end
      BY <1>1, <1>2, <1>5
    <3>2. HasBlock' /\ B' = B
      BY <1>1, <2>1 DEF HasBlock, B
    <3> QED BY <2>1, <3>1, <3>2 DEF InBlock
  <2>4. ASSUME Whole, Covered(block, variable, position, unknown, Written),
               BytesOf(lines) \subseteq Written', Written \subseteq Written'
        PROVE  Covered(block, v, q, found, Written')
    BY <1>1, <1>3, <2>4 DEF Covered
  <2> QED BY <1>1, <2>1, <2>2, <2>3, <2>4, StepCovers
<1> QED BY <1>4, <1>5

LEMMA OutsideStepsCover ==
  ASSUME Types, Rest, Gap \/ DumpVariable
  PROVE  Rest'
<1>1. CASE Gap
  <2>1. /\ Dumping /\ ~InBlock /\ Write(<<>>) /\ variable' = variable
        /\ position' = DeterminePosition(SegmentAfter, block, variable)
        /\ UNCHANGED <<block, unknown>>
    BY <1>1 DEF Gap
  <2> QED BY <2>1, NoLine, OutsideCovers
<1>2. CASE DumpVariable
  <2>1. /\ Dumping /\ ~InBlock /\ HasVariable /\ Write(VariableLines)
        /\ variable' = variable + 1
        /\ position' = DeterminePosition(SegmentAfter, block, variable + 1)
        /\ UNCHANGED <<block, unknown>>
    BY <1>2 DEF DumpVariable, InVariable
  <2>2. /\ VariableLines \in Seq(Line)
        /\ Whole => VariableBytes(variable) \subseteq BytesOf(VariableLines)
    BY <2>1, VariableIsWritten DEF VariableBytes, V
  <2> QED BY <2>1, <2>2, OutsideCovers
<1> QED BY <1>1, <1>2

(* What a line of code or data in a block writes.                          *)
LEMMA CodeCovers ==
  ASSUME Types, Rest, DumpByte \/ DumpUndecoded \/ DumpInstruction
  PROVE  Rest'
<1>1. Dumping /\ InBlock /\ ~InVariable /\ HasBlock
  BY DEF DumpByte, DumpUndecoded, DumpInstruction, InBlock
<1>2. /\ position \in Nat /\ B.start \in Int /\ B.end \in Int
      /\ B.start <= position /\ position < B.end /\ B = blocks[block]
  BY <1>1, DumpingFacts, DecodesForward, Limits DEF InBlock, B
<1>3. CASE DumpByte \/ DumpUndecoded
  <2> DEFINE data == <<Data(position, position + 1)>>
             lines == CodeLabel \o data
  <2>1. Write(lines) /\ MoveOn(position + 1, variable, TRUE)
    BY <1>3, Zenon DEF DumpByte, DumpUndecoded
  <2>2. position + 1 \in Int /\ (position + 1) - 1 = position
    BY <1>2
  <2>3. data \in Seq(Line) /\ BytesOf(data) = position..((position + 1) - 1)
    <3> DEFINE to == position + 1
    <3>1. position \in Int /\ to \in Int
      BY <1>2, <2>2
    <3> HIDE DEF to
    <3>2. <<Data(position, to)>> \in Seq(Line)
          /\ BytesOf(<<Data(position, to)>>) = position..(to - 1)
      BY <3>1, LinesFit, OneLine
    <3> QED BY <3>2 DEF to
  <2> HIDE DEF data
  <2>4. lines \in Seq(Line) /\ position \in BytesOf(lines)
    BY <1>2, <2>2, <2>3, LabelFirst
  <2> HIDE DEF lines
  <2>5. \A p \in BlockBytes(block) :
          position <= p /\ p < position + 1 => p \in BytesOf(lines)
    BY <1>2, <2>4 DEF BlockBytes
  <2>6. ~(variable \in DOMAIN variables
            /\ variables[variable].start < position + 1
            /\ position + 1 < End(variables[variable]))
    <3> SUFFICES ASSUME variable \in DOMAIN variables,
                        variables[variable].start < position + 1,
                        position + 1 < End(variables[variable])
                 PROVE  FALSE
      OBVIOUS
    <3>1. HasVariable /\ V = variables[variable]
      BY IndexesInUse DEF V
    <3>2. V.start \in Int /\ End(V) \in Int
      BY <3>1, EndOfVariable, Limits
    <3>3. V.start <= position /\ position < End(V)
      BY <1>2, <3>1, <3>2
    <3> QED BY <1>1, <3>1, <3>3 DEF InVariable
  <2>7. position + 1 \in Nat /\ B.start <= position + 1 /\ variable \in {variable, variable + 1}
    BY <1>2
  <2> QED BY <1>1, <2>1, <2>4, <2>5, <2>6, <2>7, MoveOnCovers
<1>4. CASE DumpInstruction
  <2> DEFINE q == position + Length[image[position]]
             lines == CodeLabel \o Instructions(position)
  <2>1. ~Fails(position) /\ Write(lines) /\ (HasVariable => q <= V.start)
    BY <1>4 DEF DumpInstruction
  <2>9. PICK found \in FindsUnknown(position) : MoveOn(q, variable, found)
    BY <1>4 DEF DumpInstruction
  <2>10. found \in BOOLEAN
    BY <2>9, UnknownOrNot
  <2>2. q \in Nat /\ Length[image[position]] \in Nat
    BY <1>1, <1>2, <2>1, DecodesForward
  <2>3. position < Size
    <3>1. B.end \in 0..Size /\ Size \in Nat
      BY <1>1, <1>2, DecodesForward, Limits
    <3> QED BY <1>2, <3>1
  <2>4. /\ Instructions(position) \in Seq(Line)
        /\ position..(position + Length[image[position]] - 1) \subseteq BytesOf(Instructions(position))
    BY <1>2, <2>3, InstructionIsWritten
  <2>5. position + Length[image[position]] - 1 = q - 1
    BY <1>2, <2>2
  <2>6. lines \in Seq(Line) /\ position..(q - 1) \subseteq BytesOf(lines)
    BY <1>2, <2>4, <2>5, LabelFirst
  <2> HIDE DEF lines, q
  <2>7. \A p \in BlockBytes(block) : position <= p /\ p < q => p \in BytesOf(lines)
    <3> SUFFICES ASSUME NEW p \in BlockBytes(block), position <= p, p < q
                 PROVE  p \in BytesOf(lines)
      OBVIOUS
    <3>1. p \in Int
      BY <1>2 DEF BlockBytes
    <3>2. p \in position..(q - 1)
      BY <1>2, <2>2, <3>1
    <3> QED BY <2>6, <3>2
  <2>8. variable \in {variable, variable + 1} /\ B.start <= q
    BY <1>2, <2>2 DEF q
  <2>11. variable \in DOMAIN variables => ~(variables[variable].start < q)
    <3>1. ASSUME variable \in DOMAIN variables
          PROVE  HasVariable /\ V = variables[variable] /\ V.start \in Int
      BY <3>1, IndexesInUse, EndOfVariable, Limits DEF V
    <3> QED BY <2>1, <2>2, <3>1
  <2> QED BY <1>1, <2>1, <2>2, <2>6, <2>7, <2>8, <2>9, <2>10, <2>11, MoveOnCovers
<1> QED BY <1>3, <1>4

(* In the bytes of an undecoded block, the position is at the start of the *)
(* variable: what overlaps is outside of the blocks.                       *)
LEMMA BytesCover ==
  ASSUME Types, Rest, DumpVariableInBytes
  PROVE  Rest'
<1>1. /\ Dumping /\ InVariable /\ HasBlock /\ HasVariable /\ unknown /\ InBlock
      /\ Write(CodeLabel \o VariableLines)
      /\ MoveOn(position + End(V) - V.start, variable + 1, TRUE)
  BY DEF DumpVariableInBytes, Overlapping, InVariable, Rest
<1>2. /\ position \in Nat /\ B.start \in Int /\ B.end \in Int
      /\ B.start <= position /\ position < B.end
      /\ B = blocks[block] /\ block \in DOMAIN blocks
  BY <1>1, DumpingFacts, DecodesForward, IndexesInUse, Limits DEF InBlock, B
<1>3. /\ variable \in DOMAIN variables /\ V = variables[variable]
      /\ V.start \in Nat /\ End(V) \in Nat
      /\ V.start <= position /\ position < End(V)
  BY <1>1, EndOfVariable, Limits DEF InVariable, V
<1> DEFINE q == position + End(V) - V.start
           lines == CodeLabel \o VariableLines
<1>4. q \in Nat /\ B.start <= q /\ position < q
  BY <1>2, <1>3
<1>5. lines \in Seq(Line) /\ (Whole => VariableBytes(variable) \subseteq BytesOf(lines))
  BY <1>1, <1>2, <1>3, VariableIsWritten, LabelFirst DEF VariableBytes
<1>6. ASSUME Whole
      PROVE  position = V.start
  <2> SUFFICES ASSUME V.start < position PROVE FALSE
    BY <1>2, <1>3
  <2>1. PICK i \in DOMAIN variables : i < variable /\ ~Apart(i, variable)
    BY <1>1, <1>3, <1>6 DEF Rest, Covered
  <2>2. variable \in After(i) /\ B \in Range(blocks)
    BY <1>2, <1>3, <2>1 DEF After, Range
  <2>3. End(V) <= B.start \/ B.end <= V.start
    BY <1>3, <1>6, <2>1, <2>2 DEF Whole, OverlapsOutside
  <2> QED BY <1>2, <1>3, <2>3
<1>7. Whole => q = End(V)
  BY <1>2, <1>3, <1>6
<1>8. Write(lines) /\ MoveOn(q, variable + 1, TRUE)
  BY <1>1
<1> HIDE DEF q, lines
<1>9. ASSUME Whole, NEW p \in BlockBytes(block), position <= p, p < q
      PROVE  p \in BytesOf(lines)
  <2>1. p \in Int
    BY <1>2 DEF BlockBytes
  <2>2. p \in VariableBytes(variable)
    BY <1>2, <1>3, <1>7, <1>9, <2>1 DEF VariableBytes
  <2> QED BY <1>5, <1>9, <2>2
<1>10. ASSUME Whole, variable + 1 \in DOMAIN variables,
              variables[variable + 1].start < q
       PROVE  \E i \in DOMAIN variables : i < variable + 1 /\ ~Apart(i, variable + 1)
  <2>1. variable < variable + 1
    BY IndexesInUse
  <2>2. variables[variable + 1].start \in Int
    BY <1>10, Members DEF Types
  <2>3. ~Apart(variable, variable + 1)
    BY <1>3, <1>7, <1>10, <2>2 DEF Apart
  <2> QED BY <1>3, <2>1, <2>3
<1> QED BY <1>1, <1>4, <1>5, <1>8, <1>9, <1>10, MoveOnCovers

(* Among instructions, the bytes of the last one that the variable does    *)
(* not stand for are written behind it.                                    *)
LEMMA InstructionsCover ==
  ASSUME Types, Rest, DumpVariableInCode
  PROVE  Rest'
<1>1. Dumping /\ InVariable /\ HasBlock /\ HasVariable
  BY DEF DumpVariableInCode, Overlapping, InVariable
<1>2. /\ position \in Nat /\ B.start \in Int /\ B.end \in Int
      /\ B = blocks[block] /\ block \in DOMAIN blocks
  BY <1>1, DumpingFacts, DecodesForward, IndexesInUse, Limits DEF B
<1>3. /\ variable \in DOMAIN variables /\ V = variables[variable]
      /\ V.start \in Nat /\ End(V) \in Nat
      /\ V.start <= position /\ position < End(V)
  BY <1>1, EndOfVariable, Limits DEF InVariable, V
<1> DEFINE Behind(q) == IF q > End(V) THEN <<Data(End(V), q)>> ELSE <<>>
<1>4. PICK next \in Passed :
        /\ Write(CodeLabel \o VariableLines \o Behind(Max({End(V), next})))
        /\ MoveOn(Max({End(V), next}), variable + 1, FALSE)
  BY Zenon DEF DumpVariableInCode
<1> DEFINE q == Max({End(V), next})
           rest == Behind(q)
           whole == VariableLines \o rest
           lines == CodeLabel \o whole
<1>5. q \in Nat /\ End(V) <= q
  <2>1. next \in Nat
    BY <1>1, <1>2, PassedIsAhead
  <2> QED BY <1>3, <2>1, MaxOfTwo
<1>6. rest \in Seq(Line) /\ End(V)..(q - 1) \subseteq BytesOf(rest)
  <2> HIDE DEF q
  <2>1. CASE q > End(V)
    <3>1. rest = <<Data(End(V), q)>>
      BY <2>1
    <3>2. <<Data(End(V), q)>> \in Seq(Line) /\ BytesOf(<<Data(End(V), q)>>) = End(V)..(q - 1)
      BY <1>3, <1>5, LinesFit, OneLine
    <3> QED BY <3>1, <3>2
  <2>2. CASE ~(q > End(V))
    <3>1. rest = <<>>
      BY <2>2
    <3>2. End(V)..(q - 1) = {}
      BY <1>3, <1>5, <2>2
    <3> QED BY <3>1, <3>2, NoLine
  <2> QED BY <2>1, <2>2
<1>7. MoveOn(q, variable + 1, FALSE)
  BY <1>4
<1>8. Write((CodeLabel \o VariableLines) \o rest)
  BY <1>4
<1>9. /\ VariableLines \in Seq(Line)
      /\ Whole => VariableBytes(variable) \subseteq BytesOf(VariableLines)
  BY <1>1, <1>3, VariableIsWritten DEF VariableBytes
<1> HIDE DEF q, rest, Behind
<1> DEFINE written == (CodeLabel \o VariableLines) \o rest
<1>10. /\ written \in Seq(Line)
       /\ BytesOf(VariableLines) \subseteq BytesOf(written)
       /\ BytesOf(rest) \subseteq BytesOf(written)
  <2>1. CodeLabel \o VariableLines \in Seq(Line)
        /\ BytesOf(VariableLines) \subseteq BytesOf(CodeLabel \o VariableLines)
    BY <1>2, <1>9, LabelFirst
  <2> QED BY <1>6, <2>1, LinesAppended
<1>11. Write(written)
  BY <1>8
<1> HIDE DEF written
<1>12. Whole => VariableBytes(variable) \subseteq BytesOf(written)
  BY <1>9, <1>10
<1>13. ASSUME Whole, NEW p \in BlockBytes(block), position <= p, p < q
       PROVE  p \in BytesOf(written)
  <2>1. p \in Int
    BY <1>2 DEF BlockBytes
  <2>2. CASE p < End(V)
    <3>1. p \in VariableBytes(variable)
      BY <1>2, <1>3, <1>13, <2>1, <2>2 DEF VariableBytes
    <3> QED BY <1>12, <1>13, <3>1
  <2>3. CASE ~(p < End(V))
    <3>1. p \in End(V)..(q - 1)
      BY <1>3, <1>5, <1>13, <2>1, <2>3
    <3> QED BY <1>6, <1>10, <3>1
  <2> QED BY <2>2, <2>3
<1> QED BY <1>1, <1>5, <1>7, <1>10, <1>11, <1>12, <1>13, MoveOnCovers

LEMMA NextRest ==
  ASSUME Types, Rest, [Next]_vars
  PROVE  Rest'
<1>1. Types'
  BY NextTypes
<1>2. CASE KeepEnd \/ SetVariableEnd
  <2>1. phase' \in {"ends", "aborted"} /\ UNCHANGED <<blocks, cursor>> /\ phase = "ends"
    BY <1>2 DEF KeepEnd, SetVariableEnd, program
  <2>2. block = 1 /\ variable = 1 /\ position = None /\ unknown = FALSE
    BY <2>1 DEF Types, Fresh
  <2>3. block' = 1 /\ variable' = 1 /\ position' = None /\ unknown' = FALSE
        /\ listing' = listing /\ blocks' = blocks
    BY <2>1, <2>2 DEF cursor
  <2>4. Covered(1, 1, None, FALSE, Written)'
    <3>1. 1 \in DOMAIN blocks' => None <= blocks'[1].start
      <4>1. 1 \in DOMAIN blocks => blocks[1].start \in Nat
        BY Members, Limits DEF Types
      <4> QED BY <2>3, <4>1 DEF None
    <3>2. \A i \in DOMAIN blocks' : i \in Nat /\ BlockBytes(i)' \subseteq Nat
      <4>1. \A i \in DOMAIN blocks : i \in Nat /\ BlockBytes(i) \subseteq Nat
        BY IndexesInUse
      <4> QED BY <2>3, <4>1 DEF BlockBytes
    <3>3. \A i \in DOMAIN variables' : i \in Nat /\ ~(i < 1)
      <4>1. TypeOK'
        BY <1>1 DEF Types
      <4>2. variables' \in Seq(Variable)'
        BY <4>1 DEF TypeOK
      <4> QED BY <4>2 DEF Variable
    <3>4. \A i \in DOMAIN blocks' : ~(i < 1)
      BY <2>3, Members DEF Types
    <3>5. \A p \in Nat : ~(p < None)
      BY DEF None
    <3> QED BY <3>2, <3>3, <3>4, <3>5 DEF Covered, BlockBytes
  <2>5. Covered(block, variable, position, unknown, Written)'
    BY <2>3, <2>4
  <2>6. phase' \notin {"dump", "done"}
    BY <2>1
  <2> QED BY <2>3, <2>5, <2>6 DEF Rest
<1>3. CASE BeginDump
  <2>1. /\ phase = "ends" /\ phase' = "dump" /\ position' = DeterminePosition(1, 1, 1)
        /\ UNCHANGED <<blocks, variables, block, variable, unknown, listing>>
    BY <1>3 DEF BeginDump, program
  <2>2. block = 1 /\ variable = 1 /\ unknown = FALSE
    BY <2>1 DEF Types, Fresh
  <2>3. /\ position' \in 0..Size \cup {None}
        /\ 1 \in DOMAIN blocks => position' # None /\ position' <= blocks[1].start
        /\ 1 \in DOMAIN variables => position' # None
    BY <2>1, NextPosition
  <2>4. Covered(1, 1, position', FALSE, Written')
    BY <2>3, BeforeAnyByte
  <2>5. Covered(block, variable, position, unknown, Written)'
    BY <2>1, <2>2, <2>4 DEF Covered, BlockBytes, VariableBytes, Apart, End
  <2>6. position' = None => ~HasBlock' /\ ~HasVariable'
    <3>1. (HasBlock <=> 1 \in DOMAIN blocks) /\ (HasVariable <=> 1 \in DOMAIN variables)
      BY <2>2, IndexesInUse
    <3> QED BY <2>1, <2>3, <3>1 DEF HasBlock, HasVariable
  <2> QED BY <2>1, <2>2, <2>5, <2>6 DEF Rest
<1>4. CASE Finish
  <2>1. /\ phase = "dump" /\ position = None /\ phase' = "done"
        /\ UNCHANGED <<blocks, variables, block, variable, position, unknown, listing>>
    BY <1>4 DEF Finish, program, cursor
  <2> QED BY <2>1 DEF Rest, HasBlock, HasVariable, InBlock, B, Whole, StringsApart,
                      NoFarPointers, OverlapsOutside, After, Apart, Range, End,
                      Covered, BlockBytes, VariableBytes, Written, Lines, Bytes
<1>5. CASE Stopped \/ UNCHANGED vars
  <2>1. UNCHANGED <<phase, blocks, variables, block, variable, position, unknown, listing>>
    BY <1>5 DEF Stopped, vars, program, cursor
  <2> QED BY <2>1 DEF Rest, HasBlock, HasVariable, InBlock, B, Whole, StringsApart,
                      NoFarPointers, OverlapsOutside, After, Apart, Range, End,
                      Covered, BlockBytes, VariableBytes, Written, Lines, Bytes
<1> QED BY <1>2, <1>3, <1>4, <1>5, OutsideStepsCover, CodeCovers, BytesCover,
           InstructionsCover DEF Next

LEMMA InitRest == Init => Rest
<1> SUFFICES ASSUME Init PROVE Rest
  OBVIOUS
<1>1. Types
  BY InitTypes
<1>2. /\ phase = "ends" /\ block = 1 /\ variable = 1 /\ position = None
      /\ unknown = FALSE /\ listing = <<>>
  BY DEF Init
<1>3. 1 \in DOMAIN blocks => None <= blocks[1].start
  BY <1>1, Members, Limits DEF None, Types
<1>4. Covered(1, 1, None, FALSE, Written)
  BY <1>1, <1>3, BeforeAnyByte
<1> QED BY <1>2, <1>4, NoLine DEF Rest

(* Behind the last block and the last variable, all of them are covered.   *)
LEMMA EverythingWritten == Types /\ Rest => Complete
<1> SUFFICES ASSUME Types, Rest, phase = "done", Whole
             PROVE  InBlocks \cup InVariables \subseteq Written
  BY DEF Complete, Whole
<1>1. ~HasBlock /\ ~HasVariable /\ Covered(block, variable, position, unknown, Written)
  BY DEF Rest
<1>2. /\ \A i \in DOMAIN blocks : i < block
      /\ \A i \in DOMAIN variables : i < variable
  BY <1>1, Members DEF HasBlock, HasVariable, Types, TypeOK
<1>3. /\ \A i \in DOMAIN blocks : BlockBytes(i) \subseteq Written
      /\ \A i \in DOMAIN variables : VariableBytes(i) \subseteq Written
  BY <1>1, <1>2 DEF Covered
<1>4. InBlocks \subseteq Written
  BY <1>3 DEF InBlocks, Range, BlockBytes
<1>5. InVariables \subseteq Written
  BY <1>3 DEF InVariables, Range, VariableBytes
<1> QED BY <1>4, <1>5

(* Whatever instructions, blocks and variables a program has, and however  *)
(* they overlap within what Complete leaves aside, dump writes every byte  *)
(* of its blocks and of its variables.                                     *)
THEOREM NoByteLeftOut == Spec => []Complete
<1>1. Init => Types /\ Rest
  BY InitTypes, InitRest
<1>2. Types /\ Rest /\ [Next]_vars => (Types /\ Rest)'
  BY NextTypes, NextRest
<1>3. Types /\ Rest => Complete
  BY EverythingWritten
<1> QED BY <1>1, <1>2, <1>3, PTL DEF Spec

-----------------------------------------------------------------------------
(* Lines in the order of their bytes.                                      *)

(* The listing is laid out in order under these: what InOrder leaves aside *)
(* is excluded.                                                            *)
Plain == VariablesApart /\ NoFarPointers /\ NoFarJumps /\ OpcodesApart

(* Lines that stand for bytes from one position to another, in order.      *)
Run(s, from, to) ==
  /\ s \in Seq(Line)
  /\ \A i \in DOMAIN s : from <= s[i].from /\ s[i].to <= to
  /\ \A i, j \in DOMAIN s : i < j => s[i].to <= s[j].from

LEMMA NoRun ==
  ASSUME NEW a
  PROVE  Run(<<>>, a, a)
BY NoLine DEF Run

LEMMA DataRun ==
  ASSUME NEW a \in Int, NEW b \in Int, NEW line \in {Data(a, b), Code(a, b)}
  PROVE  /\ line \in Line /\ line.from = a /\ line.to = b
         /\ Run(<<line>>, a, b) /\ Range(<<line>>) = {line}
<1>1. line \in Line /\ line.from = a /\ line.to = b
  <2>1. Data(a, b) \in Line /\ Data(a, b).from = a /\ Data(a, b).to = b
    BY LinesFit DEF Data
  <2>2. Code(a, b) \in Line /\ Code(a, b).from = a /\ Code(a, b).to = b
    BY LinesFit DEF Code
  <2> QED BY <2>1, <2>2
<1>2. <<line>> \in Seq(Line) /\ DOMAIN <<line>> = {1} /\ <<line>>[1] = line
  BY <1>1
<1>3. Run(<<line>>, a, b)
  BY <1>1, <1>2 DEF Run
<1> QED BY <1>1, <1>2, <1>3 DEF Range

LEMMA LabelRun ==
  ASSUME NEW a \in Int, NEW what \in {"block", "variable", "segment"}
  PROVE  /\ Label(what, a) \in Line
         /\ Label(what, a).line = what /\ Label(what, a).from = a /\ Label(what, a).to = a
         /\ Run(<<Label(what, a)>>, a, a) /\ Range(<<Label(what, a)>>) = {Label(what, a)}
<1> DEFINE line == Label(what, a)
<1>1. line \in Line /\ line.line = what /\ line.from = a /\ line.to = a
  BY LinesFit DEF Label
<1> HIDE DEF line
<1>2. <<line>> \in Seq(Line) /\ DOMAIN <<line>> = {1} /\ <<line>>[1] = line
  BY <1>1
<1>3. Run(<<line>>, a, a)
  BY <1>1, <1>2 DEF Run
<1>4. Range(<<line>>) = {line}
  BY <1>2 DEF Range
<1> QED BY <1>1, <1>3, <1>4 DEF line

LEMMA LabelFields ==
  ASSUME NEW a, NEW what
  PROVE  /\ Label(what, a).line = what
         /\ Label(what, a).from = a /\ Label(what, a).to = a
BY DEF Label

LEMMA RunsJoin ==
  ASSUME NEW a \in Int, NEW b \in Int, NEW c \in Int, a <= b, b <= c,
         NEW s, Run(s, a, b), NEW t, Run(t, b, c)
  PROVE  Run(s \o t, a, c) /\ Range(s \o t) = Range(s) \cup Range(t)
<1>1. /\ s \in Seq(Line) /\ t \in Seq(Line)
      /\ Len(s) \in Nat /\ Len(t) \in Nat
      /\ DOMAIN s = 1..Len(s) /\ DOMAIN t = 1..Len(t)
  BY DEF Run
<1> DEFINE u == s \o t
<1>2. /\ u \in Seq(Line) /\ DOMAIN u = 1..(Len(s) + Len(t))
      /\ \A i \in 1..(Len(s) + Len(t)) : u[i] = IF i <= Len(s) THEN s[i] ELSE t[i - Len(s)]
  BY <1>1
<1> HIDE DEF u
<1>3. ASSUME NEW i \in DOMAIN u
      PROVE  \/ i <= Len(s) /\ i \in DOMAIN s /\ u[i] = s[i]
             \/ ~(i <= Len(s)) /\ i - Len(s) \in DOMAIN t /\ u[i] = t[i - Len(s)]
  BY <1>1, <1>2
<1>4. /\ \A i \in DOMAIN s : s[i].from \in Int /\ s[i].to \in Int
      /\ \A i \in DOMAIN t : t[i].from \in Int /\ t[i].to \in Int
  <2>1. \A x \in Line : x.from \in Int /\ x.to \in Int
    BY DEF Line
  <2>2. (\A i \in DOMAIN s : s[i] \in Line) /\ (\A i \in DOMAIN t : t[i] \in Line)
    BY <1>1
  <2> QED BY <2>1, <2>2
<1>5. ASSUME NEW i \in DOMAIN u
      PROVE  a <= u[i].from /\ u[i].to <= c
  <2>1. CASE i \in DOMAIN s /\ u[i] = s[i]
    BY <1>4, <2>1 DEF Run
  <2>2. CASE i - Len(s) \in DOMAIN t /\ u[i] = t[i - Len(s)]
    BY <1>4, <2>2 DEF Run
  <2> QED BY <1>3, <2>1, <2>2
<1>6. ASSUME NEW i \in DOMAIN u, NEW j \in DOMAIN u, i < j
      PROVE  u[i].to <= u[j].from
  <2>1. i \in Nat /\ j \in Nat
    BY <1>1, <1>2
  <2>2. CASE j <= Len(s)
    <3>1. i \in DOMAIN s /\ j \in DOMAIN s /\ u[i] = s[i] /\ u[j] = s[j]
      BY <1>1, <1>3, <1>6, <2>1, <2>2
    <3> QED BY <1>6, <3>1 DEF Run
  <2>3. CASE ~(i <= Len(s))
    <3>1. /\ i - Len(s) \in DOMAIN t /\ u[i] = t[i - Len(s)]
          /\ j - Len(s) \in DOMAIN t /\ u[j] = t[j - Len(s)]
          /\ i - Len(s) < j - Len(s)
      BY <1>1, <1>3, <1>6, <2>1, <2>3
    <3> QED BY <3>1 DEF Run
  <2>4. CASE i <= Len(s) /\ ~(j <= Len(s))
    <3>1. i \in DOMAIN s /\ u[i] = s[i] /\ j - Len(s) \in DOMAIN t /\ u[j] = t[j - Len(s)]
      BY <1>3, <2>4
    <3>2. s[i].to <= b /\ b <= t[j - Len(s)].from
      BY <3>1 DEF Run
    <3> QED BY <1>4, <3>1, <3>2
  <2> QED BY <2>2, <2>3, <2>4
<1>7. Range(u) = Range(s) \cup Range(t)
  <2>1. Range(u) \subseteq Range(s) \cup Range(t)
    BY <1>3 DEF Range
  <2>2. ASSUME NEW i \in DOMAIN s PROVE i \in DOMAIN u /\ u[i] = s[i]
    BY <1>1, <1>2
  <2>3. ASSUME NEW i \in DOMAIN t PROVE i + Len(s) \in DOMAIN u /\ u[i + Len(s)] = t[i]
    <3>1. i + Len(s) \in 1..(Len(s) + Len(t)) /\ ~(i + Len(s) <= Len(s))
          /\ (i + Len(s)) - Len(s) = i
      BY <1>1
    <3> QED BY <1>2, <3>1
  <2>4. Range(s) \subseteq Range(u)
    BY <2>2 DEF Range
  <2>5. Range(t) \subseteq Range(u)
    BY <2>3 DEF Range
  <2> QED BY <2>1, <2>4, <2>5
<1>8. Run(u, a, c)
  BY <1>2, <1>5, <1>6 DEF Run
<1> QED BY <1>7, <1>8 DEF u

-----------------------------------------------------------------------------
(* The positions where instructions start.                                 *)

(* What LastOf says of p for a block that ends at end; f says it of the    *)
(* positions behind p.                                                     *)
LastFrom(f, end, p) ==
  LET next == p + Length[image[p]]
  IN  IF next > p /\ next < end /\ image[p] \notin FarJump THEN f[next] ELSE p

LEMMA LastExists ==
  ASSUME Types, NEW start \in Nat, NEW end \in 0..Size
  PROVE  \E f : f = [p \in start..(end - 1) |-> LastFrom(f, end, p)]
<1> DEFINE D == start..(end - 1)
           Solves(f, k) ==
             /\ f = [p \in D |-> f[p]]
             /\ \A p \in D : p + k >= end => f[p] = LastFrom(f, end, p)
           Unsolved == {k \in Nat : ~\E f : Solves(f, k)}
<1>1. end \in Nat /\ end <= Size /\ Size \in Nat
  BY Limits
<1>2. Unsolved = {}
  <2>1. SUFFICES ASSUME Unsolved # {} PROVE FALSE
    OBVIOUS
  <2>2. PICK k \in Unsolved : \A j \in Unsolved : k <= j
    <3>1. Unsolved \in SUBSET Nat
      OBVIOUS
    <3> HIDE DEF Unsolved
    <3> QED BY <2>1, <3>1, Least
  <2>3. k # 0
    <3>1. Solves([p \in D |-> p], 0)
      BY <1>1
    <3> QED BY <3>1, <2>2
  <2>4. k - 1 \in Nat /\ k - 1 \notin Unsolved
    <3>1. k \in Nat
      BY <2>2
    <3> HIDE DEF Unsolved
    <3> QED BY <2>2, <2>3, <3>1
  <2>5. PICK f : Solves(f, k - 1)
    BY <2>4
  <2> DEFINE g == [p \in D |-> IF p + k = end THEN LastFrom(f, end, p) ELSE f[p]]
  <2>6. \A p \in D : g[p] = IF p + k = end THEN LastFrom(f, end, p) ELSE f[p]
    OBVIOUS
  <2>7. g = [p \in D |-> g[p]]
    OBVIOUS
  <2>8. ASSUME NEW p \in D, p + k >= end
        PROVE  g[p] = LastFrom(g, end, p)
    <3>1. p \in Nat /\ p < end /\ Length[image[p]] \in Nat
      BY <1>1, BytesInside
    <3> DEFINE q == p + Length[image[p]]
    <3>2. LastFrom(g, end, p) = LastFrom(f, end, p)
      <4>1. CASE q > p /\ q < end /\ image[p] \notin FarJump
        <5>1. q \in D /\ q + k # end
          BY <1>1, <2>2, <2>8, <3>1, <4>1
        <5>2. g[q] = f[q]
          BY <2>6, <5>1
        <5> QED BY <4>1, <5>2 DEF LastFrom
      <4>2. CASE ~(q > p /\ q < end /\ image[p] \notin FarJump)
        BY <4>2 DEF LastFrom
      <4> QED BY <4>1, <4>2
    <3>3. CASE p + k = end
      BY <2>6, <3>2, <3>3
    <3>4. CASE p + k # end
      <4>1. p + (k - 1) >= end
        BY <1>1, <2>2, <2>8, <3>1, <3>4
      <4> QED BY <2>5, <2>6, <3>2, <3>4, <4>1
    <3> QED BY <3>3, <3>4
  <2>9. Solves(g, k)
    <3> HIDE DEF g
    <3> QED BY <2>7, <2>8
  <2> QED BY <2>2, <2>9
<1>3. PICK f : Solves(f, end)
  BY <1>1, <1>2
<1>4. \A p \in D : f[p] = LastFrom(f, end, p)
  BY <1>1, <1>3
<1>5. f = [p \in D |-> LastFrom(f, end, p)]
  BY <1>3, <1>4
<1> QED BY <1>5

LastUntil(start, end) ==
  CHOOSE f : f = [p \in start..(end - 1) |-> LastFrom(f, end, p)]

LEMMA LastSolves ==
  ASSUME Types, NEW start \in Nat, NEW end \in 0..Size,
         NEW p \in start..(end - 1)
  PROVE  LastUntil(start, end)[p] = LastFrom(LastUntil(start, end), end, p)
<1> DEFINE f == LastUntil(start, end)
<1>1. f = [q \in start..(end - 1) |-> LastFrom(f, end, q)]
  BY LastExists DEF LastUntil
<1> HIDE DEF f
<1>2. f[p] = LastFrom(f, end, p)
  BY <1>1
<1> QED BY <1>2 DEF f

LEMMA StartsByLast ==
  ASSUME Types, NEW b \in Block, NEW p \in b.start..(b.end - 1)
  PROVE  p \in Starts(b) <=> LastUntil(b.start, p + 1)[b.start] = p
<1> DEFINE cut == [b EXCEPT !.end = p + 1]
<1>1. cut.start = b.start /\ cut.end = p + 1
  BY DEF Block
<1> HIDE DEF cut
<1>2. LastOf(cut) = LastUntil(b.start, p + 1)[b.start]
  BY <1>1 DEF LastOf, LastUntil, LastFrom
<1> QED BY <1>2 DEF Starts, cut

(* The block starts with one, and one follows behind another.              *)
LEMMA StartsGoOn ==
  ASSUME Types, NEW b \in Block, b.start < b.end
  PROVE  /\ b.start \in Starts(b)
         /\ \A p \in Starts(b) :
              /\ p \in b.start..(b.end - 1)
              /\ LET q == p + Length[image[p]]
                 IN  q > p /\ q < b.end /\ image[p] \notin FarJump => q \in Starts(b)
<1>1. b.start \in Nat /\ b.end \in 0..Size /\ b.end \in Nat /\ Size \in Nat
      /\ b.start \in b.start..(b.end - 1)
  <2>1. b.start \in Positions /\ b.end \in 1..Size
    BY DEF Block
  <2>2. Size \in Nat
    BY Limits
  <2>3. b.start \in 0..(Size - 1)
    BY <2>1 DEF Positions
  <2> HIDE DEF Block
  <2> QED BY <2>1, <2>2, <2>3
<1>2. b.start \in Starts(b)
  <2>1. b.start + 1 \in 0..Size /\ b.start \in b.start..((b.start + 1) - 1)
    BY <1>1
  <2>2. Length[image[b.start]] \in Nat
    BY <1>1, BytesInside
  <2> DEFINE s == b.start
             f == LastUntil(s, s + 1)
  <2>3. f[s] = LastFrom(f, s + 1, s)
    BY <1>1, <2>1, LastSolves
  <2> HIDE DEF f
  <2>4. LastFrom(f, s + 1, s) = s
    BY <1>1, <2>2 DEF LastFrom
  <2> QED BY <1>1, <2>3, <2>4, StartsByLast DEF f
<1>3. \A p \in Starts(b) : p \in b.start..(b.end - 1)
  BY DEF Starts
<1>4. ASSUME NEW p \in Starts(b), NEW q, q = p + Length[image[p]],
             q > p, q < b.end, image[p] \notin FarJump
      PROVE  q \in Starts(b)
  <2>1. /\ p \in Nat /\ b.start <= p /\ p < b.end /\ p < Size
        /\ p + 1 \in 0..Size /\ p \in b.start..(b.end - 1)
    BY <1>1, <1>3
  <2>2. q \in Nat /\ q + 1 \in 0..Size /\ q \in b.start..(b.end - 1)
    BY <1>1, <1>4, <2>1, BytesInside
  <2> DEFINE f == LastUntil(b.start, p + 1)
             g == LastUntil(b.start, q + 1)
             Lost == {k \in Nat : \E x \in b.start..p : x + k = p /\ f[x] = p /\ g[x] # q}
  <2>3. f[b.start] = p
    BY <2>1, StartsByLast
  <2>4. \A x \in b.start..p : f[x] = LastFrom(f, p + 1, x)
    BY <1>1, <2>1, LastSolves
  <2>5. \A x \in b.start..q : g[x] = LastFrom(g, q + 1, x)
    BY <1>1, <2>2, LastSolves
  <2> HIDE DEF f, g
  <2>6. g[q] = q
    <3>1. Length[image[q]] \in Nat
      BY <1>1, <2>2, BytesInside
    <3>2. LastFrom(g, q + 1, q) = q
      BY <2>2, <3>1 DEF LastFrom
    <3> QED BY <1>1, <2>2, <2>5, <3>2
  <2>7. Lost = {}
    <3>1. SUFFICES ASSUME Lost # {} PROVE FALSE
      OBVIOUS
    <3>2. PICK k \in Lost : \A j \in Lost : k <= j
      <4>1. Lost \in SUBSET Nat
        OBVIOUS
      <4> HIDE DEF Lost
      <4> QED BY <3>1, <4>1, Least
    <3>3. PICK x \in b.start..p : x + k = p /\ f[x] = p /\ g[x] # q
      BY <3>2
    <3>4. x \in Nat /\ x <= p /\ x < Size /\ x \in b.start..q /\ k \in Nat
      BY <1>1, <1>4, <2>1, <2>2, <3>2
    <3>5. Length[image[x]] \in Nat
      BY <1>1, <3>4, BytesInside
    <3>6. f[x] = LastFrom(f, p + 1, x) /\ g[x] = LastFrom(g, q + 1, x)
      BY <2>4, <2>5, <3>4
    <3> DEFINE n == x + Length[image[x]]
    <3>7. CASE x = p
      <4>1. LastFrom(g, q + 1, p) = g[q]
        BY <1>4, <2>2 DEF LastFrom
      <4> QED BY <2>6, <3>3, <3>6, <3>7, <4>1
    <3>8. CASE x # p
      <4>1. n > x /\ n < p + 1 /\ image[x] \notin FarJump /\ f[x] = f[n]
        BY <3>3, <3>6, <3>8 DEF LastFrom
      <4>2. n \in b.start..p /\ n < q + 1
        BY <1>1, <1>4, <2>1, <2>2, <3>4, <3>5, <4>1
      <4>3. g[x] = g[n]
        BY <3>6, <4>1, <4>2 DEF LastFrom
      <4>4. p - n \in Nat /\ n + (p - n) = p /\ p - n < k
        BY <2>1, <3>3, <3>4, <3>5, <4>1
      <4>5. p - n \in Lost
        BY <3>3, <4>1, <4>2, <4>3, <4>4
      <4> HIDE DEF Lost
      <4>6. k <= p - n
        BY <3>2, <4>5
      <4> QED BY <2>1, <3>4, <4>4, <4>6
    <3> QED BY <3>7, <3>8
  <2>8. g[b.start] = q
    <3>1. p - b.start \in Nat /\ b.start + (p - b.start) = p /\ b.start \in b.start..p
      BY <1>1, <2>1
    <3> QED BY <2>3, <2>7, <3>1
  <2> QED BY <2>2, <2>8, StartsByLast DEF g
<1> QED BY <1>2, <1>3, <1>4

-----------------------------------------------------------------------------
(* Where dump is, in terms of what it has written.                         *)

(* The variables whose ends are determined, and then all, have one.        *)
Ended ==
  /\ \A i \in DOMAIN variables : i < ending => LengthKnown(variables[i])
  /\ phase \in {"dump", "done"} => ending > Len(variables)

SegmentLabel(i) == Label("segment", starts[i])

Sequential ==
  \A i, j \in DOMAIN listing :
     i < j => \/ Hidden(listing[i]) \/ Hidden(listing[j])
              \/ listing[i].to <= listing[j].from

(* What is behind the indexes has its labels.                              *)
Labelled ==
  /\ \A i \in DOMAIN blocks :
       i < block /\ blocks[i].label => Label("block", blocks[i].start) \in Lines
  /\ \A i \in DOMAIN variables :
       i < variable => Label("variable", variables[i].start) \in Lines
  /\ \A i \in DOMAIN starts :
       i < segment => SegmentLabel(i) \in Lines \/ Hidden(SegmentLabel(i))

(* Within a block, with its label written: where an instruction starts,    *)
(* unless instructions are no longer told apart.                           *)
Entered ==
  /\ B.start < position /\ position < B.end
  /\ B.label => Label("block", B.start) \in Lines
  /\ unknown \/ position \in Starts(B)

Ahead ==
  /\ HasVariable => position <= V.start
  /\ HasBlock => position <= B.start \/ Entered
  /\ unknown => B.start < position
  /\ \A i \in DOMAIN starts :
       i >= segment /\ starts[i] < position => Hidden(SegmentLabel(i))

(* The position goes back into a line for the start of a segment, only.    *)
Inside(line) ==
  /\ line.from < position
  /\ segment \in DOMAIN starts /\ position = starts[segment]
  /\ HasBlock => line.to <= B.start
  /\ HasVariable => line.to <= V.start

Behind(line) == Hidden(line) \/ line.to <= position \/ Inside(line)

(* In the end the lines do not reach to a start that is not labelled.      *)
LinesEnd(p) == \A line \in Lines : Hidden(line) \/ line.to <= p

Order ==
  /\ Sequential /\ Labelled
  /\ position # None => Ahead /\ \A line \in Lines : Behind(line)
  /\ position = None =>
       \A i \in DOMAIN starts :
         i >= segment => Hidden(SegmentLabel(i)) \/ LinesEnd(starts[i])

LaidOut == Ended /\ (phase \in {"dump", "done"} /\ Plain => Order)

-----------------------------------------------------------------------------
(* The segment starts that a step passes.                                  *)

LEMMA StartsOfSegments ==
  ASSUME Types
  PROVE  /\ Len(starts) \in Nat /\ DOMAIN starts = 1..Len(starts)
         /\ \A i \in DOMAIN starts : starts[i] \in Nat /\ starts[i] <= Size
         /\ \A i, j \in DOMAIN starts : i < j => starts[i] < starts[j]
         /\ segment \in Nat
<1>1. starts \in Seq(Positions) /\ segment \in 1..(Len(starts) + 1)
  BY DEF Types, Setting, TypeOK
<1>2. Len(starts) \in Nat /\ DOMAIN starts = 1..Len(starts)
      /\ \A i \in DOMAIN starts : starts[i] \in Positions
  BY <1>1
<1>3. \A x \in Positions : x \in Nat /\ x <= Size
  BY Limits
<1>4. \A i, j \in DOMAIN starts : i < j => starts[i] < starts[j]
  BY DEF Types, Setting
<1> QED BY <1>1, <1>2, <1>3, <1>4

LEMMA SegmentsPassed ==
  ASSUME Types, position \in 0..Size
  PROVE  /\ SegmentAfter \in Nat /\ segment <= SegmentAfter
         /\ \A i \in DOMAIN starts :
              i < SegmentAfter =>
                \/ i < segment
                \/ starts[i] < position
                \/ AtSegment /\ starts[i] = position
         /\ \A i \in DOMAIN starts : i >= SegmentAfter => starts[i] > position
         /\ segment \in DOMAIN starts /\ starts[segment] = position => AtSegment
<1> DEFINE behind == {j \in DOMAIN starts : starts[j] < position}
           S == {segment} \cup {i + 1 : i \in behind}
<1>1. /\ Len(starts) \in Nat /\ DOMAIN starts = 1..Len(starts)
      /\ \A i \in DOMAIN starts : starts[i] \in Nat
      /\ \A i, j \in DOMAIN starts : i < j => starts[i] < starts[j]
      /\ segment \in 1..(Len(starts) + 1) /\ segment \in Nat
      /\ position \in Nat
  BY StartsOfSegments, Limits DEF Types, TypeOK
<1>2. S \in SUBSET (0..(Len(starts) + 1)) /\ Len(starts) + 1 \in Nat /\ S # {}
      /\ Skipped = Max(S)
  BY <1>1 DEF Skipped
<1>3. Skipped \in S /\ \A x \in S : x <= Skipped
  <2> HIDE DEF S
  <2> QED BY <1>2, MaxIsGreatest
<1>4. Skipped \in Nat /\ segment <= Skipped
  BY <1>2, <1>3
<1>5. \A i \in DOMAIN starts : starts[i] < position => i < Skipped
  <2> SUFFICES ASSUME NEW i \in DOMAIN starts, starts[i] < position
               PROVE  i < Skipped
    OBVIOUS
  <2>1. i + 1 \in S
    OBVIOUS
  <2>2. i + 1 <= Skipped /\ i \in Nat
    BY <1>1, <1>3, <2>1
  <2> QED BY <1>4, <2>2
<1>6. ASSUME NEW i \in DOMAIN starts, i < Skipped
      PROVE  i < segment \/ starts[i] < position
  <2>1. i \in Nat
    BY <1>1
  <2>2. CASE Skipped = segment
    BY <1>6, <2>2
  <2>3. CASE Skipped # segment
    <3>1. PICK j \in behind : Skipped = j + 1
      BY <1>3, <2>3
    <3>2. j \in DOMAIN starts /\ starts[j] < position /\ j \in Nat /\ i <= j
      BY <1>1, <1>6, <2>1, <3>1
    <3> QED BY <1>1, <2>1, <3>2
  <2> QED BY <2>2, <2>3
<1> HIDE DEF behind, S
<1>7. ASSUME AtSegment
      PROVE  Skipped \in DOMAIN starts /\ starts[Skipped] = position /\ SegmentAfter = Skipped + 1
  <2>1. Skipped # 0
    BY <1>1, <1>4
  <2> QED BY <1>1, <1>4, <1>7, <2>1 DEF AtSegment, SegmentAfter
<1>8. ~AtSegment => SegmentAfter = Skipped
  BY DEF SegmentAfter
<1>9. ASSUME NEW i \in DOMAIN starts, i < SegmentAfter
      PROVE  i < segment \/ starts[i] < position \/ (AtSegment /\ starts[i] = position)
  <2>1. i \in Nat
    BY <1>1
  <2>2. CASE i < Skipped
    BY <1>6, <2>2
  <2>3. CASE ~(i < Skipped)
    <3>1. AtSegment /\ i = Skipped
      BY <1>4, <1>7, <1>8, <1>9, <2>1, <2>3
    <3> QED BY <1>7, <3>1
  <2> QED BY <2>2, <2>3
<1>10. ASSUME NEW i \in DOMAIN starts, i >= SegmentAfter
       PROVE  starts[i] > position
  <2>1. i \in Nat /\ starts[i] \in Nat
    BY <1>1
  <2>2. CASE AtSegment
    <3>1. Skipped < i
      BY <1>4, <1>7, <1>10, <2>1, <2>2
    <3> QED BY <1>1, <1>7, <2>1, <2>2, <3>1
  <2>3. CASE ~AtSegment
    <3>1. i >= Skipped /\ ~(starts[i] < position)
      BY <1>4, <1>5, <1>8, <1>10, <2>1, <2>3
    <3>2. starts[i] # position
      <4> SUFFICES ASSUME starts[i] = position PROVE FALSE
        OBVIOUS
      <4>1. Skipped \in DOMAIN starts
        BY <1>1, <1>4, <2>1, <3>1
      <4>2. starts[Skipped] # position
        BY <1>1, <2>3, <4>1 DEF AtSegment
      <4>3. Skipped < i
        BY <1>4, <2>1, <3>1, <4>2
      <4>4. starts[Skipped] < position
        BY <1>1, <4>1, <4>3
      <4> QED BY <1>4, <1>5, <4>1, <4>4
    <3> QED BY <1>1, <2>1, <3>1, <3>2
  <2> QED BY <2>2, <2>3
<1>11. ASSUME segment \in DOMAIN starts, starts[segment] = position
       PROVE  AtSegment
  <2>1. ~(segment < Skipped)
    <3> SUFFICES ASSUME segment < Skipped PROVE FALSE
      OBVIOUS
    <3>1. starts[segment] < position
      BY <1>1, <1>6, <1>11
    <3> QED BY <1>1, <1>11, <3>1
  <2>2. Skipped = segment
    BY <1>1, <1>4, <2>1
  <2> QED BY <1>1, <1>11, <2>2 DEF AtSegment
<1>12. SegmentAfter \in Nat /\ segment <= SegmentAfter
  BY <1>1, <1>4, <1>7, <1>8
<1> QED BY <1>9, <1>10, <1>11, <1>12

(* Where dump goes on is at one of the things that are next, and not       *)
(* behind another.                                                         *)
LEMMA NextInOrder ==
  ASSUME Types, NEW s, NEW b, NEW v
  PROVE  LET next == DeterminePosition(s, b, v)
         IN  /\ s \in DOMAIN starts /\ next # None => next <= starts[s]
             /\ next # None =>
                  \/ s \in DOMAIN starts /\ next = starts[s]
                  \/ b \in DOMAIN blocks /\ next = blocks[b].start
                  \/ v \in DOMAIN variables /\ next = variables[v].start
<1> DEFINE ahead == {blocks[i].start : i \in {b} \cap DOMAIN blocks}
                      \cup {variables[i].start : i \in {v} \cap DOMAIN variables}
           segments == {starts[i] : i \in {s} \cap DOMAIN starts}
           all == ahead \cup segments
<1>1. all \subseteq Nat
  <2>1. \A i \in DOMAIN starts : starts[i] \in Nat
    BY StartsOfSegments
  <2>2. \A i \in DOMAIN blocks : blocks[i].start \in Nat
    BY Members, Limits DEF Types
  <2>3. \A i \in DOMAIN variables : variables[i].start \in Nat
    BY Members, Limits DEF Types
  <2> QED BY <2>1, <2>2, <2>3
<1>2. s \in DOMAIN starts => starts[s] \in all
  OBVIOUS
<1>3. \A x \in all :
        \/ s \in DOMAIN starts /\ x = starts[s]
        \/ b \in DOMAIN blocks /\ x = blocks[b].start
        \/ v \in DOMAIN variables /\ x = variables[v].start
  OBVIOUS
<1>4. DeterminePosition(s, b, v) = IF ahead = {} THEN None ELSE Min(all)
  BY DEF DeterminePosition
<1>5. ahead # {} => all # {}
  OBVIOUS
<1> HIDE DEF ahead, segments, all
<1>6. all # {} => Min(all) \in all /\ (\A x \in all : Min(all) <= x) /\ Min(all) # None
  BY <1>1, MinIsLeast DEF None
<1> QED BY <1>2, <1>3, <1>4, <1>5, <1>6

-----------------------------------------------------------------------------
(* What a step writes is behind what is there.                             *)

InSequence(s, set) ==
  \A i, j \in DOMAIN s : i < j => s[i] \in set \/ s[j] \in set \/ s[i].to <= s[j].from

LEMMA SequenceGrows ==
  ASSUME NEW s \in Seq(Line), NEW t \in Seq(Line), NEW set,
         InSequence(s, set), InSequence(t, set),
         \A x \in Range(s), y \in Range(t) : x \in set \/ y \in set \/ x.to <= y.from
  PROVE  /\ s \o t \in Seq(Line) /\ InSequence(s \o t, set)
         /\ Range(s \o t) = Range(s) \cup Range(t)
<1>1. /\ Len(s) \in Nat /\ Len(t) \in Nat
      /\ DOMAIN s = 1..Len(s) /\ DOMAIN t = 1..Len(t)
  OBVIOUS
<1> DEFINE u == s \o t
<1>2. /\ u \in Seq(Line) /\ DOMAIN u = 1..(Len(s) + Len(t))
      /\ \A i \in 1..(Len(s) + Len(t)) : u[i] = IF i <= Len(s) THEN s[i] ELSE t[i - Len(s)]
  BY <1>1
<1> HIDE DEF u
<1>3. ASSUME NEW i \in DOMAIN u
      PROVE  \/ i <= Len(s) /\ i \in DOMAIN s /\ u[i] = s[i]
             \/ ~(i <= Len(s)) /\ i - Len(s) \in DOMAIN t /\ u[i] = t[i - Len(s)]
  BY <1>1, <1>2
<1>4. ASSUME NEW i \in DOMAIN u, NEW j \in DOMAIN u, i < j
      PROVE  u[i] \in set \/ u[j] \in set \/ u[i].to <= u[j].from
  <2>1. i \in Nat /\ j \in Nat
    BY <1>1, <1>2
  <2>2. CASE j <= Len(s)
    <3>1. i \in DOMAIN s /\ j \in DOMAIN s /\ u[i] = s[i] /\ u[j] = s[j]
      BY <1>1, <1>3, <1>4, <2>1, <2>2
    <3> QED BY <1>4, <3>1 DEF InSequence
  <2>3. CASE ~(i <= Len(s))
    <3>1. /\ i - Len(s) \in DOMAIN t /\ u[i] = t[i - Len(s)]
          /\ j - Len(s) \in DOMAIN t /\ u[j] = t[j - Len(s)]
          /\ i - Len(s) < j - Len(s)
      BY <1>1, <1>3, <1>4, <2>1, <2>3
    <3> QED BY <3>1 DEF InSequence
  <2>4. CASE i <= Len(s) /\ ~(j <= Len(s))
    <3>1. i \in DOMAIN s /\ u[i] = s[i] /\ j - Len(s) \in DOMAIN t /\ u[j] = t[j - Len(s)]
      BY <1>3, <2>4
    <3>2. s[i] \in Range(s) /\ t[j - Len(s)] \in Range(t)
      BY <3>1 DEF Range
    <3> QED BY <3>1, <3>2
  <2> QED BY <2>2, <2>3, <2>4
<1>5. Range(u) = Range(s) \cup Range(t)
  <2>1. Range(u) \subseteq Range(s) \cup Range(t)
    BY <1>3 DEF Range
  <2>2. ASSUME NEW i \in DOMAIN s PROVE i \in DOMAIN u /\ u[i] = s[i]
    BY <1>1, <1>2
  <2>3. ASSUME NEW i \in DOMAIN t PROVE i + Len(s) \in DOMAIN u /\ u[i + Len(s)] = t[i]
    <3>1. i + Len(s) \in 1..(Len(s) + Len(t)) /\ ~(i + Len(s) <= Len(s))
          /\ (i + Len(s)) - Len(s) = i
      BY <1>1
    <3> QED BY <1>2, <3>1
  <2> QED BY <2>1, <2>2, <2>3 DEF Range
<1>6. InSequence(u, set)
  BY <1>4 DEF InSequence
<1> QED BY <1>2, <1>5, <1>6 DEF u

LEMMA RunsBetween ==
  ASSUME NEW s, NEW from, NEW to, Run(s, from, to), NEW set
  PROVE  /\ s \in Seq(Line) /\ InSequence(s, set)
         /\ \A x \in Range(s) : from <= x.from /\ x.to <= to /\ x \in Line
<1>1. \A i \in DOMAIN s : s[i] \in Line
  BY DEF Run
<1> QED BY <1>1 DEF Run, InSequence, Range

LEMMA SegmentRun ==
  ASSUME position \in Int
  PROVE  /\ Run(SegmentLines, position, position)
         /\ Range(SegmentLines) = IF AtSegment THEN {Label("segment", position)} ELSE {}
<1>1. CASE AtSegment
  BY <1>1, LabelRun DEF SegmentLines
<1>2. CASE ~AtSegment
  <2>1. SegmentLines = <<>> /\ Range(<<>>) = {}
    BY <1>2 DEF SegmentLines, Range
  <2> QED BY <1>2, <2>1, NoRun
<1> QED BY <1>1, <1>2

(* Either all that is written is before the position, or the only line     *)
(* that may be added is a hidden label.                                    *)
LEMMA WritingInOrder ==
  ASSUME listing \in Seq(Line), Sequential, position \in Int,
         NEW to \in Int, position <= to, NEW lines, Run(lines, position, to), Write(lines),
         \/ \A line \in Lines : Hidden(line) \/ line.to <= position
         \/ lines = <<>> /\ Hidden(Label("segment", position))
  PROVE  /\ listing' \in Seq(Line) /\ Sequential'
         /\ Lines' = Lines \cup Range(SegmentLines) \cup Range(lines)
         /\ \A label : Hidden(label) => Hidden(label)'
<1> DEFINE set == {line \in Line : Hidden(line)'}
           before == listing \o SegmentLines
<1>1. Lines \subseteq Line
  BY DEF Lines, Range
<1>2. listing' = before \o lines
  BY DEF Write
<1>3. \A x \in Line : x.from \in Int /\ x.to \in Int
  BY DEF Line
<1>4. /\ SegmentLines \in Seq(Line)
      /\ \A x \in Range(SegmentLines) :
           x \in Line /\ position <= x.from /\ x.to <= position /\ AtSegment
           /\ x = Label("segment", position)
  BY SegmentRun, RunsBetween
<1>5. lines \in Seq(Line) /\ \A x \in Range(lines) : x \in Line /\ position <= x.from
  BY RunsBetween
<1>6. Range(before) = Range(listing) \cup Range(SegmentLines) /\ before \in Seq(Line)
  <2>1. InSequence(listing, Line) /\ InSequence(SegmentLines, Line)
    <3>1. /\ \A i \in DOMAIN listing : listing[i] \in Line
          /\ \A i \in DOMAIN SegmentLines : SegmentLines[i] \in Line
      BY <1>4
    <3> QED BY <3>1 DEF InSequence
  <2>2. \A x \in Range(listing) : x \in Line
    BY <1>1 DEF Lines
  <2> QED BY <1>4, <2>1, <2>2, SequenceGrows
<1> HIDE DEF before
<1>7. Range(listing') = Range(before) \cup Range(lines) /\ listing' \in Seq(Line)
  <2>1. InSequence(before, Line) /\ InSequence(lines, Line)
    <3>1. /\ \A i \in DOMAIN before : before[i] \in Line
          /\ \A i \in DOMAIN lines : lines[i] \in Line
      BY <1>5, <1>6
    <3> QED BY <3>1 DEF InSequence
  <2>2. \A x \in Range(before) : x \in Line
    BY <1>1, <1>4, <1>6 DEF Lines
  <2> QED BY <1>2, <1>5, <1>6, <2>1, <2>2, SequenceGrows
<1>8. Lines' = Lines \cup Range(SegmentLines) \cup Range(lines)
  BY <1>6, <1>7 DEF Lines, Range
<1>9. ASSUME NEW label, Hidden(label)
      PROVE  Hidden(label)'
  BY <1>8, <1>9 DEF Hidden
<1>10. InSequence(listing, set)
  <2>1. \A i \in DOMAIN listing : listing[i] \in Line
    OBVIOUS
  <2> QED BY <1>9, <2>1 DEF Sequential, InSequence
<1>11. ASSUME NEW x \in Lines, NEW y \in Range(SegmentLines) \cup Range(lines)
       PROVE  x \in set \/ y \in set \/ x.to <= y.from
  <2>1. x \in Line /\ y \in Line /\ position <= y.from
    BY <1>1, <1>4, <1>5
  <2>2. CASE Hidden(x) \/ x.to <= position
    BY <1>3, <1>9, <2>1, <2>2
  <2>3. CASE lines = <<>> /\ Hidden(Label("segment", position))
    <3>1. y = Label("segment", position)
      <4>1. Range(<<>>) = {}
        BY DEF Range
      <4> QED BY <1>4, <2>3, <4>1
    <3>2. Hidden(y)
      BY <2>3, <3>1
    <3> QED BY <1>9, <2>1, <3>2
  <2> QED BY <2>2, <2>3
<1>12. InSequence(before, set)
  <2>1. InSequence(SegmentLines, set)
    BY SegmentRun, RunsBetween
  <2> HIDE DEF set
  <2> QED BY <1>4, <1>10, <1>11, <2>1, SequenceGrows DEF before, Lines
<1>13. InSequence(listing', set)
  <2>1. InSequence(lines, set)
    BY RunsBetween
  <2>2. \A x \in Range(SegmentLines), y \in Range(lines) : x.to <= y.from
    BY <1>3, <1>4, <1>5
  <2>3. \A x \in Range(before), y \in Range(lines) : x \in set \/ y \in set \/ x.to <= y.from
    <3> HIDE DEF set
    <3> QED BY <1>6, <1>11, <2>2 DEF Lines
  <2> HIDE DEF set
  <2> QED BY <1>2, <1>5, <1>6, <1>12, <2>1, <2>3, SequenceGrows
<1>14. Sequential'
  BY <1>7, <1>13 DEF Sequential, InSequence
<1> QED BY <1>7, <1>8, <1>9, <1>14

LEMMA LabelsKept ==
  ASSUME Types, Dumping, Labelled, Ahead,
         Lines \subseteq Lines', Range(SegmentLines) \subseteq Lines',
         \A label : Hidden(label) => Hidden(label)',
         segment' = SegmentAfter,
         block' \in {block, block + 1}, variable' \in {variable, variable + 1},
         block' # block /\ block \in DOMAIN blocks /\ B.label =>
           Label("block", B.start) \in Lines',
         variable' # variable => Label("variable", V.start) \in Lines'
  PROVE  Labelled'
<1>1. position \in 0..Size /\ position \in Int /\ starts' = starts
      /\ blocks' = blocks /\ variables' = variables
  BY DumpingFacts DEF program
<1>2. block \in Nat /\ variable \in Nat
      /\ (\A i \in DOMAIN blocks : i \in Nat) /\ (\A i \in DOMAIN variables : i \in Nat)
  BY IndexesInUse
<1>3. ASSUME NEW i \in DOMAIN blocks, i < block', blocks[i].label
      PROVE  Label("block", blocks[i].start) \in Lines'
  <2>1. CASE i < block
    BY <1>3, <2>1 DEF Labelled
  <2>2. CASE ~(i < block)
    <3>1. i = block /\ block' # block
      BY <1>2, <1>3, <2>2
    <3> QED BY <1>3, <3>1 DEF B
  <2> QED BY <2>1, <2>2
<1>4. ASSUME NEW i \in DOMAIN variables, i < variable'
      PROVE  Label("variable", variables[i].start) \in Lines'
  <2>1. CASE i < variable
    BY <1>4, <2>1 DEF Labelled
  <2>2. CASE ~(i < variable)
    <3>1. i = variable /\ variable' # variable
      BY <1>2, <1>4, <2>2
    <3> QED BY <3>1 DEF V
  <2> QED BY <2>1, <2>2
<1>5. ASSUME NEW i \in DOMAIN starts, i < segment'
      PROVE  SegmentLabel(i) \in Lines' \/ Hidden(SegmentLabel(i))'
  <2>1. \/ i < segment
        \/ starts[i] < position
        \/ AtSegment /\ starts[i] = position
    BY <1>1, <1>5, SegmentsPassed
  <2>2. SegmentLabel(i)' = SegmentLabel(i)
    BY <1>1 DEF SegmentLabel
  <2>3. Hidden(SegmentLabel(i)) => Hidden(SegmentLabel(i))'
    <3>1. PICK label : label = SegmentLabel(i)
      OBVIOUS
    <3>2. Hidden(label) => Hidden(label)'
      OBVIOUS
    <3> QED BY <1>1, <3>1, <3>2 DEF SegmentLabel, Hidden
  <2>4. CASE i < segment
    BY <2>3, <2>4 DEF Labelled
  <2>5. CASE ~(i < segment) /\ starts[i] < position
    <3>1. i >= segment
      BY <2>5, StartsOfSegments
    <3> QED BY <2>3, <2>5, <3>1 DEF Ahead
  <2>6. CASE AtSegment /\ starts[i] = position
    <3>1. Label("segment", position) \in Range(SegmentLines)
      BY <1>1, <2>6, SegmentRun
    <3> QED BY <2>6, <3>1 DEF SegmentLabel
  <2> QED BY <2>1, <2>4, <2>5, <2>6
<1> QED BY <1>1, <1>3, <1>4, <1>5 DEF Labelled, SegmentLabel, Hidden, Label

(* On to what comes next, which no line reaches into, but for a segment.   *)
LEMMA JumpAhead ==
  ASSUME Types, Dumping,
         listing' \in Seq(Line),
         segment' = SegmentAfter, unknown' = FALSE,
         block' \in 1..(Len(blocks) + 1), variable' \in 1..(Len(variables) + 1),
         position' = DeterminePosition(SegmentAfter, block', variable'),
         block' \in DOMAIN blocks => position <= blocks[block'].start,
         variable' \in DOMAIN variables => position <= variables[variable'].start,
         \A line \in Lines' :
           \/ Hidden(line)'
           \/ line.to <= position
           \/ /\ line.from <= position
              /\ block' \in DOMAIN blocks => line.to <= blocks[block'].start
              /\ variable' \in DOMAIN variables => line.to <= variables[variable'].start
  PROVE  /\ position' # None => Ahead' /\ \A line \in Lines' : Behind(line)'
         /\ position' = None =>
              \A i \in DOMAIN starts :
                i >= segment' => Hidden(SegmentLabel(i))' \/ LinesEnd(starts[i])'
<1>1. position \in 0..Size /\ position \in Nat /\ starts' = starts
      /\ blocks' = blocks /\ variables' = variables
  BY DumpingFacts DEF program
<1>2. DOMAIN blocks = 1..Len(blocks) /\ DOMAIN variables = 1..Len(variables)
      /\ Len(blocks) \in Nat /\ Len(variables) \in Nat
      /\ (\A i \in DOMAIN blocks : blocks[i].start \in Nat)
      /\ (\A i \in DOMAIN variables : variables[i].start \in Nat)
  BY Members, Limits DEF Types
<1>3. /\ HasBlock' <=> block' \in DOMAIN blocks
      /\ HasVariable' <=> variable' \in DOMAIN variables
      /\ B' = blocks[block'] /\ V' = variables[variable']
  BY <1>1, <1>2 DEF HasBlock, HasVariable, B, V
<1>4. /\ position' \in 0..Size \cup {None}
      /\ segment' \in DOMAIN starts /\ position' # None => position' <= starts[segment']
      /\ block' \in DOMAIN blocks => position' # None /\ position' <= blocks[block'].start
      /\ variable' \in DOMAIN variables => position' # None /\ position' <= variables[variable'].start
      /\ position' # None =>
           \/ segment' \in DOMAIN starts /\ position' = starts[segment']
           \/ block' \in DOMAIN blocks /\ position' = blocks[block'].start
           \/ variable' \in DOMAIN variables /\ position' = variables[variable'].start
  BY NextPosition, NextInOrder
<1>5. position' # None => position' \in Nat
  BY <1>4, Limits
<1>6. /\ segment' \in Nat
      /\ \A i \in DOMAIN starts : i >= segment' => starts[i] > position
      /\ DOMAIN starts = 1..Len(starts) /\ Len(starts) \in Nat
      /\ \A i \in DOMAIN starts : starts[i] \in Nat
      /\ \A i, j \in DOMAIN starts : i < j => starts[i] < starts[j]
      /\ segment' # 0
  <2>1. segment' \in 1..(Len(starts) + 1)
    BY DumpingFacts
  <2> QED BY <1>1, <2>1, SegmentsPassed, StartsOfSegments
<1>7. ASSUME position' # None
      PROVE  Ahead'
  <2>1. \A i \in DOMAIN starts : ~(i >= segment' /\ starts[i] < position')
    <3> SUFFICES ASSUME NEW i \in DOMAIN starts, i >= segment', starts[i] < position'
                 PROVE  FALSE
      OBVIOUS
    <3>1. segment' \in DOMAIN starts /\ i \in Nat
      BY <1>6
    <3>2. starts[segment'] <= starts[i]
      BY <1>6, <3>1
    <3> QED BY <1>4, <1>5, <1>6, <1>7, <3>1, <3>2
  <2> QED BY <1>1, <1>3, <1>4, <2>1 DEF Ahead
<1>8. ASSUME position' # None, NEW line \in Lines'
      PROVE  Behind(line)'
  <2>1. line.from \in Int /\ line.to \in Int
    <3>1. \A x \in Line : x.from \in Int /\ x.to \in Int
      BY DEF Line
    <3>2. line \in Line
      BY <1>8 DEF Lines, Range
    <3> QED BY <3>1, <3>2
  <2>2. position <= position'
    <3>1. CASE segment' \in DOMAIN starts /\ position' = starts[segment']
      <4>1. starts[segment'] > position
        BY <1>6, <3>1
      <4> QED BY <1>1, <1>5, <1>8, <3>1, <4>1
    <3>2. CASE block' \in DOMAIN blocks /\ position' = blocks[block'].start
      BY <3>2
    <3>3. CASE variable' \in DOMAIN variables /\ position' = variables[variable'].start
      BY <3>3
    <3> QED BY <1>4, <1>8, <3>1, <3>2, <3>3
  <2>3. CASE Hidden(line)'
    BY <2>3 DEF Behind
  <2>4. CASE line.to <= position
    <3>1. line.to <= position'
      BY <1>1, <1>5, <1>8, <2>1, <2>2, <2>4
    <3> QED BY <3>1 DEF Behind
  <2>5. CASE /\ line.from <= position
             /\ block' \in DOMAIN blocks => line.to <= blocks[block'].start
             /\ variable' \in DOMAIN variables => line.to <= variables[variable'].start
    <3>1. CASE line.to <= position'
      BY <3>1 DEF Behind
    <3>2. CASE ~(line.to <= position')
      <4>1. segment' \in DOMAIN starts /\ position' = starts[segment']
        BY <1>4, <1>8, <2>5, <3>2
      <4>2. position < position'
        BY <1>6, <4>1
      <4>3. line.from < position'
        BY <1>1, <1>5, <1>8, <2>1, <2>5, <4>2
      <4>4. Inside(line)'
        BY <1>1, <1>3, <2>5, <4>1, <4>3 DEF Inside
      <4> QED BY <4>4 DEF Behind
    <3> QED BY <3>1, <3>2
  <2> QED BY <2>3, <2>4, <2>5
<1>9. ASSUME NEW i \in DOMAIN starts, i >= segment'
      PROVE  Hidden(SegmentLabel(i))' \/ LinesEnd(starts[i])'
  <2>1. starts[i] \in Nat /\ starts[i] > position /\ starts'[i] = starts[i]
    BY <1>1, <1>6, <1>9
  <2>2. SUFFICES ASSUME NEW line \in Lines', ~Hidden(line)', ~(line.to <= starts[i])
                 PROVE  Hidden(SegmentLabel(i))'
    BY <2>1 DEF LinesEnd
  <2>3. line.from \in Int /\ line.to \in Int
    <3>1. \A x \in Line : x.from \in Int /\ x.to \in Int
      BY DEF Line
    <3>2. line \in Line
      BY DEF Lines, Range
    <3> QED BY <3>1, <3>2
  <2>4. line.from <= position \/ line.to <= position
    BY <2>2
  <2>5. line.from < starts[i] /\ starts[i] < line.to
    BY <1>1, <2>1, <2>2, <2>3, <2>4
  <2>6. /\ SegmentLabel(i)' = Label("segment", starts[i])
        /\ Label("segment", starts[i]).line = "segment"
        /\ Label("segment", starts[i]).from = starts[i]
    BY <2>1, LabelFields DEF SegmentLabel
  <2> QED BY <2>5, <2>6 DEF Hidden
<1> QED BY <1>7, <1>8, <1>9

-----------------------------------------------------------------------------
(* The steps keep the order.                                               *)

(* Variables that are apart are written in one line behind their label.    *)
LEMMA VariableInOneLine ==
  ASSUME Types, Ended, phase = "dump", Plain, HasVariable
  PROVE  /\ variable \in DOMAIN variables /\ V = variables[variable]
         /\ V.start \in Nat /\ End(V) \in Nat /\ V.start < End(V)
         /\ variable + 1 \in DOMAIN variables => End(V) <= variables[variable + 1].start
         /\ VariableLines = <<Label("variable", V.start)>> \o <<Data(V.start, End(V))>>
<1>1. /\ TypeOK /\ variable \in DOMAIN variables /\ V = variables[variable] /\ variable \in Nat
      /\ V.start \in Nat /\ End(V) \in Nat
  BY EndOfVariable, IndexesInUse, Limits DEF Types, V
<1>2. /\ V.kind \in Arrays => End(V) = V.end
      /\ V.kind = "byte" => End(V) = V.start + 1
      /\ V.kind = "word" => End(V) = V.start + 2
      /\ V.kind \in Arrays \cup {"byte", "word"}
  <2>1. V.kind # "far"
    BY <1>1 DEF Plain, NoFarPointers, Range
  <2> QED BY <1>1, <2>1, EndByKind
<1>3. V.start < End(V)
  <2>1. CASE V.kind \in Arrays
    <3>1. variable < ending
      <4>1. variable <= Len(variables) /\ ending > Len(variables) /\ Len(variables) \in Nat
            /\ ending \in Nat
        BY <1>1, Members DEF Ended, HasVariable, TypeOK
      <4> QED BY <1>1, <4>1
    <3>2. V.start # V.end
      BY <1>1, <2>1, <3>1 DEF Ended, LengthKnown
    <3>3. V.start <= V.end
      BY <1>1, <2>1 DEF Types, Setting
    <3> QED BY <1>1, <1>2, <2>1, <3>2, <3>3
  <2>2. CASE V.kind \notin Arrays
    BY <1>1, <1>2, <2>2
  <2> QED BY <2>1, <2>2
<1>4. ASSUME variable + 1 \in DOMAIN variables
      PROVE  End(V) <= variables[variable + 1].start
  <2>1. variable + 1 \in After(variable)
    BY <1>1, <1>4 DEF After
  <2> QED BY <1>1, <2>1 DEF Plain, VariablesApart, Apart
<1>5. PrintLength = End(V) - V.start
  <2> DEFINE next == variable + 1
             S == {End(V)} \cup {variables[i].start : i \in {next} \cap DOMAIN variables}
  <2>1. PrintLength = Min(S) - V.start
    BY DEF PrintLength
  <2>2. S \in SUBSET Nat /\ S # {} /\ End(V) \in S /\ \A x \in S : End(V) <= x
    BY <1>1, <1>4, Members, Limits
  <2> HIDE DEF S
  <2>3. Min(S) \in S /\ Min(S) <= End(V) /\ End(V) <= Min(S) /\ Min(S) \in Nat
    BY <2>2, MinIsLeast
  <2>4. Min(S) = End(V)
    BY <1>1, <2>3
  <2> QED BY <2>1, <2>4
<1>6. VariableLines = <<Label("variable", V.start)>> \o <<Data(V.start, End(V))>>
  <2>1. CASE IsText
    <3>1. V.kind \in Arrays /\ V.kind \notin {"word", "far"}
      BY <2>1 DEF IsText, Arrays
    <3> QED BY <1>2, <2>1, <3>1 DEF VariableLines
  <2>2. CASE V.kind = "word"
    <3>1. ~IsText
      BY <2>2 DEF IsText
    <3> QED BY <1>2, <2>2, <3>1 DEF VariableLines
  <2>3. CASE ~IsText /\ V.kind # "word"
    <3>1. V.kind # "far"
      BY <1>2 DEF Arrays
    <3>2. V.start + PrintLength = End(V)
      BY <1>1, <1>5
    <3> QED BY <2>3, <3>1, <3>2 DEF VariableLines
  <2> QED BY <2>1, <2>2, <2>3
<1> QED BY <1>1, <1>3, <1>4, <1>6

LEMMA WhereDumpIs ==
  ASSUME Types, Rest, Ended, Plain, Order, Dumping
  PROVE  /\ position \in Nat /\ phase = "dump" /\ Sequential /\ Labelled /\ Ahead
         /\ HasVariable => V.start \in Nat /\ End(V) \in Nat /\ position <= V.start
         /\ InVariable => position = V.start /\ HasVariable
         /\ HasVariable /\ ~InVariable => position < V.start
         /\ HasBlock => /\ block \in DOMAIN blocks /\ B = blocks[block] /\ B \in Block
                        /\ B.start \in Nat /\ B.end \in Nat /\ B.start < B.end
         /\ HasBlock /\ ~InBlock => position < B.start
         /\ InBlock => /\ B.start <= position /\ position < B.end /\ HasBlock
                       /\ unknown \/ position \in Starts(B)
                       /\ unknown => B.start < position
                       /\ B.start # position /\ B.label => Label("block", B.start) \in Lines
         /\ ~InBlock => unknown = FALSE
         /\ InBlock \/ InVariable => \A line \in Lines : Hidden(line) \/ line.to <= position
<1>1. /\ position \in Nat /\ phase = "dump" /\ position # None
      /\ Sequential /\ Labelled /\ Ahead /\ \A line \in Lines : Behind(line)
  BY DumpingFacts DEF Order, Dumping
<1>2. HasVariable => V.start \in Nat /\ End(V) \in Nat /\ position <= V.start /\ V.start < End(V)
  BY <1>1, VariableInOneLine DEF Ahead
<1>3. InVariable => position = V.start /\ HasVariable
  BY <1>1, <1>2 DEF InVariable
<1>4. HasVariable /\ ~InVariable => position < V.start
  BY <1>1, <1>2 DEF InVariable
<1>5. HasBlock => /\ block \in DOMAIN blocks /\ B = blocks[block] /\ B \in Block
                  /\ B.start \in Nat /\ B.end \in Nat /\ B.start < B.end
  <2> SUFFICES ASSUME HasBlock
               PROVE  /\ block \in DOMAIN blocks /\ B = blocks[block] /\ B \in Block
                      /\ B.start \in Nat /\ B.end \in Nat /\ B.start < B.end
    OBVIOUS
  <2>1. block \in DOMAIN blocks /\ B = blocks[block] /\ blocks \in Seq(Block)
    BY IndexesInUse DEF B, Types, TypeOK
  <2>2. B \in Block
    BY <2>1
  <2> QED BY <2>1, <2>2, Members, Limits DEF Types, Setting
<1>6. HasBlock /\ ~InBlock => position < B.start
  BY <1>1, <1>5 DEF InBlock, Ahead, Entered
<1>7. ASSUME InBlock
      PROVE  /\ B.start <= position /\ position < B.end /\ HasBlock
             /\ unknown \/ position \in Starts(B)
             /\ unknown => B.start < position
             /\ B.start # position /\ B.label => Label("block", B.start) \in Lines
  <2>1. B.start <= position /\ position < B.end /\ HasBlock
    BY <1>7 DEF InBlock
  <2>2. CASE position = B.start
    <3>1. position \in Starts(B)
      BY <1>5, <2>1, <2>2, StartsGoOn
    <3> QED BY <1>1, <2>1, <2>2, <3>1 DEF Ahead
  <2>3. CASE position # B.start
    <3>1. Entered
      BY <1>1, <1>5, <2>1, <2>3 DEF Ahead
    <3> QED BY <2>1, <3>1 DEF Entered
  <2> QED BY <2>2, <2>3
<1>8. ~InBlock => unknown = FALSE
  BY DEF Rest, Types, TypeOK
<1>9. ASSUME InBlock \/ InVariable, NEW line \in Lines
      PROVE  Hidden(line) \/ line.to <= position
  <2>1. line.to \in Int
    <3>1. \A x \in Line : x.to \in Int
      BY DEF Line
    <3>2. line \in Line
      BY DEF Rest, Lines, Range
    <3> QED BY <3>1, <3>2
  <2>2. Inside(line) => line.to <= position
    BY <1>1, <1>3, <1>5, <1>7, <1>9, <2>1 DEF Inside
  <2> QED BY <1>1, <2>2 DEF Behind
<1> QED BY <1>1, <1>2, <1>3, <1>4, <1>5, <1>6, <1>7, <1>8, <1>9

LEMMA OutsideInOrder ==
  ASSUME Types, Rest, Ended, Plain, Order, Dumping, ~InBlock,
         NEW to \in Int, position <= to, NEW lines, Run(lines, position, to), Write(lines),
         \A line \in Range(lines) : line.from = position,
         segment' = SegmentAfter,
         NEW v \in 1..(Len(variables) + 1), v \in {variable, variable + 1}, variable' = v,
         position' = DeterminePosition(SegmentAfter, block, v),
         UNCHANGED <<block, unknown>>,
         InVariable \/ (lines = <<>> /\ v = variable),
         HasBlock => to <= B.start,
         v \in DOMAIN variables => to <= variables[v].start,
         v # variable => Label("variable", V.start) \in Range(lines)
  PROVE  Order'
<1>1. /\ position \in Nat /\ listing \in Seq(Line) /\ Sequential /\ Labelled /\ Ahead
      /\ unknown' = FALSE /\ block' = block
      /\ block \in 1..(Len(blocks) + 1)
      /\ InVariable => \A line \in Lines : Hidden(line) \/ line.to <= position
      /\ \A line \in Lines : Behind(line)
  BY WhereDumpIs DEF Rest, Types, TypeOK, Order, Dumping
<1>2. /\ HasBlock <=> block \in DOMAIN blocks
      /\ HasVariable <=> variable \in DOMAIN variables
      /\ B = blocks[block] /\ V = variables[variable]
      /\ (\A i \in DOMAIN blocks : blocks[i].start \in Int)
      /\ (\A i \in DOMAIN variables : variables[i].start \in Int)
  BY IndexesInUse, Members, Limits DEF B, V, Types
<1>3. \A x \in Line : x.from \in Int /\ x.to \in Int
  BY DEF Line
<1>4. \/ \A line \in Lines : Hidden(line) \/ line.to <= position
      \/ lines = <<>> /\ Hidden(Label("segment", position))
  <2>1. CASE InVariable
    BY <1>1, <2>1
  <2>2. CASE ~InVariable
    <3> SUFFICES ASSUME NEW line \in Lines, ~Hidden(line), ~(line.to <= position)
                 PROVE  Hidden(Label("segment", position))
      BY <2>2
    <3>1. line.from < position
      BY <1>1 DEF Behind, Inside
    <3>2. position < line.to
      <4>1. line.to \in Int
        BY <1>1, <1>3 DEF Lines, Range
      <4> QED BY <1>1, <4>1
    <3> QED BY <1>1, <3>1, <3>2, LabelFields DEF Hidden
  <2> QED BY <2>1, <2>2
<1>5. /\ listing' \in Seq(Line) /\ Sequential'
      /\ Lines' = Lines \cup Range(SegmentLines) \cup Range(lines)
      /\ \A label : Hidden(label) => Hidden(label)'
  BY <1>1, <1>4, WritingInOrder
<1>6. Labelled'
  BY <1>1, <1>5, LabelsKept
<1>7. ASSUME NEW line \in Lines'
      PROVE  \/ Hidden(line)'
             \/ line.to <= position
             \/ /\ line.from <= position
                /\ block' \in DOMAIN blocks => line.to <= blocks[block'].start
                /\ variable' \in DOMAIN variables => line.to <= variables[variable'].start
  <2>1. CASE line \in Lines
    <3>1. Behind(line) /\ (InVariable => Hidden(line) \/ line.to <= position)
      BY <1>1, <2>1
    <3>2. CASE Hidden(line)
      BY <1>5, <3>2
    <3>3. CASE line.to <= position
      BY <3>3
    <3>4. CASE Inside(line) /\ ~InVariable
      <4>1. line.from \in Int
        BY <1>1, <1>3, <2>1 DEF Lines, Range
      <4> QED BY <1>1, <1>2, <3>4, <4>1 DEF Inside
    <3> QED BY <3>1, <3>2, <3>3, <3>4 DEF Behind
  <2>2. CASE line \in Range(SegmentLines)
    <3>1. line = Label("segment", position)
      BY <1>1, <2>2, SegmentRun
    <3> QED BY <1>1, <3>1, LabelFields
  <2>3. CASE line \in Range(lines)
    <3>1. line.from = position /\ line.to <= to /\ line.to \in Int
      BY <1>3, <2>3, RunsBetween
    <3> QED BY <1>1, <1>2, <3>1
  <2> QED BY <1>5, <2>1, <2>2, <2>3
<1>8. /\ block' \in DOMAIN blocks => position <= blocks[block'].start
      /\ variable' \in DOMAIN variables => position <= variables[variable'].start
  BY <1>1, <1>2
<1>9. /\ position' # None => Ahead' /\ \A line \in Lines' : Behind(line)'
      /\ position' = None =>
           \A i \in DOMAIN starts :
             i >= segment' => Hidden(SegmentLabel(i))' \/ LinesEnd(starts[i])'
  <2>1. variable' \in 1..(Len(variables) + 1)
    OBVIOUS
  <2>2. position' = DeterminePosition(SegmentAfter, block', variable')
    BY <1>1
  <2> QED BY <1>1, <1>5, <1>7, <1>8, <2>1, <2>2, JumpAhead
<1>10. starts' = starts
  BY DumpingFacts DEF program
<1> QED BY <1>5, <1>6, <1>9, <1>10 DEF Order

LEMMA InsideInOrder ==
  ASSUME Types, Rest, Ended, Plain, Order, Dumping, InBlock,
         NEW q \in Nat, position < q, NEW lines, Run(lines, position, q), Write(lines),
         \A line \in Range(lines) : line.from = position,
         \E line \in Range(lines) : line.to = q,
         NEW v \in 1..(Len(variables) + 1), v \in {variable, variable + 1},
         NEW found \in BOOLEAN, MoveOn(q, v, found),
         v \in DOMAIN variables => q <= variables[v].start,
         block + 1 \in DOMAIN blocks => q <= blocks[block + 1].start,
         B.start = position /\ B.label => Label("block", B.start) \in Range(lines),
         v # variable => Label("variable", V.start) \in Range(lines),
         q < B.end => found \/ q \in Starts(B)
  PROVE  Order'
<1>1. /\ position \in Nat /\ listing \in Seq(Line) /\ Sequential /\ Labelled /\ Ahead
      /\ HasBlock /\ block \in 1..Len(blocks) /\ block \in Nat
      /\ B.start <= position /\ position < B.end /\ B.start \in Nat /\ B.end \in Nat
      /\ \A line \in Lines : Hidden(line) \/ line.to <= position
      /\ B.start # position /\ B.label => Label("block", B.start) \in Lines
  BY WhereDumpIs, IndexesInUse, Members DEF Rest, Types
<1>2. /\ segment' = SegmentAfter /\ variable' = v /\ phase' = "dump"
      /\ starts' = starts /\ blocks' = blocks /\ variables' = variables /\ image' = image
  BY DumpingFacts DEF MoveOn, program
<1>3. /\ DOMAIN blocks = 1..Len(blocks) /\ DOMAIN variables = 1..Len(variables)
      /\ Len(blocks) \in Nat /\ Len(variables) \in Nat
      /\ (\A i \in DOMAIN blocks : blocks[i].start \in Int)
      /\ (\A i \in DOMAIN variables : variables[i].start \in Int)
      /\ B = blocks[block]
  BY Members, Limits DEF B, Types
<1>4. \A x \in Line : x.from \in Int /\ x.to \in Int
  BY DEF Line
<1>5. /\ listing' \in Seq(Line) /\ Sequential'
      /\ Lines' = Lines \cup Range(SegmentLines) \cup Range(lines)
      /\ \A label : Hidden(label) => Hidden(label)'
  BY <1>1, WritingInOrder
<1>6. ASSUME NEW line \in Lines'
      PROVE  Hidden(line)' \/ line.to <= position \/ (line.from <= position /\ line.to <= q /\ line.to \in Int)
  <2>1. CASE line \in Lines
    BY <1>1, <1>5, <2>1
  <2>2. CASE line \in Range(SegmentLines)
    <3>1. line = Label("segment", position)
      BY <1>1, <2>2, SegmentRun
    <3> QED BY <1>1, <3>1, LabelFields
  <2>3. CASE line \in Range(lines)
    <3>1. line.from = position /\ line.to <= q /\ line.to \in Int
      BY <1>4, <2>3, RunsBetween
    <3> QED BY <1>1, <3>1
  <2> QED BY <1>5, <2>1, <2>2, <2>3
<1>7. B.label => Label("block", B.start) \in Lines'
  BY <1>1, <1>5
<1>8. CASE q >= B.end
  <2>1. unknown' = FALSE /\ block' = block + 1
        /\ position' = DeterminePosition(SegmentAfter, block', variable')
    BY <1>2, <1>8 DEF MoveOn
  <2>2. Labelled'
    BY <1>1, <1>2, <1>5, <1>7, <2>1, LabelsKept
  <2>3. /\ block' \in 1..(Len(blocks) + 1) /\ variable' \in 1..(Len(variables) + 1)
        /\ block' \in DOMAIN blocks => q <= blocks[block'].start
        /\ variable' \in DOMAIN variables => q <= variables[variable'].start
    BY <1>1, <1>2, <1>3, <2>1
  <2>4. /\ block' \in DOMAIN blocks => position <= blocks[block'].start
        /\ variable' \in DOMAIN variables => position <= variables[variable'].start
    <3>1. \A x \in Int : q <= x => position <= x
      BY <1>1
    <3>2. /\ block' \in DOMAIN blocks => blocks[block'].start \in Int
          /\ variable' \in DOMAIN variables => variables[variable'].start \in Int
      BY <1>3
    <3> QED BY <2>3, <3>1, <3>2
  <2>5. ASSUME NEW line \in Lines'
        PROVE  \/ Hidden(line)'
               \/ line.to <= position
               \/ /\ line.from <= position
                  /\ block' \in DOMAIN blocks => line.to <= blocks[block'].start
                  /\ variable' \in DOMAIN variables => line.to <= variables[variable'].start
    BY <1>3, <1>6, <2>3
  <2>6. /\ position' # None => Ahead' /\ \A line \in Lines' : Behind(line)'
        /\ position' = None =>
             \A i \in DOMAIN starts :
               i >= segment' => Hidden(SegmentLabel(i))' \/ LinesEnd(starts[i])'
    BY <1>2, <1>5, <2>1, <2>3, <2>4, <2>5, JumpAhead
  <2> QED BY <1>2, <1>5, <2>2, <2>6 DEF Order
<1>9. CASE ~(q >= B.end)
  <2>1. unknown' = found /\ block' = block /\ position' = q /\ q < B.end
    BY <1>1, <1>9 DEF MoveOn
  <2>2. Labelled'
    BY <1>1, <1>2, <1>5, <2>1, LabelsKept
  <2>3. B' = B /\ HasBlock' /\ Starts(B)' = Starts(B)
    BY <1>1, <1>2, <2>1 DEF B, HasBlock, Starts, LastOf
  <2>4. Starts(B') = Starts(B) /\ (HasVariable' => V' = variables[v] /\ v \in DOMAIN variables)
    BY <1>2, <1>3, <2>3 DEF HasVariable, V
  <2>5. Entered'
    BY <1>1, <1>2, <1>7, <2>1, <2>3 DEF Entered
  <2>6. ASSUME NEW i \in DOMAIN starts, i >= segment', starts[i] < position'
        PROVE  Hidden(SegmentLabel(i))'
    <3>1. starts[i] > position /\ starts[i] \in Nat
      BY <1>1, <1>2, <2>6, SegmentsPassed, StartsOfSegments, DumpingFacts
    <3>2. PICK line \in Range(lines) : line.to = q /\ line.from = position
      OBVIOUS
    <3>3. line \in Lines' /\ line.from < starts[i] /\ starts[i] < line.to
      BY <1>5, <2>1, <2>6, <3>1, <3>2
    <3>4. /\ SegmentLabel(i)' = Label("segment", starts[i])
          /\ Label("segment", starts[i]).line = "segment"
          /\ Label("segment", starts[i]).from = starts[i]
      BY <1>2, <3>1, LabelFields DEF SegmentLabel
    <3> QED BY <3>3, <3>4 DEF Hidden
  <2>7. Ahead'
    <3>1. HasVariable' => position' <= V'.start
      BY <2>1, <2>4
    <3>2. unknown' => B'.start < position'
      BY <1>1, <2>1, <2>3
    <3> QED BY <1>2, <2>5, <2>6, <3>1, <3>2 DEF Ahead
  <2>8. ASSUME NEW line \in Lines'
        PROVE  Behind(line)'
    <3>1. line.to \in Int
      BY <1>4, <1>5, <2>8 DEF Lines, Range
    <3>2. Hidden(line)' \/ line.to <= position'
      BY <1>1, <1>6, <2>1, <3>1
    <3> QED BY <3>2 DEF Behind
  <2>9. position' # None
    BY <2>1 DEF None
  <2> QED BY <1>5, <2>2, <2>7, <2>8, <2>9 DEF Order
<1> QED BY <1>8, <1>9

LEMMA CodeLabelRun ==
  ASSUME position \in Int
  PROVE  /\ Run(CodeLabel, position, position)
         /\ \A line \in Range(CodeLabel) : line.from = position
         /\ B.start = position /\ B.label => Label("block", B.start) \in Range(CodeLabel)
<1>1. CASE B.start = position /\ B.label
  <2>1. CodeLabel = <<Label("block", position)>>
    BY <1>1 DEF CodeLabel
  <2>2. Run(<<Label("block", position)>>, position, position)
        /\ Range(<<Label("block", position)>>) = {Label("block", position)}
    BY LabelRun
  <2> QED BY <1>1, <2>1, <2>2, LabelFields
<1>2. CASE ~(B.start = position /\ B.label)
  <2>1. CodeLabel = <<>> /\ Range(<<>>) = {}
    BY <1>2 DEF CodeLabel, Range
  <2> QED BY <1>2, <2>1, NoRun
<1> QED BY <1>1, <1>2

LEMMA LabelledRun ==
  ASSUME position \in Int, NEW q \in Int, position <= q, NEW s, Run(s, position, q)
  PROVE  /\ Run(CodeLabel \o s, position, q)
         /\ Range(CodeLabel \o s) = Range(CodeLabel) \cup Range(s)
<1>1. Run(CodeLabel, position, position) /\ position <= position
  BY CodeLabelRun
<1> QED BY <1>1, RunsJoin

(* What one line of code or data in a block writes.                        *)
LEMMA CodeRun ==
  ASSUME position \in Int, NEW q \in Int, position <= q,
         NEW line \in {Data(position, q), Code(position, q)}
  PROVE  /\ Run(CodeLabel \o <<line>>, position, q)
         /\ \A x \in Range(CodeLabel \o <<line>>) : x.from = position
         /\ \E x \in Range(CodeLabel \o <<line>>) : x.to = q
         /\ B.start = position /\ B.label =>
              Label("block", B.start) \in Range(CodeLabel \o <<line>>)
<1>1. Run(<<line>>, position, q) /\ Range(<<line>>) = {line}
      /\ line.from = position /\ line.to = q
  BY DataRun
<1>2. /\ Run(CodeLabel \o <<line>>, position, q)
      /\ Range(CodeLabel \o <<line>>) = Range(CodeLabel) \cup {line}
  <2> DEFINE part == <<line>>
  <2>1. Run(part, position, q)
    BY <1>1
  <2> HIDE DEF part
  <2>2. /\ Run(CodeLabel \o part, position, q)
        /\ Range(CodeLabel \o part) = Range(CodeLabel) \cup Range(part)
    BY <2>1, LabelledRun
  <2> QED BY <1>1, <2>2 DEF part
<1> QED BY <1>1, <1>2, CodeLabelRun

(* What a variable at the position writes.                                 *)
LEMMA VariableRun ==
  ASSUME Types, Ended, Dumping, Plain, HasVariable, position = V.start
  PROVE  /\ Run(VariableLines, position, End(V))
         /\ \A x \in Range(VariableLines) : x.from = position
         /\ \E x \in Range(VariableLines) : x.to = End(V)
         /\ Label("variable", V.start) \in Range(VariableLines)
<1>1. /\ V.start \in Nat /\ End(V) \in Nat /\ V.start < End(V)
      /\ VariableLines = <<Label("variable", V.start)>> \o <<Data(V.start, End(V))>>
  BY DumpingFacts, VariableInOneLine
<1>2. PICK s \in Int, e \in Int : s = V.start /\ e = End(V) /\ s <= e /\ s <= s
  BY <1>1
<1> DEFINE label == Label("variable", s)
           data == Data(s, e)
           first == <<label>>
           second == <<data>>
<1>3. Run(first, s, s) /\ Range(first) = {label} /\ label.from = s
  BY LabelRun, Zenon DEF Label
<1>4. Run(second, s, e) /\ Range(second) = {data} /\ data.from = s /\ data.to = e
  <2>1. data \in {Data(s, e), Code(s, e)}
    OBVIOUS
  <2> HIDE DEF data
  <2> QED BY <2>1, DataRun
<1>5. VariableLines = first \o second /\ label = Label("variable", V.start)
  BY <1>1, <1>2
<1> HIDE DEF label, data, first, second
<1>6. Run(first \o second, s, e) /\ Range(first \o second) = Range(first) \cup Range(second)
  <2>1. Run(first, s, s) /\ Run(second, s, e)
    BY <1>3, <1>4
  <2> QED BY <1>2, <2>1, RunsJoin
<1> QED BY <1>2, <1>3, <1>4, <1>5, <1>6

LEMMA GapInOrder ==
  ASSUME Types, Rest, Ended, Plain, Order, Gap
  PROVE  Order'
<1>1. Dumping /\ ~InBlock /\ ~InVariable
  BY DEF Gap
<1>2. /\ position \in Nat
      /\ HasVariable => V.start \in Nat /\ position < V.start
      /\ HasBlock => B.start \in Nat /\ position < B.start
  BY <1>1, WhereDumpIs
<1>3. /\ HasVariable <=> variable \in DOMAIN variables
      /\ V = variables[variable] /\ variable \in 1..(Len(variables) + 1)
  BY IndexesInUse DEF V, Types, TypeOK
<1>4. Run(<<>>, position, position) /\ Range(<<>>) = {}
  BY NoRun DEF Range
<1>5. /\ Write(<<>>) /\ segment' = SegmentAfter /\ variable' = variable
      /\ position' = DeterminePosition(SegmentAfter, block, variable)
      /\ UNCHANGED <<block, unknown>>
  BY DEF Gap
<1>6. /\ position \in Int /\ position <= position
      /\ \A line \in Range(<<>>) : line.from = position
      /\ HasBlock => position <= B.start
      /\ variable \in DOMAIN variables => position <= variables[variable].start
  BY <1>2, <1>3, <1>4
<1>7. variable \in {variable, variable + 1} /\ ~(variable # variable)
  OBVIOUS
<1> QED BY <1>1, <1>3, <1>4, <1>5, <1>6, <1>7, OutsideInOrder

LEMMA DumpVariableInOrder ==
  ASSUME Types, Rest, Ended, Plain, Order, DumpVariable
  PROVE  Order'
<1>1. /\ Dumping /\ InVariable /\ ~InBlock /\ (HasBlock => B.start >= End(V))
      /\ Write(VariableLines) /\ segment' = SegmentAfter /\ variable' = variable + 1
      /\ position' = DeterminePosition(SegmentAfter, block, variable + 1)
      /\ UNCHANGED <<block, unknown>>
  BY DEF DumpVariable
<1>2. position \in Nat /\ position = V.start /\ HasVariable /\ phase = "dump"
      /\ (HasBlock => B.start \in Nat)
  BY <1>1, WhereDumpIs
<1>3. /\ variable \in DOMAIN variables /\ End(V) \in Nat /\ V.start < End(V)
      /\ variable + 1 \in DOMAIN variables => End(V) <= variables[variable + 1].start
  BY <1>2, VariableInOneLine
<1>4. /\ Run(VariableLines, position, End(V))
      /\ \A line \in Range(VariableLines) : line.from = position
      /\ Label("variable", V.start) \in Range(VariableLines)
  BY <1>1, <1>2, VariableRun
<1>5. variable + 1 \in 1..(Len(variables) + 1) /\ variable + 1 \in {variable, variable + 1}
  BY <1>3, Members DEF Types
<1>6. End(V) \in Int /\ position <= End(V) /\ (HasBlock => End(V) <= B.start)
  BY <1>1, <1>2, <1>3
<1> QED BY <1>1, <1>3, <1>4, <1>5, <1>6, OutsideInOrder

(* The block behind starts at the end of this one or later.                *)
LEMMA BlocksApart ==
  ASSUME Types, HasBlock, block + 1 \in DOMAIN blocks
  PROVE  B.end <= blocks[block + 1].start /\ blocks[block + 1].start \in Nat
<1>1. block \in DOMAIN blocks /\ B = blocks[block] /\ block < Len(blocks)
  <2>1. block + 1 <= Len(blocks) /\ Len(blocks) \in Nat
    BY Members DEF Types
  <2> QED BY <2>1, IndexesInUse DEF B
<1> QED BY <1>1, Members, Limits DEF Types, Setting

LEMMA CodeInOrder ==
  ASSUME Types, Rest, Ended, Plain, Order, DumpByte \/ DumpUndecoded \/ DumpInstruction
  PROVE  Order'
<1>1. Dumping /\ InBlock /\ ~InVariable
  BY DEF DumpByte, DumpUndecoded, DumpInstruction
<1>2. /\ position \in Nat /\ HasBlock
      /\ HasVariable => V.start \in Nat /\ position < V.start
      /\ B \in Block /\ B.start \in Nat /\ B.end \in Nat /\ B.start < B.end
      /\ block \in DOMAIN blocks /\ B = blocks[block]
      /\ B.start <= position /\ position < B.end
      /\ unknown \/ position \in Starts(B)
  BY <1>1, WhereDumpIs
<1>3. /\ HasVariable <=> variable \in DOMAIN variables
      /\ V = variables[variable] /\ variable \in 1..(Len(variables) + 1)
      /\ variable \in {variable, variable + 1}
  BY IndexesInUse DEF V, Types, TypeOK
<1>4. block + 1 \in DOMAIN blocks =>
        B.end <= blocks[block + 1].start /\ blocks[block + 1].start \in Nat
  BY <1>2, BlocksApart
<1>5. CASE DumpByte \/ DumpUndecoded
  <2> DEFINE q == position + 1
             line == Data(position, q)
             lines == CodeLabel \o <<line>>
  <2>1. Write(lines) /\ MoveOn(q, variable, TRUE)
    BY <1>5, Zenon DEF DumpByte, DumpUndecoded
  <2>2. /\ q \in Nat /\ q \in Int /\ position < q /\ position <= q /\ position \in Int
        /\ variable \in DOMAIN variables => q <= variables[variable].start
        /\ block + 1 \in DOMAIN blocks => q <= blocks[block + 1].start
    BY <1>2, <1>3, <1>4
  <2> HIDE DEF q
  <2>3. /\ Run(lines, position, q)
        /\ \A x \in Range(lines) : x.from = position
        /\ \E x \in Range(lines) : x.to = q
        /\ B.start = position /\ B.label => Label("block", B.start) \in Range(lines)
    BY <2>2, CodeRun
  <2> HIDE DEF lines
  <2> QED BY <1>1, <1>3, <2>1, <2>2, <2>3, InsideInOrder
<1>6. CASE DumpInstruction
  <2> DEFINE n == Length[image[position]]
             q == position + n
             line == Code(position, q)
             lines == CodeLabel \o <<line>>
  <2>1. /\ ~Fails(position) /\ ~unknown
        /\ HasVariable => q <= V.start
        /\ Write(CodeLabel \o Instructions(position))
    BY <1>6 DEF DumpInstruction
  <2>9. PICK found \in FindsUnknown(position) : MoveOn(q, variable, found)
    BY <1>6 DEF DumpInstruction
  <2>10. found \in BOOLEAN
    BY <2>9, UnknownOrNot
  <2>2. /\ q \in Nat /\ q \in Int /\ position < q /\ position <= q /\ position \in Int
        /\ q <= B.end /\ n \in Nat /\ n > 0
    BY <1>2, <2>1, DecodesForward
  <2>3. position \in Starts(B) /\ image[position] \notin FarJump
    <3>1. position \in Starts(B) /\ B \in Range(blocks)
      BY <1>2, <2>1 DEF Range
    <3> QED BY <3>1 DEF Plain, NoFarJumps
  <2>4. Instructions(position) = <<line>>
    <3>1. position < Size
      <4>1. B.end \in 0..Size /\ Size \in Nat
        BY <1>2, DecodesForward, Limits
      <4> QED BY <1>2, <4>1
    <3> HIDE DEF n
    <3>2. Max({1, n}) = n
      <4>1. Max({1, n}) \in {1, n} /\ 1 <= Max({1, n}) /\ n <= Max({1, n})
        BY <2>2, MaxOfTwo
      <4> QED BY <2>2, <4>1
    <3> DEFINE f == CHOOSE g : g = [p \in Nat |-> InstructionsFrom(g, p)]
    <3>3. Instructions(position) = f[position]
      BY DEF Instructions, InstructionsFrom
    <3>4. f = [p \in Nat |-> InstructionsFrom(f, p)]
      BY InstructionsExist
    <3> HIDE DEF f
    <3>5. f[position] = InstructionsFrom(f, position)
      BY <1>2, <3>4
    <3>6. ~(position >= Size)
      BY <1>2, <3>1, Limits
    <3>7. InstructionsFrom(f, position) = <<Code(position, position + Max({1, n}))>>
      BY <2>3, <3>6 DEF InstructionsFrom, n
    <3> QED BY <3>2, <3>3, <3>5, <3>7
  <2>5. q < B.end => q \in Starts(B)
    BY <1>2, <2>2, <2>3, StartsGoOn
  <2>6. /\ variable \in DOMAIN variables => q <= variables[variable].start
        /\ block + 1 \in DOMAIN blocks => q <= blocks[block + 1].start
    BY <1>2, <1>3, <1>4, <2>1, <2>2
  <2> HIDE DEF q, n
  <2>7. /\ Run(lines, position, q)
        /\ \A x \in Range(lines) : x.from = position
        /\ \E x \in Range(lines) : x.to = q
        /\ B.start = position /\ B.label => Label("block", B.start) \in Range(lines)
    BY <2>2, CodeRun
  <2>8. Write(lines)
    BY <2>1, <2>4
  <2> HIDE DEF lines
  <2> QED BY <1>1, <1>3, <2>2, <2>5, <2>6, <2>7, <2>8, <2>9, <2>10, InsideInOrder
<1> QED BY <1>5, <1>6

(* A variable in a block is behind its start, where instructions are no    *)
(* longer told apart.                                                      *)
LEMMA BytesInOrder ==
  ASSUME Types, Rest, Ended, Plain, Order, DumpVariableInBytes
  PROVE  Order'
<1>1. /\ Dumping /\ InVariable /\ unknown /\ HasBlock
      /\ Write(CodeLabel \o VariableLines)
      /\ MoveOn(position + End(V) - V.start, variable + 1, TRUE)
  BY DEF DumpVariableInBytes, Overlapping
<1>2. InBlock
  BY <1>1 DEF Rest
<1>3. /\ position \in Nat /\ position = V.start /\ HasVariable /\ phase = "dump"
      /\ B.start \in Nat /\ B.end \in Nat /\ B.start < position /\ position < B.end
      /\ block \in DOMAIN blocks /\ B = blocks[block]
  BY <1>1, <1>2, WhereDumpIs
<1>4. /\ variable \in DOMAIN variables /\ V = variables[variable]
      /\ V.start \in Nat /\ End(V) \in Nat /\ V.start < End(V)
      /\ variable + 1 \in DOMAIN variables => End(V) <= variables[variable + 1].start
  BY <1>3, VariableInOneLine
<1> DEFINE q == End(V)
<1>5. position + End(V) - V.start = q
  BY <1>3, <1>4
<1>6. Run(CodeLabel \o VariableLines, position, q)
      /\ Range(CodeLabel \o VariableLines) = Range(CodeLabel) \cup Range(VariableLines)
  <2>1. Run(VariableLines, position, q)
    BY <1>1, <1>3, VariableRun
  <2> QED BY <1>3, <1>4, <2>1, LabelledRun
<1> DEFINE lines == CodeLabel \o VariableLines
<1>7. /\ \A x \in Range(lines) : x.from = position
      /\ \E x \in Range(lines) : x.to = q
      /\ Label("variable", V.start) \in Range(lines)
      /\ B.start = position /\ B.label => Label("block", B.start) \in Range(lines)
  BY <1>1, <1>3, <1>6, VariableRun, CodeLabelRun
<1>8. variable + 1 \in 1..(Len(variables) + 1) /\ variable + 1 \in {variable, variable + 1}
  BY <1>4, Members DEF Types
<1>9. block + 1 \in DOMAIN blocks => q <= blocks[block + 1].start
  <2> SUFFICES ASSUME block + 1 \in DOMAIN blocks PROVE q <= blocks[block + 1].start
    OBVIOUS
  <2>1. B.end <= blocks[block + 1].start /\ blocks[block + 1].start \in Nat
    BY <1>1, BlocksApart
  <2>2. blocks[block + 1] \in Range(blocks) /\ V \in Range(variables)
    BY <1>4 DEF Range
  <2>3. ~(V.start < blocks[block + 1].start /\ blocks[block + 1].start < End(V))
    BY <2>2 DEF Plain, OpcodesApart
  <2> QED BY <1>3, <1>4, <2>1, <2>3
<1>10. q \in Nat /\ position < q /\ Write(lines) /\ MoveOn(q, variable + 1, TRUE)
  BY <1>1, <1>3, <1>4, <1>5
<1> HIDE DEF lines, q
<1>11. Run(lines, position, q)
  BY <1>6 DEF lines
<1>12. variable + 1 \in DOMAIN variables => q <= variables[variable + 1].start
  BY <1>4 DEF q
<1> QED BY <1>1, <1>2, <1>7, <1>8, <1>9, <1>10, <1>11, <1>12, InsideInOrder

(* And a variable that an instruction runs into starts at it, or in front  *)
(* of the block.                                                           *)
LEMMA NoVariableInCode ==
  ASSUME Types, Rest, Ended, Plain, Order, DumpVariableInCode
  PROVE  FALSE
<1>1. Dumping /\ InVariable /\ ~unknown /\ HasBlock /\ (InBlock \/ B.start < End(V))
  BY DEF DumpVariableInCode, Overlapping
<1>2. /\ position = V.start /\ HasVariable
      /\ block \in DOMAIN blocks /\ B = blocks[block]
      /\ InBlock => position \in Starts(B)
      /\ ~InBlock => position < B.start
  BY <1>1, WhereDumpIs
<1>3. B \in Range(blocks) /\ V \in Range(variables)
  BY <1>2, IndexesInUse DEF Range, V
<1>4. V.start \notin Starts(B) /\ ~(V.start < B.start /\ B.start < End(V))
  BY <1>3 DEF Plain, OpcodesApart
<1> QED BY <1>1, <1>2, <1>4

LEMMA EndedStays ==
  ASSUME Types, Ended, [Next]_vars
  PROVE  Ended'
<1>1. /\ ending \in Nat /\ (\A i \in DOMAIN variables : i \in Nat)
      /\ variables \in Seq(Variable) /\ Len(variables) \in Nat
  BY IndexesInUse, Members DEF Types, TypeOK
<1>2. CASE KeepEnd
  <2>1. /\ variables' = variables /\ phase' = phase /\ phase = "ends" /\ ending' = ending + 1
        /\ LengthKnown(variables[ending])
    BY <1>2 DEF KeepEnd
  <2>2. ASSUME NEW i \in DOMAIN variables, i < ending'
        PROVE  LengthKnown(variables[i])
    <3>1. i < ending \/ i = ending
      BY <1>1, <2>1, <2>2
    <3> QED BY <2>1, <3>1 DEF Ended
  <2> QED BY <2>1, <2>2 DEF Ended, LengthKnown
<1>3. CASE SetVariableEnd
  <2>1. phase = "ends" /\ phase' \in {"ends", "aborted"}
    BY <1>3 DEF SetVariableEnd
  <2>2. CASE NewEnd(ending) > variables[ending].start
    <3> DEFINE e == NewEnd(ending)
               v == [variables[ending] EXCEPT !.end = e]
    <3>1. /\ variables' = [variables EXCEPT ![ending] = v]
          /\ ending' = ending + 1
      BY <1>3, <2>2 DEF SetVariableEnd
    <3>2. ending \in DOMAIN variables /\ ~LengthKnown(variables[ending])
      <4>1. ending <= Len(variables) /\ ~LengthKnown(variables[ending])
        BY <1>3 DEF SetVariableEnd
      <4>2. ending \in 1..(Len(variables) + 1) /\ DOMAIN variables = 1..Len(variables)
        BY Members DEF Types, TypeOK
      <4> QED BY <1>1, <4>1, <4>2
    <3>3. e \in Int /\ variables[ending].start \in Int /\ variables[ending] \in Variable
      BY <2>2, <3>2, EndsInside, Members, Limits DEF Types
    <3> HIDE DEF e
    <3>4. v.end = e /\ v.start = variables[ending].start /\ e > v.start
      BY <2>2, <3>3 DEF Variable, e
    <3>5. LengthKnown(v)
      BY <3>3, <3>4 DEF LengthKnown
    <3> HIDE DEF v
    <3>6. DOMAIN variables' = DOMAIN variables
          /\ \A i \in DOMAIN variables : variables'[i] = IF i = ending THEN v ELSE variables[i]
      BY <3>1
    <3>7. ASSUME NEW i \in DOMAIN variables, i < ending'
          PROVE  LengthKnown(variables'[i])
      <4>1. i < ending \/ i = ending
        BY <1>1, <3>1, <3>7
      <4>2. CASE i = ending
        BY <3>5, <3>6, <4>2
      <4>3. CASE i # ending
        BY <3>6, <4>1, <4>3 DEF Ended
      <4> QED BY <4>2, <4>3
    <3> QED BY <2>1, <3>6, <3>7 DEF Ended, LengthKnown
  <2>3. CASE ~(NewEnd(ending) > variables[ending].start)
    <3>1. variables' = variables /\ ending' = ending
      BY <1>3, <2>3 DEF SetVariableEnd
    <3> QED BY <2>1, <3>1 DEF Ended, LengthKnown
  <2> QED BY <2>2, <2>3
<1>4. CASE BeginDump
  BY <1>4 DEF BeginDump, Ended, LengthKnown
<1>5. CASE Dumping
  BY <1>5 DEF Dumping, Ended, LengthKnown
<1>6. CASE Finish
  BY <1>6 DEF Finish, Ended, LengthKnown
<1>7. CASE Stopped \/ UNCHANGED vars
  BY <1>7 DEF Stopped, vars, Ended, LengthKnown
<1>8. Gap \/ DumpVariable \/ DumpByte \/ DumpUndecoded \/ DumpInstruction
        \/ DumpVariableInBytes \/ DumpVariableInCode => Dumping
  BY Zenon DEF Gap, DumpVariable, DumpByte, DumpUndecoded, DumpInstruction,
               DumpVariableInBytes, DumpVariableInCode, Overlapping
<1> QED BY <1>2, <1>3, <1>4, <1>5, <1>6, <1>7, <1>8 DEF Next

LEMMA PlainStays ==
  ASSUME image' = image, blocks' = blocks, variables' = variables
  PROVE  Plain' <=> Plain
<1>1. \A b : Starts(b)' = Starts(b)
  BY DEF Starts, LastOf
<1> QED BY <1>1 DEF Plain, VariablesApart, NoFarPointers, NoFarJumps, OpcodesApart,
                    After, Apart, Range, End

(* Before the first line, dump is at the first thing there is.             *)
LEMMA BeginInOrder ==
  ASSUME Types, BeginDump
  PROVE  Order'
<1>1. /\ phase = "ends" /\ position' = DeterminePosition(1, 1, 1)
      /\ UNCHANGED <<blocks, starts, variables, segment, block, variable, unknown, listing>>
  BY DEF BeginDump, program
<1>2. segment = 1 /\ block = 1 /\ variable = 1 /\ unknown = FALSE /\ listing = <<>>
  BY <1>1 DEF Types, Fresh
<1>3. Lines' = {} /\ DOMAIN listing' = {}
  BY <1>1, <1>2 DEF Lines, Range
<1>4. /\ HasBlock' <=> 1 \in DOMAIN blocks
      /\ HasVariable' <=> 1 \in DOMAIN variables
      /\ B' = blocks[1] /\ V' = variables[1]
  BY <1>1, <1>2, IndexesInUse DEF HasBlock, HasVariable, B, V
<1>5. /\ 1 \in DOMAIN blocks => position' <= blocks[1].start
      /\ 1 \in DOMAIN variables => position' <= variables[1].start
      /\ 1 \in DOMAIN starts /\ position' # None => position' <= starts[1]
      /\ position' \in 0..Size \cup {None}
  BY <1>1, NextPosition, NextInOrder
<1>6. position' \in Int
  BY <1>5, Limits DEF None
<1>7. ASSUME NEW i \in DOMAIN starts
      PROVE  (position' # None => ~(starts[i] < position')) /\ ~(i < 1)
  <2>1. i \in Nat /\ i >= 1 /\ 1 \in DOMAIN starts
    BY StartsOfSegments
  <2>2. starts[1] <= starts[i] /\ starts[1] \in Nat /\ starts[i] \in Nat
    BY <2>1, StartsOfSegments
  <2> QED BY <1>5, <1>6, <2>1, <2>2
<1>8. /\ \A i \in DOMAIN blocks : ~(i < 1)
      /\ \A i \in DOMAIN variables : ~(i < 1)
  BY Members DEF Types
<1>9. Sequential'
  BY <1>3 DEF Sequential
<1>10. Labelled'
  BY <1>1, <1>2, <1>7, <1>8 DEF Labelled
<1>11. position' # None => Ahead'
  BY <1>1, <1>2, <1>4, <1>5, <1>7 DEF Ahead
<1>12. \A p : LinesEnd(p)'
  BY <1>3 DEF LinesEnd
<1> QED BY <1>3, <1>9, <1>10, <1>11, <1>12 DEF Order

LEMMA InitLaidOut == Init => LaidOut
<1> SUFFICES ASSUME Init PROVE LaidOut
  OBVIOUS
<1>1. ending = 1 /\ phase = "ends"
  BY DEF Init
<1>2. \A i \in DOMAIN variables : ~(i < 1)
  BY InitTypes, Members DEF Types
<1> QED BY <1>1, <1>2 DEF LaidOut, Ended

LEMMA NextLaidOut ==
  ASSUME Types, Rest, LaidOut, [Next]_vars
  PROVE  LaidOut'
<1>1. Ended /\ Ended'
  BY EndedStays DEF LaidOut
<1>2. SUFFICES ASSUME phase' \in {"dump", "done"}, Plain' PROVE Order'
  BY <1>1 DEF LaidOut
<1>3. CASE KeepEnd \/ SetVariableEnd
  BY <1>2, <1>3 DEF KeepEnd, SetVariableEnd
<1>4. CASE BeginDump
  BY <1>4, BeginInOrder
<1>5. CASE Gap \/ DumpVariable \/ DumpByte \/ DumpUndecoded \/ DumpInstruction
             \/ DumpVariableInBytes \/ DumpVariableInCode
  <2>0. Dumping
    BY <1>5, Zenon DEF Gap, DumpVariable, DumpByte, DumpUndecoded, DumpInstruction,
                       DumpVariableInBytes, DumpVariableInCode, Overlapping
  <2>1. phase = "dump" /\ image' = image /\ blocks' = blocks /\ variables' = variables
    BY <2>0 DEF Dumping, program
  <2>2. Plain /\ Order
    BY <1>2, <2>1, PlainStays DEF LaidOut
  <2>3. CASE DumpVariableInCode
    BY <1>1, <2>2, <2>3, NoVariableInCode
  <2>4. CASE Gap \/ DumpVariable \/ DumpByte \/ DumpUndecoded \/ DumpInstruction
               \/ DumpVariableInBytes
    BY <1>1, <2>2, <2>4, GapInOrder, DumpVariableInOrder, CodeInOrder, BytesInOrder
  <2> QED BY <1>5, <2>3, <2>4
<1>6. CASE Finish \/ Stopped \/ UNCHANGED vars
  <2>1. /\ phase \in {"dump", "done"}
        /\ UNCHANGED <<image, blocks, variables, starts, segment, block, variable, position,
                       unknown, listing>>
    BY <1>2, <1>6 DEF Finish, Stopped, vars, program, cursor
  <2>2. Order
    BY <1>2, <2>1, PlainStays DEF LaidOut
  <2>3. \A b : Starts(b)' = Starts(b)
    BY <2>1 DEF Starts, LastOf
  <2>4. /\ Lines' = Lines /\ B' = B /\ V' = V
        /\ (HasBlock' <=> HasBlock) /\ (HasVariable' <=> HasVariable)
        /\ \A label : Hidden(label)' <=> Hidden(label)
        /\ \A i : SegmentLabel(i)' = SegmentLabel(i)
    BY <2>1 DEF Lines, B, V, HasBlock, HasVariable, Hidden, SegmentLabel
  <2>5. Sequential' /\ Labelled'
    BY <2>1, <2>2, <2>4 DEF Order, Sequential, Labelled
  <2>6. /\ Ahead => Ahead'
        /\ \A line : Behind(line) => Behind(line)'
        /\ \A p : LinesEnd(p) => LinesEnd(p)'
    BY <2>1, <2>3, <2>4 DEF Ahead, Entered, Behind, Inside, LinesEnd
  <2> QED BY <2>1, <2>2, <2>4, <2>5, <2>6 DEF Order
<1> QED BY <1>3, <1>4, <1>5, <1>6 DEF Next

(* Every variable has bytes when dump begins.                              *)
LEMMA NoEmptyVariable ==
  ASSUME Types, Ended, phase \in {"dump", "done"}, NEW i \in DOMAIN variables
  PROVE  /\ variables[i].start \in Nat /\ End(variables[i]) \in Nat
         /\ variables[i].start < End(variables[i])
<1> DEFINE v == variables[i]
<1>1. /\ v.start \in Nat /\ v.end \in Nat /\ TypeOK
      /\ i < ending
  <2>1. Len(variables) \in Nat /\ i \in 1..Len(variables) /\ ending > Len(variables)
        /\ ending \in Nat
    BY Members DEF Ended, Types, TypeOK
  <2> QED BY <2>1, Members, Limits DEF Types
<1>2. v.kind \in Arrays => v.start < v.end
  <2>1. v.kind \in Arrays => v.start # v.end /\ v.start <= v.end
    BY <1>1 DEF Ended, LengthKnown, Types, Setting
  <2> QED BY <1>1, <2>1
<1>3. /\ v.kind \in Arrays => End(v) = v.end
      /\ v.kind = "byte" => End(v) = v.start + 1
      /\ v.kind = "word" => End(v) = v.start + 2
      /\ v.kind = "far" => End(v) = v.start + 4
      /\ v.kind \in Arrays \cup {"byte", "word", "far"}
  BY <1>1, EndByKind
<1> HIDE DEF v
<1>4. End(v) \in Nat /\ v.start < End(v)
  BY <1>1, <1>2, <1>3
<1> QED BY <1>1, <1>4 DEF v

(* A byte that is written is in a line that no label hides.                *)
LEMMA EndOfLines ==
  ASSUME listing \in Seq(Line), NEW p \in Int, LinesEnd(p), NEW e \in Int, e - 1 \in Written
  PROVE  e <= p
<1>1. PICK line \in Lines : e - 1 \in Bytes(line)
  BY DEF Written
<1>2. line \in Line
  BY DEF Lines, Range
<1>3. /\ line.from \in Int /\ line.to \in Int
      /\ line.line = "segment" => line.to = line.from
  BY <1>2 DEF Line
<1>4. line.from < line.to /\ e <= line.to
  BY <1>1, <1>3 DEF Bytes
<1>5. ~Hidden(line)
  BY <1>3, <1>4 DEF Hidden
<1>6. line.to <= p
  BY <1>5 DEF LinesEnd
<1> QED BY <1>3, <1>4, <1>6

(* At the end everything is behind the indexes, and has its labels.        *)
LEMMA EverythingInOrder == Types /\ Rest /\ LaidOut => InOrder
<1> SUFFICES ASSUME Types, Rest, LaidOut, phase = "done", Plain
             PROVE  /\ Sequential
                    /\ \A b \in Range(blocks) : b.label => Label("block", b.start) \in Lines
                    /\ \A v \in Range(variables) : Label("variable", v.start) \in Lines
                    /\ \A p \in Range(starts) :
                         \/ Label("segment", p) \in Lines
                         \/ Hidden(Label("segment", p))
                         \/ Beyond(p)
  BY DEF InOrder, Plain, Sequential
<1>1. Order /\ position = None /\ ~HasBlock /\ ~HasVariable /\ Ended
  BY DEF LaidOut, Rest, Order
<1>2. /\ \A i \in DOMAIN blocks : i < block
      /\ \A i \in DOMAIN variables : i < variable
  BY <1>1, Members DEF HasBlock, HasVariable, Types, TypeOK
<1>3. Labelled /\ Sequential
  BY <1>1 DEF Order
<1>4. Whole
  BY DEF Plain, Whole, VariablesApart, StringsApart, OverlapsOutside
<1>5. InBlocks \cup InVariables \subseteq Written
  BY <1>4, EverythingWritten DEF Complete, Whole
<1>6. ASSUME NEW p \in Int, LinesEnd(p)
      PROVE  Beyond(p)
  <2>1. ASSUME NEW i \in DOMAIN blocks
        PROVE  blocks[i].end <= p
    <3>1. /\ blocks[i].start \in Int /\ blocks[i].end \in Int
          /\ blocks[i].start < blocks[i].end
      BY Members, Limits DEF Types, Setting
    <3>2. blocks[i].end - 1 \in blocks[i].start..(blocks[i].end - 1)
      BY <3>1
    <3>3. blocks[i].end - 1 \in Written
      BY <1>5, <3>2 DEF InBlocks, Range
    <3> QED BY <1>6, <3>1, <3>3, EndOfLines DEF Rest
  <2>2. ASSUME NEW i \in DOMAIN variables
        PROVE  End(variables[i]) <= p
    <3>1. /\ variables[i].start \in Int /\ End(variables[i]) \in Int
          /\ variables[i].start < End(variables[i])
      BY <1>1, NoEmptyVariable
    <3>2. End(variables[i]) - 1 \in variables[i].start..(End(variables[i]) - 1)
      BY <3>1
    <3>3. End(variables[i]) - 1 \in Written
      BY <1>5, <3>2 DEF InVariables, Range
    <3> QED BY <1>6, <3>1, <3>3, EndOfLines DEF Rest
  <2> QED BY <2>1, <2>2 DEF Beyond, Range
<1>7. ASSUME NEW i \in DOMAIN starts
      PROVE  \/ SegmentLabel(i) \in Lines
             \/ Hidden(SegmentLabel(i))
             \/ Beyond(starts[i])
  <2>1. i \in Nat /\ segment \in Nat /\ starts[i] \in Int
    BY StartsOfSegments
  <2>2. CASE i < segment
    BY <1>3, <2>2 DEF Labelled
  <2>3. CASE i >= segment
    BY <1>1, <1>6, <2>1, <2>3 DEF Order
  <2> QED BY <2>1, <2>2, <2>3
<1> QED BY <1>2, <1>3, <1>7 DEF Labelled, SegmentLabel, Range

(* Whatever the image, the instruction lengths, the blocks, the variables  *)
(* and the segments are, within what InOrder leaves aside: dump writes the *)
(* lines in the order of the bytes and none twice, and the label of every  *)
(* block and variable right before its byte; so it does the label of every *)
(* segment that starts neither within a line nor behind all code and data. *)
THEOREM LinesInOrder == Spec => []InOrder
<1>1. Init => Types /\ Rest /\ LaidOut
  BY InitTypes, InitRest, InitLaidOut
<1>2. Types /\ Rest /\ LaidOut /\ [Next]_vars => (Types /\ Rest /\ LaidOut)'
  BY NextTypes, NextRest, NextLaidOut
<1>3. Types /\ Rest /\ LaidOut => InOrder
  BY EverythingInOrder
<1> QED BY <1>1, <1>2, <1>3, PTL DEF Spec

-----------------------------------------------------------------------------
(* Labels, whatever overlaps.                                              *)

Over(b) == \E v \in Range(variables) : v.start < b.start /\ b.start < End(v)

Kept(b, lines) == b.label => Label("block", b.start) \in lines \/ Over(b)

(* What is behind the indexes is labelled, and so is the block that the    *)
(* position has entered or passed.                                         *)
LabelsSoFar ==
  phase \in {"dump", "done"} =>
    /\ \A i \in DOMAIN variables :
         i < variable => Label("variable", variables[i].start) \in Lines
    /\ \A i \in DOMAIN blocks : i < block => Kept(blocks[i], Lines)
    /\ HasBlock /\ position # None => position <= B.start \/ Kept(B, Lines)

LEMMA RangesJoin ==
  ASSUME NEW s \in Seq(Line), NEW t \in Seq(Line)
  PROVE  s \o t \in Seq(Line) /\ Range(s \o t) = Range(s) \cup Range(t)
<1>1. /\ \A i \in DOMAIN s : s[i] \in Line
      /\ \A i \in DOMAIN t : t[i] \in Line
  OBVIOUS
<1>2. InSequence(s, Line) /\ InSequence(t, Line) /\ \A x \in Range(s) : x \in Line
  BY <1>1 DEF InSequence, Range
<1> QED BY <1>2, SequenceGrows

LEMMA LinesStay ==
  ASSUME listing \in Seq(Line), position \in Int, NEW lines \in Seq(Line), Write(lines)
  PROVE  Lines \subseteq Lines' /\ Range(lines) \subseteq Lines'
<1>1. SegmentLines \in Seq(Line)
  BY LinesFit, OneLine, NoLine DEF SegmentLines
<1> DEFINE before == listing \o SegmentLines
<1>2. before \in Seq(Line) /\ Range(listing) \subseteq Range(before)
  BY <1>1, RangesJoin
<1>3. listing' = before \o lines
  BY DEF Write
<1> HIDE DEF before
<1>4. Range(listing') = Range(before) \cup Range(lines)
  BY <1>2, <1>3, RangesJoin
<1> QED BY <1>2, <1>4 DEF Lines, Range

LEMMA LabelInCode ==
  ASSUME position \in Int, NEW lines \in Seq(Line)
  PROVE  /\ CodeLabel \o lines \in Seq(Line)
         /\ Range(lines) \subseteq Range(CodeLabel \o lines)
         /\ B.start = position /\ B.label =>
              Label("block", B.start) \in Range(CodeLabel \o lines)
<1>1. CodeLabel \in Seq(Line)
  BY LinesFit, OneLine, NoLine DEF CodeLabel
<1> QED BY <1>1, RangesJoin, CodeLabelRun

LEMMA LabelOfVariable ==
  ASSUME Types, HasVariable
  PROVE  VariableLines \in Seq(Line) /\ Label("variable", V.start) \in Range(VariableLines)
<1>1. VariableLines \in Seq(Line) /\ V.start \in Int
  BY VariableIsWritten, EndOfVariable, Limits
<1> DEFINE label == Label("variable", V.start)
<1>2. label \in Line
  BY <1>1, LinesFit
<1>3. PICK rest \in Seq(Line) : VariableLines = <<label>> \o rest
  BY VariableIsWritten
<1> HIDE DEF label
<1>4. <<label>> \in Seq(Line) /\ label \in Range(<<label>>)
  BY <1>2 DEF Range
<1> QED BY <1>1, <1>3, <1>4, RangesJoin DEF label

LEMMA LabelsStep ==
  ASSUME Types, Dumping, LabelsSoFar, Lines \subseteq Lines',
         block' \in {block, block + 1}, variable' \in {variable, variable + 1},
         variable' # variable => HasVariable /\ Label("variable", V.start) \in Lines',
         block' # block => HasBlock /\ Kept(B, Lines'),
         block' \in DOMAIN blocks /\ position' # None =>
           position' <= blocks[block'].start \/ Kept(blocks[block'], Lines')
  PROVE  LabelsSoFar'
<1>1. blocks' = blocks /\ variables' = variables /\ phase = "dump" /\ phase' = "dump"
  BY DEF Dumping, program
<1>2. /\ HasBlock' => block' \in DOMAIN blocks /\ B' = blocks[block']
      /\ \A b, lines : Kept(b, lines)' <=> Kept(b, lines)
      /\ \A b : Kept(b, Lines) => Kept(b, Lines')
  <2>1. block' \in Nat /\ block' >= 1 /\ DOMAIN blocks = 1..Len(blocks) /\ Len(blocks) \in Nat
    BY Members DEF Types, TypeOK
  <2> QED BY <1>1, <2>1 DEF HasBlock, B, Kept, Over, Range, End
<1>3. block \in Nat /\ variable \in Nat
      /\ (\A i \in DOMAIN blocks : i \in Nat) /\ (\A i \in DOMAIN variables : i \in Nat)
  BY IndexesInUse
<1>4. ASSUME NEW i \in DOMAIN variables, i < variable'
      PROVE  Label("variable", variables[i].start) \in Lines'
  <2>1. CASE i < variable
    BY <1>1, <2>1 DEF LabelsSoFar
  <2>2. CASE ~(i < variable)
    <3>1. i = variable /\ variable' # variable
      BY <1>3, <1>4, <2>2
    <3> QED BY <3>1 DEF V
  <2> QED BY <2>1, <2>2
<1>5. ASSUME NEW i \in DOMAIN blocks, i < block'
      PROVE  Kept(blocks[i], Lines')
  <2>1. CASE i < block
    BY <1>1, <1>2, <2>1 DEF LabelsSoFar
  <2>2. CASE ~(i < block)
    <3>1. i = block /\ block' # block
      BY <1>3, <1>5, <2>2
    <3> QED BY <3>1 DEF B
  <2> QED BY <2>1, <2>2
<1>6. HasBlock' /\ position' # None => position' <= B'.start \/ Kept(B', Lines')
  BY <1>2
<1>7. \A b \in {B'} : Kept(b, Lines') => Kept(B, Lines)'
  BY <1>1 DEF Kept, Over, Range, End
<1>8. \A i \in DOMAIN blocks : Kept(blocks[i], Lines') => Kept(blocks[i], Lines)'
  BY <1>1 DEF Kept, Over, Range, End
<1> QED BY <1>1, <1>4, <1>5, <1>6, <1>7, <1>8 DEF LabelsSoFar

(* On from the block, which has its label or has lost it to a variable.    *)
LEMMA LabelsMoveOn ==
  ASSUME Types, Dumping, LabelsSoFar, Lines \subseteq Lines', HasBlock,
         NEW q, NEW v \in {variable, variable + 1}, NEW found, MoveOn(q, v, found),
         v # variable => HasVariable /\ Label("variable", V.start) \in Lines',
         Kept(B, Lines')
  PROVE  LabelsSoFar'
<1>1. variable' = v
  BY DEF MoveOn
<1>2. CASE q >= B.end
  <2>1. block' = block + 1 /\ position' = DeterminePosition(SegmentAfter, block + 1, v)
    BY <1>2 DEF MoveOn
  <2>2. block' \in DOMAIN blocks => position' <= blocks[block'].start
    BY <2>1, NextPosition
  <2> QED BY <1>1, <2>1, <2>2, LabelsStep
<1>3. CASE ~(q >= B.end)
  <2>1. block' = block
    BY <1>3 DEF MoveOn
  <2> QED BY <1>1, <2>1, LabelsStep DEF B
<1> QED BY <1>2, <1>3

(* At its start a block is labelled; before, a variable is over it that    *)
(* reaches into it.                                                        *)
LEMMA BlockIsKept ==
  ASSUME Types, Dumping, LabelsSoFar, HasBlock, Lines \subseteq Lines',
         B.start = position /\ B.label => Label("block", B.start) \in Lines',
         InBlock \/ (InVariable /\ B.start < End(V))
  PROVE  Kept(B, Lines')
<1>1. /\ position \in Nat /\ position # None /\ phase = "dump"
      /\ B.start \in Nat
  BY DumpingFacts, DecodesForward DEF Dumping
<1>2. CASE B.start = position
  BY <1>2 DEF Kept
<1>3. CASE B.start < position
  BY <1>1, <1>3 DEF LabelsSoFar, Kept
<1>4. CASE position < B.start
  <2>1. InVariable /\ B.start < End(V) /\ HasVariable
    BY <1>1, <1>4 DEF InBlock, InVariable
  <2>2. variable \in DOMAIN variables /\ V.start \in Nat /\ V.start <= position
    BY <2>1, EndOfVariable, Limits DEF InVariable
  <2>3. V.start < B.start /\ V \in Range(variables)
    BY <1>1, <1>4, <2>2 DEF V, Range
  <2> QED BY <2>1, <2>3 DEF Kept, Over
<1> QED BY <1>1, <1>2, <1>3, <1>4

LEMMA CodeKeepsLabels ==
  ASSUME Types, Rest, LabelsSoFar, Dumping, InBlock,
         NEW q, NEW found, MoveOn(q, variable, found),
         NEW rest \in Seq(Line), Write(CodeLabel \o rest)
  PROVE  LabelsSoFar'
<1>1. position \in Int /\ listing \in Seq(Line) /\ HasBlock
  BY DumpingFacts DEF Rest, InBlock
<1>2. /\ Lines \subseteq Lines'
      /\ B.start = position /\ B.label => Label("block", B.start) \in Lines'
  BY <1>1, LabelInCode, LinesStay
<1>3. Kept(B, Lines')
  BY <1>1, <1>2, BlockIsKept
<1> QED BY <1>1, <1>2, <1>3, LabelsMoveOn

LEMMA VariableKeepsLabels ==
  ASSUME Types, Rest, LabelsSoFar, Dumping, HasBlock, HasVariable,
         InVariable, InBlock \/ B.start < End(V),
         NEW q, NEW found, MoveOn(q, variable + 1, found),
         NEW rest \in Seq(Line), Write((CodeLabel \o VariableLines) \o rest)
  PROVE  LabelsSoFar'
<1>1. position \in Int /\ listing \in Seq(Line)
  BY DumpingFacts DEF Rest
<1>2. VariableLines \in Seq(Line) /\ Label("variable", V.start) \in Range(VariableLines)
  BY LabelOfVariable
<1> DEFINE lines == CodeLabel \o VariableLines
<1>3. /\ lines \in Seq(Line)
      /\ Label("variable", V.start) \in Range(lines)
      /\ B.start = position /\ B.label => Label("block", B.start) \in Range(lines)
  BY <1>1, <1>2, LabelInCode
<1>4. Write(lines \o rest)
  OBVIOUS
<1> HIDE DEF lines
<1>5. lines \o rest \in Seq(Line) /\ Range(lines \o rest) = Range(lines) \cup Range(rest)
  BY <1>3, RangesJoin
<1>6. Lines \subseteq Lines' /\ Range(lines) \subseteq Lines'
  BY <1>1, <1>4, <1>5, LinesStay
<1>7. Kept(B, Lines')
  BY <1>3, <1>6, BlockIsKept
<1> QED BY <1>3, <1>6, <1>7, LabelsMoveOn

LEMMA StepsKeepLabels ==
  ASSUME Types, Rest, LabelsSoFar, Dumping,
         Gap \/ DumpVariable \/ DumpByte \/ DumpUndecoded \/ DumpInstruction
           \/ DumpVariableInBytes \/ DumpVariableInCode
  PROVE  LabelsSoFar'
<1>1. position \in Nat /\ position \in Int /\ listing \in Seq(Line)
  BY DumpingFacts DEF Rest
<1>2. CASE Gap
  <2>1. /\ Write(<<>>) /\ block' = block /\ variable' = variable
        /\ position' = DeterminePosition(SegmentAfter, block, variable)
    BY <1>2 DEF Gap
  <2>2. block \in DOMAIN blocks => position' <= blocks[block].start
    BY <2>1, NextPosition
  <2>3. Lines \subseteq Lines'
    BY <1>1, <2>1, NoLine, LinesStay
  <2> QED BY <2>1, <2>2, <2>3, LabelsStep
<1>3. CASE DumpVariable
  <2>1. /\ Write(VariableLines) /\ block' = block /\ variable' = variable + 1
        /\ position' = DeterminePosition(SegmentAfter, block, variable + 1)
        /\ HasVariable
    BY <1>3 DEF DumpVariable, InVariable
  <2>2. block \in DOMAIN blocks => position' <= blocks[block].start
    BY <2>1, NextPosition
  <2>3. Lines \subseteq Lines' /\ Label("variable", V.start) \in Lines'
    BY <1>1, <2>1, LabelOfVariable, LinesStay
  <2> QED BY <2>1, <2>2, <2>3, LabelsStep
<1>4. CASE DumpByte \/ DumpUndecoded
  <2> DEFINE data == <<Data(position, position + 1)>>
             q == position + 1
  <2>1. data \in Seq(Line)
    BY <1>1, LinesFit, OneLine
  <2>2. InBlock /\ MoveOn(q, variable, TRUE) /\ Write(CodeLabel \o data)
    BY <1>4, Zenon DEF DumpByte, DumpUndecoded
  <2> HIDE DEF data, q
  <2> QED BY <2>1, <2>2, CodeKeepsLabels
<1>5. CASE DumpInstruction
  <2> DEFINE q == position + Length[image[position]]
  <2>1. InBlock /\ HasBlock /\ Write(CodeLabel \o Instructions(position))
    BY <1>5 DEF DumpInstruction, InBlock
  <2>2. PICK found \in FindsUnknown(position) : MoveOn(q, variable, found)
    BY <1>5 DEF DumpInstruction
  <2>3. position < Size
    <3>1. B.end \in 0..Size /\ Size \in Nat
      BY <1>1, <2>1, DecodesForward, Limits
    <3> QED BY <1>1, <2>1, <3>1 DEF InBlock
  <2>4. Instructions(position) \in Seq(Line)
    BY <1>1, <2>3, InstructionIsWritten
  <2> HIDE DEF q
  <2> QED BY <2>1, <2>2, <2>4, CodeKeepsLabels
<1>6. CASE DumpVariableInBytes \/ DumpVariableInCode
  <2>1. /\ HasBlock /\ HasVariable /\ InVariable /\ (InBlock \/ B.start < End(V))
        /\ VariableLines \in Seq(Line) /\ End(V) \in Nat
    BY <1>6, LabelOfVariable, EndOfVariable
       DEF DumpVariableInBytes, DumpVariableInCode, Overlapping, InVariable
  <2> DEFINE lines == CodeLabel \o VariableLines
  <2>2. lines \in Seq(Line)
    BY <1>1, <2>1, LabelInCode
  <2>3. CASE DumpVariableInBytes
    <3> DEFINE q == position + End(V) - V.start
    <3>1. MoveOn(q, variable + 1, TRUE)
      BY <2>3 DEF DumpVariableInBytes
    <3>2. Write(lines)
      BY <2>3 DEF DumpVariableInBytes
    <3> HIDE DEF lines, q
    <3>3. lines \o <<>> = lines /\ <<>> \in Seq(Line)
      BY <2>2
    <3>4. Write(lines \o <<>>)
      BY <3>2, <3>3
    <3> QED BY <2>1, <3>1, <3>3, <3>4, VariableKeepsLabels DEF lines
  <2>4. CASE DumpVariableInCode
    <3> DEFINE Left(q) == IF q > End(V) THEN <<Data(End(V), q)>> ELSE <<>>
    <3>1. PICK next \in Passed :
            /\ Write(CodeLabel \o VariableLines \o Left(Max({End(V), next})))
            /\ MoveOn(Max({End(V), next}), variable + 1, FALSE)
      BY <2>4, Zenon DEF DumpVariableInCode
    <3> DEFINE q == Max({End(V), next})
    <3>2. q \in Int
      <4>1. next \in Nat
        BY <1>1, <2>1, PassedIsAhead
      <4> QED BY <2>1, <4>1, MaxOfTwo
    <3>3. Write(lines \o Left(q)) /\ MoveOn(q, variable + 1, FALSE)
      BY <3>1
    <3> HIDE DEF q
    <3>4. Left(q) \in Seq(Line)
      BY <2>1, <3>2, LinesFit, OneLine, NoLine
    <3> HIDE DEF Left
    <3> QED BY <2>1, <3>3, <3>4, VariableKeepsLabels
  <2> QED BY <1>6, <2>3, <2>4
<1> QED BY <1>2, <1>3, <1>4, <1>5, <1>6

LEMMA NextKeepsLabels ==
  ASSUME Types, Rest, LabelsSoFar, [Next]_vars
  PROVE  LabelsSoFar'
<1>1. CASE KeepEnd \/ SetVariableEnd
  <2>1. phase' \in {"ends", "aborted"}
    BY <1>1 DEF KeepEnd, SetVariableEnd
  <2> QED BY <2>1 DEF LabelsSoFar
<1>2. CASE BeginDump
  <2>1. /\ block' = 1 /\ variable' = 1 /\ blocks' = blocks /\ variables' = variables
        /\ position' = DeterminePosition(1, 1, 1)
    BY <1>2 DEF BeginDump, program, Types, Fresh
  <2>2. /\ \A i \in DOMAIN blocks : ~(i < 1)
        /\ \A i \in DOMAIN variables : ~(i < 1)
        /\ DOMAIN blocks = 1..Len(blocks) /\ Len(blocks) \in Nat
    BY Members DEF Types
  <2>3. HasBlock' => position' <= B'.start
    BY <2>1, <2>2, NextPosition DEF HasBlock, B
  <2> QED BY <2>1, <2>2, <2>3 DEF LabelsSoFar
<1>3. CASE Gap \/ DumpVariable \/ DumpByte \/ DumpUndecoded \/ DumpInstruction
             \/ DumpVariableInBytes \/ DumpVariableInCode
  <2>1. Dumping
    BY <1>3, Zenon DEF Gap, DumpVariable, DumpByte, DumpUndecoded, DumpInstruction,
                       DumpVariableInBytes, DumpVariableInCode, Overlapping
  <2> QED BY <1>3, <2>1, StepsKeepLabels
<1>4. CASE Finish \/ Stopped \/ UNCHANGED vars
  <2>1. /\ phase' \in {"dump", "done"} => phase \in {"dump", "done"}
        /\ UNCHANGED <<blocks, variables, block, variable, position, listing>>
    BY <1>4 DEF Finish, Stopped, vars, program, cursor
  <2> QED BY <2>1 DEF LabelsSoFar, Lines, HasBlock, B, Kept, Over, Range, End
<1> QED BY <1>1, <1>2, <1>3, <1>4 DEF Next

LEMMA EverythingLabelled == Types /\ Rest /\ LabelsSoFar => LabelsAreKept
<1> SUFFICES ASSUME Types, Rest, LabelsSoFar, phase = "done"
             PROVE  /\ \A b \in Range(blocks) : Kept(b, Lines)
                    /\ \A v \in Range(variables) : Label("variable", v.start) \in Lines
  BY DEF LabelsAreKept, Kept, Over
<1>1. ~HasBlock /\ ~HasVariable
  BY DEF Rest
<1>2. /\ \A i \in DOMAIN blocks : i < block
      /\ \A i \in DOMAIN variables : i < variable
  BY <1>1, Members DEF HasBlock, HasVariable, Types, TypeOK
<1> QED BY <1>2 DEF LabelsSoFar, Range

(* Whatever overlaps, and for every image: a block loses its label to a    *)
(* variable that reaches over its start and to nothing else, and every     *)
(* variable has its label.                                                 *)
THEOREM NoOtherLabelIsLost == Spec => []LabelsAreKept
<1>1. Init => Types /\ Rest /\ LabelsSoFar
  BY InitTypes, InitRest DEF Init, LabelsSoFar
<1>2. Types /\ Rest /\ LabelsSoFar /\ [Next]_vars => (Types /\ Rest /\ LabelsSoFar)'
  BY NextTypes, NextRest, NextKeepsLabels
<1>3. Types /\ Rest /\ LabelsSoFar => LabelsAreKept
  BY EverythingLabelled
<1> QED BY <1>1, <1>2, <1>3, PTL DEF Spec

=============================================================================

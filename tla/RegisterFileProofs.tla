-------------------------- MODULE RegisterFileProofs --------------------------
(***************************************************************************)
(* What register.c knows to be relative is relative, for every width of    *)
(* the registers, every program without frames and any number of arrivals; *)
(* with frames, too, words keep their width, and registers that have       *)
(* arrived at a block have nothing left to change there.                   *)
(***************************************************************************)
EXTENDS RegisterFile, TLAPS

(* Low and high bytes put together again.                                  *)
LEMMA BytesOfWord ==
  ASSUME NEW w \in Word
  PROVE  Low(w) \in Byte /\ High(w) \in Byte /\ High(w) * Base + Low(w) = w
<1>1. Base \in Nat /\ Base > 1
  BY RegisterFileAssumption
<1>2. w \in Nat /\ w < Base * Base
  BY <1>1 DEF Word
<1>3. Low(w) \in 0..(Base - 1) /\ High(w) \in Nat /\ High(w) * Base + Low(w) = w
  BY <1>1, <1>2 DEF Low, High
<1>4. High(w) < Base
  <2>1. SUFFICES ASSUME High(w) >= Base PROVE FALSE
    BY <1>1, <1>3
  <2>2. High(w) * Base >= Base * Base
    BY <2>1, <1>1, <1>3
  <2> QED BY <2>2, <1>1, <1>2, <1>3
<1> QED BY <1>1, <1>3, <1>4 DEF Byte

LEMMA WordOfBytes ==
  ASSUME NEW h \in Byte, NEW l \in Byte
  PROVE  h * Base + l \in Word
<1>1. Base \in Nat /\ Base > 1 /\ h \in Nat /\ l \in Nat /\ h <= Base - 1 /\ l <= Base - 1
  BY RegisterFileAssumption DEF Byte
<1>2. h * Base <= (Base - 1) * Base
  BY <1>1
<1>3. (Base - 1) * Base = Base * Base - Base
  BY <1>1
<1>4. h * Base \in Nat /\ Base * Base \in Nat
  BY <1>1
<1> QED BY <1>1, <1>2, <1>3, <1>4 DEF Word

LEMMA WrappedIsWord ==
  ASSUME NEW n \in Int
  PROVE  Wrapped(n) \in Word
<1>1. Base * Base \in Nat /\ Base * Base > 0
  BY RegisterFileAssumption
<1> QED BY <1>1 DEF Wrapped, Word

LEMMA WordsAreIntegers == Word \subseteq Int /\ Byte \subseteq Word /\ 0 \in Word
<1>1. Base \in Nat /\ Base > 1 /\ Base * Base >= Base
  BY RegisterFileAssumption
<1> QED BY <1>1 DEF Word, Byte

LEMMA ValuesOfRegisters ==
  ASSUME NEW r \in Registers, NEW w \in AllWords
  PROVE  WordValue(r, w) \in Word
BY WordOfBytes DEF Registers, AllWords, Words, WordValue, Ax

LEMMA ValuesOfMachine ==
  ASSUME NEW m \in Machine, NEW w \in AllWords
  PROVE  MachineWord(m, w) \in Value
<1>1. CASE w # "ax"
  BY <1>1 DEF MachineWord, Machine, AllWords
<1>2. CASE w = "ax"
  <2>1. m.al \in Value /\ m.ah \in Value
    BY DEF Machine, Halves
  <2>2. High(m.ah.n) * Base + Low(m.al.n) \in Word
    BY <2>1, BytesOfWord, WordOfBytes DEF Value
  <2> QED BY <1>2, <2>1, <2>2, WordsAreIntegers
       DEF MachineWord, MachineAx, Value, Number, Unknown, Origin
<1> QED BY <1>1, <1>2

LEMMA PlusIsValue ==
  ASSUME NEW x \in Value, NEW n \in Int
  PROVE  Plus(x, n) \in Value
<1>1. x.n \in Int
  BY WordsAreIntegers DEF Value
<1> QED BY <1>1, WrappedIsWord DEF Plus, Value

LEMMA PlusOfSegment ==
  ASSUME NEW v \in Word, NEW n \in Int
  PROVE  Plus(Segment(v), n) = Segment(Wrapped(v + n)) /\ Segment(v) \in Value
BY DEF Plus, Segment, Value, Origin

LEMMA PutIsMachine ==
  ASSUME NEW m \in Machine, NEW w \in AllWords, NEW x \in Value
  PROVE  /\ Put(m, w, x) \in Machine
         /\ \A u \in AllWords : MachineWord(Put(m, w, x), u) = IF u = w THEN x ELSE MachineWord(m, u)
<1>1. Put(m, w, x) \in Machine
  BY DEF Put, Machine, AllWords, Halves, Words
<1>2. ASSUME NEW u \in AllWords
      PROVE  MachineWord(Put(m, w, x), u) = IF u = w THEN x ELSE MachineWord(m, u)
  BY DEF MachineWord, MachineAx, Put, Machine, AllWords, Halves, Words
<1> QED BY <1>1, <1>2

-----------------------------------------------------------------------------
(* What the operations of register.c preserve, one by one: r are the       *)
(* registers, m the machine before the instruction.                        *)

Follows(r, m) == r \in Registers /\ m \in Machine /\ RelativeIn(r, m)

LEMMA SetWordFollows ==
  ASSUME NEW r, NEW m, Follows(r, m),
         NEW w \in AllWords, NEW v \in Word, NEW x \in Value
  PROVE  Follows(SetWord(r, w, v), Put(m, w, x))
<1> DEFINE s == SetWord(r, w, v)
<1>1. s \in Registers
  BY BytesOfWord DEF Follows, SetWord, SetBytes, Registers, AllWords, Words, Halves
<1>2. s.relative = r.relative \ {w}
  BY DEF Follows, SetWord, SetBytes, Registers
<1>3. \A u \in AllWords \ {w} : WordKnown(s, u) <=> WordKnown(r, u)
  BY DEF Follows, SetWord, SetBytes, Registers, WordKnown, AxKnown, AllWords, Words, Halves
<1>4. \A u \in AllWords \ {w} : WordValue(s, u) = WordValue(r, u)
  BY DEF Follows, SetWord, SetBytes, Registers, WordValue, Ax, AllWords, Words
<1>5. r.relative \subseteq AllWords
  BY DEF Follows, Registers
<1> QED BY <1>1, <1>2, <1>3, <1>4, <1>5, PutIsMachine DEF Follows, RelativeIn

LEMMA SetRelativeFollows ==
  ASSUME NEW r, NEW m, Follows(r, m), NEW w \in AllWords, NEW v \in Word
  PROVE  Follows(SetRelative(r, w, v), Put(m, w, Segment(v)))
<1> DEFINE s == SetRelative(r, w, v)
<1>0. Segment(v) \in Value
  BY DEF Segment, Value, Origin
<1>1. s \in Registers
  BY BytesOfWord DEF Follows, SetRelative, SetBytes, Registers, AllWords, Words, Halves
<1>2. s.relative = r.relative \cup {w}
  BY DEF Follows, SetRelative, SetBytes, Registers
<1>3. \A u \in AllWords \ {w} : WordKnown(s, u) <=> WordKnown(r, u)
  BY DEF Follows, SetRelative, SetBytes, Registers, WordKnown, AxKnown, AllWords, Words, Halves
<1>4. \A u \in AllWords \ {w} : WordValue(s, u) = WordValue(r, u)
  BY DEF Follows, SetRelative, SetBytes, Registers, WordValue, Ax, AllWords, Words
<1>5. WordValue(s, w) = v
  BY BytesOfWord DEF Follows, SetRelative, SetBytes, Registers, WordValue, Ax, AllWords, Words
<1>6. r.relative \subseteq AllWords
  BY DEF Follows, Registers
<1> QED BY <1>0, <1>1, <1>2, <1>3, <1>4, <1>5, <1>6, PutIsMachine DEF Follows, RelativeIn

LEMMA UndefineWordFollows ==
  ASSUME NEW r, NEW m, Follows(r, m), NEW w \in AllWords, NEW x \in Value
  PROVE  Follows(UndefineWord(r, w), Put(m, w, x))
<1> DEFINE s == UndefineWord(r, w)
<1>1. s \in Registers
  BY DEF Follows, UndefineWord, Registers, AllWords, Words, Halves
<1>2. s.relative = r.relative \ {w}
  BY DEF Follows, UndefineWord, Registers
<1>3. \A u \in AllWords \ {w} : WordKnown(s, u) <=> WordKnown(r, u)
  BY DEF Follows, UndefineWord, Registers, WordKnown, AxKnown, AllWords, Words, Halves
<1>4. \A u \in AllWords \ {w} : WordValue(s, u) = WordValue(r, u)
  BY DEF Follows, UndefineWord, Registers, WordValue, Ax, AllWords, Words
<1>5. r.relative \subseteq AllWords
  BY DEF Follows, Registers
<1> QED BY <1>1, <1>2, <1>3, <1>4, <1>5, PutIsMachine DEF Follows, RelativeIn

(* The machine changes a word of which nothing is known.                   *)
LEMMA UnknownFollows ==
  ASSUME NEW r, NEW m, Follows(r, m), NEW w \in AllWords, NEW x \in Value,
         ~WordKnown(r, w)
  PROVE  Follows(r, Put(m, w, x))
<1>1. r.relative \subseteq AllWords
  BY DEF Follows, Registers
<1> QED BY <1>1, PutIsMachine DEF Follows, RelativeIn

LEMMA CopyWordFollows ==
  ASSUME NEW r, NEW m, Follows(r, m), NEW w \in AllWords, NEW u \in AllWords
  PROVE  Follows(CopyWord(r, w, r, u), Put(m, w, MachineWord(m, u)))
<1>1. WordValue(r, u) \in Word /\ MachineWord(m, u) \in Value
  BY ValuesOfRegisters, ValuesOfMachine DEF Follows
<1>2. CASE WordKnown(r, u) /\ u \in r.relative
  <2>1. MachineWord(m, u) = Segment(WordValue(r, u))
    BY <1>2 DEF Follows, RelativeIn
  <2> QED BY <1>1, <1>2, <2>1, SetRelativeFollows DEF CopyWord
<1>3. CASE WordKnown(r, u) /\ u \notin r.relative
  BY <1>1, <1>3, SetWordFollows DEF CopyWord
<1>4. CASE ~WordKnown(r, u)
  BY <1>1, <1>4, UndefineWordFollows DEF CopyWord
<1> QED BY <1>2, <1>3, <1>4

LEMMA TieStackFollows ==
  ASSUME NEW r, NEW m, Follows(r, m), NEW n \in Int, NEW x \in Value,
         "bp" \notin r.defined
  PROVE  Follows(TieStack(r, n), Put(m, "sp", x))
<1> DEFINE s == TieStack(r, n)
<1>1. s = [r EXCEPT !.sp = Wrapped(n), !.defined = @ \ {"sp"},
                    !.relative = @ \ {"sp"}, !.tied = TRUE]
  BY DEF TieStack
<1>2. s \in Registers /\ s.relative = r.relative \ {"sp"}
  BY <1>1, WrappedIsWord DEF Follows, Registers
<1>3. \A u \in AllWords \ {"sp"} : WordKnown(s, u) <=> WordKnown(r, u)
  BY <1>1 DEF Follows, Registers, WordKnown, AxKnown, AllWords, Words, Halves
<1>4. \A u \in AllWords \ {"sp"} : WordValue(s, u) = WordValue(r, u)
  BY <1>1 DEF Follows, Registers, WordValue, Ax, AllWords, Words
<1>5. r.relative \subseteq AllWords /\ "sp" \in AllWords
  BY DEF Follows, Registers, AllWords, Words
<1> QED BY <1>2, <1>3, <1>4, <1>5, PutIsMachine DEF Follows, RelativeIn

LEMMA MoveStackFollows ==
  ASSUME NEW r, NEW m, Follows(r, m), NEW n \in Int
  PROVE  Follows(MoveStack(r, n), Put(m, "sp", Plus(m.sp, n)))
<1>1. "sp" \in AllWords /\ m.sp = MachineWord(m, "sp") /\ r.sp = WordValue(r, "sp")
  BY DEF AllWords, Words, MachineWord, WordValue
<1>2. m.sp \in Value /\ r.sp \in Word /\ r.sp + n \in Int
  <2>1. m.sp \in Value
    BY <1>1, ValuesOfMachine DEF Follows
  <2>2. r.sp \in Word
    BY <1>1, ValuesOfRegisters DEF Follows
  <2>3. r.sp \in Int
    BY <2>2, WordsAreIntegers
  <2> QED BY <2>1, <2>2, <2>3
<1>3. Plus(m.sp, n) \in Value /\ Wrapped(r.sp + n) \in Word
  BY <1>2, PlusIsValue, WrappedIsWord
<1>4. WordKnown(r, "sp") <=> "sp" \in r.defined
  BY DEF WordKnown
<1>5. CASE "sp" \in r.defined /\ "sp" \in r.relative
  <2>1. m.sp = Segment(r.sp)
    BY <1>5, <1>4, <1>1 DEF Follows, RelativeIn
  <2>2. Plus(m.sp, n) = Segment(Wrapped(r.sp + n))
    BY <2>1, <1>2, PlusOfSegment
  <2>3. MoveStack(r, n) = SetRelative(r, "sp", Wrapped(r.sp + n))
    BY <1>5 DEF MoveStack, Tied
  <2> QED BY <1>1, <1>3, <2>2, <2>3, SetRelativeFollows
<1>6. CASE "sp" \in r.defined /\ "sp" \notin r.relative
  <2>1. MoveStack(r, n) = SetWord(r, "sp", Wrapped(r.sp + n))
    BY <1>6 DEF MoveStack, Tied
  <2> QED BY <1>1, <1>3, <2>1, SetWordFollows
<1>7. CASE "sp" \notin r.defined /\ Tied(r)
  <2>1. "bp" \notin r.defined
    BY <1>7 DEF Tied
  <2> QED BY <1>2, <1>3, <1>7, <2>1, TieStackFollows DEF MoveStack
<1>8. CASE "sp" \notin r.defined /\ ~Tied(r)
  BY <1>1, <1>3, <1>4, <1>8, UnknownFollows DEF MoveStack
<1> QED BY <1>5, <1>6, <1>7, <1>8

LEMMA SetByteFollows ==
  ASSUME NEW r, NEW m, Follows(r, m), NEW h \in Halves, NEW v \in Byte, NEW x \in Value
  PROVE  Follows(SetByte(r, h, v), [m EXCEPT ![h] = x])
<1> DEFINE s == SetByte(r, h, v)
           k == [m EXCEPT ![h] = x]
<1>1. s \in Registers /\ k \in Machine /\ s.relative = r.relative \ {"ax"}
  BY DEF Follows, SetByte, Registers, Machine, Halves
<1>2. \A u \in Words : WordKnown(s, u) <=> WordKnown(r, u)
  BY DEF Follows, SetByte, Registers, WordKnown, Words, Halves
<1>3. \A u \in Words : WordValue(s, u) = WordValue(r, u) /\ MachineWord(k, u) = MachineWord(m, u)
  BY DEF Follows, SetByte, Registers, Machine, WordValue, MachineWord, Words, Halves
<1>4. r.relative \subseteq Words \cup {"ax"}
  BY DEF Follows, Registers, AllWords
<1> QED BY <1>1, <1>2, <1>3, <1>4 DEF Follows, RelativeIn

LEMMA UndefineByteFollows ==
  ASSUME NEW r, NEW m, Follows(r, m), NEW h \in Halves, NEW x \in Value
  PROVE  Follows(UndefineByte(r, h), [m EXCEPT ![h] = x])
<1> DEFINE s == UndefineByte(r, h)
           k == [m EXCEPT ![h] = x]
<1>1. s \in Registers /\ k \in Machine /\ s.relative = r.relative \ {"ax"}
  BY DEF Follows, UndefineByte, Registers, Machine, Halves
<1>2. \A u \in Words : WordKnown(s, u) <=> WordKnown(r, u)
  BY DEF Follows, UndefineByte, Registers, WordKnown, Words, Halves
<1>3. \A u \in Words : WordValue(s, u) = WordValue(r, u) /\ MachineWord(k, u) = MachineWord(m, u)
  BY DEF Follows, UndefineByte, Registers, Machine, WordValue, MachineWord, Words, Halves
<1>4. r.relative \subseteq Words \cup {"ax"}
  BY DEF Follows, Registers, AllWords
<1> QED BY <1>1, <1>2, <1>3, <1>4 DEF Follows, RelativeIn

-----------------------------------------------------------------------------
(* Merging.                                                                *)

(* A merge knows nothing that either side did not know.                    *)
LEMMA MergeKnowsLess ==
  ASSUME NEW r \in Registers, NEW o \in Registers
  PROVE  /\ Merge(r, o) \in Registers
         /\ \A w \in AllWords :
              w \in Merge(r, o).relative /\ WordKnown(Merge(r, o), w) =>
                /\ w \in r.relative \cap o.relative
                /\ WordKnown(r, w) /\ WordKnown(o, w)
                /\ WordValue(Merge(r, o), w) = WordValue(r, w)
                /\ WordValue(r, w) = WordValue(o, w)
<1> DEFINE s == Merge(r, o)
<1>1. s.defined = MergedHalves(r, o) \cup MergedWords(r, o) /\ s.relative = MergedRelative(r, o)
  BY DEF Merge, Registers
<1>2. MergedHalves(r, o) \subseteq Halves \cap r.defined \cap o.defined
  BY DEF MergedHalves, SameHalves, AxKnown
<1>3. MergedWords(r, o) \subseteq Words \cap r.defined \cap o.defined
  BY DEF MergedWords
<1>4. MergedRelative(r, o) \subseteq r.relative \cap o.relative
  BY DEF MergedRelative
<1>5. MergedTie(r, o, MergedHalves(r, o) \cup MergedWords(r, o)) \in BOOLEAN
  BY DEF MergedTie, Registers
<1>6. s \in Registers
  BY <1>2, <1>3, <1>4, <1>5 DEF Merge, Registers, AllWords
<1>7. ASSUME NEW w \in AllWords
      PROVE  WordValue(s, w) = WordValue(r, w)
  BY DEF Merge, Registers, WordValue, Ax, AllWords, Words
<1>8. ASSUME NEW w \in AllWords, WordKnown(s, w)
      PROVE  WordKnown(r, w) /\ WordKnown(o, w)
  BY <1>1, <1>2, <1>3, <1>8 DEF WordKnown, AxKnown, Halves, Words, AllWords
<1>9. \A w \in s.relative : WordValue(r, w) = WordValue(o, w)
  BY <1>1 DEF MergedRelative
<1> QED BY <1>1, <1>4, <1>6, <1>7, <1>8, <1>9

(* Registers that change nothing know every relative word that is kept.    *)
LEMMA UnchangedKnowsMore ==
  ASSUME NEW r \in Registers, NEW o \in Registers, ~Changes(r, o),
         NEW w \in r.relative, WordKnown(r, w)
  PROVE  w \in o.relative /\ WordKnown(o, w) /\ WordValue(o, w) = WordValue(r, w)
<1>1. r.defined \subseteq o.defined /\ Words \cap r.relative \subseteq o.relative
  BY DEF Changes
<1>2. CASE w = "ax"
  <2>1. ~AxChanges(r, o) /\ AxKnown(r) /\ AxKnown(o)
    BY <1>1, <1>2 DEF Changes, WordKnown, AxKnown
  <2> QED BY <1>2, <2>1 DEF AxChanges, WordKnown, WordValue
<1>3. CASE w # "ax"
  <2>1. w \in Words /\ w \in r.defined
    BY <1>3 DEF WordKnown, Registers, AllWords
  <2>2. ~WordChanges(r, o, w)
    BY <2>1 DEF Changes
  <2> QED BY <1>1, <1>3, <2>1, <2>2 DEF WordChanges, WordKnown, WordValue
<1> QED BY <1>2, <1>3

-----------------------------------------------------------------------------
(* The invariant and its steps.                                            *)

(* TypeOK and RelativeAgrees, regrouped.                                   *)
Agreement ==
  /\ Follows(regs, real)
  /\ kept \in Registers \cup {None}
  /\ seen \subseteq Machine
  /\ kept # None => \A m \in seen : RelativeIn(kept, m)
  /\ kept = None => seen = {}
  /\ steps \in 0..Length

LEMMA StartFollows ==
  ASSUME NEW r, NEW m, AtStart(r, m)
  PROVE  Follows(r, m)
<1>1. PICK garbage \in Garbage, ds \in {Unknown, Segment(0)} :
        r = OsRegisters(garbage, ds) /\ m = OsMachine(ds)
  BY DEF AtStart
<1>2. garbage \in Word /\ 0 \in Word
  BY <1>1, RegisterFileAssumption, WordsAreIntegers
<1>3. ds \in Value /\ Unknown \in Value /\ (ds # Unknown => ds = Segment(0))
  BY <1>1, <1>2 DEF Value, Origin, Unknown, Segment
<1>4. r \in Registers
  BY <1>1, <1>2, <1>3, BytesOfWord DEF OsRegisters, Registers, AllWords, Words, Segment
<1>5. m \in Machine /\ m.ds = ds
  <2>1. [from |-> "stack", n |-> 0] \in Value
    BY <1>2 DEF Value, Origin
  <2>2. m.ds = ds
    BY <1>1 DEF OsMachine, Words
  <2>3. \A x \in Halves \cup Words : m[x] \in {[from |-> "stack", n |-> 0], ds, Unknown}
    BY <1>1 DEF OsMachine
  <2>4. m = [x \in Halves \cup Words |-> m[x]]
    BY <1>1 DEF OsMachine
  <2> QED BY <1>3, <2>1, <2>2, <2>3, <2>4 DEF Machine
<1>6. RelativeIn(r, m)
  <2>1. CASE ds = Unknown
    BY <1>1, <2>1 DEF OsRegisters, RelativeIn
  <2>2. CASE ds # Unknown
    <3>1. r.relative = {"ds"} /\ r.ds = 0
      BY <1>1, <1>3, <2>2 DEF OsRegisters, Segment
    <3> QED BY <1>3, <1>5, <2>2, <3>1 DEF RelativeIn, MachineWord, WordValue
  <2> QED BY <2>1, <2>2
<1> QED BY <1>4, <1>5, <1>6 DEF Follows

LEMMA InitAgrees ==
  ASSUME Init
  PROVE  Agreement
BY StartFollows, RegisterFileAssumption DEF Init, Agreement

LEMMA ExecutedAgrees ==
  ASSUME Agreement, NEW r, NEW m, Follows(r, m), Executed(r, m)
  PROVE  Agreement'
<1>1. regs' = r /\ real' = m /\ kept' = kept /\ seen' = seen /\ steps' \in 0..Length
  BY RegisterFileAssumption DEF Executed, Agreement
<1>2. Follows(regs', real')
  BY <1>1
<1> QED BY <1>1, <1>2 DEF Agreement, Follows, RelativeIn

LEMMA MovesAgree ==
  ASSUME Agreement, MoveImmediate \/ MoveRelocated \/ MoveByte \/ LoadByte \/ LoadWord \/ MoveSegment
  PROVE  Agreement'
<1>1. Follows(regs, real)
  BY DEF Agreement
<1>2. Unknown \in Value /\ \A v \in Word : Number(v) \in Value
  BY WordsAreIntegers DEF Unknown, Number, Value, Origin
<1>3. "ax" \in AllWords /\ "ds" \in AllWords /\ MainWords \subseteq AllWords
  BY DEF AllWords, Words, MainWords
<1>4. Immediate \subseteq Word
  BY RegisterFileAssumption
<1>5. CASE MoveImmediate
  <2>1. PICK w \in MainWords, v \in Immediate :
          Executed(SetWord(regs, w, v), Put(real, w, Number(v)))
    BY <1>5 DEF MoveImmediate
  <2> QED BY <1>1, <1>2, <1>3, <1>4, <2>1, SetWordFollows, ExecutedAgrees
<1>6. CASE MoveRelocated
  <2>1. PICK v \in Immediate :
          Executed(SetRelative(regs, "ax", v), Put(real, "ax", Segment(v)))
    BY <1>6 DEF MoveRelocated
  <2> QED BY <1>1, <1>3, <1>4, <2>1, SetRelativeFollows, ExecutedAgrees
<1>7. CASE MoveByte
  <2>1. CASE \E v \in Byte : Executed(SetByte(regs, "al", v), [real EXCEPT !.al = Number(v)])
    <3>1. PICK v \in Byte : Executed(SetByte(regs, "al", v), [real EXCEPT !["al"] = Number(v)])
      BY <2>1
    <3>2. Number(v) \in Value
      BY <1>2, WordsAreIntegers
    <3> QED BY <1>1, <3>1, <3>2, SetByteFollows, ExecutedAgrees DEF Halves
  <2>2. CASE \E v \in Byte : Executed(SetByte(regs, "ah", v), [real EXCEPT !.ah = Number(v * Base)])
    <3>1. PICK v \in Byte : Executed(SetByte(regs, "ah", v), [real EXCEPT !["ah"] = Number(v * Base)])
      BY <2>2
    <3>2. v * Base + 0 \in Word /\ v * Base + 0 = v * Base
      <4>1. 0 \in Byte /\ v \in Nat /\ Base \in Nat
        BY RegisterFileAssumption DEF Byte
      <4> QED BY <4>1, WordOfBytes
    <3>3. Number(v * Base) \in Value
      BY <1>2, <3>2
    <3> QED BY <1>1, <3>1, <3>3, SetByteFollows, ExecutedAgrees DEF Halves
  <2> QED BY <1>7, <2>1, <2>2 DEF MoveByte
<1>8. CASE LoadByte
  <2>1. PICK h \in Halves : Executed(UndefineByte(regs, h), [real EXCEPT ![h] = Unknown])
    BY <1>8 DEF LoadByte
  <2> QED BY <1>1, <1>2, <2>1, UndefineByteFollows, ExecutedAgrees
<1>9. CASE LoadWord
  BY <1>1, <1>2, <1>3, <1>9, UndefineWordFollows, ExecutedAgrees DEF LoadWord
<1>10. CASE MoveSegment
  <2>1. MachineWord(real, "ax") = MachineAx(real) /\ MachineWord(real, "ds") = real.ds
    BY DEF MachineWord
  <2>2. /\ Follows(CopyWord(regs, "ds", regs, "ax"), Put(real, "ds", MachineAx(real)))
        /\ Follows(CopyWord(regs, "ax", regs, "ds"), Put(real, "ax", real.ds))
    BY <1>1, <1>3, <2>1, CopyWordFollows
  <2> QED BY <1>10, <2>2, ExecutedAgrees DEF MoveSegment
<1> QED BY <1>5, <1>6, <1>7, <1>8, <1>9, <1>10

LEMMA MoveRegisterAgrees ==
  ASSUME Agreement, MoveRegister, <<"sp", "bp">> \notin Moves
  PROVE  Agreement'
<1>1. PICK move \in Moves :
        LET source == move[1]
            target == move[2]
            ties == ~WordKnown(regs, source) /\ {source, target} = {"sp", "bp"}
        IN Executed(IF ties THEN TieStack(regs, 0) ELSE CopyWord(regs, target, regs, source),
                    Put(real, target, MachineWord(real, source)))
  BY DEF MoveRegister
<1> DEFINE source == move[1]
           target == move[2]
<1>2. source \in AllWords /\ target \in AllWords /\ move = <<source, target>>
  BY <1>1, RegisterFileAssumption DEF MainWords, AllWords, Words
<1>3. Follows(regs, real) /\ MachineWord(real, source) \in Value
  BY <1>2, ValuesOfMachine DEF Agreement, Follows
<1>4. CASE ~WordKnown(regs, source) /\ {source, target} = {"sp", "bp"}
  <2>1. source = "bp" /\ target = "sp"
    BY <1>1, <1>2, <1>4
  <2>2. "bp" \notin regs.defined
    BY <1>4, <2>1 DEF WordKnown
  <2>3. Follows(TieStack(regs, 0), Put(real, target, MachineWord(real, source)))
    BY <1>3, <2>1, <2>2, TieStackFollows
  <2> QED BY <1>1, <1>4, <2>3, ExecutedAgrees
<1>5. CASE ~(~WordKnown(regs, source) /\ {source, target} = {"sp", "bp"})
  BY <1>1, <1>2, <1>3, <1>5, CopyWordFollows, ExecutedAgrees
<1> QED BY <1>4, <1>5

LEMMA SubtractAgrees ==
  ASSUME Agreement, Subtract
  PROVE  Agreement'
<1>1. PICK w \in MainWords, v \in Immediate :
        LET less == Wrapped(WordValue(regs, w) - v)
        IN Executed(CASE WordKnown(regs, w) /\ w \in regs.relative -> SetRelative(regs, w, less)
                      [] WordKnown(regs, w) /\ w \notin regs.relative -> SetWord(regs, w, less)
                      [] w = "sp" /\ Tied(regs) -> TieStack(regs, regs.sp - v)
                      [] w = "bp" /\ Tied(regs) -> TieStack(regs, regs.sp + v)
                      [] OTHER -> regs,
                    Put(real, w, Plus(MachineWord(real, w), -v)))
  BY DEF Subtract
<1> DEFINE less == Wrapped(WordValue(regs, w) - v)
           value == Plus(MachineWord(real, w), -v)
<1>2. Follows(regs, real) /\ w \in AllWords
  BY DEF Agreement, MainWords, AllWords, Words
<1>3. v \in Int /\ -v \in Int
  BY RegisterFileAssumption, WordsAreIntegers
<1>4. WordValue(regs, w) \in Word
  BY <1>2, ValuesOfRegisters DEF Follows
<1>5. WordValue(regs, w) \in Int
  BY <1>4, WordsAreIntegers
<1>6. less \in Word
  <2>1. WordValue(regs, w) - v \in Int
    BY <1>3, <1>5
  <2> QED BY <2>1, WrappedIsWord
<1>7. value \in Value
  BY <1>2, <1>3, ValuesOfMachine, PlusIsValue DEF Follows
<1>8. CASE WordKnown(regs, w) /\ w \in regs.relative
  <2>1. MachineWord(real, w) = Segment(WordValue(regs, w))
    BY <1>2, <1>8 DEF Follows, RelativeIn
  <2>2. value = Segment(Wrapped(WordValue(regs, w) + (-v)))
    BY <2>1, <1>3, <1>4, PlusOfSegment
  <2>3. WordValue(regs, w) + (-v) = WordValue(regs, w) - v
    BY <1>3, <1>5
  <2>4. Executed(SetRelative(regs, w, less), Put(real, w, Segment(less)))
    <3>1. w \in {"sp", "bp"} => ~Tied(regs)
      BY <1>8 DEF Tied, WordKnown
    <3> QED BY <1>1, <1>8, <2>2, <2>3, <3>1
  <2> QED BY <1>2, <1>6, <2>4, SetRelativeFollows, ExecutedAgrees
<1>9. CASE WordKnown(regs, w) /\ w \notin regs.relative
  <2>1. Executed(SetWord(regs, w, less), Put(real, w, value))
    <3>1. w \in {"sp", "bp"} => ~Tied(regs)
      BY <1>9 DEF Tied, WordKnown
    <3> QED BY <1>1, <1>9, <3>1
  <2> QED BY <1>2, <1>6, <1>7, <2>1, SetWordFollows, ExecutedAgrees
<1>10. CASE ~WordKnown(regs, w) /\ w \in {"sp", "bp"} /\ Tied(regs)
  <2>1. "bp" \notin regs.defined
    BY <1>10 DEF Tied
  <2>2. regs.sp \in Int
    BY <1>2, WordsAreIntegers DEF Follows, Registers
  <2>3. regs.sp - v \in Int /\ regs.sp + v \in Int
    BY <1>3, <2>2
  <2>4. CASE w = "sp"
    <3>1. Executed(TieStack(regs, regs.sp - v), Put(real, "sp", value))
      BY <1>1, <1>10, <2>4
    <3> QED BY <1>2, <1>7, <2>1, <2>3, <3>1, TieStackFollows, ExecutedAgrees
  <2>5. CASE w = "bp"
    <3>1. Executed(TieStack(regs, regs.sp + v), Put(real, "bp", value))
      BY <1>1, <1>10, <2>5
    <3>2. "sp" \notin regs.defined /\ MachineWord(real, "sp") \in Value
      BY <1>10, <1>2, ValuesOfMachine DEF Tied, Follows, AllWords, Words
    <3>3. Follows(TieStack(regs, regs.sp + v), Put(real, "sp", MachineWord(real, "sp")))
      BY <1>2, <2>1, <2>3, <3>2, TieStackFollows
    <3>4. Put(real, "sp", MachineWord(real, "sp")) = real
      BY <1>2 DEF Put, MachineWord, Follows, Machine, Words
    <3>5. ~WordKnown(TieStack(regs, regs.sp + v), "bp")
      BY <2>1, <1>2 DEF TieStack, WordKnown, Follows, Registers
    <3>6. Follows(TieStack(regs, regs.sp + v), Put(real, "bp", value))
      BY <1>2, <1>7, <2>5, <3>3, <3>4, <3>5, UnknownFollows
    <3> QED BY <3>1, <3>6, ExecutedAgrees
  <2> QED BY <1>10, <2>4, <2>5
<1>11. CASE ~WordKnown(regs, w) /\ ~(w \in {"sp", "bp"} /\ Tied(regs))
  <2>1. Executed(regs, Put(real, w, value))
    BY <1>1, <1>11
  <2> QED BY <1>2, <1>7, <1>11, <2>1, UnknownFollows, ExecutedAgrees
<1> QED BY <1>8, <1>9, <1>10, <1>11

LEMMA PushPopAgree ==
  ASSUME Agreement, Push \/ Pop
  PROVE  Agreement'
<1>1. Follows(regs, real) /\ real \in Machine /\ real.sp \in Value
  BY ValuesOfMachine DEF Agreement, Follows, Machine, Words
<1>2. CASE Push
  <2>1. [real EXCEPT !.sp = Plus(@, -2)] = Put(real, "sp", Plus(real.sp, -2))
    BY DEF Put
  <2>2. Follows(MoveStack(regs, -2), Put(real, "sp", Plus(real.sp, -2)))
    BY <1>1, MoveStackFollows
  <2> QED BY <1>2, <2>1, <2>2, ExecutedAgrees DEF Push
<1>3. CASE Pop
  <2>1. PICK w \in {"ax", "bp", "ds"}, top \in Tops :
          Executed(MoveStack(Popped(regs, w, top), 2),
                   Put([real EXCEPT !.sp = Plus(@, 2)], w, top))
    BY <1>3 DEF Pop
  <2>2. w \in AllWords /\ w # "sp"
    BY DEF AllWords, Words
  <2>3. top \in Value /\ (top.from = "segment" => top = Segment(top.n))
    BY RegisterFileAssumption, WordsAreIntegers
    DEF Tops, Unknown, Number, Segment, Value, Origin
  <2>4. top.n \in Word
    BY <2>3 DEF Value
  <2>5. Follows(Popped(regs, w, top), Put(real, w, top))
    <3>1. CASE top.from = "zero"
      BY <1>1, <2>2, <2>3, <2>4, <3>1, SetWordFollows DEF Popped
    <3>2. CASE top.from = "segment"
      BY <1>1, <2>2, <2>3, <2>4, <3>2, SetRelativeFollows DEF Popped
    <3>3. CASE top.from \notin {"zero", "segment"}
      BY <1>1, <2>2, <2>3, <3>3, UndefineWordFollows DEF Popped
    <3> QED BY <3>1, <3>2, <3>3
  <2>6. Put(real, w, top).sp = real.sp
    BY <1>1, <2>2 DEF Put, Machine, Words
  <2>7. Follows(MoveStack(Popped(regs, w, top), 2), Put(Put(real, w, top), "sp", Plus(real.sp, 2)))
    BY <2>5, <2>6, MoveStackFollows
  <2>8. Put(Put(real, w, top), "sp", Plus(real.sp, 2)) = Put([real EXCEPT !.sp = Plus(@, 2)], w, top)
    BY <1>1, <2>2 DEF Put, Machine, Halves, Words, AllWords
  <2> QED BY <2>1, <2>7, <2>8, ExecutedAgrees
<1> QED BY <1>2, <1>3

LEMMA ArriveAgrees ==
  ASSUME Agreement, Arrive
  PROVE  Agreement'
<1>1. /\ regs \in Registers /\ real \in Machine /\ RelativeIn(regs, real)
      /\ kept' \in Kept(regs) /\ seen' = seen \cup {real} /\ steps' = 0
  BY DEF Agreement, Follows, Arrive
<1>2. kept' \in Registers /\ \A m \in seen' : RelativeIn(kept', m)
  <2>1. CASE kept = None
    BY <1>1, <2>1 DEF Kept, Agreement
  <2>2. CASE kept # None /\ kept' = Merge(kept, regs)
    <3>1. kept \in Registers
      BY <2>2 DEF Agreement
    <3>2. kept' \in Registers
      BY <1>1, <2>2, <3>1, MergeKnowsLess
    <3>3. ASSUME NEW m \in seen', NEW w \in kept'.relative, WordKnown(kept', w)
          PROVE  MachineWord(m, w) = Segment(WordValue(kept', w))
      <4>1. w \in AllWords
        BY <3>2, <3>3 DEF Registers
      <4>2. /\ w \in kept.relative /\ w \in regs.relative
            /\ WordKnown(kept, w) /\ WordKnown(regs, w)
            /\ WordValue(kept', w) = WordValue(kept, w)
            /\ WordValue(kept', w) = WordValue(regs, w)
        BY <1>1, <2>2, <3>1, <3>3, <4>1, MergeKnowsLess
      <4> QED BY <1>1, <2>2, <3>3, <4>2 DEF Agreement, RelativeIn
    <3> QED BY <3>2, <3>3 DEF RelativeIn
  <2>3. CASE kept # None /\ ~Changes(kept, regs) /\ kept' = kept
    <3>1. kept \in Registers
      BY <2>3 DEF Agreement
    <3>2. RelativeIn(kept, real)
      BY <1>1, <2>3, <3>1, UnchangedKnowsMore DEF RelativeIn
    <3> QED BY <1>1, <2>3, <3>1, <3>2 DEF Agreement
  <2> QED BY <1>1, <2>1, <2>2, <2>3 DEF Kept
<1>3. seen' \subseteq Machine /\ kept' # None
  BY <1>1, <1>2, RegisterFileAssumption DEF Agreement
<1>4. Follows(regs', real')
  <2>1. CASE regs' = kept' /\ real' \in seen'
    BY <1>2, <1>3, <2>1 DEF Follows
  <2>2. CASE AtStart(regs', real')
    BY <2>2, StartFollows
  <2> QED BY <2>1, <2>2 DEF Arrive
<1>5. steps' \in 0..Length
  BY <1>1, RegisterFileAssumption
<1> QED BY <1>2, <1>3, <1>4, <1>5 DEF Agreement

(* A value that finder.c takes for an address of the image is one in every *)
(* machine that gets there, whatever was merged, as long as no frame is    *)
(* set up: mov bp, sp leaves BP as it was known.                           *)
THEOREM RelativeWordsAgree == <<"sp", "bp">> \notin Moves => (Spec => []RelativeAgrees)
<1>1. SUFFICES ASSUME <<"sp", "bp">> \notin Moves PROVE Spec => []RelativeAgrees
  OBVIOUS
<1>2. Init => Agreement
  BY InitAgrees
<1>3. Agreement /\ [Next]_vars => Agreement'
  <2>1. ASSUME Agreement, Next PROVE Agreement'
    BY <1>1, <2>1, MovesAgree, MoveRegisterAgrees, SubtractAgrees, PushPopAgree, ArriveAgrees
    DEF Next
  <2>2. ASSUME Agreement, UNCHANGED vars PROVE Agreement'
    BY <2>2 DEF Agreement, Follows, RelativeIn, vars
  <2> QED BY <2>1, <2>2
<1>4. Agreement => RelativeAgrees
  BY DEF Agreement, Follows, RelativeAgrees
<1> QED BY <1>2, <1>3, <1>4, PTL DEF Spec

-----------------------------------------------------------------------------
(* The types, which hold whatever programs move where.                     *)

LEMMA SettersKeepRegisters ==
  ASSUME NEW r \in Registers, NEW w \in AllWords, NEW v \in Word
  PROVE  /\ SetWord(r, w, v) \in Registers
         /\ SetRelative(r, w, v) \in Registers
         /\ UndefineWord(r, w) \in Registers
<1>1. SetWord(r, w, v) \in Registers
  BY BytesOfWord DEF SetWord, SetBytes, Registers, AllWords, Words, Halves
<1>2. SetRelative(r, w, v) \in Registers
  BY BytesOfWord DEF SetRelative, SetBytes, Registers, AllWords, Words, Halves
<1>3. UndefineWord(r, w) \in Registers
  BY DEF UndefineWord, Registers, AllWords, Words, Halves
<1> QED BY <1>1, <1>2, <1>3

LEMMA CopyKeepsRegisters ==
  ASSUME NEW r \in Registers, NEW w \in AllWords, NEW u \in AllWords
  PROVE  CopyWord(r, w, r, u) \in Registers
<1>1. WordValue(r, u) \in Word
  BY ValuesOfRegisters
<1>2. /\ SetWord(r, w, WordValue(r, u)) \in Registers
      /\ SetRelative(r, w, WordValue(r, u)) \in Registers
      /\ UndefineWord(r, w) \in Registers
  BY <1>1, SettersKeepRegisters
<1>3. CASE WordKnown(r, u) /\ u \in r.relative
  BY <1>2, <1>3 DEF CopyWord
<1>4. CASE WordKnown(r, u) /\ u \notin r.relative
  BY <1>2, <1>4 DEF CopyWord
<1>5. CASE ~WordKnown(r, u)
  BY <1>2, <1>5 DEF CopyWord
<1> QED BY <1>3, <1>4, <1>5

LEMMA TieKeepsRegisters ==
  ASSUME NEW r \in Registers, NEW n \in Int
  PROVE  TieStack(r, n) \in Registers
<1>1. "sp" \in AllWords /\ r.bp \in Int
  BY WordsAreIntegers DEF Registers, AllWords, Words
<1>2. r.bp + n \in Int
  BY <1>1
<1>3. Wrapped(r.bp + n) \in Word /\ Wrapped(n) \in Word
  BY <1>2, WrappedIsWord
<1>4. CASE "bp" \in r.defined
  BY <1>1, <1>3, <1>4, SettersKeepRegisters DEF TieStack
<1>5. CASE "bp" \notin r.defined
  <2>1. TieStack(r, n) = [r EXCEPT !.sp = Wrapped(n), !.defined = @ \ {"sp"},
                                   !.relative = @ \ {"sp"}, !.tied = TRUE]
    BY <1>5 DEF TieStack
  <2> QED BY <1>3, <2>1 DEF Registers
<1> QED BY <1>4, <1>5

LEMMA MoveStackKeepsRegisters ==
  ASSUME NEW r \in Registers, NEW n \in Int
  PROVE  MoveStack(r, n) \in Registers
<1>1. "sp" \in AllWords /\ r.sp \in Int
  BY WordsAreIntegers DEF Registers, AllWords, Words
<1>2. r.sp + n \in Int
  BY <1>1
<1>3. /\ SetRelative(r, "sp", Wrapped(r.sp + n)) \in Registers
      /\ SetWord(r, "sp", Wrapped(r.sp + n)) \in Registers
      /\ TieStack(r, r.sp + n) \in Registers
  BY <1>1, <1>2, WrappedIsWord, SettersKeepRegisters, TieKeepsRegisters
<1> QED BY <1>3 DEF MoveStack

LEMMA BytesKeepRegisters ==
  ASSUME NEW r \in Registers, NEW m \in Machine, NEW h \in Halves, NEW v \in Byte,
         NEW x \in Value
  PROVE  /\ SetByte(r, h, v) \in Registers
         /\ UndefineByte(r, h) \in Registers
         /\ [m EXCEPT ![h] = x] \in Machine
BY DEF SetByte, UndefineByte, Registers, Machine, Halves

LEMMA ExecutedKeepsTypes ==
  ASSUME TypeOK, NEW r \in Registers, NEW m \in Machine, Executed(r, m)
  PROVE  TypeOK'
BY RegisterFileAssumption DEF Executed, TypeOK

LEMMA MovesKeepTypes ==
  ASSUME TypeOK, MoveImmediate \/ MoveRelocated \/ MoveByte \/ LoadByte \/ LoadWord \/ MoveSegment
  PROVE  TypeOK'
<1>1. regs \in Registers /\ real \in Machine
  BY DEF TypeOK
<1>2. Unknown \in Value /\ \A v \in Word : Number(v) \in Value /\ Segment(v) \in Value
  BY WordsAreIntegers DEF Unknown, Number, Segment, Value, Origin
<1>3. "ax" \in AllWords /\ "ds" \in AllWords /\ MainWords \subseteq AllWords
  BY DEF AllWords, Words, MainWords
<1>4. Immediate \subseteq Word
  BY RegisterFileAssumption
<1>5. CASE MoveImmediate
  BY <1>1, <1>2, <1>3, <1>4, <1>5, SettersKeepRegisters, PutIsMachine, ExecutedKeepsTypes
  DEF MoveImmediate
<1>6. CASE MoveRelocated
  BY <1>1, <1>2, <1>3, <1>4, <1>6, SettersKeepRegisters, PutIsMachine, ExecutedKeepsTypes
  DEF MoveRelocated
<1>7. CASE MoveByte
  <2>1. CASE \E v \in Byte : Executed(SetByte(regs, "al", v), [real EXCEPT !.al = Number(v)])
    <3>1. PICK v \in Byte : Executed(SetByte(regs, "al", v), [real EXCEPT !["al"] = Number(v)])
      BY <2>1
    <3>2. Number(v) \in Value
      BY <1>2, WordsAreIntegers
    <3> QED BY <1>1, <3>1, <3>2, BytesKeepRegisters, ExecutedKeepsTypes DEF Halves
  <2>2. CASE \E v \in Byte : Executed(SetByte(regs, "ah", v), [real EXCEPT !.ah = Number(v * Base)])
    <3>1. PICK v \in Byte : Executed(SetByte(regs, "ah", v), [real EXCEPT !["ah"] = Number(v * Base)])
      BY <2>2
    <3>2. v * Base + 0 \in Word /\ v * Base + 0 = v * Base
      <4>1. 0 \in Byte /\ v \in Nat /\ Base \in Nat
        BY RegisterFileAssumption DEF Byte
      <4> QED BY <4>1, WordOfBytes
    <3>3. Number(v * Base) \in Value
      BY <1>2, <3>2
    <3> QED BY <1>1, <3>1, <3>3, BytesKeepRegisters, ExecutedKeepsTypes DEF Halves
  <2> QED BY <1>7, <2>1, <2>2 DEF MoveByte
<1>8. CASE LoadByte
  <2>1. PICK h \in Halves : Executed(UndefineByte(regs, h), [real EXCEPT ![h] = Unknown])
    BY <1>8 DEF LoadByte
  <2>2. 0 \in Byte
    BY RegisterFileAssumption DEF Byte
  <2> QED BY <1>1, <1>2, <2>1, <2>2, BytesKeepRegisters, ExecutedKeepsTypes
<1>9. CASE LoadWord
  <2>1. 0 \in Word
    BY WordsAreIntegers
  <2> QED BY <1>1, <1>2, <1>3, <1>9, <2>1, SettersKeepRegisters, PutIsMachine, ExecutedKeepsTypes
       DEF LoadWord
<1>10. CASE MoveSegment
  <2>1. MachineAx(real) = MachineWord(real, "ax") /\ real.ds = MachineWord(real, "ds")
    BY DEF MachineWord
  <2>2. /\ Put(real, "ds", MachineAx(real)) \in Machine
        /\ Put(real, "ax", real.ds) \in Machine
    BY <1>1, <1>3, <2>1, ValuesOfMachine, PutIsMachine
  <2> QED BY <1>1, <1>3, <1>10, <2>2, CopyKeepsRegisters, ExecutedKeepsTypes DEF MoveSegment
<1> QED BY <1>5, <1>6, <1>7, <1>8, <1>9, <1>10

LEMMA MoveRegisterKeepsTypes ==
  ASSUME TypeOK, MoveRegister
  PROVE  TypeOK'
<1>1. PICK move \in Moves :
        LET source == move[1]
            target == move[2]
            ties == ~WordKnown(regs, source) /\ {source, target} = {"sp", "bp"}
        IN Executed(IF ties THEN TieStack(regs, 0) ELSE CopyWord(regs, target, regs, source),
                    Put(real, target, MachineWord(real, source)))
  BY DEF MoveRegister
<1>2. move[1] \in AllWords /\ move[2] \in AllWords
  BY <1>1, RegisterFileAssumption DEF MainWords, AllWords, Words
<1>3. regs \in Registers /\ real \in Machine
  BY DEF TypeOK
<1>4. /\ TieStack(regs, 0) \in Registers
      /\ CopyWord(regs, move[2], regs, move[1]) \in Registers
      /\ Put(real, move[2], MachineWord(real, move[1])) \in Machine
  BY <1>2, <1>3, TieKeepsRegisters, CopyKeepsRegisters, ValuesOfMachine, PutIsMachine
<1> QED BY <1>1, <1>4, ExecutedKeepsTypes

LEMMA SubtractKeepsTypes ==
  ASSUME TypeOK, Subtract
  PROVE  TypeOK'
<1>1. PICK w \in MainWords, v \in Immediate :
        LET less == Wrapped(WordValue(regs, w) - v)
        IN Executed(CASE WordKnown(regs, w) /\ w \in regs.relative -> SetRelative(regs, w, less)
                      [] WordKnown(regs, w) /\ w \notin regs.relative -> SetWord(regs, w, less)
                      [] w = "sp" /\ Tied(regs) -> TieStack(regs, regs.sp - v)
                      [] w = "bp" /\ Tied(regs) -> TieStack(regs, regs.sp + v)
                      [] OTHER -> regs,
                    Put(real, w, Plus(MachineWord(real, w), -v)))
  BY DEF Subtract
<1> DEFINE less == Wrapped(WordValue(regs, w) - v)
           after == CASE WordKnown(regs, w) /\ w \in regs.relative -> SetRelative(regs, w, less)
                      [] WordKnown(regs, w) /\ w \notin regs.relative -> SetWord(regs, w, less)
                      [] w = "sp" /\ Tied(regs) -> TieStack(regs, regs.sp - v)
                      [] w = "bp" /\ Tied(regs) -> TieStack(regs, regs.sp + v)
                      [] OTHER -> regs
<1>2. regs \in Registers /\ real \in Machine /\ w \in AllWords
  BY DEF TypeOK, MainWords, AllWords, Words
<1>3. v \in Int /\ -v \in Int /\ WordValue(regs, w) \in Int /\ regs.sp \in Int
  <2>1. WordValue(regs, w) \in Word /\ regs.sp \in Word
    BY <1>2, ValuesOfRegisters DEF Registers
  <2>2. WordValue(regs, w) \in Int /\ regs.sp \in Int
    BY <2>1, WordsAreIntegers
  <2>3. v \in Int
    BY RegisterFileAssumption, WordsAreIntegers
  <2>4. -v \in Int
    BY <2>3
  <2> QED BY <2>2, <2>3, <2>4
<1>4. WordValue(regs, w) - v \in Int /\ regs.sp - v \in Int /\ regs.sp + v \in Int
  BY <1>3
<1>5. /\ SetRelative(regs, w, less) \in Registers /\ SetWord(regs, w, less) \in Registers
      /\ TieStack(regs, regs.sp - v) \in Registers /\ TieStack(regs, regs.sp + v) \in Registers
  BY <1>2, <1>4, WrappedIsWord, SettersKeepRegisters, TieKeepsRegisters
<1>6. after \in Registers
  BY <1>2, <1>5
<1>7. Put(real, w, Plus(MachineWord(real, w), -v)) \in Machine
  BY <1>2, <1>3, ValuesOfMachine, PlusIsValue, PutIsMachine
<1> HIDE DEF after
<1>8. Executed(after, Put(real, w, Plus(MachineWord(real, w), -v)))
  BY <1>1 DEF after
<1> QED BY <1>6, <1>7, <1>8, ExecutedKeepsTypes

LEMMA PushPopKeepTypes ==
  ASSUME TypeOK, Push \/ Pop
  PROVE  TypeOK'
<1>1. regs \in Registers /\ real \in Machine /\ real.sp = MachineWord(real, "sp")
  BY DEF TypeOK, MachineWord
<1>2. "sp" \in AllWords
  BY DEF AllWords, Words
<1>3. \A n \in Int : Put(real, "sp", Plus(real.sp, n)) \in Machine
  BY <1>1, <1>2, ValuesOfMachine, PlusIsValue, PutIsMachine
<1>4. CASE Push
  <2>1. [real EXCEPT !.sp = Plus(@, -2)] = Put(real, "sp", Plus(real.sp, -2))
    BY DEF Put
  <2> QED BY <1>1, <1>3, <1>4, <2>1, MoveStackKeepsRegisters, ExecutedKeepsTypes DEF Push
<1>5. CASE Pop
  <2>1. PICK w \in {"ax", "bp", "ds"}, top \in Tops :
          Executed(MoveStack(Popped(regs, w, top), 2),
                   Put([real EXCEPT !.sp = Plus(@, 2)], w, top))
    BY <1>5 DEF Pop
  <2>2. w \in AllWords
    BY DEF AllWords, Words
  <2>3. top \in Value
    BY RegisterFileAssumption, WordsAreIntegers DEF Tops, Unknown, Number, Segment, Value, Origin
  <2>4. Popped(regs, w, top) \in Registers
    <3>1. top.n \in Word
      BY <2>3 DEF Value
    <3>2. /\ SetWord(regs, w, top.n) \in Registers
          /\ SetRelative(regs, w, top.n) \in Registers
          /\ UndefineWord(regs, w) \in Registers
      BY <1>1, <2>2, <3>1, SettersKeepRegisters
    <3> QED BY <3>2 DEF Popped
  <2>5. MoveStack(Popped(regs, w, top), 2) \in Registers
    BY <2>4, MoveStackKeepsRegisters
  <2>6. [real EXCEPT !.sp = Plus(@, 2)] \in Machine
    BY <1>3 DEF Put
  <2>7. Put([real EXCEPT !.sp = Plus(@, 2)], w, top) \in Machine
    BY <2>2, <2>3, <2>6, PutIsMachine
  <2> QED BY <2>1, <2>5, <2>7, ExecutedKeepsTypes
<1> QED BY <1>4, <1>5

LEMMA ArriveKeepsTypes ==
  ASSUME TypeOK, Arrive
  PROVE  TypeOK'
<1>1. /\ regs \in Registers /\ real \in Machine /\ kept \in Registers \cup {None}
      /\ kept' \in Kept(regs) /\ seen' = seen \cup {real} /\ steps' = 0
  BY DEF TypeOK, Arrive
<1>2. kept' \in Registers
  BY <1>1, MergeKnowsLess DEF Kept
<1>3. seen' \subseteq Machine
  BY <1>1 DEF TypeOK
<1>4. regs' \in Registers /\ real' \in Machine
  <2>1. CASE regs' = kept' /\ real' \in seen'
    BY <1>2, <1>3, <2>1
  <2>2. CASE AtStart(regs', real')
    BY <2>2, StartFollows DEF Follows
  <2> QED BY <2>1, <2>2 DEF Arrive
<1>5. steps' \in 0..Length
  BY <1>1, RegisterFileAssumption
<1> QED BY <1>2, <1>3, <1>4, <1>5 DEF TypeOK

(* Whatever is executed, and however often blocks are reached, the values  *)
(* of bytes stay bytes and those of words stay words: register.c wraps     *)
(* every sum and takes every word apart.                                   *)
THEOREM RegistersKeepTheirWidth == Spec => []TypeOK
<1>1. Init => TypeOK
  BY StartFollows, RegisterFileAssumption DEF Init, TypeOK, Follows
<1>2. TypeOK /\ [Next]_vars => TypeOK'
  <2>1. ASSUME TypeOK, Next PROVE TypeOK'
    BY <2>1, MovesKeepTypes, MoveRegisterKeepsTypes, SubtractKeepsTypes, PushPopKeepTypes,
       ArriveKeepsTypes DEF Next
  <2>2. ASSUME TypeOK, UNCHANGED vars PROVE TypeOK'
    BY <2>2 DEF TypeOK, vars
  <2> QED BY <2>1, <2>2
<1> QED BY <1>1, <1>2, PTL DEF Spec

-----------------------------------------------------------------------------
(* Registers that arrive once more.                                        *)

LEMMA SameRegistersSettle ==
  ASSUME NEW r
  PROVE  ~Changes(r, r)
BY DEF Changes, TieChanges, WordChanges, AxChanges

(* What is left of a merge is known to both with one value, so comparing   *)
(* it with what arrived finds nothing; if AX is known and no tie is left   *)
(* over that the comparison would take for a difference.                   *)
LEMMA MergedRegistersSettle ==
  ASSUME NEW r \in Registers, NEW o \in Registers,
         AxKnown(Merge(r, o)), ~Merge(r, o).tied, ~o.tied
  PROVE  ~Changes(Merge(r, o), o)
<1> DEFINE s == Merge(r, o)
<1>1. /\ s.defined = MergedHalves(r, o) \cup MergedWords(r, o)
      /\ s.relative = MergedRelative(r, o)
      /\ Ax(s) = Ax(r) /\ \A w \in Words : s[w] = r[w]
  BY DEF Merge, Registers, Ax, Words
<1>2. MergedHalves(r, o) = Halves
  <2>1. MergedHalves(r, o) \subseteq Halves /\ MergedWords(r, o) \subseteq Words
    BY DEF MergedHalves, SameHalves, MergedWords
  <2> QED BY <1>1, <2>1 DEF AxKnown, Halves, Words
<1>3. AxKnown(r) /\ AxKnown(o) /\ Ax(r) = Ax(o) /\ ("ax" \in s.relative <=> "ax" \in o.relative)
  <2>1. CASE AxKnown(r) /\ AxKnown(o) /\ "ax" \in r.relative \cup o.relative
    <3>1. "ax" \in r.relative \cap o.relative /\ Ax(r) = Ax(o)
      BY <1>2, <2>1 DEF MergedHalves, Halves
    <3> QED BY <1>1, <2>1, <3>1 DEF MergedRelative, WordValue, WordKnown
  <2>2. CASE ~(AxKnown(r) /\ AxKnown(o) /\ "ax" \in r.relative \cup o.relative)
    <3>1. SameHalves(r, o) = Halves
      BY <1>2, <2>2 DEF MergedHalves
    <3>2. AxKnown(r) /\ AxKnown(o) /\ r.al = o.al /\ r.ah = o.ah
      BY <3>1 DEF SameHalves, AxKnown, Halves
    <3>3. "ax" \notin r.relative \cup o.relative
      BY <2>2, <3>2
    <3> QED BY <1>1, <3>2, <3>3 DEF MergedRelative, Ax
  <2> QED BY <2>1, <2>2
<1>4. s.defined \subseteq o.defined
  BY <1>1, <1>2, <1>3 DEF MergedWords, AxKnown
<1>5. s.relative \subseteq o.relative
  BY <1>1 DEF MergedRelative
<1>6. ~TieChanges(s, o)
  <2>1. s.tied = FALSE /\ o.tied = FALSE
    <3>1. s \in Registers
      BY MergeKnowsLess
    <3>2. s.tied \in BOOLEAN /\ o.tied \in BOOLEAN
      BY <3>1 DEF Registers
    <3> QED BY <3>2
  <2>2. CASE "ax" \in s.relative
    BY <1>1, <1>3, <2>2 DEF TieChanges
  <2>3. CASE "ax" \notin s.relative
    BY <2>1, <2>3 DEF TieChanges
  <2> QED BY <2>2, <2>3
<1>7. ASSUME NEW w \in Words
      PROVE  ~WordChanges(s, o, w)
  <2>1. w \in s.defined => r[w] = o[w]
    BY <1>1, <1>2 DEF MergedWords, Halves, Words
  <2>2. w \in s.relative => r[w] = o[w]
    BY <1>1 DEF MergedRelative, WordValue, Words
  <2> QED BY <1>1, <2>1, <2>2 DEF WordChanges
<1>8. ~AxChanges(s, o)
  BY <1>1, <1>3 DEF AxChanges
<1> QED BY <1>4, <1>5, <1>6, <1>7, <1>8 DEF Changes

(* A block is read again only for registers that say something new, for    *)
(* any number of arrivals: the exceptions are the ones of the property.    *)
THEOREM ArrivedRegistersSettle == Spec => MergeSettles
<1>1. TypeOK /\ [Next]_vars =>
        [Arrive /\ AxKnown(kept') /\ ~kept'.tied /\ ~regs.tied => ~Changes(kept', regs)]_vars
  <2>1. SUFFICES ASSUME TypeOK, Arrive, AxKnown(kept'), ~kept'.tied, ~regs.tied
                 PROVE  ~Changes(kept', regs)
    OBVIOUS
  <2>2. regs \in Registers /\ kept \in Registers \cup {None} /\ kept' \in Kept(regs)
    BY <2>1 DEF TypeOK, Arrive
  <2>3. CASE kept = None
    BY <2>2, <2>3, SameRegistersSettle DEF Kept
  <2>4. CASE kept # None /\ kept' = Merge(kept, regs)
    BY <2>1, <2>2, <2>4, MergedRegistersSettle
  <2>5. CASE kept # None /\ ~Changes(kept, regs) /\ kept' = kept
    BY <2>5
  <2> QED BY <2>2, <2>3, <2>4, <2>5 DEF Kept
<1>2. Spec => []TypeOK
  BY RegistersKeepTheirWidth
<1> QED BY <1>1, <1>2, PTL DEF Spec, MergeSettles

=============================================================================

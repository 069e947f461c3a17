---------------------------- MODULE FinderProofs ----------------------------
(***************************************************************************)
(* Theorems about Finder: type correctness, that every block of the result *)
(* has been read, that no evaluation is pending when the loops stop before *)
(* the limit, that it implements Worklist, and what it takes for blocks to *)
(* overlap or to be refused, for every image, every size and every limit.  *)
(***************************************************************************)
EXTENDS Finder, FiniteSetTheorems, SequenceTheorems, WellFoundedInduction, TLAPS

-----------------------------------------------------------------------------
(* The state of the machine.                                               *)

(* Entries computed one by one make up a stack.                            *)
LEMMA StackOfEntries ==
  ASSUME NEW n \in Nat, NEW f,
         f = [i \in 1..n |-> f[i]],
         \A i \in 1..n : f[i] \in Word \cup {Undef}
  PROVE  f \in Stack
  <1>1. f \in [1..n -> Word \cup {Undef}]
    OBVIOUS
  <1> QED
    BY <1>1, SeqDef DEF Stack

(* Merging states gives a state.                                           *)
LEMMA JoinIsState ==
  ASSUME NEW a \in State, NEW b \in State
  PROVE  /\ Join(a, b) \in State
         /\ JoinButStack(a, b) \in State
  <1>1. JoinRegister(a.reg, b.reg) \in Register
    BY DEF State, JoinRegister, Register
  <1>2. JoinStack(a.stack, b.stack) \in Stack
    <2> DEFINE f == JoinStack(a.stack, b.stack)
    <2>1. Len(a.stack) \in Nat /\ \A i \in 1..Len(a.stack) : a.stack[i] \in Word \cup {Undef}
      BY DEF State, Stack
    <2>2. f = [i \in 1..Len(a.stack) |-> f[i]]
      BY DEF JoinStack
    <2>3. \A i \in 1..Len(a.stack) : f[i] \in Word \cup {Undef}
      BY <2>1 DEF JoinStack
    <2> HIDE DEF f
    <2>4. f \in Stack
      BY <2>1, <2>2, <2>3, StackOfEntries
    <2> QED
      BY <2>4 DEF f
  <1>3. JoinVariable(a.var, b.var) \in Variable
    BY DEF State, JoinVariable, Variable
  <1>4. Join(a, b) \in State
    BY <1>1, <1>2, <1>3 DEF Join, State
  <1> QED
    BY <1>4 DEF JoinButStack, State

LEMMA JoinAllIsState ==
  ASSUME NEW first \in State, NEW others
  PROVE  JoinAll(first, others) \in State
  <1> DEFINE all == JoinAll(first, others)
             f == all.stack
  <1>1. all.reg \in Register
    BY DEF State, JoinAll, Register
  <1>2. f \in Stack
    <2>1. Len(first.stack) \in Nat /\ \A i \in 1..Len(first.stack) : first.stack[i] \in Word \cup {Undef}
      BY DEF State, Stack
    <2>2. f = [i \in 1..Len(first.stack) |-> f[i]]
      BY DEF JoinAll
    <2>3. \A i \in 1..Len(first.stack) : f[i] \in Word \cup {Undef}
      BY <2>1 DEF JoinAll
    <2> HIDE DEF f
    <2> QED
      BY <2>1, <2>2, <2>3, StackOfEntries
  <1>3. all.var \in Variable
    BY DEF State, JoinAll, Variable
  <1> QED
    BY <1>1, <1>2, <1>3 DEF JoinAll, State

(* The instructions that move data keep the state of its type.             *)
LEMMA MovesAreStates ==
  ASSUME NEW s \in State, NEW w \in Word
  PROVE  /\ SetRegister(s, w) \in State
         /\ UndefineRegister(s) \in State
         /\ PushRegister(s) \in State
         /\ PopRegister(s) \in State
         /\ StoreRegister(s, w) \in State
         /\ PushReturn(s, w) \in State
         /\ PopReturn(s) \in State
  <1>1. RegisterWord(s) \in Word \cup {Undef}
    BY DEF RegisterWord, State, Register
  <1>2. s.stack \in Seq(Word \cup {Undef})
    BY DEF State, Stack
  <1>3. \A x \in Word \cup {Undef} : PushWord(s.stack, x) \in Stack
    BY <1>2 DEF PushWord, Stack
  <1>4. PopWord(s.stack) \in Stack /\ Top(s.stack) \in Word \cup {Undef}
    BY <1>2 DEF PopWord, Top, Stack
  <1>5. SetRegister(s, w) \in State /\ UndefineRegister(s) \in State
    BY DEF SetRegister, UndefineRegister, State, Register
  <1>6. PushRegister(s) \in State /\ PushReturn(s, w) \in State
    BY <1>1, <1>3 DEF PushRegister, PushReturn, State
  <1>7. PopReturn(s) \in State
    BY <1>4 DEF PopReturn, State
  <1>8. PopRegister(s) \in State
    BY <1>4 DEF PopRegister, SetRegister, UndefineRegister, State, Register
  <1>9. StoreRegister(s, w) \in State
    BY <1>1 DEF StoreRegister, State, Variable
  <1> QED
    BY <1>5, <1>6, <1>7, <1>8, <1>9

(* The information order is one.                                           *)
LEMMA WeakerIsReflexive ==
  ASSUME NEW s \in State
  PROVE  Weaker(s, s)
  <1>1. Len(s.stack) \in Nat
    BY DEF State, Stack
  <1> QED
    BY <1>1 DEF Weaker, SameEntry

LEMMA WeakerIsTransitive ==
  ASSUME NEW a \in State, NEW b \in State, NEW c \in State,
         Weaker(a, b), Weaker(b, c)
  PROVE  Weaker(a, c)
  <1>1. Len(a.stack) \in Nat /\ Len(b.stack) \in Nat
    BY DEF State, Stack
  <1>2. a.reg \in Register /\ b.reg \in Register
    BY DEF State
  <1>3. a.reg.def => a.reg = c.reg
    BY <1>2 DEF Weaker, Register
  <1>4. a.var # Undef => a.var = c.var
    BY DEF Weaker
  <1>5. ASSUME NEW i \in 1..Len(a.stack), a.stack[i] # Undef
        PROVE  SameEntry(a.stack, c.stack, i)
    <2>1. i <= Len(b.stack) /\ b.stack[i] = a.stack[i]
      BY <1>5 DEF Weaker, SameEntry
    <2>2. i \in 1..Len(b.stack) /\ b.stack[i] # Undef
      BY <1>1, <1>5, <2>1
    <2> QED
      BY <2>1, <2>2 DEF Weaker, SameEntry
  <1> QED
    BY <1>3, <1>4, <1>5 DEF Weaker

(* A merge says nothing that the state merged into did not say.            *)
LEMMA JoinIsWeaker ==
  ASSUME NEW a \in State, NEW b \in State
  PROVE  /\ Weaker(Join(a, b), a)
         /\ Weaker(JoinButStack(a, b), a)
  <1> DEFINE j == Join(a, b)
  <1>1. Len(a.stack) \in Nat
    BY DEF State, Stack
  <1>2. j.reg = [a.reg EXCEPT !.def = a.reg.def /\ b.reg.def /\ a.reg.val = b.reg.val]
        /\ j.stack = JoinStack(a.stack, b.stack)
        /\ j.var = JoinVariable(a.var, b.var)
    BY DEF Join, JoinRegister
  <1>3. j.reg.def => j.reg = a.reg
    BY <1>2 DEF State, Register
  <1>4. j.var # Undef => j.var = a.var
    BY <1>2 DEF JoinVariable
  <1>5. Len(j.stack) = Len(a.stack)
        /\ \A i \in 1..Len(a.stack) : j.stack[i] \in {a.stack[i], Undef}
    BY <1>1, <1>2 DEF JoinStack
  <1>6. JoinButStack(a, b).reg = j.reg /\ JoinButStack(a, b).var = j.var
        /\ JoinButStack(a, b).stack = a.stack
    BY DEF JoinButStack, Join
  <1> HIDE DEF j
  <1>7. Weaker(j, a)
    BY <1>1, <1>3, <1>4, <1>5 DEF Weaker, SameEntry
  <1>8. Weaker(JoinButStack(a, b), a)
    BY <1>1, <1>3, <1>4, <1>6 DEF Weaker, SameEntry
  <1> QED
    BY <1>7, <1>8 DEF j

-----------------------------------------------------------------------------
(* The list of blocks.                                                     *)

(* The natural numbers of a set have a least one.                          *)
LEMMA Least ==
  ASSUME NEW S \in SUBSET Nat, S # {}
  PROVE  \E x \in S : \A y \in S : x <= y
  <1> DEFINE R == OpToRel(<, Nat)
  <1>1. PICK x \in S : \A y \in S : ~ (<<y, x>> \in R)
    <2>1. IsWellFoundedOn(R, Nat)
      BY NatLessThanWellFounded
    <2> HIDE DEF R
    <2> QED
      BY <2>1, WFMin, Zenon
  <1>2. \A y \in S : ~ (y < x)
    BY <1>1, Zenon DEF OpToRel
  <1> QED
    BY <1>2, SMT

(* The first origin of a block is a state.                                 *)
LEMMA FirstIsState ==
  ASSUME NEW b \in Block, Present(b) # {}
  PROVE  FirstState(b) \in State
  <1>1. Present(b) \in SUBSET Nat /\ Present(b) \subseteq Key
    BY ConstantsAssumption DEF Present, Key
  <1>2. PICK k \in Present(b) : \A i \in Present(b) : k <= i
    BY <1>1, Least
  <1>3. \E key \in Key : IsFirst(b, key)
    BY <1>1, <1>2 DEF IsFirst
  <1>4. PICK key \in Key : key = (CHOOSE x \in Key : IsFirst(b, x)) /\ IsFirst(b, key)
    BY <1>3
  <1> QED
    BY <1>4 DEF FirstState, IsFirst, Present, Block, Origins

LEMMA AccumulatedIsState ==
  ASSUME NEW b \in Block, Present(b) # {}
  PROVE  Accumulated(b) \in State
  BY FirstIsState, JoinAllIsState DEF Accumulated

(* What is listed, and how much.                                           *)
LEMMA ListedIsFinite ==
  ASSUME NEW bs \in BlockList
  PROVE  /\ Listed(bs) \subseteq Word
         /\ IsFiniteSet(Listed(bs))
         /\ Count(bs) \in Nat
         /\ \A b \in Listed(bs) : bs[b] \in Block
  <1>1. Listed(bs) \subseteq Word
    BY DEF Listed
  <1>2. IsFiniteSet(Word)
    BY FS_Interval, ConstantsAssumption DEF Word
  <1>3. IsFiniteSet(Listed(bs)) /\ Cardinality(Listed(bs)) \in Nat
    BY <1>1, <1>2, FS_Subset, FS_CardinalityType
  <1>4. \A b \in Listed(bs) : bs[b] \in Block
    BY DEF Listed, BlockList
  <1> QED
    BY <1>1, <1>3, <1>4 DEF Count

(* The search answers a block that starts at p or before.                  *)
LEMMA ContainingIsBefore ==
  ASSUME NEW bs \in BlockList, NEW p \in Word
  PROVE  \/ Containing(bs, p) = None
         \/ Containing(bs, p) \in Listed(bs) /\ Containing(bs, p) <= p
  BY DEF Containing

-----------------------------------------------------------------------------
(* What any registration does to the list.                                 *)

(* A block keeps its origins, and knows no more of any of them.            *)
OnlyLoses(old, new) ==
  \A key \in Present(old) :
    key \in Present(new) /\ Weaker(new.origins[key], old.origins[key])

(* The list bs became new: blocks keep their slot, are never unread again  *)
(* or validated and learn nothing of their origins, and new blocks come    *)
(* behind the others, not valid.                                           *)
Extends(bs, new) ==
  /\ WellFormed(new)
  /\ Count(bs) <= Count(new)
  /\ \A b \in Listed(bs) :
       /\ b \in Listed(new)
       /\ new[b].slot = bs[b].slot
       /\ Known(bs, b) => Known(new, b)
       /\ new[b].valid => bs[b].valid
       /\ OnlyLoses(bs[b], new[b])
  /\ \A b \in Listed(new) :
       b \notin Listed(bs) => ~new[b].valid /\ Count(bs) <= new[b].slot

LEMMA SameOriginsLoseNothing ==
  ASSUME NEW old \in Block, NEW new, new.origins = old.origins
  PROVE  OnlyLoses(old, new)
  <1>1. \A key \in Present(old) : old.origins[key] \in State
    BY DEF Present, Block, Origins
  <1> QED
    BY <1>1, WeakerIsReflexive DEF OnlyLoses, Present

LEMMA LosesOnwards ==
  ASSUME NEW a \in Block, NEW b \in Block, NEW c \in Block,
         OnlyLoses(a, b), OnlyLoses(b, c)
  PROVE  OnlyLoses(a, c)
  <1> SUFFICES ASSUME NEW key \in Present(a)
               PROVE  key \in Present(c) /\ Weaker(c.origins[key], a.origins[key])
    BY DEF OnlyLoses
  <1>1. key \in Present(b) /\ key \in Present(c)
    BY DEF OnlyLoses
  <1>2. a.origins[key] \in State /\ b.origins[key] \in State /\ c.origins[key] \in State
    BY <1>1 DEF Present, Block, Origins
  <1> QED
    BY <1>1, <1>2, WeakerIsTransitive DEF OnlyLoses

LEMMA ExtendsItself ==
  ASSUME NEW bs, WellFormed(bs)
  PROVE  Extends(bs, bs)
  <1>1. \A b \in Listed(bs) : bs[b] \in Block /\ OnlyLoses(bs[b], bs[b])
    BY ListedIsFinite, SameOriginsLoseNothing DEF WellFormed
  <1> QED
    BY <1>1, ListedIsFinite DEF Extends, WellFormed

LEMMA ExtendsOnwards ==
  ASSUME NEW bs, NEW mid, NEW new, WellFormed(bs), Extends(bs, mid), Extends(mid, new)
  PROVE  Extends(bs, new)
  <1>1. bs \in BlockList /\ mid \in BlockList /\ new \in BlockList
    BY DEF Extends, WellFormed
  <1>2. Count(bs) \in Nat /\ Count(mid) \in Nat /\ Count(new) \in Nat
    BY <1>1, ListedIsFinite
  <1>3. \A b \in Listed(new) : new[b].slot \in Nat
    BY <1>1, ListedIsFinite DEF Block
  <1>4. ASSUME NEW b \in Listed(new), b \notin Listed(bs)
        PROVE  ~new[b].valid /\ Count(bs) <= new[b].slot
    <2>1. CASE b \in Listed(mid)
      BY <1>4, <2>1 DEF Extends
    <2>2. CASE b \notin Listed(mid)
      BY <1>2, <1>3, <2>2 DEF Extends
    <2> QED
      BY <2>1, <2>2
  <1>5. \A b \in Listed(bs) :
          /\ b \in Listed(new)
          /\ new[b].slot = bs[b].slot
          /\ Known(bs, b) => Known(new, b)
          /\ new[b].valid => bs[b].valid
    BY DEF Extends
  <1>6. ASSUME NEW b \in Listed(bs)
        PROVE  OnlyLoses(bs[b], new[b])
    <2>1. b \in Listed(mid) /\ b \in Listed(new)
      BY DEF Extends
    <2>2. bs[b] \in Block /\ mid[b] \in Block /\ new[b] \in Block
      BY <1>1, <2>1, ListedIsFinite
    <2> QED
      BY <2>1, <2>2, LosesOnwards DEF Extends
  <1> QED
    BY <1>2, <1>4, <1>5, <1>6 DEF Extends

(* One block is changed.                                                   *)
LEMMA ExtendsByUpdate ==
  ASSUME NEW bs, WellFormed(bs), NEW b \in Listed(bs), NEW r \in Block,
         Present(r) # {}, r.slot = bs[b].slot,
         Known(bs, b) => r.end > b,
         r.valid => bs[b].valid,
         OnlyLoses(bs[b], r)
  PROVE  Extends(bs, [bs EXCEPT ![b] = r])
  <1> DEFINE new == [bs EXCEPT ![b] = r]
  <1>1. bs \in BlockList /\ b \in Word
    BY ListedIsFinite DEF WellFormed
  <1>2. new \in BlockList /\ new[b] = r /\ \A c \in Word : c # b => new[c] = bs[c]
    BY <1>1 DEF BlockList
  <1>3. r # None
    BY ConstantsAssumption
  <1>4. Listed(new) = Listed(bs)
    BY <1>1, <1>2, <1>3 DEF Listed
  <1>5. Count(new) = Count(bs) /\ Count(bs) \in Nat /\ Listed(bs) \subseteq Word
    BY <1>1, <1>4, ListedIsFinite DEF Count
  <1> HIDE DEF new
  <1>6. \A c \in Listed(new) : new[c].slot = bs[c].slot
    BY <1>2, <1>4, <1>5
  <1>7. WellFormed(new)
    BY <1>2, <1>4, <1>5, <1>6 DEF WellFormed
  <1>8. \A c \in Listed(bs) : OnlyLoses(bs[c], new[c])
    <2>1. \A c \in Listed(bs) : bs[c] \in Block /\ OnlyLoses(bs[c], bs[c])
      BY <1>1, ListedIsFinite, SameOriginsLoseNothing
    <2> QED
      BY <1>2, <1>5, <2>1
  <1>9. Extends(bs, new)
    BY <1>2, <1>4, <1>5, <1>6, <1>7, <1>8 DEF Extends, Known
  <1> QED
    BY <1>9 DEF new

LEMMA SetEndExtends ==
  ASSUME NEW bs, WellFormed(bs), NEW b \in Listed(bs), NEW end \in Word, end > b
  PROVE  Extends(bs, SetEnd(bs, b, end))
  <1> DEFINE r == [bs[b] EXCEPT !.end = end]
  <1>1. bs \in BlockList /\ bs[b] \in Block /\ b \in Word
    BY ListedIsFinite DEF WellFormed
  <1>2. r \in Block /\ r.slot = bs[b].slot /\ r.end = end /\ r.valid = bs[b].valid
        /\ r.origins = bs[b].origins
    BY <1>1 DEF Block
  <1>3. Present(r) # {}
    BY <1>2 DEF Present, WellFormed
  <1>4. SetEnd(bs, b, end) = [bs EXCEPT ![b] = r]
    BY <1>1 DEF SetEnd, BlockList
  <1> HIDE DEF r
  <1>5. (Known(bs, b) => r.end > b) /\ (r.valid => bs[b].valid) /\ OnlyLoses(bs[b], r)
    BY <1>1, <1>2, SameOriginsLoseNothing DEF Known
  <1>6. Extends(bs, [bs EXCEPT ![b] = r])
    BY <1>2, <1>3, <1>5, ExtendsByUpdate, Zenon
  <1> QED
    BY <1>4, <1>6, Zenon

LEMMA ShrinkExtends ==
  ASSUME NEW bs, WellFormed(bs), NEW c, NEW end \in Word,
         c = None \/ (c \in Listed(bs) /\ c < end)
  PROVE  Extends(bs, Shrink(bs, c, end))
  <1>1. CASE c = None
    BY <1>1, ExtendsItself DEF Shrink
  <1>2. CASE c # None
    <2> DEFINE r == [bs[c] EXCEPT !.end = end, !.valid = FALSE]
    <2>1. bs \in BlockList /\ c \in Listed(bs) /\ bs[c] \in Block /\ c \in Word
      BY <1>2, ListedIsFinite DEF WellFormed
    <2>2. r \in Block /\ r.slot = bs[c].slot /\ r.end = end /\ r.valid = FALSE
          /\ r.origins = bs[c].origins
      BY <2>1 DEF Block
    <2>3. Present(r) # {}
      BY <2>1, <2>2 DEF Present, WellFormed
    <2>4. Shrink(bs, c, end) = [bs EXCEPT ![c] = r]
      BY <1>2, <2>1 DEF Shrink, BlockList
    <2> HIDE DEF r
    <2>5. (Known(bs, c) => r.end > c) /\ (r.valid => bs[c].valid) /\ OnlyLoses(bs[c], r)
      BY <1>2, <2>1, <2>2, SameOriginsLoseNothing DEF Known
    <2>6. Extends(bs, [bs EXCEPT ![c] = r])
      BY <2>1, <2>2, <2>3, <2>5, ExtendsByUpdate, Zenon
    <2> QED
      BY <2>4, <2>6, Zenon
  <1> QED
    BY <1>1, <1>2

LEMMA InvalidateExtends ==
  ASSUME NEW bs, WellFormed(bs), NEW b \in Listed(bs)
  PROVE  Extends(bs, Invalidate(bs, b))
  <1> DEFINE r == [bs[b] EXCEPT !.valid = FALSE]
  <1>1. bs \in BlockList /\ bs[b] \in Block /\ b \in Word
    BY ListedIsFinite DEF WellFormed
  <1>2. r \in Block /\ r.slot = bs[b].slot /\ r.end = bs[b].end /\ r.valid = FALSE
        /\ r.origins = bs[b].origins
    BY <1>1 DEF Block
  <1>3. Present(r) # {}
    BY <1>2 DEF Present, WellFormed
  <1>4. Invalidate(bs, b) = [bs EXCEPT ![b] = r]
    BY <1>1 DEF Invalidate, BlockList
  <1> HIDE DEF r
  <1>5. Present(r) # {} /\ (Known(bs, b) => r.end > b) /\ (r.valid => bs[b].valid)
        /\ OnlyLoses(bs[b], r)
    BY <1>1, <1>2, <1>3, SameOriginsLoseNothing DEF Known
  <1>6. Extends(bs, [bs EXCEPT ![b] = r])
    BY <1>2, <1>5, ExtendsByUpdate, Zenon
  <1> QED
    BY <1>4, <1>6, Zenon

(* An origin that is new, or one that is known to be weaker.               *)
LEMMA PutOriginExtends ==
  ASSUME NEW bs, WellFormed(bs), NEW b \in Listed(bs), NEW key \in Key, NEW s \in State,
         bs[b].origins[key] # None => Weaker(s, bs[b].origins[key])
  PROVE  Extends(bs, PutOrigin(bs, b, key, s))
  <1> DEFINE r == [bs[b] EXCEPT !.origins[key] = s]
  <1>1. bs \in BlockList /\ bs[b] \in Block /\ b \in Word
    BY ListedIsFinite DEF WellFormed
  <1>2. r \in Block /\ r.slot = bs[b].slot /\ r.end = bs[b].end /\ r.valid = bs[b].valid
        /\ r.origins[key] = s /\ \A k \in Key : k # key => r.origins[k] = bs[b].origins[k]
    BY <1>1 DEF Block, Origins
  <1>3. key \in Present(r)
    BY <1>2, ConstantsAssumption DEF Present
  <1>4. PutOrigin(bs, b, key, s) = [bs EXCEPT ![b] = r]
    BY <1>1 DEF PutOrigin, BlockList
  <1> HIDE DEF r
  <1>5. OnlyLoses(bs[b], r)
    <2> SUFFICES ASSUME NEW k \in Present(bs[b])
                 PROVE  k \in Present(r) /\ Weaker(r.origins[k], bs[b].origins[k])
      BY DEF OnlyLoses
    <2>1. k \in Key /\ bs[b].origins[k] # None /\ bs[b].origins[k] \in State
      BY <1>1 DEF Present, Block, Origins
    <2>2. CASE k = key
      BY <1>2, <1>3, <2>1, <2>2
    <2>3. CASE k # key
      BY <1>2, <2>1, <2>3, WeakerIsReflexive DEF Present
    <2> QED
      BY <2>2, <2>3
  <1>6. Present(r) # {} /\ (Known(bs, b) => r.end > b) /\ (r.valid => bs[b].valid)
    BY <1>2, <1>3 DEF Known
  <1>7. Extends(bs, [bs EXCEPT ![b] = r])
    BY <1>2, <1>5, <1>6, ExtendsByUpdate, Zenon
  <1> QED
    BY <1>4, <1>7, Zenon

(* A block is inserted.                                                    *)
LEMMA InsertExtends ==
  ASSUME NEW bs, WellFormed(bs), NEW b \in Word, NEW key \in Key, NEW s \in State,
         Insert(bs, b, key, s) # None
  PROVE  /\ Extends(bs, Insert(bs, b, key, s))
         /\ Listed(Insert(bs, b, key, s)) = Listed(bs) \cup {b}
  <1> DEFINE r == [end |-> b, valid |-> FALSE, slot |-> Count(bs),
                   origins |-> [k \in Key |-> IF k = key THEN s ELSE None]]
             new == [bs EXCEPT ![b] = r]
  <1>1. bs \in BlockList
    BY DEF WellFormed
  <1>2. Listed(bs) \subseteq Word /\ IsFiniteSet(Listed(bs)) /\ Count(bs) \in Nat
        /\ \A c \in Listed(bs) : bs[c] \in Block
    BY <1>1, ListedIsFinite
  <1>3. b \notin Listed(bs) /\ Insert(bs, b, key, s) = new
    BY DEF Insert
  <1>4. r \in Block /\ Present(r) # {} /\ r # None
    <2>1. r.origins \in Origins
      BY DEF Origins
    <2>2. r \in Block
      BY <1>2, <2>1 DEF Block
    <2>3. key \in Present(r)
      BY ConstantsAssumption DEF Present
    <2> QED
      BY <2>2, <2>3, ConstantsAssumption
  <1>5. r.slot = Count(bs) /\ r.valid = FALSE
    OBVIOUS
  <1> HIDE DEF r
  <1>6. new \in BlockList /\ new[b] = r /\ \A c \in Word : c # b => new[c] = bs[c]
    BY <1>1, <1>4 DEF BlockList
  <1>7. Listed(new) = Listed(bs) \cup {b}
    BY <1>1, <1>2, <1>4, <1>6 DEF Listed
  <1>8. Count(new) = Count(bs) + 1
    BY <1>2, <1>3, <1>7, FS_AddElement DEF Count
  <1> HIDE DEF new
  <1>9. WellFormed(new)
    <2>1. \A c \in Listed(new) : Present(new[c]) # {} /\ new[c].slot < Count(new)
      BY <1>2, <1>4, <1>5, <1>6, <1>7, <1>8 DEF WellFormed, Block
    <2>2. \A a, c \in Listed(new) : new[a].slot = new[c].slot => a = c
      BY <1>2, <1>3, <1>5, <1>6, <1>7 DEF WellFormed, Block
    <2> QED
      BY <1>6, <2>1, <2>2 DEF WellFormed
  <1>10. Extends(bs, new)
    <2>1. \A c \in Listed(bs) : c # b /\ new[c] = bs[c] /\ c \in Listed(new)
      BY <1>2, <1>3, <1>6, <1>7
    <2>2. \A c \in Listed(new) : c \notin Listed(bs) => c = b
      BY <1>7
    <2>3. \A c \in Listed(bs) : OnlyLoses(bs[c], new[c])
      BY <1>2, <2>1, SameOriginsLoseNothing
    <2> QED
      BY <1>2, <1>5, <1>6, <1>8, <1>9, <2>1, <2>2, <2>3 DEF Extends, Known
  <1> QED
    BY <1>3, <1>7, <1>10

-----------------------------------------------------------------------------
(* The registration of origins.                                            *)

LEMMA KeysOfOrigins ==
  /\ {OS, Interruption, Continue} \subseteq Key
  /\ \A len \in 2..4 : CallReturn(len) \in Key
  /\ \A a \in 0..(Size - 1) : Jump(a) \in Key
  BY ConstantsAssumption DEF OS, Interruption, Continue, CallReturn, Jump, Key

LEMMA MergeOriginExtends ==
  ASSUME NEW bs, WellFormed(bs), NEW b \in Listed(bs), NEW key \in Key,
         bs[b].origins[key] # None, NEW s \in State
  PROVE  Extends(bs, MergeOrigin(bs, b, key, s))
  <1> DEFINE joined == Join(bs[b].origins[key], s)
             put == PutOrigin(bs, b, key, joined)
  <1>1. bs[b] \in Block
    BY ListedIsFinite DEF WellFormed
  <1>2. joined \in State /\ Weaker(joined, bs[b].origins[key])
    BY <1>1, JoinIsState, JoinIsWeaker DEF Block, Origins
  <1> HIDE DEF joined
  <1>3. Extends(bs, put)
    BY <1>2, PutOriginExtends
  <1> HIDE DEF put
  <1>4. Extends(put, Invalidate(put, b))
    BY <1>3, InvalidateExtends DEF Extends
  <1>5. Extends(bs, Invalidate(put, b))
    BY <1>3, <1>4, ExtendsOnwards
  <1> QED
    BY <1>5, ExtendsItself DEF MergeOrigin, put, joined

LEMMA AddOriginExtends ==
  ASSUME NEW bs, WellFormed(bs), NEW b \in Listed(bs), NEW key \in Key,
         bs[b].origins[key] = None, NEW s \in State, NEW before
  PROVE  Extends(bs, AddOrigin(bs, b, key, s, before))
  <1> DEFINE added == PutOrigin(bs, b, key, s)
  <1>1. Extends(bs, added)
    BY PutOriginExtends
  <1> HIDE DEF added
  <1>2. Extends(added, Invalidate(added, b))
    BY <1>1, InvalidateExtends DEF Extends
  <1>3. Extends(bs, Invalidate(added, b))
    BY <1>1, <1>2, ExtendsOnwards
  <1> QED
    BY <1>1, <1>3 DEF AddOrigin, added

LEMMA RegisterOriginExtends ==
  ASSUME NEW bs, WellFormed(bs), NEW b \in Listed(bs), NEW key \in Key, NEW s \in State
  PROVE  Extends(bs, RegisterOrigin(bs, b, key, s))
  BY MergeOriginExtends, AddOriginExtends DEF RegisterOrigin

LEMMA RecordCallReturnExtends ==
  ASSUME NEW bs, WellFormed(bs), NEW b \in Listed(bs), NEW key \in Key, NEW s \in State
  PROVE  Extends(bs, RecordCallReturn(bs, b, key, s))
  BY ExtendsItself, PutOriginExtends DEF RecordCallReturn

(* A block is inserted at p, where another one may have been cut.          *)
LEMMA InsertedWhereCut ==
  ASSUME NEW bs, WellFormed(bs), NEW p \in Word, NEW key \in Key, NEW s \in State,
         NEW cut, cut = bs \/ cut = Shrink(bs, Containing(bs, p), p),
         Containing(bs, p) # p,
         Insert(cut, p, key, s) # None
  PROVE  Extends(bs, Insert(cut, p, key, s))
  <1> DEFINE c == Containing(bs, p)
  <1>1. c = None \/ (c \in Listed(bs) /\ c < p)
    <2>1. c = None \/ (c \in Listed(bs) /\ c <= p)
      BY ContainingIsBefore DEF WellFormed
    <2>2. c \in Listed(bs) => c \in Nat
      BY ConstantsAssumption DEF Listed, Word
    <2> HIDE DEF c
    <2>3. c # p
      BY DEF c
    <2> QED
      BY <2>1, <2>2, <2>3, ConstantsAssumption DEF Word
  <1>2. Extends(bs, cut)
    BY <1>1, ShrinkExtends, ExtendsItself
  <1>3. Extends(cut, Insert(cut, p, key, s))
    BY <1>2, InsertExtends DEF Extends
  <1> QED
    BY <1>2, <1>3, ExtendsOnwards

(* A list that was extended again, unless that was refused.                *)
LEMMA ExtendsUnlessRefused ==
  ASSUME NEW bs, NEW mid, NEW new, WellFormed(bs), Extends(bs, mid),
         new # None => Extends(mid, new), new # None
  PROVE  Extends(bs, new)
  BY ExtendsOnwards

-----------------------------------------------------------------------------
(* The registration of jump targets and of what follows.                   *)

LEMMA ImageInstruction ==
  ASSUME prog \in Image, NEW a \in 0..(Size - 1)
  PROVE  /\ prog.code[a].len \in 1..4
         /\ a + prog.code[a].len \in Word
         /\ a + prog.code[a].len > a
         /\ prog.code[a].arg \in Word
         /\ prog.code[a].op \in {"call", "icall"} => prog.code[a].len \in 2..4
         /\ prog.word \in Word
         /\ a \in Word
  <1>1. prog.code[a] \in Instruction
    BY DEF Image
  <1>2. a + prog.code[a].len <= Size
    BY DEF Image
  <1>3. prog.code[a].op \in {"call", "icall"} => prog.code[a].len \in 2..4
    BY DEF Image
  <1>4. prog.word \in Word
    BY DEF Image
  <1>5. prog.code[a].len \in 1..4 /\ prog.code[a].arg \in Word
    BY <1>1 DEF Instruction
  <1> QED
    BY <1>2, <1>3, <1>4, <1>5, ConstantsAssumption DEF Word

LEMMA RegisterReturnExtends ==
  ASSUME prog \in Image, NEW bs, WellFormed(bs), NEW a \in 0..(Size - 1), NEW s \in State,
         prog.code[a].op = "icall",
         RegisterReturn(bs, a, s) # None
  PROVE  Extends(bs, RegisterReturn(bs, a, s))
  <1> DEFINE r == a + prog.code[a].len
             c == Containing(bs, r)
  <1>1. r \in Word /\ r - a \in 2..4
    BY ImageInstruction, SMT
  <1>2. CallReturn(r - a) \in Key /\ PopReturn(s) \in State
    BY <1>1, KeysOfOrigins, MovesAreStates
  <1>3. CASE r = Size \/ c = r
    BY <1>3, ExtendsItself DEF RegisterReturn
  <1>4. CASE ~(r = Size \/ c = r)
    <2>1. RegisterReturn(bs, a, s) = Insert(Shrink(bs, c, r), r, CallReturn(r - a), PopReturn(s))
      BY <1>4 DEF RegisterReturn
    <2> QED
      BY <1>1, <1>2, <1>4, <2>1, InsertedWhereCut
  <1> QED
    BY <1>3, <1>4

LEMMA AddJumpExtends ==
  ASSUME prog \in Image, NEW bs, WellFormed(bs), NEW b \in Listed(bs),
         NEW a \in 0..(Size - 1), NEW s \in State,
         AddJump(bs, b, a, s) # None
  PROVE  Extends(bs, AddJump(bs, b, a, s))
  <1> DEFINE registered == RegisterOrigin(bs, b, Jump(a), s)
  <1>1. Extends(bs, registered)
    BY KeysOfOrigins, RegisterOriginExtends
  <1> HIDE DEF registered
  <1>2. CASE AddJump(bs, b, a, s) = registered
    BY <1>1, <1>2
  <1>3. CASE AddJump(bs, b, a, s) # registered
    <2>1. prog.code[a].op = "icall" /\ AddJump(bs, b, a, s) = RegisterReturn(registered, a, s)
      BY <1>3 DEF AddJump, registered
    <2>2. Extends(registered, RegisterReturn(registered, a, s))
      BY <1>1, <2>1, RegisterReturnExtends DEF Extends
    <2> QED
      BY <1>1, <2>1, <2>2, ExtendsOnwards
  <1> QED
    BY <1>2, <1>3

LEMMA RegisterTargetExtends ==
  ASSUME prog \in Image, NEW bs, WellFormed(bs), NEW a \in 0..(Size - 1),
         NEW target \in Word, NEW s \in State,
         RegisterTarget(bs, a, target, s) # None
  PROVE  Extends(bs, RegisterTarget(bs, a, target, s))
  <1>1. CASE Containing(bs, target) = target
    <2>1. target \in Listed(bs)
      BY <1>1, ContainingIsBefore, ConstantsAssumption DEF WellFormed
    <2> QED
      BY <1>1, <2>1, AddJumpExtends DEF RegisterTarget
  <1>2. CASE Containing(bs, target) # target
    BY <1>2, KeysOfOrigins, InsertedWhereCut DEF RegisterTarget
  <1> QED
    BY <1>1, <1>2

LEMMA RegisterNearExtends ==
  ASSUME prog \in Image, NEW bs, WellFormed(bs), NEW a \in 0..(Size - 1),
         NEW target \in Word, NEW s \in State,
         RegisterNear(bs, a, target, s) # None
  PROVE  Extends(bs, RegisterNear(bs, a, target, s))
  <1>1. CASE Containing(bs, target) = target
    <2>1. target \in Listed(bs)
      BY <1>1, ContainingIsBefore, ConstantsAssumption DEF WellFormed
    <2> QED
      BY <1>1, <2>1, AddJumpExtends DEF RegisterNear
  <1>2. CASE Containing(bs, target) # target
    BY <1>2, KeysOfOrigins, InsertedWhereCut DEF RegisterNear
  <1> QED
    BY <1>1, <1>2

(* What comes behind a block is never refused.                             *)
LEMMA InsertAccepts ==
  ASSUME NEW bs, WellFormed(bs), NEW b \in Word, b \notin Listed(bs),
         NEW key \in Key, NEW s \in State
  PROVE  Insert(bs, b, key, s) # None
  <1> DEFINE r == [end |-> b, valid |-> FALSE, slot |-> Count(bs),
                   origins |-> [k \in Key |-> IF k = key THEN s ELSE None]]
  <1>1. r \in Block
    <2>1. Count(bs) \in Nat
      BY ListedIsFinite DEF WellFormed
    <2>2. r.origins \in Origins
      BY DEF Origins
    <2> QED
      BY <2>1, <2>2 DEF Block
  <1>2. Insert(bs, b, key, s) = [bs EXCEPT ![b] = r]
    BY DEF Insert
  <1> HIDE DEF r
  <1>3. [bs EXCEPT ![b] = r] \in BlockList
    BY <1>1 DEF WellFormed, BlockList
  <1> QED
    BY <1>2, <1>3, ConstantsAssumption

LEMMA RegisterNextExtends ==
  ASSUME NEW bs, WellFormed(bs), NEW b \in Listed(bs), NEW s \in State
  PROVE  Extends(bs, RegisterNext(bs, b, s))
  <1>1. bs[b].end \in Word /\ Continue \in Key
    BY ListedIsFinite, KeysOfOrigins DEF WellFormed, Block
  <1> QED
    BY <1>1, RegisterOriginExtends, InsertExtends, InsertAccepts DEF RegisterNext

LEMMA RegisterInterruptReturnExtends ==
  ASSUME NEW bs, WellFormed(bs), NEW b \in Listed(bs), NEW s \in State
  PROVE  Extends(bs, RegisterInterruptReturn(bs, b, s))
  <1>1. bs[b].end \in Word /\ CallReturn(2) \in Key
    BY ListedIsFinite, KeysOfOrigins DEF WellFormed, Block
  <1> QED
    BY <1>1, RecordCallReturnExtends, InsertExtends, InsertAccepts
    DEF RegisterInterruptReturn

LEMMA ExtendedIsNotRefused ==
  ASSUME NEW bs, NEW new, Extends(bs, new)
  PROVE  /\ new # None
         /\ WellFormed(new)
         /\ \A b \in Listed(bs) : b \in Listed(new)
  BY ConstantsAssumption DEF Extends, WellFormed

-----------------------------------------------------------------------------
(***************************************************************************)
(* Every step is one of Worklist, or a stutter of it.                      *)
(***************************************************************************)
Refines == [Abstract!Next]_(Abstract!wvars)

(* What is kept of an origin says less than before, if it changes.         *)
Loses ==
  \A b \in Word : blocks[b] # None =>
    \A key \in Present(blocks[b]) :
      Weaker(blocks'[b].origins[key], blocks[b].origins[key])

LEMMA ExtensionLoses ==
  ASSUME Extends(blocks, blocks')
  PROVE  Loses
  BY DEF Extends, OnlyLoses, Loses, Listed

LEMMA UnchangedLoses ==
  ASSUME WellFormed(blocks), UNCHANGED blocks
  PROVE  Loses
  BY ExtendsItself, ExtensionLoses

(* An extension of the list forgets nothing.                               *)
LEMMA ExtensionGrows ==
  ASSUME WellFormed(blocks), Extends(blocks, blocks')
  PROVE  Abstract!Grows
  <1>1. blocks' \in BlockList /\ Listed(blocks') \subseteq Word
    BY ListedIsFinite DEF Extends, WellFormed
  <1>2. Listed(blocks) \subseteq Listed(blocks')
    BY DEF Extends
  <1>3. Awaiting(blocks) \cup (Listed(blocks') \ Listed(blocks)) \subseteq Awaiting(blocks')
    BY <1>2 DEF Extends, Awaiting
  <1>4. EndedBlocks(blocks) \subseteq EndedBlocks(blocks')
    BY DEF Extends, EndedBlocks
  <1>5. Awaiting(blocks') \subseteq Listed(blocks') /\ EndedBlocks(blocks') \subseteq Listed(blocks')
    BY DEF Awaiting, EndedBlocks
  <1> QED
    BY <1>1, <1>2, <1>3, <1>4, <1>5 DEF Abstract!Grows

(* A step of an evaluation finds blocks and invalidates others, or gives   *)
(* the work up.                                                            *)
LEMMA EvaluationRefines ==
  ASSUME Inductive, Reading, UNCHANGED <<loop, cur>>,
         Extends(blocks, blocks'),
         phase' \in {"decode", "link", "backtrack", "failed", "overrun"},
         phase' \in {"failed", "overrun"} => blocks' = blocks
  PROVE  Refines
  <1>1. cur # None /\ Outcome = "working"
    BY ConstantsAssumption DEF Inductive, TypeOK, Reading, Outcome
  <1>2. Abstract!Grows
    BY ExtensionGrows DEF Inductive
  <1>3. CASE phase' \in {"failed", "overrun"}
    <2>1. Outcome' = "failed" /\ ~Reading'
      BY <1>3 DEF Outcome, Reading
    <2>2. Abstract!GiveUp
      BY <1>1, <1>3, <2>1 DEF Abstract!GiveUp
    <2> QED
      BY <2>2 DEF Refines, Abstract!Next
  <1>4. CASE phase' \in {"decode", "link", "backtrack"}
    <2>1. Outcome' = "working" /\ Reading'
      BY <1>4 DEF Outcome, Reading
    <2>2. Abstract!Evaluate
      BY <1>1, <1>2, <2>1 DEF Abstract!Evaluate
    <2> QED
      BY <2>2 DEF Refines, Abstract!Next
  <1> QED
    BY <1>3, <1>4

-----------------------------------------------------------------------------
(* The steps.                                                              *)

(* A step of the reader in the middle of a block keeps the invariant when  *)
(* the list is only extended.                                              *)
LEMMA ReaderStep ==
  ASSUME Inductive, Reading,
         UNCHANGED <<prog, loop, index, any, cur>>,
         Extends(blocks, blocks'),
         phase' \in {"decode", "link", "backtrack", "failed", "overrun"},
         phase' \in {"failed", "overrun"} => blocks' = blocks,
         phase' = "backtrack" => trail' # <<>>,
         pos' \in Word, pos' >= cur,
         st' \in State, reached' \in BOOLEAN, vec' \in Word \cup {None},
         trail' \in Seq(Frame)
  PROVE  Inductive' /\ Refines /\ Loses
  <1>1. WellFormed(blocks) /\ WellFormed(blocks') /\ blocks \in BlockList /\ blocks' \in BlockList
    BY DEF Inductive, Extends, WellFormed
  <1>2. Count(blocks) \in Nat /\ Count(blocks') \in Nat /\ Count(blocks) <= Count(blocks')
    BY <1>1, ListedIsFinite DEF Extends
  <1>3. \A b \in Listed(blocks') : blocks'[b].slot \in Nat
    BY <1>1, ListedIsFinite DEF Block
  <1>4. TypeOK'
    BY <1>1 DEF Inductive, TypeOK, Phase
  <1>5. cur \in Listed(blocks) /\ index <= Count(blocks) /\ any /\ blocks[cur].slot = index
        /\ loop <= Limit /\ index \in Nat
    BY DEF Inductive, Position, Reading, TypeOK
  <1>6. Position'
    <2>1. index' <= Count(blocks')
      BY <1>2, <1>5
    <2> QED
      BY <1>5, <2>1 DEF Position, Extends
  <1>7. UnreadAhead'
    <2> SUFFICES ASSUME NEW b \in Listed(blocks')
                 PROVE  /\ ~Known(blocks', b) => index <= blocks'[b].slot
                        /\ blocks'[b].valid => Known(blocks', b) \/ b = cur
      BY DEF UnreadAhead
    <2>1. CASE b \in Listed(blocks)
      BY <2>1 DEF Extends, Inductive, UnreadAhead
    <2>2. CASE b \notin Listed(blocks)
      BY <1>2, <1>3, <1>5, <2>2 DEF Extends
    <2> QED
      BY <2>1, <2>2
  <1>8. PassedValid' /\ NoEmptyBlocks' /\ NothingPending'
    BY <1>5 DEF PassedValid, NoEmptyBlocks, NothingPending
  <1>9. Refines /\ Loses
    BY EvaluationRefines, ExtensionLoses
  <1> QED
    BY <1>1, <1>4, <1>6, <1>7, <1>8, <1>9 DEF Inductive

LEMMA InstructionFacts ==
  ASSUME Inductive, phase = "decode", pos < Size
  PROVE  /\ pos \in 0..(Size - 1)
         /\ prog \in Image
         /\ After \in Word /\ After > cur /\ After >= cur
         /\ Instr.arg \in Word
         /\ st \in State /\ vec \in Word \cup {None}
         /\ cur \in Listed(blocks)
         /\ WellFormed(blocks)
         /\ trail \in Seq(Frame)
         /\ Reading
  <1>1. pos \in 0..(Size - 1) /\ prog \in Image
    BY ConstantsAssumption DEF Inductive, TypeOK, Word
  <1>2. After \in Word /\ After > pos /\ Instr.arg \in Word
    BY <1>1, ImageInstruction DEF After, Instr
  <1>3. cur \in Word /\ cur <= pos
    BY DEF Inductive, TypeOK, Position
  <1>4. After > cur /\ After >= cur
    BY <1>1, <1>2, <1>3, ConstantsAssumption DEF Word
  <1> QED
    BY <1>1, <1>2, <1>4 DEF Inductive, TypeOK, Position, Reading

(* The end of a handler.                                                   *)
LEMMA HandledStep ==
  ASSUME Inductive, phase = "decode", pos < Size,
         NEW bs, NEW s \in State, NEW mayGoOn \in BOOLEAN,
         bs # None => Extends(blocks, bs),
         Handled(bs, s, mayGoOn),
         vec' \in Word \cup {None}
  PROVE  Inductive' /\ Refines /\ Loses
  <1>1. Extends(blocks, blocks')
    BY InstructionFacts, ExtendsItself DEF Handled
  <1>2. UNCHANGED <<prog, loop, index, any, cur>> /\ phase' \in {"link", "failed"}
        /\ pos' = After /\ st' = s /\ reached' = mayGoOn /\ trail' = trail
    BY DEF Handled
  <1>3. phase' = "failed" => blocks' = blocks
    BY DEF Handled
  <1> QED
    BY <1>1, <1>2, <1>3, InstructionFacts, ReaderStep

LEMMA EndedExtends ==
  ASSUME Inductive, phase = "decode", pos < Size
  PROVE  /\ Extends(blocks, Ended(blocks))
         /\ Ended(blocks) # None
  <1>1. blocks # None
    BY ConstantsAssumption DEF Inductive, TypeOK
  <1>2. Extends(blocks, Ended(blocks))
    BY <1>1, InstructionFacts, SetEndExtends DEF Ended
  <1> QED
    BY <1>2, ConstantsAssumption DEF Extends, WellFormed

LEMMA EndedAgainExtends ==
  ASSUME Inductive, phase = "decode", pos < Size, NEW bs,
         bs # None => Extends(blocks, bs),
         Ended(bs) # None
  PROVE  Extends(blocks, Ended(bs))
  <1>1. bs # None /\ Ended(bs) = SetEnd(bs, cur, After)
    BY DEF Ended
  <1>2. WellFormed(bs) /\ cur \in Listed(bs)
    BY <1>1, InstructionFacts DEF Extends
  <1>3. Extends(bs, Ended(bs))
    BY <1>1, <1>2, InstructionFacts, SetEndExtends
  <1> QED
    BY <1>1, <1>3, InstructionFacts, ExtendsOnwards

-----------------------------------------------------------------------------
(* The handlers.                                                           *)

LEMMA MoveDataStep ==
  ASSUME Inductive, MoveData
  PROVE  Inductive' /\ Refines /\ Loses
  <1> DEFINE bs == IF MapEmptied THEN None ELSE blocks
  <1>1. phase = "decode" /\ pos < Size /\ Instr.op \in DataOps
        /\ Handled(bs, Moved, TRUE) /\ vec' = vec
    BY DEF MoveData, Decodes
  <1>2. prog.word \in Word
    BY <1>1, InstructionFacts, ImageInstruction
  <1>3. Moved \in State
    BY <1>1, <1>2, InstructionFacts, MovesAreStates DEF Moved, DataOps
  <1>4. bs # None => Extends(blocks, bs)
    BY <1>1, InstructionFacts, ExtendsItself
  <1> HIDE DEF bs
  <1> QED
    BY <1>1, <1>3, <1>4, InstructionFacts, HandledStep

LEMMA ForwardBranchStep ==
  ASSUME Inductive, ForwardBranch
  PROVE  Inductive' /\ Refines /\ Loses
  <1> DEFINE next == RegisterNext(Ended(blocks), cur, st)
             registered == RegisterTarget(next, pos, Instr.arg, st)
  <1>1. phase = "decode" /\ pos < Size /\ vec' = vec /\ Handled(registered, st, TRUE)
    BY DEF ForwardBranch, Decodes
  <1>2. Extends(blocks, Ended(blocks)) /\ WellFormed(Ended(blocks)) /\ cur \in Listed(Ended(blocks))
    BY <1>1, EndedExtends, InstructionFacts, ExtendedIsNotRefused
  <1>3. Extends(Ended(blocks), next) /\ WellFormed(next)
    BY <1>1, <1>2, InstructionFacts, RegisterNextExtends, ExtendedIsNotRefused
  <1> HIDE DEF next
  <1>4. registered # None => Extends(next, registered)
    BY <1>1, <1>3, InstructionFacts, RegisterTargetExtends
  <1> HIDE DEF registered
  <1>5. registered # None => Extends(blocks, registered)
    BY <1>1, <1>2, <1>3, <1>4, InstructionFacts, ExtendsOnwards
  <1> QED
    BY <1>1, <1>5, InstructionFacts, HandledStep

LEMMA BackwardBranchStep ==
  ASSUME Inductive, BackwardBranch
  PROVE  Inductive' /\ Refines /\ Loses
  <1> DEFINE ended == IF Instr.arg <= cur THEN Ended(blocks)
                      ELSE Shrink(blocks, cur, Instr.arg)
             registered == RegisterTarget(ended, pos, Instr.arg, st)
             last == IF registered = None THEN None
                     ELSE RegisterNext(registered, cur, st)
  <1>1. phase = "decode" /\ pos < Size /\ vec' = vec /\ Handled(last, st, TRUE)
    BY DEF BackwardBranch, Decodes
  <1>2. Extends(blocks, ended)
    <2>1. CASE Instr.arg <= cur
      BY <1>1, <2>1, EndedExtends
    <2>2. CASE ~(Instr.arg <= cur)
      <3>1. cur < Instr.arg
        BY <1>1, <2>2, InstructionFacts, ConstantsAssumption DEF Inductive, TypeOK, Word
      <3> QED
        BY <1>1, <2>2, <3>1, InstructionFacts, ShrinkExtends
    <2> QED
      BY <2>1, <2>2
  <1> HIDE DEF ended
  <1>3. WellFormed(ended) /\ cur \in Listed(ended)
    BY <1>1, <1>2, InstructionFacts, ExtendedIsNotRefused
  <1>4. registered # None => Extends(ended, registered)
    BY <1>1, <1>3, InstructionFacts, RegisterTargetExtends
  <1> HIDE DEF registered
  <1>5. last # None => Extends(blocks, last)
    <2> SUFFICES ASSUME last # None PROVE Extends(blocks, last)
      OBVIOUS
    <2>1. registered # None /\ last = RegisterNext(registered, cur, st)
      OBVIOUS
    <2>2. Extends(blocks, registered)
      BY <1>1, <1>2, <1>4, <2>1, InstructionFacts, ExtendsOnwards
    <2>3. WellFormed(registered) /\ cur \in Listed(registered)
      BY <1>1, <2>2, InstructionFacts, ExtendedIsNotRefused
    <2>4. Extends(registered, last)
      BY <1>1, <2>1, <2>3, InstructionFacts, RegisterNextExtends
    <2> QED
      BY <1>1, <2>2, <2>4, InstructionFacts, ExtendsOnwards
  <1> HIDE DEF last
  <1> QED
    BY <1>1, <1>5, InstructionFacts, HandledStep

LEMMA ShortJumpStep ==
  ASSUME Inductive, ShortJump
  PROVE  Inductive' /\ Refines /\ Loses
  <1> DEFINE registered == RegisterTarget(Ended(blocks), pos, Instr.arg, st)
  <1>1. phase = "decode" /\ pos < Size /\ vec' = vec /\ Handled(registered, st, FALSE)
    BY DEF ShortJump, Decodes
  <1>2. Extends(blocks, Ended(blocks)) /\ WellFormed(Ended(blocks))
    BY <1>1, EndedExtends, ExtendedIsNotRefused
  <1>3. registered # None => Extends(Ended(blocks), registered)
    BY <1>1, <1>2, InstructionFacts, RegisterTargetExtends
  <1> HIDE DEF registered
  <1>4. registered # None => Extends(blocks, registered)
    BY <1>1, <1>2, <1>3, InstructionFacts, ExtendsOnwards
  <1> QED
    BY <1>1, <1>4, InstructionFacts, HandledStep

LEMMA NearJumpOrCallStep ==
  ASSUME Inductive, NearJumpOrCall
  PROVE  Inductive' /\ Refines /\ Loses
  <1> DEFINE s == IF Instr.op = "call" THEN PushReturn(st, After) ELSE st
             registered == RegisterNear(blocks, pos, Instr.arg, s)
  <1>1. phase = "decode" /\ pos < Size /\ vec' = vec /\ Handled(Ended(registered), s, FALSE)
    BY DEF NearJumpOrCall, Decodes
  <1>2. s \in State
    BY <1>1, InstructionFacts, MovesAreStates
  <1> HIDE DEF s
  <1>3. registered # None => Extends(blocks, registered)
    BY <1>1, <1>2, InstructionFacts, RegisterNearExtends
  <1> HIDE DEF registered
  <1>4. Ended(registered) # None => Extends(blocks, Ended(registered))
    BY <1>1, <1>3, EndedAgainExtends
  <1> QED
    BY <1>1, <1>2, <1>4, InstructionFacts, HandledStep

LEMMA IndirectJumpOrCallStep ==
  ASSUME Inductive, IndirectJumpOrCall
  PROVE  Inductive' /\ Refines /\ Loses
  <1> DEFINE s == IF Instr.op = "icall" THEN PushReturn(st, After) ELSE st
             registered == RegisterTarget(blocks, pos, IndirectTarget, s)
  <1>1. phase = "decode" /\ pos < Size /\ vec' = vec
    BY DEF IndirectJumpOrCall, Decodes
  <1>2. CASE IndirectTarget \in 0..(Size - 1)
    <2>1. Handled(Ended(registered), s, FALSE)
      BY <1>2 DEF IndirectJumpOrCall
    <2>2. s \in State
      BY <1>1, InstructionFacts, MovesAreStates
    <2> HIDE DEF s
    <2>3. IndirectTarget \in Word
      BY <1>2, ConstantsAssumption DEF Word
    <2>4. registered # None => Extends(blocks, registered)
      BY <1>1, <2>2, <2>3, InstructionFacts, RegisterTargetExtends
    <2> HIDE DEF registered
    <2>5. Ended(registered) # None => Extends(blocks, Ended(registered))
      BY <1>1, <2>4, EndedAgainExtends
    <2> QED
      BY <1>1, <2>1, <2>2, <2>5, InstructionFacts, HandledStep
  <1>3. CASE IndirectTarget \notin 0..(Size - 1)
    <2>1. Handled(Ended(blocks), st, FALSE)
      BY <1>3 DEF IndirectJumpOrCall
    <2> QED
      BY <1>1, <2>1, EndedExtends, InstructionFacts, HandledStep
  <1> QED
    BY <1>2, <1>3

LEMMA FarJumpOrExitStep ==
  ASSUME Inductive, FarJumpOrExit
  PROVE  Inductive' /\ Refines /\ Loses
  <1>1. phase = "decode" /\ pos < Size /\ vec' = vec /\ Handled(Ended(blocks), st, FALSE)
    BY DEF FarJumpOrExit, Decodes
  <1> QED
    BY <1>1, EndedExtends, InstructionFacts, HandledStep

LEMMA ClockInterruptStep ==
  ASSUME Inductive, ClockInterrupt
  PROVE  Inductive' /\ Refines /\ Loses
  <1>1. phase = "decode" /\ pos < Size /\ vec' = vec /\ Handled(blocks, st, FALSE)
    BY DEF ClockInterrupt, Decodes
  <1> QED
    BY <1>1, ExtendsItself, InstructionFacts, HandledStep

LEMMA InterruptStep ==
  ASSUME Inductive, Interrupt
  PROVE  Inductive' /\ Refines /\ Loses
  <1> DEFINE s == IF Instr.op = "dos" THEN UndefineRegister(st) ELSE st
             registered == RegisterInterruptReturn(Ended(blocks), cur, s)
  <1>1. phase = "decode" /\ pos < Size /\ vec' = vec /\ Handled(registered, s, FALSE)
    BY DEF Interrupt, Decodes
  <1>2. s \in State
    BY <1>1, InstructionFacts, ConstantsAssumption DEF UndefineRegister, State, Register
  <1> HIDE DEF s
  <1>3. Extends(blocks, Ended(blocks)) /\ WellFormed(Ended(blocks)) /\ cur \in Listed(Ended(blocks))
    BY <1>1, EndedExtends, InstructionFacts, ExtendedIsNotRefused
  <1>4. Extends(Ended(blocks), registered)
    BY <1>1, <1>2, <1>3, RegisterInterruptReturnExtends
  <1> HIDE DEF registered
  <1>5. Extends(blocks, registered)
    BY <1>1, <1>3, <1>4, InstructionFacts, ExtendsOnwards
  <1> QED
    BY <1>1, <1>2, <1>5, InstructionFacts, HandledStep

LEMMA HandlerIsState ==
  ASSUME NEW s \in State, NEW reg \in Register
  PROVE  HandlerState(s, reg) \in State
  <1>1. <<>> \in Stack
    BY DEF Stack
  <1> QED
    BY <1>1 DEF HandlerState, State

LEMMA SetVectorStep ==
  ASSUME Inductive, SetVector
  PROVE  Inductive' /\ Refines /\ Loses
  <1> DEFINE registered == RegisterHandler(st.reg)
             last == IF registered = None THEN None
                     ELSE RegisterInterruptReturn(Ended(registered), cur, st)
  <1>1. phase = "decode" /\ pos < Size /\ vec' = vec /\ Handled(last, st, FALSE)
    BY DEF SetVector, Decodes
  <1>2. registered # None => Extends(blocks, registered)
    <2>1. st.reg \in Register /\ st.reg.val \in Word
      BY <1>1, InstructionFacts DEF State, Register
    <2>2. HandlerState(st, st.reg) \in State
      BY <1>1, <2>1, InstructionFacts, HandlerIsState
    <2>3. CASE ~st.reg.def \/ Containing(blocks, st.reg.val) = st.reg.val
      BY <1>1, <2>3, InstructionFacts, ExtendsItself DEF RegisterHandler
    <2>4. CASE ~(~st.reg.def \/ Containing(blocks, st.reg.val) = st.reg.val)
      <3> DEFINE cut == Shrink(blocks, Containing(blocks, st.reg.val), st.reg.val)
      <3>1. registered = Insert(cut, st.reg.val, Interruption, HandlerState(st, st.reg))
        BY <2>4 DEF RegisterHandler
      <3> HIDE DEF registered
      <3> QED
        BY <1>1, <2>1, <2>2, <2>4, <3>1, InstructionFacts, KeysOfOrigins, InsertedWhereCut
    <2> QED
      BY <2>3, <2>4
  <1> HIDE DEF registered
  <1>3. last # None => Extends(blocks, last)
    <2> SUFFICES ASSUME registered # None PROVE Extends(blocks, last)
      OBVIOUS
    <2>1. Extends(blocks, registered) /\ WellFormed(registered) /\ cur \in Listed(registered)
      BY <1>1, <1>2, InstructionFacts, ExtendedIsNotRefused
    <2>2. Ended(registered) = SetEnd(registered, cur, After)
      BY DEF Ended
    <2>3. Extends(registered, Ended(registered))
      BY <1>1, <2>1, <2>2, InstructionFacts, SetEndExtends
    <2>4. WellFormed(Ended(registered)) /\ cur \in Listed(Ended(registered))
      BY <2>1, <2>3, ExtendedIsNotRefused
    <2>5. Extends(Ended(registered), last)
      BY <1>1, <2>4, InstructionFacts, RegisterInterruptReturnExtends
    <2> HIDE DEF last
    <2>6. Extends(registered, last)
      BY <2>1, <2>3, <2>5, ExtendsOnwards
    <2> QED
      BY <1>1, <2>1, <2>6, InstructionFacts, ExtendsOnwards
  <1> HIDE DEF last
  <1> QED
    BY <1>1, <1>3, InstructionFacts, HandledStep

LEMMA HookVectorStep ==
  ASSUME Inductive, HookVector
  PROVE  Inductive' /\ Refines /\ Loses
  <1>1. phase = "decode" /\ pos < Size /\ Handled(blocks, st, TRUE)
        /\ vec' = IF st.reg.def THEN st.reg.val ELSE vec
    BY DEF HookVector, Decodes
  <1>2. vec' \in Word \cup {None}
    BY <1>1, InstructionFacts DEF State, Register
  <1> QED
    BY <1>1, <1>2, ExtendsItself, InstructionFacts, HandledStep

LEMMA EnableInterruptsStep ==
  ASSUME Inductive, EnableInterrupts
  PROVE  Inductive' /\ Refines /\ Loses
  <1>1. phase = "decode" /\ pos < Size /\ vec' = vec
    BY DEF EnableInterrupts, Decodes
  <1>2. CASE vec = None \/ Containing(blocks, vec) = vec
    <2>1. Handled(blocks, st, TRUE)
      BY <1>2 DEF EnableInterrupts
    <2> QED
      BY <1>1, <2>1, ExtendsItself, InstructionFacts, HandledStep
  <1>3. CASE ~(vec = None \/ Containing(blocks, vec) = vec)
    <2> DEFINE c == Containing(blocks, vec)
               cut == IF c = None THEN blocks ELSE SetEnd(blocks, c, vec)
               handler(g) == Insert(cut, vec, Interruption,
                                    HandlerState(st, [def |-> FALSE, val |-> g]))
    <2>1. PICK garbage \in Uninitialized : Handled(handler(garbage), st, TRUE)
      BY <1>3 DEF EnableInterrupts
    <2>2. vec \in Word /\ blocks \in BlockList
      BY <1>1, <1>3, InstructionFacts DEF WellFormed
    <2>3. [def |-> FALSE, val |-> garbage] \in Register
      BY ConstantsAssumption DEF Register
    <2> DEFINE s == HandlerState(st, [def |-> FALSE, val |-> garbage])
    <2>4. s \in State
      BY <1>1, <2>3, InstructionFacts, HandlerIsState
    <2>5. c = None \/ (c \in Listed(blocks) /\ vec > c)
      <3>1. c = None \/ (c \in Listed(blocks) /\ c <= vec)
        BY <2>2, ContainingIsBefore
      <3>2. c \in Listed(blocks) => c \in Nat
        BY ConstantsAssumption DEF Listed, Word
      <3>3. c # vec
        BY <1>3
      <3> HIDE DEF c
      <3> QED
        BY <2>2, <3>1, <3>2, <3>3, ConstantsAssumption DEF Word
    <2> HIDE DEF c
    <2>6. Extends(blocks, cut)
      BY <1>1, <2>2, <2>5, InstructionFacts, SetEndExtends, ExtendsItself
    <2> HIDE DEF cut, s
    <2>7. handler(garbage) = Insert(cut, vec, Interruption, s)
      BY DEF s
    <2>8. handler(garbage) # None => Extends(cut, handler(garbage))
      BY <2>2, <2>4, <2>6, <2>7, KeysOfOrigins, InsertExtends, ExtendedIsNotRefused
    <2> HIDE DEF handler
    <2>9. handler(garbage) # None => Extends(blocks, handler(garbage))
      BY <1>1, <2>6, <2>8, InstructionFacts, ExtendsOnwards
    <2> QED
      BY <1>1, <2>1, <2>9, InstructionFacts, HandledStep
  <1> QED
    BY <1>2, <1>3

LEMMA UnknownOpcodeStep ==
  ASSUME Inductive, UnknownOpcode
  PROVE  Inductive' /\ Refines /\ Loses
  <1>1. phase = "decode" /\ pos < Size /\ vec' = vec
    BY DEF UnknownOpcode, Decodes
  <1>2. PICK end \in {a \in Listed(blocks) : a > cur} \cup {Size} :
          Handled(SetEnd(blocks, cur, end), st, FALSE)
    BY DEF UnknownOpcode
  <1>3. end \in Word /\ end > cur
    BY <1>1, InstructionFacts, ConstantsAssumption
    DEF Listed, Word, Inductive, TypeOK, Position
  <1>4. Extends(blocks, SetEnd(blocks, cur, end))
    BY <1>1, <1>3, InstructionFacts, SetEndExtends
  <1> QED
    BY <1>1, <1>2, <1>4, InstructionFacts, HandledStep

(* A step of the reader that leaves the list alone.                        *)
LEMMA QuietStep ==
  ASSUME Inductive, Reading,
         UNCHANGED <<prog, blocks, loop, index, any, cur, pos, st, reached, vec>>,
         phase' \in {"decode", "link", "backtrack", "failed", "overrun"},
         phase' = "backtrack" => trail' # <<>>,
         trail' \in Seq(Frame)
  PROVE  Inductive' /\ Refines /\ Loses
  <1>1. WellFormed(blocks)
    BY DEF Inductive
  <1>2. Extends(blocks, blocks')
    BY <1>1, ExtendsItself
  <1>3. pos' \in Word /\ pos' >= cur /\ st' \in State /\ reached' \in BOOLEAN
        /\ vec' \in Word \cup {None}
    BY ConstantsAssumption DEF Inductive, TypeOK, Position, Word
  <1> QED
    BY <1>2, <1>3, ReaderStep

LEMMA BadOpcodeStep ==
  ASSUME Inductive, BadOpcode
  PROVE  Inductive' /\ Refines /\ Loses
  <1>1. Reading /\ trail' \in Seq(Frame)
    BY DEF Inductive, TypeOK, Reading, BadOpcode, Decodes
  <1> QED
    BY <1>1, QuietStep DEF BadOpcode

LEMMA ReadPastImageStep ==
  ASSUME Inductive, ReadPastImage
  PROVE  Inductive' /\ Refines /\ Loses
  <1>1. Reading /\ trail' \in Seq(Frame)
    BY DEF Inductive, TypeOK, Reading, ReadPastImage
  <1> QED
    BY <1>1, QuietStep DEF ReadPastImage

LEMMA ReturnStep ==
  ASSUME Inductive, Return
  PROVE  Inductive' /\ Refines /\ Loses
  <1>1. phase = "decode" /\ pos < Size
    BY DEF Return, Decodes
  <1>2. [block |-> cur, next |-> 0] \in Frame
    BY DEF Inductive, TypeOK, Frame
  <1>3. trail' \in Seq(Frame) /\ trail' # <<>>
    BY <1>2 DEF Return
  <1>4. Extends(blocks, blocks')
    BY <1>1, EndedExtends DEF Return
  <1>5. /\ UNCHANGED <<prog, loop, index, any, cur, st, vec>>
        /\ phase' = "backtrack" /\ pos' = After /\ reached' = FALSE
    BY DEF Return
  <1> QED
    BY <1>1, <1>3, <1>4, <1>5, InstructionFacts, ReaderStep

-----------------------------------------------------------------------------
(* The way back to the calls.                                              *)

LEMMA TrailFacts ==
  ASSUME Inductive, phase = "backtrack"
  PROVE  /\ Reading
         /\ trail \in Seq(Frame) /\ trail # <<>>
         /\ Head(trail) \in Frame
         /\ Tail(trail) \in Seq(Frame)
         /\ Advanced \in Seq(Frame) /\ Advanced # <<>>
         /\ \A b \in Word : <<[block |-> b, next |-> 0]>> \o Advanced \in Seq(Frame)
         /\ \A b \in Word : <<[block |-> b, next |-> 0]>> \o Advanced # <<>>
  <1>1. Reading /\ trail \in Seq(Frame) /\ trail # <<>>
    BY DEF Inductive, TypeOK, Position, Reading
  <1>2. Head(trail) \in Frame /\ Tail(trail) \in Seq(Frame)
    BY <1>1
  <1>3. [Head(trail) EXCEPT !.next = @ + 1] \in Frame
    BY <1>2 DEF Frame
  <1>4. Advanced \in Seq(Frame) /\ Advanced # <<>>
    BY <1>2, <1>3 DEF Advanced
  <1>5. \A b \in Word : [block |-> b, next |-> 0] \in Frame
    BY DEF Frame
  <1>6. \A f \in Frame : <<f>> \o Advanced \in Seq(Frame) /\ <<f>> \o Advanced # <<>>
    BY <1>4
  <1> QED
    BY <1>1, <1>2, <1>4, <1>5, <1>6

LEMMA DescendKeepsTrail ==
  ASSUME Inductive, phase = "backtrack", NEW b \in Word \cup {None}, Descend(b)
  PROVE  trail' \in Seq(Frame) /\ trail' # <<>>
  BY TrailFacts DEF Descend

LEMMA VisitContinuationStep ==
  ASSUME Inductive, VisitContinuation
  PROVE  Inductive' /\ Refines /\ Loses
  <1>1. phase = "backtrack" /\ phase' = phase
    BY DEF VisitContinuation, Visits
  <1>2. trail' \in Seq(Frame) /\ trail' # <<>>
    <2>1. \A p \in Predecessors(Head(trail).block) : p \in Word
      BY DEF Predecessors, Listed
    <2>2. trail' = Advanced \/ \E p \in Predecessors(Head(trail).block) : Descend(p)
      BY DEF VisitContinuation
    <2> QED
      BY <1>1, <2>1, <2>2, TrailFacts, DescendKeepsTrail
  <1> QED
    BY <1>1, <1>2, TrailFacts, QuietStep DEF VisitContinuation

LEMMA VisitJumpStep ==
  ASSUME Inductive, VisitJump
  PROVE  Inductive' /\ Refines /\ Loses
  <1>1. PICK a \in 0..(Size - 1) : Visits(Jump(a)) /\ Descend(Containing(blocks, a))
    BY DEF VisitJump
  <1>2. phase = "backtrack" /\ phase' = phase
    BY <1>1 DEF VisitJump, Visits
  <1>3. Containing(blocks, a) \in Word \cup {None}
    <2>1. a \in Word /\ blocks \in BlockList
      BY ConstantsAssumption DEF Word, Inductive, TypeOK
    <2> QED
      BY <2>1, ContainingIsBefore DEF Listed
  <1>4. trail' \in Seq(Frame) /\ trail' # <<>>
    BY <1>1, <1>2, <1>3, DescendKeepsTrail
  <1> QED
    BY <1>2, <1>4, TrailFacts, QuietStep DEF VisitJump

LEMMA VisitEntryStep ==
  ASSUME Inductive, VisitEntry
  PROVE  Inductive' /\ Refines /\ Loses
  <1>1. phase = "backtrack" /\ phase' = phase
    BY DEF VisitEntry, Visits
  <1> QED
    BY <1>1, TrailFacts, QuietStep DEF VisitEntry

LEMMA LeaveBlockStep ==
  ASSUME Inductive, LeaveBlock
  PROVE  Inductive' /\ Refines /\ Loses
  <1>1. phase = "backtrack" /\ trail' = Tail(trail)
        /\ phase' = IF Len(trail) = 1 THEN "link" ELSE "backtrack"
    BY DEF LeaveBlock
  <1>2. phase' = "backtrack" => trail' # <<>>
    <2>1. trail \in Seq(Frame) /\ trail # <<>>
      BY <1>1, TrailFacts
    <2>2. Len(Tail(trail)) = Len(trail) - 1 /\ Len(trail) \in Nat
      BY <2>1
    <2>3. ASSUME Tail(trail) = <<>> PROVE Len(trail) = 1
      <3>1. Len(Tail(trail)) = 0
        BY <2>3
      <3> QED
        BY <2>2, <3>1
    <2> QED
      BY <1>1, <2>3
  <1> QED
    BY <1>1, <1>2, TrailFacts, QuietStep DEF LeaveBlock

LEMMA EnsureCallReturnExtends ==
  ASSUME Inductive, NEW a \in 0..(Size - 1), prog.code[a].op \in {"call", "icall"}
  PROVE  Extends(blocks, EnsureCallReturn(blocks, a))
  <1> DEFINE r == a + prog.code[a].len
             key == CallReturn(prog.code[a].len)
  <1>1. WellFormed(blocks) /\ prog \in Image /\ st \in State
    BY DEF Inductive, TypeOK
  <1>2. r \in Word /\ key \in Key
    BY <1>1, ImageInstruction, KeysOfOrigins
  <1>3. PopReturn(st) \in State
    BY <1>1, MovesAreStates, <1>2
  <1> HIDE DEF r, key
  <1>4. CASE r \notin Listed(blocks)
    BY <1>1, <1>2, <1>3, <1>4, InsertExtends, InsertAccepts DEF EnsureCallReturn, r, key
  <1>5. CASE r \in Listed(blocks)
    BY <1>1, <1>2, <1>3, <1>5, PutOriginExtends, MergeOriginExtends
    DEF EnsureCallReturn, r, key
  <1> QED
    BY <1>4, <1>5

LEMMA VisitCallStep ==
  ASSUME Inductive, VisitCall
  PROVE  Inductive' /\ Refines /\ Loses
  <1>1. phase = "backtrack" /\ trail' = Advanced
        /\ UNCHANGED <<prog, loop, index, any, phase, cur, pos, st, reached, vec>>
    BY DEF VisitCall, Visits
  <1>2. Extends(blocks, blocks')
    <2>1. PICK a \in 0..(Size - 1) :
            /\ prog.code[a].op \in {"call", "icall"}
            /\ blocks' = EnsureCallReturn(blocks, a) \/ blocks' = blocks
      BY DEF VisitCall
    <2>2. WellFormed(blocks)
      BY DEF Inductive
    <2> QED
      BY <2>1, <2>2, EnsureCallReturnExtends, ExtendsItself
  <1>3. pos' \in Word /\ pos' >= cur /\ st' \in State /\ reached' \in BOOLEAN
        /\ vec' \in Word \cup {None}
    BY <1>1, ConstantsAssumption DEF Inductive, TypeOK, Position, Word
  <1> QED
    BY <1>1, <1>2, <1>3, TrailFacts, ReaderStep

-----------------------------------------------------------------------------
(* The end of a pass of read_block, and the loops around it.               *)

LEMMA ContinueIntoExtends ==
  ASSUME NEW bs, WellFormed(bs), NEW b \in Listed(bs), st \in State
  PROVE  Extends(bs, ContinueInto(bs, b))
  <1> DEFINE old == bs[b].origins[Continue]
  <1>1. Continue \in Key
    BY KeysOfOrigins
  <1>2. bs[b] \in Block
    BY ListedIsFinite DEF WellFormed
  <1>3. CASE old # None
    <2> DEFINE put == PutOrigin(bs, b, Continue, JoinButStack(old, st))
    <2>1. JoinButStack(old, st) \in State /\ Weaker(JoinButStack(old, st), old)
      BY <1>1, <1>2, <1>3, JoinIsState, JoinIsWeaker DEF Block, Origins
    <2>2. Extends(bs, put)
      BY <1>1, <2>1, PutOriginExtends
    <2> HIDE DEF put
    <2>3. Extends(put, Invalidate(put, b))
      BY <2>2, InvalidateExtends DEF Extends
    <2>4. Extends(bs, Invalidate(put, b))
      BY <2>2, <2>3, ExtendsOnwards
    <2> QED
      BY <1>3, <2>4, ExtendsItself DEF ContinueInto, put
  <1>4. CASE old = None
    <2> DEFINE first == FirstState(bs[b])
    <2>1. Extends(bs, AddOrigin(bs, b, Continue, st, first))
      BY <1>1, <1>4, AddOriginExtends
    <2> QED
      BY <1>4, <2>1, ExtendsItself DEF ContinueInto
  <1> QED
    BY <1>3, <1>4

LEMMA LinkedExtends ==
  ASSUME Inductive, phase = "link"
  PROVE  Extends(blocks, Linked)
  <1>1. WellFormed(blocks) /\ cur \in Listed(blocks) /\ st \in State
    BY DEF Inductive, TypeOK, Position
  <1>2. CASE Follower = {}
    BY <1>1, <1>2, ExtendsItself DEF Linked
  <1>3. CASE Follower # {}
    <2> DEFINE b == CHOOSE b \in Follower : TRUE
               ended == SetEnd(blocks, cur, b)
    <2>1. b \in Listed(blocks) /\ b > cur /\ b \in Word
      BY <1>3 DEF Follower, Following, Listed
    <2>2. Linked = IF b = pos THEN ContinueInto(ended, b) ELSE ended
      BY <1>3 DEF Linked
    <2> HIDE DEF b
    <2>3. Extends(blocks, ended)
      BY <1>1, <2>1, SetEndExtends
    <2> HIDE DEF ended
    <2>4. Extends(ended, ContinueInto(ended, b))
      BY <1>1, <2>1, <2>3, ExtendedIsNotRefused, ContinueIntoExtends
    <2>5. Extends(blocks, ContinueInto(ended, b))
      BY <1>1, <2>3, <2>4, ExtendsOnwards
    <2> QED
      BY <2>2, <2>3, <2>5
  <1> QED
    BY <1>2, <1>3

LEMMA ReadOnStep ==
  ASSUME Inductive, ReadOn
  PROVE  Inductive' /\ Refines /\ Loses
  <1>1. phase = "link" /\ phase' = "decode" /\ blocks' = Linked
        /\ UNCHANGED <<prog, loop, index, any, cur, pos, st, reached, vec, trail>>
    BY DEF ReadOn
  <1>2. Extends(blocks, blocks')
    BY <1>1, LinkedExtends
  <1>3. Reading /\ pos' \in Word /\ pos' >= cur /\ st' \in State /\ reached' \in BOOLEAN
        /\ vec' \in Word \cup {None} /\ trail' \in Seq(Frame)
    BY <1>1, ConstantsAssumption DEF Inductive, TypeOK, Position, Word, Reading
  <1> QED
    BY <1>1, <1>2, <1>3, ReaderStep

(* The block that was read is known now, and its slot is passed.           *)
LEMMA EndBlockStep ==
  ASSUME Inductive, EndBlock
  PROVE  Inductive' /\ Refines /\ Loses
  <1>1. /\ phase = "link" /\ phase' = "scan" /\ blocks' = Linked
        /\ Known(blocks', cur) /\ index' = index + 1
        /\ UNCHANGED <<prog, loop, any, cur, pos, st, reached, vec, trail>>
    BY DEF EndBlock
  <1>2. Extends(blocks, blocks')
    BY <1>1, LinkedExtends
  <1>3. WellFormed(blocks) /\ WellFormed(blocks') /\ blocks \in BlockList /\ blocks' \in BlockList
    BY <1>2 DEF Inductive, Extends, WellFormed
  <1>4. Count(blocks) \in Nat /\ Count(blocks') \in Nat /\ Count(blocks) <= Count(blocks')
        /\ (\A b \in Listed(blocks) : blocks[b].slot \in Nat)
        /\ (\A b \in Listed(blocks') : blocks'[b].slot \in Nat)
    BY <1>2, <1>3, ListedIsFinite DEF Extends, Block
  <1>5. cur \in Listed(blocks) /\ cur <= pos /\ index \in Nat /\ any
        /\ blocks[cur].slot = index /\ loop <= Limit
    BY <1>1 DEF Inductive, Position, TypeOK, Reading
  <1>6. index < Count(blocks)
    BY <1>3, <1>5 DEF WellFormed
  <1>7. TypeOK'
    BY <1>1, <1>3 DEF Inductive, TypeOK, Phase
  <1>8. Position'
    <2>1. index' <= Count(blocks')
      BY <1>1, <1>4, <1>5, <1>6
    <2>2. cur' \in Listed(blocks')
      BY <1>1, <1>2, <1>5 DEF Extends
    <2> QED
      BY <1>1, <1>5, <2>1, <2>2 DEF Position, Reading
  <1>9. UnreadAhead'
    <2> SUFFICES ASSUME NEW b \in Listed(blocks')
                 PROVE  /\ ~Known(blocks', b) => index' <= blocks'[b].slot
                        /\ blocks'[b].valid => Known(blocks', b)
      BY DEF UnreadAhead
    <2>1. CASE b \in Listed(blocks)
      <3>1. blocks'[b].slot = blocks[b].slot /\ (Known(blocks, b) => Known(blocks', b))
            /\ (blocks'[b].valid => blocks[b].valid)
        BY <1>2, <2>1 DEF Extends
      <3>2. (~Known(blocks, b) => index <= blocks[b].slot)
            /\ (blocks[b].valid => Known(blocks, b) \/ b = cur)
        BY <2>1 DEF Inductive, UnreadAhead
      <3>3. blocks[b].slot = index => b = cur
        BY <1>3, <1>5, <2>1 DEF WellFormed
      <3> QED
        BY <1>1, <1>4, <1>5, <2>1, <3>1, <3>2, <3>3
    <2>2. CASE b \notin Listed(blocks)
      <3>1. ~blocks'[b].valid /\ Count(blocks) <= blocks'[b].slot
        BY <1>2, <2>2 DEF Extends
      <3> QED
        BY <1>1, <1>4, <1>5, <1>6, <3>1
    <2> QED
      BY <2>1, <2>2
  <1>10. PassedValid' /\ NoEmptyBlocks' /\ NothingPending'
    BY <1>1, <1>5 DEF PassedValid, NoEmptyBlocks, NothingPending
  <1>11. Refines
    <2>1. Abstract!Grows
      BY <1>2, <1>3, ExtensionGrows
    <2>2. Reading /\ ~Reading' /\ Outcome = "working" /\ Outcome' = "working"
      BY <1>1 DEF Reading, Outcome
    <2>3. cur # None /\ cur \in EndedBlocks(blocks')
      BY <1>1, <1>2, <1>5, ConstantsAssumption DEF Inductive, TypeOK, EndedBlocks, Extends
    <2>4. Abstract!End
      BY <2>1, <2>2, <2>3 DEF Abstract!End
    <2> QED
      BY <2>4 DEF Refines, Abstract!Next
  <1>12. Loses
    BY <1>2, ExtensionLoses
  <1> QED
    BY <1>3, <1>7, <1>8, <1>9, <1>10, <1>11, <1>12 DEF Inductive

LEMMA ScanFacts ==
  ASSUME Inductive, phase = "scan"
  PROVE  /\ WellFormed(blocks) /\ blocks \in BlockList
         /\ Count(blocks) \in Nat /\ index \in Nat /\ index <= Count(blocks)
         /\ loop \in 1..Limit
         /\ \A b \in Listed(blocks) :
              /\ b \in Word
              /\ blocks[b] \in Block
              /\ blocks[b].slot \in Nat /\ blocks[b].slot < Count(blocks)
              /\ ~Known(blocks, b) => index <= blocks[b].slot
              /\ blocks[b].valid => Known(blocks, b)
              /\ ~any /\ blocks[b].slot < index => blocks[b].valid
         /\ \A a, b \in Listed(blocks) : blocks[a].slot = blocks[b].slot => a = b
  <1>1. WellFormed(blocks) /\ blocks \in BlockList
    BY DEF Inductive, WellFormed
  <1>2. Count(blocks) \in Nat /\ \A b \in Listed(blocks) : b \in Word /\ blocks[b] \in Block
    BY <1>1, ListedIsFinite
  <1>3. index \in Nat /\ index <= Count(blocks) /\ loop \in 1..Limit
    BY ConstantsAssumption DEF Inductive, TypeOK, Position
  <1>4. \A b \in Listed(blocks) : blocks[b].slot \in Nat /\ blocks[b].slot < Count(blocks)
    BY <1>1, <1>2 DEF Block, WellFormed
  <1>5. \A b \in Listed(blocks) :
          /\ ~Known(blocks, b) => index <= blocks[b].slot
          /\ blocks[b].valid => Known(blocks, b)
          /\ ~any /\ blocks[b].slot < index => blocks[b].valid
    BY DEF Inductive, UnreadAhead, PassedValid
  <1> QED
    BY <1>1, <1>2, <1>3, <1>4, <1>5 DEF WellFormed

LEMMA SkipBlockStep ==
  ASSUME Inductive, SkipBlock
  PROVE  Inductive' /\ Refines /\ Loses
  <1>1. phase = "scan" /\ index' = index + 1
        /\ UNCHANGED <<prog, blocks, loop, any, phase, cur, pos, st, reached, vec, trail>>
    BY DEF SkipBlock
  <1>2. PICK b \in Listed(blocks) : blocks[b].slot = index /\ blocks[b].valid
    BY DEF SkipBlock
  <1>3. TypeOK'
    BY <1>1, ScanFacts DEF Inductive, TypeOK
  <1>4. Position'
    <2>1. index' <= Count(blocks')
      BY <1>1, <1>2, ScanFacts
    <2> QED
      BY <1>1, <2>1 DEF Inductive, Position, Reading
  <1>5. UnreadAhead'
    <2> SUFFICES ASSUME NEW c \in Listed(blocks)
                 PROVE  /\ ~Known(blocks, c) => index + 1 <= blocks[c].slot
                        /\ blocks[c].valid => Known(blocks, c)
      BY <1>1 DEF UnreadAhead
    <2>1. blocks[c].slot = index => c = b
      BY <1>1, <1>2, ScanFacts
    <2> QED
      BY <1>1, <1>2, <2>1, ScanFacts
  <1>6. PassedValid'
    <2> SUFFICES ASSUME ~any, NEW c \in Listed(blocks), blocks[c].slot < index + 1
                 PROVE  blocks[c].valid
      BY <1>1 DEF PassedValid
    <2>1. blocks[c].slot < index \/ c = b
      BY <1>1, <1>2, ScanFacts
    <2> QED
      BY <1>1, <1>2, <2>1, ScanFacts
  <1>7. NoEmptyBlocks' /\ NothingPending'
    BY <1>1 DEF NoEmptyBlocks, NothingPending
  <1>8. WellFormed(blocks')
    BY <1>1, ScanFacts
  <1>9. Refines
    BY <1>1 DEF Refines, Abstract!wvars, Reading, Outcome
  <1>10. Loses
    BY <1>1, ScanFacts, UnchangedLoses
  <1> QED
    BY <1>3, <1>4, <1>5, <1>6, <1>7, <1>8, <1>9, <1>10 DEF Inductive

LEMMA BeginBlockStep ==
  ASSUME Inductive, BeginBlock
  PROVE  Inductive' /\ Refines /\ Loses
  <1>1. phase = "scan" /\ any' = TRUE /\ vec' = None /\ phase' = "decode"
        /\ UNCHANGED <<prog, loop, index, reached, trail>>
    BY DEF BeginBlock
  <1>2. PICK b \in Listed(blocks) :
          /\ blocks[b].slot = index
          /\ ~blocks[b].valid
          /\ cur' = b /\ pos' = b
          /\ st' = Accumulated(blocks[b])
          /\ blocks' = [blocks EXCEPT ![b].valid = TRUE]
    BY DEF BeginBlock
  <1>3. st' \in State
    BY <1>1, <1>2, ScanFacts, AccumulatedIsState DEF WellFormed
  <1>4. blocks' \in BlockList /\ Listed(blocks') = Listed(blocks)
    <2>1. blocks'[b] \in Block /\ blocks' \in BlockList
      BY <1>1, <1>2, ScanFacts DEF BlockList, Block
    <2>2. \A c \in Word : c # b => blocks'[c] = blocks[c]
      BY <1>1, <1>2, ScanFacts DEF BlockList
    <2> QED
      BY <1>2, <2>1, <2>2, ConstantsAssumption DEF Listed
  <1>5. \A c \in Listed(blocks) :
          /\ blocks'[c].slot = blocks[c].slot
          /\ blocks'[c].end = blocks[c].end
          /\ blocks'[c].origins = blocks[c].origins
          /\ c # b => blocks'[c].valid = blocks[c].valid
    BY <1>1, <1>2, ScanFacts DEF BlockList, Block
  <1>6. Count(blocks') = Count(blocks)
    BY <1>4 DEF Count
  <1>7. WellFormed(blocks')
    <2>1. \A c \in Listed(blocks) : Present(blocks[c]) # {}
      BY <1>1, ScanFacts DEF WellFormed
    <2>2. \A c \in Listed(blocks) : Present(blocks'[c]) # {}
      BY <1>5, <2>1 DEF Present
    <2> QED
      BY <1>1, <1>4, <1>5, <1>6, <2>2, ScanFacts DEF WellFormed
  <1>8. TypeOK'
    <2>1. b \in Word /\ vec' \in Word \cup {None}
      BY <1>1, ScanFacts
    <2> QED
      BY <1>1, <1>2, <1>3, <1>4, <2>1 DEF Inductive, TypeOK, Phase
  <1>9. Position'
    <2>1. b \in Nat
      BY <1>1, ScanFacts, ConstantsAssumption DEF Word
    <2>2. loop' <= Limit /\ index' <= Count(blocks')
      BY <1>1, <1>6, ScanFacts
    <2> QED
      BY <1>1, <1>2, <1>4, <1>5, <2>1, <2>2 DEF Position
  <1>10. UnreadAhead'
    <2> SUFFICES ASSUME NEW c \in Listed(blocks)
                 PROVE  /\ ~Known(blocks', c) => index <= blocks'[c].slot
                        /\ blocks'[c].valid => Known(blocks', c) \/ c = b
      BY <1>1, <1>2, <1>4 DEF UnreadAhead
    <2>1. Known(blocks', c) <=> Known(blocks, c)
      BY <1>5 DEF Known
    <2> QED
      BY <1>1, <1>5, <2>1, ScanFacts
  <1>11. PassedValid' /\ NoEmptyBlocks' /\ NothingPending'
    BY <1>1 DEF PassedValid, NoEmptyBlocks, NothingPending
  <1>12. Refines
    <2>1. ~Reading /\ Reading' /\ Outcome = "working" /\ Outcome' = "working"
      BY <1>1 DEF Reading, Outcome
    <2>2. b \in Awaiting(blocks) /\ cur' = b
      BY <1>2 DEF Awaiting
    <2>3. Awaiting(blocks') = Awaiting(blocks) \ {b}
      <3>1. blocks'[b].valid
        BY <1>1, <1>2, ScanFacts DEF BlockList, Block
      <3> QED
        BY <1>4, <1>5, <3>1 DEF Awaiting
    <2>4. EndedBlocks(blocks') = EndedBlocks(blocks)
      BY <1>4, <1>5 DEF EndedBlocks, Known
    <2>5. Abstract!Begin
      BY <1>4, <2>1, <2>2, <2>3, <2>4 DEF Abstract!Begin
    <2> QED
      BY <2>5 DEF Refines, Abstract!Next
  <1>13. Loses
    <2>1. \A c \in Listed(blocks) : OnlyLoses(blocks[c], blocks'[c])
      BY <1>1, <1>5, ScanFacts, SameOriginsLoseNothing
    <2> QED
      BY <2>1 DEF OnlyLoses, Loses, Listed
  <1> QED
    BY <1>7, <1>8, <1>9, <1>10, <1>11, <1>12, <1>13 DEF Inductive

LEMMA NextLoopStep ==
  ASSUME Inductive, NextLoop
  PROVE  Inductive' /\ Refines /\ Loses
  <1>1. /\ phase = "scan" /\ loop < Limit /\ loop' = loop + 1 /\ index' = 0 /\ any' = FALSE
        /\ UNCHANGED <<prog, blocks, phase, cur, pos, st, reached, vec, trail>>
    BY DEF NextLoop
  <1>2. loop' \in 1..Limit
    BY <1>1, ScanFacts, ConstantsAssumption
  <1>3. TypeOK'
    <2>1. loop' \in 1..(Limit + 1)
      BY <1>2, ConstantsAssumption
    <2>2. any' \in BOOLEAN /\ index' \in Nat
      BY <1>1
    <2> QED
      BY <1>1, <2>1, <2>2 DEF Inductive, TypeOK
  <1>4. Position'
    BY <1>1, <1>2, ScanFacts DEF Inductive, Position, Reading
  <1>5. UnreadAhead'
    BY <1>1, ScanFacts DEF UnreadAhead
  <1>6. PassedValid'
    BY <1>1, ScanFacts DEF PassedValid
  <1>7. NoEmptyBlocks' /\ NothingPending'
    BY <1>1 DEF NoEmptyBlocks, NothingPending
  <1>8. WellFormed(blocks')
    BY <1>1, ScanFacts
  <1>9. Refines
    BY <1>1 DEF Refines, Abstract!wvars, Reading, Outcome
  <1>10. Loses
    BY <1>1, ScanFacts, UnchangedLoses
  <1> QED
    BY <1>3, <1>4, <1>5, <1>6, <1>7, <1>8, <1>9, <1>10 DEF Inductive

(* Every slot is passed when the loops stop.                               *)
LEMMA FinishStep ==
  ASSUME Inductive, Finish
  PROVE  Inductive' /\ Refines /\ Loses
  <1>1. /\ phase = "scan" /\ index = Count(blocks) /\ (loop = Limit \/ ~any)
        /\ loop' = loop + 1 /\ phase' = "done"
        /\ UNCHANGED <<prog, blocks, index, any, cur, pos, st, reached, vec, trail>>
    BY DEF Finish
  <1>2. TypeOK'
    BY <1>1, ScanFacts, ConstantsAssumption DEF Inductive, TypeOK, Phase
  <1>3. Position'
    BY <1>1, ScanFacts DEF Inductive, Position, Reading
  <1>4. UnreadAhead' /\ PassedValid'
    BY <1>1, ScanFacts DEF UnreadAhead, PassedValid
  <1>5. NoEmptyBlocks'
    BY <1>1, ScanFacts DEF NoEmptyBlocks
  <1>6. NothingPending'
    BY <1>1, ScanFacts DEF NothingPending
  <1>7. WellFormed(blocks')
    BY <1>1, ScanFacts
  <1>8. Refines
    <2>1. ~Reading /\ ~Reading' /\ Outcome = "working"
          /\ Outcome' = IF loop' <= Limit THEN "complete" ELSE "cut"
      BY <1>1 DEF Reading, Outcome
    <2>2. EndedBlocks(blocks) = Listed(blocks)
      BY <1>1, ScanFacts DEF EndedBlocks
    <2>3. loop' <= Limit => Awaiting(blocks) = {}
      <3>1. loop' <= Limit => ~any
        BY <1>1, ScanFacts, ConstantsAssumption
      <3> QED
        BY <1>1, <3>1, ScanFacts DEF Awaiting
    <2>4. Abstract!Complete \/ Abstract!CutShort
      BY <1>1, <2>1, <2>2, <2>3 DEF Abstract!Complete, Abstract!CutShort
    <2> QED
      BY <2>4 DEF Refines, Abstract!Next
  <1>9. Loses
    BY <1>1, ScanFacts, UnchangedLoses
  <1> QED
    BY <1>2, <1>3, <1>4, <1>5, <1>6, <1>7, <1>8, <1>9 DEF Inductive

-----------------------------------------------------------------------------
(* The theorems.                                                           *)

LEMMA InitInductive ==
  ASSUME Init
  PROVE  Inductive /\ Abstract!Init
  <1> DEFINE empty == [a \in Word |-> None]
  <1>1. prog \in Image /\ prog.entry \in Word /\ st \in State
    <2>1. PICK garbage \in Uninitialized : st = OsState(garbage)
      BY DEF Init
    <2>2. <<>> \in Stack
      BY DEF Stack
    <2>3. st \in State
      BY <2>1, <2>2, ConstantsAssumption DEF OsState, State, Register, Variable
    <2>4. prog \in Image
      BY ConstantsAssumption DEF Init
    <2> QED
      BY <2>3, <2>4, ConstantsAssumption DEF Image, Word
  <1>2. WellFormed(empty) /\ Listed(empty) = {}
    <2>1. empty \in BlockList /\ Listed(empty) = {}
      BY DEF BlockList, Listed
    <2> QED
      BY <2>1 DEF WellFormed
  <1> HIDE DEF empty
  <1>3. blocks = Insert(empty, prog.entry, OS, st) /\ OS \in Key
    BY KeysOfOrigins DEF Init, empty
  <1>4. Extends(empty, blocks) /\ Listed(blocks) = {prog.entry}
    BY <1>1, <1>2, <1>3, InsertExtends, InsertAccepts
  <1>5. WellFormed(blocks) /\ blocks \in BlockList
        /\ \A b \in Listed(blocks) : ~blocks[b].valid /\ blocks[b].slot \in Nat
    BY <1>2, <1>4, ListedIsFinite DEF Extends, WellFormed, Block
  <1>6. Count(blocks) \in Nat
    BY <1>5, ListedIsFinite
  <1>7. /\ loop = 1 /\ index = 0 /\ any = FALSE /\ phase = "scan"
        /\ cur = prog.entry /\ pos = prog.entry /\ reached = FALSE /\ vec = None
        /\ trail = <<>>
    BY DEF Init
  <1>8. TypeOK
    <2>1. trail \in Seq(Frame)
      BY <1>7
    <2>2. loop \in 1..(Limit + 1)
      BY <1>7, ConstantsAssumption
    <2> QED
      BY <1>1, <1>5, <1>7, <2>1, <2>2 DEF TypeOK, Phase
  <1>9. Position
    <2>1. cur <= pos
      BY <1>1, <1>7, ConstantsAssumption DEF Word
    <2>2. loop <= Limit /\ index <= Count(blocks)
      BY <1>6, <1>7, ConstantsAssumption
    <2> QED
      BY <1>4, <1>7, <2>1, <2>2 DEF Position, Reading
  <1>10. UnreadAhead /\ PassedValid
    BY <1>5, <1>7 DEF UnreadAhead, PassedValid
  <1>11. NoEmptyBlocks /\ NothingPending
    BY <1>7 DEF NoEmptyBlocks, NothingPending
  <1>12. Abstract!Init
    <2>1. Outcome = "working" /\ ~Reading
      BY <1>7 DEF Outcome, Reading
    <2>2. Awaiting(blocks) = Listed(blocks)
      BY <1>5 DEF Awaiting
    <2>3. EndedBlocks(blocks) = {}
      <3>1. empty \in BlockList /\ prog.entry \notin Listed(empty)
        BY <1>2 DEF WellFormed
      <3>2. blocks[prog.entry].end = prog.entry
        BY <1>1, <1>3, <3>1 DEF Insert, BlockList
      <3> QED
        BY <1>1, <1>4, <3>2, ConstantsAssumption DEF EndedBlocks, Known, Word
    <2> QED
      BY <1>1, <1>4, <2>1, <2>2, <2>3 DEF Abstract!Init
  <1> QED
    BY <1>5, <1>8, <1>9, <1>10, <1>11, <1>12 DEF Inductive

LEMMA NextInductive ==
  ASSUME Inductive, [Next]_vars
  PROVE  Inductive' /\ Refines /\ Loses
  <1>1. CASE UNCHANGED vars
    <2>1. Inductive' /\ Refines
      BY <1>1 DEF vars, Inductive, TypeOK, Position, Reading, UnreadAhead, PassedValid,
                  NoEmptyBlocks, NothingPending,
                  Refines, Abstract!wvars, Outcome
    <2>2. Loses
      BY <1>1, UnchangedLoses DEF vars, Inductive
    <2> QED
      BY <2>1, <2>2
  <1>2. CASE Stopped
    BY <1>1, <1>2 DEF Stopped
  <1>3. CASE Loops
    BY <1>3, SkipBlockStep, BeginBlockStep, NextLoopStep, FinishStep DEF Loops
  <1>4. CASE Handlers
    <2>1. CASE MoveData \/ ForwardBranch \/ BackwardBranch \/ ShortJump
      BY <2>1, MoveDataStep, ForwardBranchStep, BackwardBranchStep, ShortJumpStep
    <2>2. CASE NearJumpOrCall \/ IndirectJumpOrCall \/ FarJumpOrExit \/ ClockInterrupt
      BY <2>2, NearJumpOrCallStep, IndirectJumpOrCallStep, FarJumpOrExitStep,
         ClockInterruptStep
    <2>3. CASE Interrupt \/ SetVector \/ HookVector \/ EnableInterrupts
      BY <2>3, InterruptStep, SetVectorStep, HookVectorStep, EnableInterruptsStep
    <2>4. CASE UnknownOpcode \/ BadOpcode \/ ReadPastImage \/ Return
      BY <2>4, UnknownOpcodeStep, BadOpcodeStep, ReadPastImageStep, ReturnStep
    <2> QED
      BY <1>4, <2>1, <2>2, <2>3, <2>4 DEF Handlers
  <1>5. CASE Backtracking
    BY <1>5, VisitContinuationStep, VisitJumpStep, VisitCallStep, VisitEntryStep,
       LeaveBlockStep DEF Backtracking
  <1>6. CASE ReadOn \/ EndBlock
    BY <1>6, ReadOnStep, EndBlockStep
  <1> QED
    BY <1>1, <1>2, <1>3, <1>4, <1>5, <1>6 DEF Next, Progress

(* The strengthening behind the theorems below: the blocks that wait for   *)
(* their first reading are in front of block_index, and as long as a loop  *)
(* has evaluated nothing the blocks behind it are valid.                   *)
THEOREM InductiveInvariant == Spec => []Inductive
  <1>1. Init => Inductive
    BY InitInductive
  <1>2. Inductive /\ [Next]_vars => Inductive'
    BY NextInductive
  <1> QED
    BY <1>1, <1>2, PTL DEF Spec

(* Type correctness: the handlers of finder.c keep every origin a state,   *)
(* the reader in the image and evaluation_loop within its limit.           *)
THEOREM TypeCorrect == Spec => []TypeOK
  <1>1. Inductive => TypeOK
    BY DEF Inductive
  <1> QED
    BY <1>1, InductiveInvariant, PTL

(* Whatever stops the loops of compose_pcontent, every block of the list   *)
(* has been read, so that the assertion of initialize_cblock holds.        *)
THEOREM AllBlocksRead == Spec => []NoEmptyBlocks
  <1>1. Inductive => NoEmptyBlocks
    BY DEF Inductive
  <1> QED
    BY <1>1, InductiveInvariant, PTL

(* When the loops of compose_pcontent stop before the limit, no            *)
(* invalidation of a block has been lost.                                  *)
THEOREM NoPendingBlock == Spec => []NothingPending
  <1>1. Inductive => NothingPending
    BY DEF Inductive
  <1> QED
    BY <1>1, InductiveInvariant, PTL

(* Whatever a handler registers, the state kept for an origin only loses   *)
(* information: the merges of add_..._cborigin_in_mcblock cannot bring     *)
(* back what an earlier one found to disagree.                             *)
THEOREM MergesOnlyLose == Spec => OriginsOnlyLose
  <1>1. Inductive /\ [Next]_vars =>
          [\A b \in Word : blocks[b] # None =>
             \A key \in Present(blocks[b]) :
               Weaker(blocks'[b].origins[key], blocks[b].origins[key])]_vars
    BY NextInductive DEF Loses
  <1> QED
    BY <1>1, InductiveInvariant, PTL DEF Spec, OriginsOnlyLose

(* compose_pcontent implements Worklist: whatever the instructions of the  *)
(* image, its loops over block_index and any_evaluated forget no           *)
(* evaluation that was asked for, complete the work only when nothing      *)
(* awaits one, and cut it short only when every block has an end.          *)
THEOREM WorklistImplemented == Spec => ImplementsWorklist
  <1>1. Init => Abstract!Init
    BY InitInductive
  <1>2. Inductive /\ [Next]_vars => [Abstract!Next]_(Abstract!wvars)
    BY NextInductive DEF Refines
  <1> QED
    BY <1>1, <1>2, InductiveInvariant, PTL DEF Spec, ImplementsWorklist, Abstract!Spec

-----------------------------------------------------------------------------
(* The search of a position.                                               *)

(* No block reaches over p with another one behind it.                     *)
Clear(bs, p) ==
  \A a, b \in Listed(bs) : a < b /\ b <= p => bs[a].end <= p

UpTo(bs, p) == {a \in Listed(bs) : a <= p}

(* The numbers of a set up to n, that it is not empty, have a greatest one.*)
LEMMA Greatest ==
  ASSUME NEW n \in Nat, NEW S \in SUBSET (0..n), S # {}
  PROVE  \E x \in S : \A y \in S : y <= x
  <1> DEFINE D == {d \in Nat : n - d \in S}
  <1>1. D # {}
    <2>1. PICK x \in S : TRUE
      OBVIOUS
    <2>2. n - x \in Nat /\ n - (n - x) = x
      OBVIOUS
    <2> QED
      BY <2>1, <2>2
  <1>2. PICK d \in D : \A e \in D : d <= e
    <2> HIDE DEF D
    <2>1. D \in SUBSET Nat
      BY DEF D
    <2> QED
      BY <1>1, <2>1, Least
  <1>3. \A y \in S : y <= n - d
    <2> SUFFICES ASSUME NEW y \in S PROVE y <= n - d
      OBVIOUS
    <2>1. n - y \in Nat /\ n - (n - y) = y
      OBVIOUS
    <2>2. n - y \in D
      BY <2>1
    <2> QED
      BY <1>2, <2>2
  <1> QED
    BY <1>2, <1>3

(* The rank of a block is the number of those before it.                   *)
LEMMA Ranks ==
  ASSUME NEW bs \in BlockList
  PROVE  /\ Listed(bs) \subseteq Word /\ Word \subseteq Nat
         /\ \A p \in Word : Cardinality(UpTo(bs, p)) \in 0..Count(bs)
         /\ \A a \in Listed(bs) : /\ Rank(bs, a) \in Nat /\ Rank(bs, a) < Count(bs)
                                  /\ Cardinality(UpTo(bs, a)) = Rank(bs, a) + 1
         /\ \A a \in Listed(bs), p \in Word :
              IF a <= p THEN Rank(bs, a) + 1 <= Cardinality(UpTo(bs, p))
              ELSE Cardinality(UpTo(bs, p)) <= Rank(bs, a)
  <1>1. Listed(bs) \subseteq Word /\ Word \subseteq Nat /\ IsFiniteSet(Listed(bs))
        /\ Count(bs) = Cardinality(Listed(bs)) /\ Count(bs) \in Nat
    BY ListedIsFinite, ConstantsAssumption DEF Word, Count
  <1>0. \A a \in Listed(bs) : a \in Int /\ a \in Word
    BY ConstantsAssumption DEF Listed, Word
  <1>2. ASSUME NEW p \in Word
        PROVE  IsFiniteSet(UpTo(bs, p)) /\ Cardinality(UpTo(bs, p)) \in 0..Count(bs)
    <2>1. UpTo(bs, p) \subseteq Listed(bs)
      BY DEF UpTo
    <2>2. IsFiniteSet(UpTo(bs, p)) /\ Cardinality(UpTo(bs, p)) <= Count(bs)
          /\ Cardinality(UpTo(bs, p)) \in Nat
      BY <1>1, <2>1, FS_Subset, FS_CardinalityType
    <2> QED
      BY <1>1, <2>2
  <1>3. ASSUME NEW a \in Listed(bs)
        PROVE  /\ Rank(bs, a) \in Nat /\ Rank(bs, a) < Count(bs)
               /\ Cardinality(UpTo(bs, a)) = Rank(bs, a) + 1
               /\ IsFiniteSet({b \in Listed(bs) : b < a})
    <2> DEFINE before == {b \in Listed(bs) : b < a}
    <2>1. before \subseteq Listed(bs) /\ a \notin before
      BY <1>0
    <2>2. IsFiniteSet(before) /\ Cardinality(before) \in Nat
      BY <1>1, <2>1, FS_Subset, FS_CardinalityType
    <2>3. UpTo(bs, a) = before \cup {a}
      BY <1>0 DEF UpTo
    <2>4. Rank(bs, a) = Cardinality(before)
      BY DEF Rank
    <2> HIDE DEF before
    <2>5. Cardinality(before \cup {a}) = Cardinality(before) + 1
      BY <2>1, <2>2, FS_AddElement
    <2>6. Cardinality(UpTo(bs, a)) \in 0..Count(bs)
      BY <1>1, <1>2
    <2> QED
      BY <1>1, <2>2, <2>3, <2>4, <2>5, <2>6 DEF before
  <1>4. ASSUME NEW a \in Listed(bs), NEW p \in Word
        PROVE  IF a <= p THEN Rank(bs, a) + 1 <= Cardinality(UpTo(bs, p))
               ELSE Cardinality(UpTo(bs, p)) <= Rank(bs, a)
    <2>1. CASE a <= p
      <3>1. UpTo(bs, a) \subseteq UpTo(bs, p)
        BY <1>0, <1>1, <2>1 DEF UpTo
      <3>2. Cardinality(UpTo(bs, a)) <= Cardinality(UpTo(bs, p))
        BY <1>2, <3>1, FS_Subset
      <3> QED
        BY <1>3, <2>1, <3>2
    <2>2. CASE ~(a <= p)
      <3>1. UpTo(bs, p) \subseteq {b \in Listed(bs) : b < a}
        BY <1>0, <1>1, <2>2 DEF UpTo
      <3>2. Cardinality(UpTo(bs, p)) <= Rank(bs, a)
        BY <1>3, <3>1, FS_Subset DEF Rank
      <3> QED
        BY <2>2, <3>2
    <2> QED
      BY <2>1, <2>2
  <1> QED
    BY <1>1, <1>2, <1>3, <1>4

(* There is a block of every rank.                                         *)
LEMMA EveryRank ==
  ASSUME NEW bs \in BlockList, NEW k \in Nat, k < Count(bs)
  PROVE  AtRank(bs, k) \in Listed(bs) /\ Rank(bs, AtRank(bs, k)) = k
  <1> DEFINE High == {a \in Listed(bs) : k <= Rank(bs, a)}
  <1>1. Listed(bs) \subseteq Word /\ Word \subseteq Nat /\ Word \subseteq 0..Size /\ Size \in Nat
    BY Ranks, ConstantsAssumption DEF Word
  <1>0. \A a \in Listed(bs) : a \in Int
    BY ConstantsAssumption DEF Listed, Word
  <1>2. \A a \in Listed(bs) : Rank(bs, a) \in Nat /\ Cardinality(UpTo(bs, a)) = Rank(bs, a) + 1
    BY Ranks
  <1>3. Count(bs) = Cardinality(Listed(bs)) /\ Count(bs) \in Nat
    BY ListedIsFinite DEF Count
  <1>4. High # {}
    <2>1. Listed(bs) # {}
      BY <1>3, FS_EmptySet
    <2>2. PICK a \in Listed(bs) : \A b \in Listed(bs) : b <= a
      BY <1>1, <2>1, Greatest
    <2>3. UpTo(bs, a) = Listed(bs)
      BY <2>2 DEF UpTo
    <2>4. k <= Rank(bs, a)
      BY <1>2, <1>3, <2>3
    <2> QED
      BY <2>4
  <1>5. PICK a \in High : \A b \in High : a <= b
    <2>1. High \in SUBSET Nat
      BY <1>1
    <2> HIDE DEF High
    <2> QED
      BY <1>4, <2>1, Least
  <1>6. Rank(bs, a) = k
    <2> SUFFICES ASSUME Rank(bs, a) # k PROVE FALSE
      OBVIOUS
    <2> DEFINE before == {b \in Listed(bs) : b < a}
    <2>1. before # {}
      <3>1. Rank(bs, a) = Cardinality(before)
        BY DEF Rank
      <3>2. Rank(bs, a) # 0
        BY <1>2, <1>5
      <3> HIDE DEF before
      <3> QED
        BY <3>1, <3>2, FS_EmptySet
    <2>2. PICK b \in before : \A c \in before : c <= b
      <3>1. before \in SUBSET (0..Size)
        BY <1>1
      <3> HIDE DEF before
      <3> QED
        BY <1>1, <2>1, <3>1, Greatest
    <2>3. UpTo(bs, b) = before
      BY <1>0, <2>2 DEF UpTo
    <2>4. Rank(bs, b) + 1 = Rank(bs, a)
      BY <1>2, <2>2, <2>3 DEF Rank
    <2>5. k <= Rank(bs, b)
      BY <1>2, <1>5, <2>2, <2>4
    <2> QED
      BY <1>0, <1>5, <2>2, <2>5
  <1> QED
    BY <1>5, <1>6 DEF AtRank

(* Both halves of a span are shorter.                                      *)
LEMMA Halves ==
  ASSUME NEW n \in Nat, NEW lo \in 0..n, NEW hi \in 0..n, lo < hi
  PROVE  LET mid == (lo + hi) \div 2
         IN  /\ mid \in 0..n /\ mid + 1 \in 0..n /\ mid + 1 \in 1..n
             /\ mid - lo < hi - lo /\ hi - (mid + 1) < hi - lo
  <1> DEFINE mid == (lo + hi) \div 2
  <1>1. lo + hi \in Nat /\ mid \in Nat /\ lo <= mid /\ mid < hi
    OBVIOUS
  <1> HIDE DEF mid
  <1>2. /\ mid \in 0..n /\ mid + 1 \in 0..n /\ mid + 1 \in 1..n
        /\ mid - lo < hi - lo /\ hi - (mid + 1) < hi - lo
    BY <1>1
  <1> QED BY <1>2 DEF mid

(* What RankContaining says of a stretch; f says it of the shorter ones.   *)
ProbeOf(f, bs, p, s) ==
  LET mid == (s[1] + s[2]) \div 2
      a == AtRank(bs, mid)
  IN IF s[1] >= s[2] THEN s[1]
     ELSE IF a > p THEN f[<<s[1], mid>>]
     ELSE IF a = p \/ p < bs[a].end THEN mid + 1
     ELSE f[<<mid + 1, s[2]>>]

(* The number of blocks up to p, within the stretch.                       *)
Within(n, lo, hi) ==
  IF hi <= lo \/ n < lo THEN lo ELSE IF n > hi THEN hi ELSE n

(* The half that is left aside does not matter to the answer.              *)
LEMMA AnswerOfHalf ==
  ASSUME NEW bs \in BlockList, NEW p \in Word, Clear(bs, p),
         NEW f, NEW s \in Stretches(bs),
         s[1] < s[2] =>
           \A h \in Stretches(bs) :
             h[2] - h[1] < s[2] - s[1] =>
               f[h] = Within(Cardinality(UpTo(bs, p)), h[1], h[2])
  PROVE  ProbeOf(f, bs, p, s) = Within(Cardinality(UpTo(bs, p)), s[1], s[2])
  <1> DEFINE n == Cardinality(UpTo(bs, p))
             lo == s[1]
             hi == s[2]
             mid == (lo + hi) \div 2
             a == AtRank(bs, mid)
  <1>1. lo \in 0..Count(bs) /\ hi \in 0..Count(bs) /\ Count(bs) \in Nat
    BY ListedIsFinite DEF Stretches
  <1>2. n \in 0..Count(bs)
    BY Ranks
  <1>3. CASE lo >= hi
    BY <1>1, <1>3 DEF ProbeOf, Within
  <1>4. CASE lo < hi
    <2>1. /\ mid \in Nat /\ lo <= mid /\ mid < hi /\ mid < Count(bs)
          /\ mid \in 0..Count(bs) /\ mid + 1 \in 0..Count(bs)
          /\ mid - lo < hi - lo /\ hi - (mid + 1) < hi - lo
      <3>1. /\ mid \in 0..Count(bs) /\ mid + 1 \in 0..Count(bs) /\ mid + 1 \in 1..Count(bs)
            /\ mid - lo < hi - lo /\ hi - (mid + 1) < hi - lo
        BY <1>1, <1>4, Halves
      <3>2. mid \in Nat /\ lo <= mid /\ mid < hi
        BY <1>1, <1>4
      <3> HIDE DEF mid, lo, hi
      <3> QED
        BY <1>1, <3>1, <3>2
    <2>2. /\ <<lo, mid>> \in Stretches(bs) /\ <<mid + 1, hi>> \in Stretches(bs)
      BY <1>1, <2>1 DEF Stretches
    <2>3. f[<<lo, mid>>] = Within(n, lo, mid) /\ f[<<mid + 1, hi>>] = Within(n, mid + 1, hi)
      <3> HIDE DEF mid
      <3>1. \A l, k : <<l, k>> \in Stretches(bs) /\ k - l < hi - lo => f[<<l, k>>] = Within(n, l, k)
        BY <1>4
      <3> HIDE DEF n, lo, hi
      <3> QED
        BY <2>1, <2>2, <3>1
    <2>4. ProbeOf(f, bs, p, s) = IF a > p THEN Within(n, lo, mid)
                                 ELSE IF a = p \/ p < bs[a].end THEN mid + 1
                                 ELSE Within(n, mid + 1, hi)
      <3>1. ~(s[1] >= s[2])
        BY <1>1, <1>4
      <3> HIDE DEF n
      <3> QED
        BY <2>3, <3>1 DEF ProbeOf
    <2> HIDE DEF mid
    <2>5. a \in Listed(bs) /\ Rank(bs, a) = mid
      BY <2>1, EveryRank
    <2> HIDE DEF a
    <2>6. a \in Int /\ p \in Int
      BY <2>5, ConstantsAssumption DEF Listed, Word
    <2>7. IF a <= p THEN mid + 1 <= n ELSE n <= mid
      BY <2>5, Ranks
    <2>8. a <= p /\ (a = p \/ p < bs[a].end) => n = mid + 1
      <3> SUFFICES ASSUME a <= p, a = p \/ p < bs[a].end PROVE n = mid + 1
        OBVIOUS
      <3>1. \A b \in Listed(bs) : b <= p => b <= a
        <4> SUFFICES ASSUME NEW b \in Listed(bs), b <= p, ~(b <= a) PROVE FALSE
          OBVIOUS
        <4>1. b \in Int
          BY ConstantsAssumption DEF Listed, Word
        <4>2. a < b /\ a # p
          BY <2>6, <4>1
        <4>3. bs[a].end <= p
          BY <2>5, <4>2 DEF Clear
        <4>4. bs[a].end \in Int
          BY <2>5, ListedIsFinite, ConstantsAssumption DEF Block, Word
        <4> QED
          BY <2>6, <4>2, <4>3, <4>4
      <3>2. UpTo(bs, p) = UpTo(bs, a)
        <4>1. \A b \in Listed(bs) : b <= a => b <= p
          <5> SUFFICES ASSUME NEW b \in Listed(bs), b <= a PROVE b <= p
            OBVIOUS
          <5>1. b \in Int
            BY ConstantsAssumption DEF Listed, Word
          <5> QED
            BY <2>6, <5>1
        <4> QED
          BY <3>1, <4>1 DEF UpTo
      <3> QED
        BY <2>5, <3>2, Ranks
    <2> HIDE DEF n, lo, hi
    <2>9. CASE a > p
      <3>1. n <= mid /\ ~(a <= p)
        BY <2>6, <2>7, <2>9
      <3>2. Within(n, lo, mid) = Within(n, lo, hi)
        BY <1>1, <1>2, <1>4, <2>1, <3>1 DEF Within
      <3> QED
        BY <2>4, <2>9, <3>2 DEF n, lo, hi
    <2>10. CASE a <= p /\ (a = p \/ p < bs[a].end)
      <3>1. ProbeOf(f, bs, p, s) = mid + 1
        BY <2>4, <2>6, <2>10
      <3>2. Within(n, lo, hi) = mid + 1
        BY <1>1, <1>2, <1>4, <2>1, <2>8, <2>10 DEF Within
      <3> QED
        BY <3>1, <3>2 DEF n, lo, hi
    <2>11. CASE a <= p /\ ~(a = p \/ p < bs[a].end)
      <3>1. ProbeOf(f, bs, p, s) = Within(n, mid + 1, hi)
        BY <2>4, <2>6, <2>11
      <3>2. mid + 1 <= n
        BY <2>7, <2>11
      <3>3. Within(n, mid + 1, hi) = Within(n, lo, hi)
        BY <1>1, <1>2, <1>4, <2>1, <3>2 DEF Within
      <3> QED
        BY <3>1, <3>3 DEF n, lo, hi
    <2> QED
      BY <2>6, <2>9, <2>10, <2>11
  <1> QED
    BY <1>1, <1>3, <1>4

(* The binary search counts the blocks up to p.  The answers of all        *)
(* stretches make up a function that satisfies the recursion, so that the  *)
(* one chosen does; the shortest stretch for which it answered otherwise   *)
(* would contradict it.                                                    *)
LEMMA SearchCounts ==
  ASSUME NEW bs \in BlockList, NEW p \in Word, Clear(bs, p)
  PROVE  RankContaining(bs, p) = Cardinality(UpTo(bs, p))
  <1> DEFINE n == Cardinality(UpTo(bs, p))
             search == CHOOSE f : f = [s \in Stretches(bs) |-> ProbeOf(f, bs, p, s)]
             answers == [s \in Stretches(bs) |-> Within(n, s[1], s[2])]
             wrong(s) == search[s] # Within(n, s[1], s[2])
             length(s) == IF s[2] <= s[1] THEN 0 ELSE s[2] - s[1]
             Lengths == {m \in Nat : \E s \in Stretches(bs) : wrong(s) /\ length(s) = m}
  <1>1. RankContaining(bs, p) = search[<<0, Count(bs)>>]
    BY DEF RankContaining, ProbeOf
  <1>2. answers = [s \in Stretches(bs) |-> ProbeOf(answers, bs, p, s)]
    <2> SUFFICES ASSUME NEW s \in Stretches(bs)
                 PROVE  Within(n, s[1], s[2]) = ProbeOf(answers, bs, p, s)
      OBVIOUS
    <2>1. \A h \in Stretches(bs) : answers[h] = Within(n, h[1], h[2])
      OBVIOUS
    <2> HIDE DEF answers
    <2> QED
      BY <2>1, AnswerOfHalf
  <1>3. search = [s \in Stretches(bs) |-> ProbeOf(search, bs, p, s)]
    <2> HIDE DEF answers
    <2> QED
      BY <1>2
  <1>4. Count(bs) \in Nat /\ n \in 0..Count(bs)
    BY ListedIsFinite, Ranks
  <1> HIDE DEF n
  <1>5. Lengths = {}
    <2> SUFFICES ASSUME Lengths # {} PROVE FALSE
      OBVIOUS
    <2> HIDE DEF search
    <2>1. PICK m \in Lengths : m \in Nat /\ \A l \in Lengths : m <= l
      <3>1. Lengths \in SUBSET Nat
        OBVIOUS
      <3> HIDE DEF Lengths
      <3> QED
        BY <3>1, Least
    <2>2. PICK s \in Stretches(bs) : wrong(s) /\ length(s) = m
      OBVIOUS
    <2>3. s[1] \in 0..Count(bs) /\ s[2] \in 0..Count(bs)
      BY DEF Stretches
    <2>4. ASSUME s[1] < s[2], NEW h \in Stretches(bs), h[2] - h[1] < s[2] - s[1]
          PROVE  search[h] = Within(n, h[1], h[2])
      <3>1. h[1] \in 0..Count(bs) /\ h[2] \in 0..Count(bs)
        BY DEF Stretches
      <3>2. length(h) \in Nat /\ length(h) < m
        BY <1>4, <2>2, <2>3, <2>4, <3>1
      <3>3. length(h) \notin Lengths
        <4> HIDE DEF Lengths, length
        <4> QED
          BY <2>1, <3>2
      <3> QED
        BY <3>2, <3>3
    <2>5. ProbeOf(search, bs, p, s) = Within(n, s[1], s[2])
      BY <2>4, AnswerOfHalf DEF n
    <2> QED
      BY <1>3, <2>2, <2>5
  <1>6. <<0, Count(bs)>> \in Stretches(bs)
    BY <1>4 DEF Stretches
  <1>7. search[<<0, Count(bs)>>] = Within(n, 0, Count(bs))
    <2> HIDE DEF search
    <2> SUFFICES ASSUME wrong(<<0, Count(bs)>>) PROVE FALSE
      OBVIOUS
    <2>1. length(<<0, Count(bs)>>) \in Nat
      BY <1>4
    <2>2. length(<<0, Count(bs)>>) \in Lengths
      BY <1>6, <2>1
    <2> QED
      BY <1>5, <2>2
  <1>8. Within(n, 0, Count(bs)) = n
    BY <1>4 DEF Within
  <1> QED
    BY <1>1, <1>7, <1>8 DEF n

(* So it answers the last block up to p.                                   *)
LEMMA ContainingIsLast ==
  ASSUME NEW bs \in BlockList, NEW p \in Word, Clear(bs, p)
  PROVE  \/ /\ Containing(bs, p) = None
            /\ \A a \in Listed(bs) : a > p
         \/ /\ Containing(bs, p) \in Listed(bs) /\ Containing(bs, p) <= p
            /\ \A a \in Listed(bs) : a <= p => a <= Containing(bs, p)
  <1> DEFINE n == Cardinality(UpTo(bs, p))
             found == {a \in Listed(bs) : a <= p /\ Rank(bs, a) + 1 = n}
  <1>1. \A a \in Listed(bs) : a \in Int /\ a \in Word
    BY ConstantsAssumption DEF Listed, Word
  <1>2. Containing(bs, p) = IF found = {} THEN None ELSE CHOOSE a \in found : TRUE
    <2>1. RankContaining(bs, p) = n
      BY SearchCounts
    <2> HIDE DEF n
    <2> QED
      BY <2>1 DEF Containing
  <1>3. CASE UpTo(bs, p) = {}
    <2>1. found = {} /\ \A a \in Listed(bs) : ~(a <= p)
      BY <1>3 DEF UpTo
    <2>2. \A a \in Listed(bs) : a > p
      BY <1>1, <2>1, ConstantsAssumption DEF Word
    <2> QED
      BY <1>2, <2>1, <2>2
  <1>4. CASE UpTo(bs, p) # {}
    <2>1. PICK c \in UpTo(bs, p) : \A a \in UpTo(bs, p) : a <= c
      <3>1. UpTo(bs, p) \in SUBSET (0..Size) /\ Size \in Nat
        BY <1>1, ConstantsAssumption DEF UpTo, Word
      <3> QED
        BY <1>4, <3>1, Greatest
    <2>2. c \in Listed(bs) /\ c <= p
      BY DEF UpTo
    <2>3. UpTo(bs, p) = UpTo(bs, c)
      <3>1. ASSUME NEW a \in Listed(bs) PROVE a <= p <=> a <= c
        <4>1. a <= p => a <= c
          BY <2>1 DEF UpTo
        <4>2. a <= c => a <= p
          BY <1>1, <2>2, ConstantsAssumption DEF Word
        <4> QED
          BY <4>1, <4>2
      <3> QED
        BY <3>1 DEF UpTo
    <2>4. n = Rank(bs, c) + 1 /\ Rank(bs, c) \in Nat
      BY <2>2, <2>3, Ranks
    <2>5. ASSUME NEW a \in found PROVE a = c
      <3>1. a \in Listed(bs) /\ a <= p /\ Rank(bs, a) + 1 = Rank(bs, c) + 1 /\ Rank(bs, a) \in Nat
        BY <2>4, Ranks
      <3>2. a <= c
        BY <2>1, <3>1 DEF UpTo
      <3>3. CASE a < c
        <4>1. Cardinality(UpTo(bs, a)) = Rank(bs, a) + 1
          BY <3>1, Ranks
        <4>2. Cardinality(UpTo(bs, a)) <= Rank(bs, c)
          BY <1>1, <2>2, <3>1, <3>3, Ranks
        <4> QED
          BY <2>4, <3>1, <4>1, <4>2
      <3> QED
        BY <1>1, <2>2, <3>1, <3>2, <3>3
    <2>6. c \in found
      BY <2>2, <2>4
    <2> HIDE DEF found, n
    <2>7. Containing(bs, p) = c
      BY <1>2, <2>5, <2>6
    <2> QED
      BY <2>1, <2>2, <2>7 DEF UpTo
  <1> QED
    BY <1>3, <1>4

-----------------------------------------------------------------------------
(* Blocks that are apart.                                                  *)

(* No evaluated block reaches over the start of another one, but for x.    *)
Settled(bs, x) ==
  \A a, b \in Listed(bs) : a < b /\ bs[a].valid /\ a # x => bs[a].end <= b

(* The evaluated blocks that reach over p.                                 *)
Reaches(bs, x, p) ==
  {a \in Listed(bs) : a < p /\ bs[a].valid /\ a # x /\ p < bs[a].end}

(* The same blocks, with the same ends, none of them validated.            *)
Keeps(bs, new) ==
  /\ Listed(new) = Listed(bs)
  /\ \A b \in Listed(bs) : new[b].end = bs[b].end /\ (new[b].valid => bs[b].valid)

(* The same blocks, with c, that starts before p, ended there at most.     *)
Cuts(bs, new, c, p) ==
  /\ WellFormed(new) /\ Listed(new) = Listed(bs)
  /\ \A b \in Listed(bs) : new[b].valid => bs[b].valid
  /\ \A b \in Listed(bs) : b # c => new[b].end = bs[b].end
  /\ c # None => new[c].end <= p

LEMMA BlockStarts ==
  ASSUME NEW bs \in BlockList
  PROVE  \A a \in Listed(bs) :
           /\ a \in Word /\ a \in Int /\ a # None
           /\ bs[a] \in Block /\ bs[a].end \in Int /\ bs[a].end \in Word
  <1>1. \A a \in Listed(bs) : a \in Word /\ a \in Int /\ a # None
    BY ConstantsAssumption DEF Listed, Word
  <1>2. \A a \in Listed(bs) : bs[a] \in Block
    BY ListedIsFinite
  <1>3. \A a \in Listed(bs) : bs[a].end \in Word /\ bs[a].end \in Int
    BY <1>2, ConstantsAssumption DEF Block, Word
  <1> QED
    BY <1>1, <1>2, <1>3

LEMMA KeepsClear ==
  ASSUME NEW bs, NEW new, Keeps(bs, new)
  PROVE  /\ \A x : Settled(bs, x) => Settled(new, x)
         /\ \A p : Clear(bs, p) => Clear(new, p)
  BY DEF Keeps, Settled, Clear

LEMMA KeepsOnwards ==
  ASSUME NEW bs, NEW mid, NEW new, Keeps(bs, mid), Keeps(mid, new)
  PROVE  Keeps(bs, new)
  BY DEF Keeps

LEMMA KeepsItself ==
  ASSUME NEW bs
  PROVE  Keeps(bs, bs)
  BY DEF Keeps

(* A block is replaced.                                                    *)
LEMMA Replaced ==
  ASSUME NEW bs \in BlockList, NEW b \in Listed(bs), NEW r \in Block
  PROVE  /\ Listed([bs EXCEPT ![b] = r]) = Listed(bs)
         /\ [bs EXCEPT ![b] = r][b] = r
         /\ \A a \in Listed(bs) : a # b => [bs EXCEPT ![b] = r][a] = bs[a]
  <1> DEFINE new == [bs EXCEPT ![b] = r]
  <1>1. b \in Word /\ DOMAIN bs = Word /\ r # None
    BY ConstantsAssumption DEF Listed, BlockList
  <1>2. new[b] = r /\ \A a \in Word : a # b => new[a] = bs[a]
    BY <1>1
  <1> HIDE DEF new
  <1>3. Listed(new) = Listed(bs)
    BY <1>1, <1>2 DEF Listed
  <1> QED
    BY <1>2, <1>3 DEF Listed, new

LEMMA ReplacedKeeps ==
  ASSUME NEW bs \in BlockList, NEW b \in Listed(bs), NEW r \in Block,
         r.end = bs[b].end, r.valid => bs[b].valid
  PROVE  Keeps(bs, [bs EXCEPT ![b] = r])
  <1> DEFINE new == [bs EXCEPT ![b] = r]
  <1>1. /\ Listed(new) = Listed(bs) /\ new[b] = r
        /\ \A a \in Listed(bs) : a # b => new[a] = bs[a]
    BY Replaced
  <1> HIDE DEF new
  <1>2. Keeps(bs, new)
    BY <1>1 DEF Keeps
  <1> QED
    BY <1>2 DEF new

LEMMA InvalidateKeeps ==
  ASSUME NEW bs \in BlockList, NEW b \in Listed(bs)
  PROVE  Keeps(bs, Invalidate(bs, b))
  <1> DEFINE r == [bs[b] EXCEPT !.valid = FALSE]
  <1>1. bs[b] \in Block /\ b \in Word
    BY BlockStarts
  <1>2. r \in Block /\ r.end = bs[b].end /\ r.valid = FALSE
    BY <1>1 DEF Block
  <1>3. Invalidate(bs, b) = [bs EXCEPT ![b] = r]
    BY <1>1 DEF Invalidate, BlockList
  <1> HIDE DEF r
  <1> QED
    BY <1>2, <1>3, ReplacedKeeps

LEMMA PutOriginKeeps ==
  ASSUME NEW bs \in BlockList, NEW b \in Listed(bs), NEW key \in Key, NEW s \in State
  PROVE  Keeps(bs, PutOrigin(bs, b, key, s))
  <1> DEFINE r == [bs[b] EXCEPT !.origins[key] = s]
  <1>1. bs[b] \in Block /\ b \in Word
    BY BlockStarts
  <1>2. r \in Block /\ r.end = bs[b].end /\ r.valid = bs[b].valid
    BY <1>1 DEF Block, Origins
  <1>3. PutOrigin(bs, b, key, s) = [bs EXCEPT ![b] = r]
    BY <1>1 DEF PutOrigin, BlockList
  <1> HIDE DEF r
  <1> QED
    BY <1>2, <1>3, ReplacedKeeps

LEMMA PutAndInvalidateKeeps ==
  ASSUME NEW bs, WellFormed(bs), NEW b \in Listed(bs), NEW key \in Key, NEW s \in State,
         bs[b].origins[key] # None => Weaker(s, bs[b].origins[key])
  PROVE  Keeps(bs, Invalidate(PutOrigin(bs, b, key, s), b))
  <1> DEFINE put == PutOrigin(bs, b, key, s)
  <1>1. bs \in BlockList
    BY DEF WellFormed
  <1>2. Keeps(bs, put) /\ Extends(bs, put)
    BY <1>1, PutOriginKeeps, PutOriginExtends
  <1> HIDE DEF put
  <1>3. put \in BlockList /\ b \in Listed(put)
    BY <1>2 DEF Extends, WellFormed
  <1>4. Keeps(put, Invalidate(put, b))
    BY <1>3, InvalidateKeeps
  <1> QED
    BY <1>2, <1>4, KeepsOnwards DEF put

LEMMA RegisterOriginKeeps ==
  ASSUME NEW bs, WellFormed(bs), NEW b \in Listed(bs), NEW key \in Key, NEW s \in State
  PROVE  Keeps(bs, RegisterOrigin(bs, b, key, s))
  <1>1. bs \in BlockList /\ bs[b] \in Block
    BY ListedIsFinite DEF WellFormed
  <1>2. CASE bs[b].origins[key] # None
    <2> DEFINE joined == Join(bs[b].origins[key], s)
    <2>1. joined \in State /\ Weaker(joined, bs[b].origins[key])
      BY <1>1, <1>2, JoinIsState, JoinIsWeaker DEF Block, Origins
    <2> HIDE DEF joined
    <2>2. Keeps(bs, Invalidate(PutOrigin(bs, b, key, joined), b))
      BY <2>1, PutAndInvalidateKeeps
    <2> QED
      BY <1>2, <2>2, KeepsItself DEF RegisterOrigin, MergeOrigin, joined
  <1>3. CASE bs[b].origins[key] = None
    <2>1. Keeps(bs, PutOrigin(bs, b, key, s))
      BY <1>1, PutOriginKeeps
    <2>2. Keeps(bs, Invalidate(PutOrigin(bs, b, key, s), b))
      BY <1>3, PutAndInvalidateKeeps
    <2> QED
      BY <1>3, <2>1, <2>2 DEF RegisterOrigin, AddOrigin
  <1> QED
    BY <1>2, <1>3

LEMMA RecordCallReturnKeeps ==
  ASSUME NEW bs, WellFormed(bs), NEW b \in Listed(bs), NEW key \in Key, NEW s \in State
  PROVE  Keeps(bs, RecordCallReturn(bs, b, key, s))
  <1>1. bs \in BlockList
    BY DEF WellFormed
  <1> QED
    BY <1>1, PutOriginKeeps, KeepsItself DEF RecordCallReturn

(* A block is inserted.  It settles where no evaluated one reaches.        *)
LEMMA InsertSettles ==
  ASSUME NEW bs, WellFormed(bs), NEW p \in Word, p \notin Listed(bs),
         NEW key \in Key, NEW s \in State,
         NEW new, new = Insert(bs, p, key, s)
  PROVE  /\ new # None /\ WellFormed(new)
         /\ Listed(new) = Listed(bs) \cup {p}
         /\ new[p].end = p
         /\ \A b \in Listed(bs) : new[b] = bs[b]
         /\ \A x :
              Settled(bs, x) /\ Reaches(bs, x, p) = {} => Settled(new, x)
  <1> DEFINE r == [end |-> p, valid |-> FALSE, slot |-> Count(bs),
                   origins |-> [k \in Key |-> IF k = key THEN s ELSE None]]
  <1>1. bs \in BlockList /\ DOMAIN bs = Word
    BY DEF WellFormed, BlockList
  <1>2. new # None /\ Listed(new) = Listed(bs) \cup {p} /\ WellFormed(new)
    BY InsertAccepts, InsertExtends DEF Extends
  <1>3. new = [bs EXCEPT ![p] = r]
    BY DEF Insert
  <1>4. new[p] = r /\ \A b \in Listed(bs) : new[b] = bs[b]
    BY <1>1, <1>3 DEF Listed
  <1>5. new[p].end = p /\ new[p].valid = FALSE
    BY <1>4
  <1> HIDE DEF r
  <1>6. ASSUME NEW x, Settled(bs, x), Reaches(bs, x, p) = {}
        PROVE  Settled(new, x)
    <2>1. \A a \in Listed(bs) : a < p /\ bs[a].valid /\ a # x => bs[a].end <= p
      BY <1>1, <1>6, BlockStarts, ConstantsAssumption DEF Reaches, Word
    <2> QED
      BY <1>2, <1>4, <1>5, <1>6, <2>1 DEF Settled
  <1> QED
    BY <1>2, <1>4, <1>5, <1>6

(* A block that the search has answered, or that is read, gets its end.    *)
LEMMA SetEndCuts ==
  ASSUME NEW bs, WellFormed(bs), NEW c \in Listed(bs), NEW p \in Word, c < p
  PROVE  Cuts(bs, SetEnd(bs, c, p), c, p) /\ SetEnd(bs, c, p)[c].end = p
  <1> DEFINE r == [bs[c] EXCEPT !.end = p]
             new == SetEnd(bs, c, p)
  <1>1. bs \in BlockList /\ bs[c] \in Block /\ c \in Word /\ c # None /\ p \in Int
    BY BlockStarts, ConstantsAssumption DEF WellFormed, Word
  <1>2. r \in Block /\ r.end = p /\ r.valid = bs[c].valid
    BY <1>1 DEF Block
  <1>3. new = [bs EXCEPT ![c] = r]
    BY <1>1 DEF SetEnd, BlockList
  <1>4. WellFormed(new)
    BY <1>1, SetEndExtends DEF Extends
  <1> HIDE DEF r
  <1>5. /\ Listed(new) = Listed(bs) /\ new[c] = r
        /\ \A a \in Listed(bs) : a # c => new[a] = bs[a]
    <2> DEFINE replaced == [bs EXCEPT ![c] = r]
    <2>1. /\ Listed(replaced) = Listed(bs) /\ replaced[c] = r
          /\ \A a \in Listed(bs) : a # c => replaced[a] = bs[a]
      BY <1>1, <1>2, Replaced
    <2>2. new = replaced
      BY <1>3
    <2> HIDE DEF new, replaced
    <2> QED
      BY <2>1, <2>2
  <1> HIDE DEF new
  <1>6. Cuts(bs, new, c, p)
    BY <1>1, <1>2, <1>4, <1>5 DEF Cuts
  <1> QED
    BY <1>2, <1>5, <1>6 DEF new

LEMMA ShrinkCuts ==
  ASSUME NEW bs, WellFormed(bs), NEW c, NEW p \in Word,
         c = None \/ (c \in Listed(bs) /\ c < p)
  PROVE  /\ Cuts(bs, Shrink(bs, c, p), c, p)
         /\ c # None => Shrink(bs, c, p)[c].end = p
         /\ \A x : Settled(bs, x) => Settled(Shrink(bs, c, p), x)
  <1>1. CASE c = None
    BY <1>1 DEF Shrink, Cuts
  <1>2. CASE c # None
    <2> DEFINE r == [bs[c] EXCEPT !.end = p, !.valid = FALSE]
               new == Shrink(bs, c, p)
    <2>1. bs \in BlockList /\ c \in Listed(bs) /\ bs[c] \in Block /\ c \in Word /\ p \in Int
      BY <1>2, BlockStarts, ConstantsAssumption DEF WellFormed, Word
    <2>2. r \in Block /\ r.end = p /\ r.valid = FALSE
      BY <2>1 DEF Block
    <2>3. new = [bs EXCEPT ![c] = r]
      BY <1>2, <2>1 DEF Shrink, BlockList
    <2>4. WellFormed(new)
      BY ShrinkExtends DEF Extends
    <2> HIDE DEF r
    <2>5. /\ Listed(new) = Listed(bs) /\ new[c] = r
          /\ \A a \in Listed(bs) : a # c => new[a] = bs[a]
      <3> DEFINE replaced == [bs EXCEPT ![c] = r]
      <3>1. /\ Listed(replaced) = Listed(bs) /\ replaced[c] = r
            /\ \A a \in Listed(bs) : a # c => replaced[a] = bs[a]
        BY <2>1, <2>2, Replaced
      <3>2. new = replaced
        BY <2>3
      <3> HIDE DEF new, replaced
      <3> QED
        BY <3>1, <3>2
    <2> HIDE DEF new
    <2>6. Cuts(bs, new, c, p)
      BY <1>2, <2>1, <2>2, <2>4, <2>5 DEF Cuts
    <2>7. \A x : Settled(bs, x) => Settled(new, x)
      BY <2>2, <2>5 DEF Settled
    <2> QED
      BY <2>2, <2>5, <2>6, <2>7 DEF new
  <1> QED
    BY <1>1, <1>2

(* A block is inserted where the one before it was cut.                    *)
LEMMA InsertedWhereLast ==
  ASSUME NEW bs, WellFormed(bs), NEW p \in Word, Clear(bs, p),
         NEW c, c = Containing(bs, p), c # p,
         NEW cut, Cuts(bs, cut, c, p),
         NEW key \in Key, NEW s \in State,
         NEW new, new = Insert(cut, p, key, s)
  PROVE  /\ p \notin Listed(bs)
         /\ new # None /\ WellFormed(new)
         /\ Listed(new) = Listed(bs) \cup {p}
         /\ new[p].end = p
         /\ \A b \in Listed(bs) : new[b] = cut[b]
         /\ \A x : Settled(bs, x) => Settled(new, x)
  <1>1. /\ bs \in BlockList /\ p \in Int /\ None \notin Word
        /\ \A a \in Listed(bs) : a \in Int /\ a \in Word /\ bs[a].end \in Int
    BY BlockStarts, ConstantsAssumption DEF WellFormed, Word
  <1>2. \/ c = None /\ \A a \in Listed(bs) : a > p
        \/ /\ c \in Listed(bs) /\ c <= p
           /\ \A a \in Listed(bs) : a <= p => a <= c
    BY <1>1, ContainingIsLast
  <1>3. p \notin Listed(bs)
    BY <1>1, <1>2
  <1>4. WellFormed(cut) /\ p \notin Listed(cut) /\ cut \in BlockList
    BY <1>3 DEF Cuts, WellFormed
  <1>5. \A a \in Listed(cut) : cut[a].end \in Int
    BY <1>4, BlockStarts
  <1>6. ASSUME NEW x, Settled(bs, x)
        PROVE  Reaches(cut, x, p) = {} /\ Settled(cut, x)
    <2>1. ASSUME NEW a \in Listed(bs), a < p, cut[a].valid, a # x
          PROVE  cut[a].end <= p
      <3>1. c \in Listed(bs) /\ c <= p /\ a <= c /\ c # None
        BY <1>1, <1>2, <2>1
      <3>2. CASE a = c
        BY <3>1, <3>2 DEF Cuts
      <3>3. CASE a # c
        <4>1. a < c
          BY <1>1, <3>1, <3>3
        <4>2. cut[a].end = bs[a].end /\ bs[a].valid
          BY <2>1, <3>3 DEF Cuts
        <4>3. bs[a].end <= c
          BY <1>6, <2>1, <3>1, <4>1, <4>2 DEF Settled
        <4> QED
          BY <1>1, <3>1, <4>2, <4>3
      <3> QED
        BY <3>2, <3>3
    <2>2. ASSUME NEW a \in Listed(bs), NEW b \in Listed(bs), a < b, cut[a].valid, a # x
          PROVE  cut[a].end <= b
      <3>1. CASE a = c
        <4>1. c \in Listed(bs) /\ c # None /\ cut[c].end <= p
          BY <1>1, <3>1 DEF Cuts
        <4>2. \A d \in Listed(bs) : d <= p => d <= c
          BY <1>2, <4>1
        <4>3. ~(b <= p)
          BY <1>1, <2>2, <3>1, <4>2
        <4>4. cut[c].end \in Int
          BY <1>5, <4>1 DEF Cuts
        <4> QED
          BY <1>1, <3>1, <4>1, <4>3, <4>4
      <3>2. CASE a # c
        BY <1>6, <2>2, <3>2 DEF Cuts, Settled
      <3> QED
        BY <3>1, <3>2
    <2>3. Reaches(cut, x, p) = {}
      BY <1>1, <1>5, <2>1 DEF Cuts, Reaches
    <2> QED
      BY <2>2, <2>3 DEF Cuts, Settled
  <1>7. /\ new # None /\ WellFormed(new) /\ Listed(new) = Listed(cut) \cup {p}
        /\ new[p].end = p /\ \A b \in Listed(cut) : new[b] = cut[b]
    BY <1>4, InsertSettles
  <1>8. \A x : Settled(bs, x) => Settled(new, x)
    <2> SUFFICES ASSUME NEW x, Settled(bs, x) PROVE Settled(new, x)
      OBVIOUS
    <2>1. Reaches(cut, x, p) = {} /\ Settled(cut, x)
      BY <1>6
    <2> QED
      BY <1>4, <2>1, InsertSettles
  <1> QED
    BY <1>3, <1>7, <1>8 DEF Cuts

-----------------------------------------------------------------------------
(* What a registration does to blocks that are apart.                      *)

Settles(bs, new) ==
  /\ new # None /\ WellFormed(new)
  /\ \A b \in Listed(bs) : b \in Listed(new)
  /\ \A x : Settled(bs, x) => Settled(new, x)

(* p is a block of new.  A block gets no other end than p, if it starts    *)
(* before p.                                                               *)
Enters(bs, new, p) ==
  /\ Settles(bs, new)
  /\ Listed(new) = Listed(bs) \cup {p}
  /\ p \notin Listed(bs) => new[p].end = p
  /\ \A b \in Listed(bs) : new[b].end = bs[b].end \/ (b < p /\ new[b].end = p)

LEMMA SettlesOnwards ==
  ASSUME NEW bs, NEW mid, NEW new, Settles(bs, mid), Settles(mid, new)
  PROVE  Settles(bs, new)
  BY DEF Settles

(* The search answers a block that starts before p when p is none.         *)
LEMMA ContainingIsOther ==
  ASSUME NEW bs, WellFormed(bs), NEW p \in Word, NEW c, c = Containing(bs, p)
  PROVE  /\ c # p => c = None \/ (c \in Listed(bs) /\ c < p)
         /\ c = p => p \in Listed(bs)
  <1>1. c = None \/ (c \in Listed(bs) /\ c <= p)
    BY ContainingIsBefore DEF WellFormed
  <1>2. c \in Listed(bs) => c \in Int
    BY ConstantsAssumption DEF Listed, Word
  <1>3. p \in Int /\ p # None
    BY ConstantsAssumption DEF Word
  <1> QED
    BY <1>1, <1>2, <1>3

(* A block is inserted after the one before it was cut, if it was.         *)
LEMMA EntersWhereCut ==
  ASSUME NEW bs, WellFormed(bs), NEW p \in Word, Clear(bs, p),
         NEW c, c = Containing(bs, p), c # p,
         NEW cut, Cuts(bs, cut, c, p),
         \A b \in Listed(bs) : cut[b].end = bs[b].end \/ (b < p /\ cut[b].end = p),
         NEW key \in Key, NEW s \in State,
         NEW new, new = Insert(cut, p, key, s)
  PROVE  Enters(bs, new, p)
  <1>1. /\ p \notin Listed(bs) /\ new # None /\ WellFormed(new)
        /\ Listed(new) = Listed(bs) \cup {p} /\ new[p].end = p
        /\ \A b \in Listed(bs) : new[b] = cut[b]
        /\ \A x : Settled(bs, x) => Settled(new, x)
    BY InsertedWhereLast
  <1> QED
    BY <1>1 DEF Enters, Settles

LEMMA EntersWhereShrunk ==
  ASSUME NEW bs, WellFormed(bs), NEW p \in Word, Clear(bs, p),
         NEW c, c = Containing(bs, p), c # p,
         NEW key \in Key, NEW s \in State,
         NEW new, new = Insert(Shrink(bs, c, p), p, key, s)
  PROVE  Enters(bs, new, p)
  <1> DEFINE cut == Shrink(bs, c, p)
  <1>1. c = None \/ (c \in Listed(bs) /\ c < p)
    BY ContainingIsOther
  <1>2. Cuts(bs, cut, c, p) /\ (c # None => cut[c].end = p)
    BY <1>1, ShrinkCuts
  <1> HIDE DEF cut
  <1>3. ASSUME NEW b \in Listed(bs)
        PROVE  cut[b].end = bs[b].end \/ (b < p /\ cut[b].end = p)
    <2>1. b # None
      BY ConstantsAssumption DEF Listed
    <2> QED
      BY <1>1, <1>2, <2>1 DEF Cuts
  <1> QED
    BY <1>2, <1>3, EntersWhereCut DEF cut

LEMMA KeepsEnters ==
  ASSUME NEW bs, NEW new, WellFormed(new), Keeps(bs, new), NEW p \in Listed(bs)
  PROVE  Enters(bs, new, p)
  <1>1. new # None
    BY ConstantsAssumption DEF WellFormed
  <1>2. \A x : Settled(bs, x) => Settled(new, x)
    BY KeepsClear
  <1> QED
    BY <1>1, <1>2 DEF Keeps, Enters, Settles

LEMMA RegisterOriginEnters ==
  ASSUME NEW bs, WellFormed(bs), NEW b \in Listed(bs), NEW key \in Key, NEW s \in State
  PROVE  /\ Enters(bs, RegisterOrigin(bs, b, key, s), b)
         /\ Keeps(bs, RegisterOrigin(bs, b, key, s))
         /\ WellFormed(RegisterOrigin(bs, b, key, s))
  <1>1. WellFormed(RegisterOrigin(bs, b, key, s))
    BY RegisterOriginExtends DEF Extends
  <1>2. Keeps(bs, RegisterOrigin(bs, b, key, s))
    BY RegisterOriginKeeps
  <1> QED
    BY <1>1, <1>2, KeepsEnters

LEMMA RegisterReturnSettles ==
  ASSUME prog \in Image, NEW bs, WellFormed(bs), NEW a \in 0..(Size - 1), NEW s \in State,
         prog.code[a].op = "icall",
         Clear(bs, a + prog.code[a].len)
  PROVE  Settles(bs, RegisterReturn(bs, a, s))
  <1> DEFINE r == a + prog.code[a].len
             c == Containing(bs, r)
  <1>1. r \in Word /\ r - a \in 2..4
    BY ImageInstruction, SMT
  <1>2. CallReturn(r - a) \in Key /\ PopReturn(s) \in State
    BY <1>1, KeysOfOrigins, MovesAreStates
  <1>3. CASE r = Size \/ c = r
    <2>1. RegisterReturn(bs, a, s) = bs /\ bs # None
      BY <1>3, ConstantsAssumption DEF RegisterReturn, WellFormed
    <2> QED
      BY <2>1 DEF Settles
  <1>4. CASE ~(r = Size \/ c = r)
    <2>1. RegisterReturn(bs, a, s) = Insert(Shrink(bs, c, r), r, CallReturn(r - a), PopReturn(s))
      BY <1>4 DEF RegisterReturn
    <2>2. Clear(bs, r)
      OBVIOUS
    <2> HIDE DEF c, r
    <2>3. Enters(bs, RegisterReturn(bs, a, s), r)
      BY <1>1, <1>2, <1>4, <2>1, <2>2, EntersWhereShrunk DEF c
    <2> QED
      BY <2>3 DEF Enters
  <1> QED
    BY <1>3, <1>4

LEMMA AddJumpSettles ==
  ASSUME prog \in Image, NEW bs, WellFormed(bs), NEW b \in Listed(bs),
         NEW a \in 0..(Size - 1), NEW s \in State,
         prog.code[a].op = "icall" => Clear(bs, a + prog.code[a].len)
  PROVE  /\ Settles(bs, AddJump(bs, b, a, s))
         /\ prog.code[a].op # "icall" => Enters(bs, AddJump(bs, b, a, s), b)
  <1> DEFINE registered == RegisterOrigin(bs, b, Jump(a), s)
  <1>1. Enters(bs, registered, b) /\ Keeps(bs, registered) /\ WellFormed(registered)
    BY KeysOfOrigins, RegisterOriginEnters
  <1> HIDE DEF registered
  <1>2. CASE AddJump(bs, b, a, s) = registered
    BY <1>1, <1>2 DEF Enters
  <1>3. CASE AddJump(bs, b, a, s) # registered
    <2>1. prog.code[a].op = "icall" /\ AddJump(bs, b, a, s) = RegisterReturn(registered, a, s)
      BY <1>3 DEF AddJump, registered
    <2>2. Clear(registered, a + prog.code[a].len)
      BY <1>1, <2>1, KeepsClear
    <2>3. Settles(registered, RegisterReturn(registered, a, s))
      BY <1>1, <2>1, <2>2, RegisterReturnSettles
    <2> QED
      BY <1>1, <2>1, <2>3, SettlesOnwards DEF Enters
  <1> QED
    BY <1>2, <1>3

LEMMA RegisterTargetSettles ==
  ASSUME prog \in Image, NEW bs, WellFormed(bs), NEW a \in 0..(Size - 1),
         NEW target \in Word, NEW s \in State, Clear(bs, target),
         prog.code[a].op = "icall" => Clear(bs, a + prog.code[a].len)
  PROVE  /\ Settles(bs, RegisterTarget(bs, a, target, s))
         /\ prog.code[a].op # "icall" => Enters(bs, RegisterTarget(bs, a, target, s), target)
  <1> DEFINE c == Containing(bs, target)
             new == RegisterTarget(bs, a, target, s)
  <1>1. CASE c = target
    <2>1. target \in Listed(bs) /\ new = AddJump(bs, target, a, s)
      BY <1>1, ContainingIsOther DEF RegisterTarget
    <2> QED
      BY <2>1, AddJumpSettles
  <1>2. CASE c # target
    <2>1. new = Insert(Shrink(bs, c, target), target, Jump(a), s) /\ Jump(a) \in Key
      BY <1>2, KeysOfOrigins DEF RegisterTarget
    <2> HIDE DEF new, c
    <2>2. Enters(bs, new, target)
      BY <1>2, <2>1, EntersWhereShrunk DEF c
    <2> QED
      BY <2>2 DEF Enters, new
  <1> QED
    BY <1>1, <1>2

LEMMA RegisterNearSettles ==
  ASSUME prog \in Image, NEW bs, WellFormed(bs), NEW a \in 0..(Size - 1),
         NEW target \in Word, NEW s \in State, Clear(bs, target),
         prog.code[a].op # "icall"
  PROVE  Settles(bs, RegisterNear(bs, a, target, s))
  <1> DEFINE c == Containing(bs, target)
             cut == c # None /\ Known(bs, c) /\ bs[c].end > target
             new == RegisterNear(bs, a, target, s)
  <1>1. CASE c = target
    <2>1. target \in Listed(bs) /\ new = AddJump(bs, target, a, s)
      BY <1>1, ContainingIsOther DEF RegisterNear
    <2> QED
      BY <2>1, AddJumpSettles
  <1>2. CASE c # target
    <2>1. /\ new = Insert(IF cut THEN Shrink(bs, c, target) ELSE bs, target, Jump(a), s)
          /\ Jump(a) \in Key
      BY <1>2, KeysOfOrigins DEF RegisterNear
    <2>2. c = None \/ (c \in Listed(bs) /\ c < target)
      BY <1>2, ContainingIsOther
    <2>3. ASSUME ~cut PROVE Cuts(bs, bs, c, target)
      <3>1. ASSUME c # None PROVE bs[c].end <= target
        <4>1. c \in Int /\ bs[c].end \in Int /\ target \in Int /\ c < target
          BY <2>2, <3>1, BlockStarts, ConstantsAssumption DEF WellFormed, Word
        <4>2. ~(bs[c].end > c) \/ ~(bs[c].end > target)
          BY <2>3, <3>1 DEF Known
        <4> HIDE DEF c
        <4> QED
          BY <4>1, <4>2
      <3> QED
        BY <3>1 DEF Cuts
    <2> HIDE DEF new, c
    <2>4. CASE cut
      BY <1>2, <2>1, <2>4, EntersWhereShrunk DEF c, Enters, new
    <2>5. CASE ~cut
      <3>1. new = Insert(bs, target, Jump(a), s)
        BY <2>1, <2>5
      <3>2. Enters(bs, new, target)
        BY <1>2, <2>1, <2>3, <2>5, <3>1, EntersWhereCut DEF c
      <3> QED
        BY <3>2 DEF Enters, new
    <2> QED
      BY <2>4, <2>5
  <1> QED
    BY <1>1, <1>2

(* What comes behind b is registered.  It settles where no evaluated block *)
(* reaches.                                                                *)
LEMMA RegisterNextSettles ==
  ASSUME NEW bs, WellFormed(bs), NEW b \in Listed(bs), NEW s \in State,
         NEW new,
         new = RegisterNext(bs, b, s) \/ new = RegisterInterruptReturn(bs, b, s)
  PROVE  /\ new # None /\ WellFormed(new)
         /\ Listed(new) = Listed(bs) \cup {bs[b].end}
         /\ bs[b].end \notin Listed(bs) => new[bs[b].end].end = bs[b].end
         /\ \A a \in Listed(bs) : new[a].end = bs[a].end
         /\ \A x :
              (Settled(bs, x)
               /\ (bs[b].end \in Listed(bs) \/ Reaches(bs, x, bs[b].end) = {}))
              => Settled(new, x)
  <1> DEFINE next == bs[b].end
  <1>1. next \in Word /\ Continue \in Key /\ CallReturn(2) \in Key /\ bs \in BlockList
    BY ListedIsFinite, KeysOfOrigins DEF WellFormed, Block
  <1>2. CASE next \in Listed(bs)
    <2>1. new = RegisterOrigin(bs, next, Continue, s) \/ new = RecordCallReturn(bs, next, CallReturn(2), s)
      BY <1>2 DEF RegisterNext, RegisterInterruptReturn
    <2> HIDE DEF next
    <2>2. Keeps(bs, new) /\ WellFormed(new)
      BY <1>1, <1>2, <2>1, RegisterOriginKeeps, RecordCallReturnKeeps, RegisterOriginExtends,
         RecordCallReturnExtends DEF Extends
    <2>3. new # None
      BY <2>2, ConstantsAssumption DEF WellFormed
    <2>4. \A x : Settled(bs, x) => Settled(new, x)
      BY <2>2, KeepsClear
    <2> QED
      BY <1>2, <2>2, <2>3, <2>4 DEF Keeps, next
  <1>3. CASE next \notin Listed(bs)
    <2>1. PICK key \in Key : new = Insert(bs, next, key, s)
      BY <1>1, <1>3 DEF RegisterNext, RegisterInterruptReturn
    <2> HIDE DEF next
    <2>3. /\ new # None /\ WellFormed(new)
          /\ Listed(new) = Listed(bs) \cup {next}
          /\ new[next].end = next
          /\ \A a \in Listed(bs) : new[a] = bs[a]
          /\ \A y : Settled(bs, y) /\ Reaches(bs, y, next) = {} => Settled(new, y)
      BY <1>1, <1>3, <2>1, InsertSettles
    <2> QED
      BY <1>3, <2>3 DEF next
  <1> QED
    BY <1>2, <1>3

-----------------------------------------------------------------------------
(* What a handler does to blocks that are apart.                           *)

(* No block starts between the one that is read and the position of the    *)
(* reader.                                                                 *)
Between == phase = "decode" => \A a \in Listed(blocks) : a <= cur \/ pos < a

Undisturbed == Inductive /\ Between /\ ~EnteredInside /\ ~Misled

(* What a step promises that goes on with the same block.                  *)
StepSettles ==
  phase' # "failed" /\ (Settled(blocks, cur) => Settled(blocks', cur))

LEMMA UndisturbedFacts ==
  ASSUME Undisturbed, phase = "decode", pos < Size
  PROVE  /\ \A a \in Listed(blocks) : a <= cur \/ After <= a
         /\ \A p \in LookedUp : Clear(blocks, p)
  <1>1. /\ blocks \in BlockList /\ pos \in Int /\ After \in Int
        /\ \A a \in Listed(blocks) : a \in Int /\ blocks[a].end \in Int
    BY BlockStarts, InstructionFacts, ConstantsAssumption
    DEF Undisturbed, Inductive, TypeOK, Word
  <1>2. ASSUME NEW a \in Listed(blocks) PROVE a <= cur \/ After <= a
    <2>1. a <= cur \/ pos < a
      BY DEF Undisturbed, Between
    <2>2. ~(pos < a /\ a < After)
      BY DEF Undisturbed, EnteredInside, Decoding
    <2> QED
      BY <1>1, <2>1, <2>2
  <1>3. ASSUME NEW p \in LookedUp PROVE Clear(blocks, p)
    <2>1. p \in Int
      BY ConstantsAssumption DEF LookedUp, Word
    <2>2. \A a, b \in Listed(blocks) : ~(a < b /\ b <= p /\ p < blocks[a].end)
      BY DEF Undisturbed, Misled, Decoding
    <2> QED
      BY <1>1, <2>1, <2>2 DEF Clear
  <1> QED
    BY <1>2, <1>3

(* The block that is read ends behind the instruction.                     *)
LEMMA EndedSettles ==
  ASSUME Inductive, phase = "decode", pos < Size,
         NEW bs, WellFormed(bs), cur \in Listed(bs),
         NEW new, new = Ended(bs)
  PROVE  /\ new # None /\ WellFormed(new)
         /\ Listed(new) = Listed(bs)
         /\ new[cur].end = After
         /\ \A b \in Listed(bs) : b # cur => new[b].end = bs[b].end
         /\ \A b \in Listed(bs) : new[b].valid => bs[b].valid
         /\ Settled(bs, cur) => Settled(new, cur)
  <1>1. bs # None /\ cur # None
    BY ConstantsAssumption DEF WellFormed, Listed
  <1>2. new = SetEnd(bs, cur, After)
    BY <1>1 DEF Ended
  <1>3. cur < After /\ After \in Word
    BY InstructionFacts, ConstantsAssumption DEF Inductive, TypeOK, Word
  <1>4. Cuts(bs, SetEnd(bs, cur, After), cur, After) /\ SetEnd(bs, cur, After)[cur].end = After
    BY <1>3, SetEndCuts
  <1>5. Cuts(bs, new, cur, After) /\ new[cur].end = After
    BY <1>2, <1>4
  <1>6. Settled(bs, cur) => Settled(new, cur)
    BY <1>5 DEF Cuts, Settled
  <1> QED
    BY <1>5, <1>6, ConstantsAssumption DEF Cuts, WellFormed

LEMMA EndedClear ==
  ASSUME Undisturbed, phase = "decode", pos < Size,
         NEW p \in LookedUp
  PROVE  Clear(Ended(blocks), p)
  <1> DEFINE new == Ended(blocks)
  <1>1. /\ Listed(new) = Listed(blocks) /\ new[cur].end = After
        /\ \A b \in Listed(blocks) : b # cur => new[b].end = blocks[b].end
    BY InstructionFacts, EndedSettles DEF Undisturbed
  <1> HIDE DEF new
  <1>2. /\ \A a \in Listed(blocks) : a \in Int /\ (a <= cur \/ After <= a)
        /\ Clear(blocks, p) /\ p \in Int /\ After \in Int /\ cur \in Int
    BY UndisturbedFacts, InstructionFacts, BlockStarts, ConstantsAssumption
    DEF Undisturbed, Inductive, TypeOK, Word, LookedUp
  <1>3. ASSUME NEW a \in Listed(blocks), NEW b \in Listed(blocks), a < b, b <= p
        PROVE  new[a].end <= p
    <2>1. CASE a = cur
      BY <1>1, <1>2, <1>3, <2>1
    <2>2. CASE a # cur
      BY <1>1, <1>2, <1>3, <2>2 DEF Clear
    <2> QED
      BY <2>1, <2>2
  <1>4. Clear(new, p)
    BY <1>1, <1>3 DEF Clear
  <1> QED
    BY <1>4 DEF new

(* No evaluated block reaches over the end of the instruction, whatever    *)
(* block p was registered meanwhile.                                       *)
LEMMA NothingReachesAfter ==
  ASSUME Undisturbed, phase = "decode", pos < Size,
         NEW bs, WellFormed(bs), Settled(bs, cur),
         NEW p \in Word, Listed(bs) \subseteq Listed(blocks) \cup {p},
         cur \in Listed(bs),
         p \in Listed(blocks) \/ p < cur \/ After <= p \/ bs[p].end <= After
  PROVE  Reaches(bs, cur, After) = {}
  <1>1. /\ \A a \in Listed(blocks) : a \in Int /\ (a <= cur \/ After <= a)
        /\ After \in Int /\ cur \in Int /\ cur < After
        /\ \A a \in Listed(bs) : a \in Int /\ bs[a].end \in Int
    BY UndisturbedFacts, InstructionFacts, BlockStarts, ConstantsAssumption
    DEF Undisturbed, Inductive, TypeOK, Word, WellFormed
  <1>2. ASSUME NEW a \in Listed(bs), a < After, bs[a].valid, a # cur
        PROVE  bs[a].end <= After
    <2>1. CASE a < cur
      <3>1. bs[a].end <= cur
        BY <1>2, <2>1 DEF Settled
      <3> QED
        BY <1>1, <3>1
    <2>2. CASE ~(a < cur)
      <3>1. ~(a <= cur \/ After <= a)
        BY <1>1, <1>2, <2>2
      <3>2. a \notin Listed(blocks)
        BY <1>1, <3>1
      <3>3. a = p
        BY <3>2
      <3> QED
        BY <1>1, <1>2, <2>2, <3>2, <3>3
    <2> QED
      BY <2>1, <2>2
  <1>3. ASSUME NEW a \in Listed(bs), a \in Reaches(bs, cur, After) PROVE FALSE
    <2>1. a < After /\ bs[a].valid /\ a # cur /\ After < bs[a].end
      BY <1>3 DEF Reaches
    <2>2. bs[a].end <= After
      BY <1>2, <2>1
    <2> QED
      BY <1>1, <2>1, <2>2
  <1> QED
    BY <1>3 DEF Reaches

LEMMA HandledSettles ==
  ASSUME NEW bs, bs # None, Settled(blocks, cur) => Settled(bs, cur),
         NEW s, NEW mayGoOn, Handled(bs, s, mayGoOn)
  PROVE  StepSettles
  BY DEF Handled, StepSettles


(* The end of a handler that only ends its block.                          *)
LEMMA EndedBlockSettles ==
  ASSUME Undisturbed, phase = "decode", pos < Size
  PROVE  /\ Settles(blocks, blocks)
         /\ Ended(blocks) # None
         /\ Settled(blocks, cur) => Settled(Ended(blocks), cur)
  BY InstructionFacts, EndedSettles, ConstantsAssumption
  DEF Undisturbed, Settles, WellFormed

(* The end of a handler that registered something and then ends its block. *)
LEMMA EndedAfterSettles ==
  ASSUME Undisturbed, phase = "decode", pos < Size,
         NEW bs, Settles(blocks, bs)
  PROVE  Ended(bs) # None /\ (Settled(blocks, cur) => Settled(Ended(bs), cur))
  <1>1. WellFormed(bs) /\ cur \in Listed(bs)
    BY InstructionFacts DEF Undisturbed, Settles
  <1>2. Ended(bs) # None /\ (Settled(bs, cur) => Settled(Ended(bs), cur))
    BY <1>1, EndedSettles DEF Undisturbed
  <1> QED
    BY <1>2 DEF Settles

LEMMA MoveDataSettles ==
  ASSUME Undisturbed, MoveData, ~MapEmptied
  PROVE  StepSettles
  <1>1. Handled(blocks, Moved, TRUE) /\ blocks # None
    BY ConstantsAssumption DEF MoveData, Undisturbed, Inductive, WellFormed
  <1> QED
    BY <1>1, HandledSettles

LEMMA ShortJumpSettles ==
  ASSUME Undisturbed, ShortJump
  PROVE  StepSettles
  <1> DEFINE ended == Ended(blocks)
             registered == RegisterTarget(ended, pos, Instr.arg, st)
  <1>1. phase = "decode" /\ pos < Size /\ Instr.op = "short" /\ Handled(registered, st, FALSE)
    BY DEF ShortJump, Decodes
  <1>2. Instr.arg \in LookedUp
    BY <1>1, InstructionFacts DEF Undisturbed, LookedUp
  <1>3. WellFormed(ended) /\ (Settled(blocks, cur) => Settled(ended, cur)) /\ Clear(ended, Instr.arg)
    BY <1>1, <1>2, InstructionFacts, EndedSettles, EndedClear DEF Undisturbed
  <1> HIDE DEF ended
  <1>4. Settles(ended, registered)
    BY <1>1, <1>3, InstructionFacts, RegisterTargetSettles DEF Undisturbed, Instr
  <1> HIDE DEF registered
  <1> QED
    BY <1>1, <1>3, <1>4, HandledSettles DEF Settles

LEMMA NearJumpOrCallSettles ==
  ASSUME Undisturbed, NearJumpOrCall
  PROVE  StepSettles
  <1> DEFINE s == IF Instr.op = "call" THEN PushReturn(st, After) ELSE st
             registered == RegisterNear(blocks, pos, Instr.arg, s)
  <1>1. phase = "decode" /\ pos < Size /\ Instr.op \in {"near", "call"}
        /\ Handled(Ended(registered), s, FALSE)
    BY DEF NearJumpOrCall, Decodes
  <1>2. s \in State
    BY <1>1, InstructionFacts, MovesAreStates DEF Undisturbed
  <1> HIDE DEF s
  <1>3. Instr.arg \in LookedUp
    BY <1>1, InstructionFacts DEF Undisturbed, LookedUp
  <1>4. Clear(blocks, Instr.arg)
    BY <1>1, <1>3, UndisturbedFacts
  <1>5. Settles(blocks, registered)
    BY <1>1, <1>2, <1>4, InstructionFacts, RegisterNearSettles DEF Undisturbed, Instr
  <1> HIDE DEF registered
  <1> QED
    BY <1>1, <1>5, EndedAfterSettles, HandledSettles

LEMMA IndirectJumpOrCallSettles ==
  ASSUME Undisturbed, IndirectJumpOrCall
  PROVE  StepSettles
  <1> DEFINE s == IF Instr.op = "icall" THEN PushReturn(st, After) ELSE st
             registered == RegisterTarget(blocks, pos, IndirectTarget, s)
  <1>1. phase = "decode" /\ pos < Size /\ Instr.op \in {"ijmp", "icall"}
    BY DEF IndirectJumpOrCall, Decodes
  <1>2. CASE IndirectTarget \in 0..(Size - 1)
    <2>1. Handled(Ended(registered), s, FALSE)
      BY <1>2 DEF IndirectJumpOrCall
    <2>2. s \in State
      BY <1>1, InstructionFacts, MovesAreStates DEF Undisturbed
    <2> HIDE DEF s
    <2>3. IndirectTarget \in Word /\ After \in Word
      BY <1>1, <1>2, InstructionFacts, ConstantsAssumption DEF Undisturbed, Word
    <2>4. IndirectTarget \in LookedUp /\ (Instr.op = "icall" => After \in LookedUp)
      BY <1>1, <2>3 DEF LookedUp
    <2>5. Clear(blocks, IndirectTarget) /\ (Instr.op = "icall" => Clear(blocks, After))
      BY <1>1, <2>4, UndisturbedFacts
    <2>6. Settles(blocks, registered)
      <3>1. prog.code[pos].op = "icall" => Clear(blocks, pos + prog.code[pos].len)
        BY <2>5 DEF Instr, After
      <3> QED
        BY <1>1, <2>2, <2>3, <2>5, <3>1, InstructionFacts, RegisterTargetSettles DEF Undisturbed
    <2> HIDE DEF registered
    <2> QED
      BY <1>1, <2>1, <2>6, EndedAfterSettles, HandledSettles
  <1>3. CASE IndirectTarget \notin 0..(Size - 1)
    <2>1. Handled(Ended(blocks), st, FALSE)
      BY <1>3 DEF IndirectJumpOrCall
    <2> QED
      BY <1>1, <2>1, EndedBlockSettles, HandledSettles
  <1> QED
    BY <1>2, <1>3

LEMMA FarJumpOrExitSettles ==
  ASSUME Undisturbed, FarJumpOrExit
  PROVE  StepSettles
  <1>1. phase = "decode" /\ pos < Size /\ Handled(Ended(blocks), st, FALSE)
    BY DEF FarJumpOrExit, Decodes
  <1> QED
    BY <1>1, EndedBlockSettles, HandledSettles

(* The handlers that leave the list as it is.                              *)
LEMMA UnchangedSettles ==
  ASSUME Undisturbed, ClockInterrupt \/ HookVector
  PROVE  StepSettles
  <1>1. PICK mayGoOn \in BOOLEAN : Handled(blocks, st, mayGoOn)
    BY DEF ClockInterrupt, HookVector
  <1>2. blocks # None
    BY ConstantsAssumption DEF Undisturbed, Inductive, WellFormed
  <1> QED
    BY <1>1, <1>2, HandledSettles

LEMMA UnknownOpcodeSettles ==
  ASSUME Undisturbed, UnknownOpcode
  PROVE  StepSettles
  <1>1. phase = "decode" /\ pos < Size
    BY DEF UnknownOpcode, Decodes
  <1>2. PICK end \in {a \in Listed(blocks) : a > cur} \cup {Size} :
          Handled(SetEnd(blocks, cur, end), st, FALSE)
    BY DEF UnknownOpcode
  <1>3. end \in Word /\ cur < end
    BY <1>1, InstructionFacts, ConstantsAssumption
    DEF Listed, Word, Undisturbed, Inductive, TypeOK, Position
  <1> DEFINE new == SetEnd(blocks, cur, end)
  <1>4. Cuts(blocks, new, cur, end)
    BY <1>1, <1>3, InstructionFacts, SetEndCuts DEF Undisturbed
  <1> HIDE DEF new
  <1>5. new # None /\ (Settled(blocks, cur) => Settled(new, cur))
    BY <1>4, ConstantsAssumption DEF Cuts, Settled, WellFormed
  <1> QED
    BY <1>2, <1>5, HandledSettles DEF new

LEMMA InterruptSettles ==
  ASSUME Undisturbed, Interrupt
  PROVE  StepSettles
  <1> DEFINE s == IF Instr.op = "dos" THEN UndefineRegister(st) ELSE st
             ended == Ended(blocks)
             registered == RegisterInterruptReturn(ended, cur, s)
  <1>1. phase = "decode" /\ pos < Size /\ Handled(registered, s, FALSE)
    BY DEF Interrupt, Decodes
  <1>2. s \in State
    BY <1>1, InstructionFacts, ConstantsAssumption
    DEF Undisturbed, UndefineRegister, State, Register
  <1> HIDE DEF s
  <1>3. /\ WellFormed(ended) /\ Listed(ended) = Listed(blocks) /\ ended[cur].end = After
        /\ Settled(blocks, cur) => Settled(ended, cur)
        /\ cur \in Listed(blocks) /\ cur \in Word
    BY <1>1, InstructionFacts, EndedSettles DEF Undisturbed, Inductive, TypeOK
  <1> HIDE DEF ended
  <1>4. Settled(ended, cur) => Reaches(ended, cur, After) = {}
    BY <1>1, <1>3, NothingReachesAfter
  <1>5. registered # None /\ (Settled(ended, cur) => Settled(registered, cur))
    BY <1>2, <1>3, <1>4, RegisterNextSettles
  <1> HIDE DEF registered
  <1> QED
    BY <1>1, <1>3, <1>5, HandledSettles

LEMMA ForwardBranchSettles ==
  ASSUME Undisturbed, ForwardBranch
  PROVE  StepSettles
  <1> DEFINE ended == Ended(blocks)
             next == RegisterNext(ended, cur, st)
             target == Instr.arg
             registered == RegisterTarget(next, pos, target, st)
  <1>1. phase = "decode" /\ pos < Size /\ Instr.op = "jcc" /\ target >= After
        /\ Handled(registered, st, TRUE)
    BY DEF ForwardBranch, Decodes
  <1>2. target \in LookedUp /\ target \in Word
    BY <1>1, InstructionFacts DEF Undisturbed, LookedUp
  <1>3. /\ WellFormed(ended) /\ Listed(ended) = Listed(blocks) /\ ended[cur].end = After
        /\ Settled(blocks, cur) => Settled(ended, cur)
        /\ Clear(ended, target)
        /\ cur \in Listed(blocks) /\ cur \in Word
    BY <1>1, <1>2, InstructionFacts, EndedSettles, EndedClear
    DEF Undisturbed, Inductive, TypeOK
  <1> HIDE DEF ended
  <1>4. Settled(ended, cur) => Reaches(ended, cur, After) = {}
    BY <1>1, <1>3, NothingReachesAfter
  <1>5. /\ next # None /\ WellFormed(next)
        /\ Listed(next) = Listed(blocks) \cup {After}
        /\ After \notin Listed(blocks) => next[After].end = After
        /\ \A a \in Listed(blocks) : next[a].end = ended[a].end
        /\ Settled(ended, cur) => Settled(next, cur)
    BY <1>1, <1>3, <1>4, InstructionFacts, RegisterNextSettles DEF Undisturbed
  <1> HIDE DEF next
  <1>6. Clear(next, target)
    <2>1. /\ After \in Int /\ target \in Int /\ cur \in Int /\ cur < After
          /\ \A a \in Listed(blocks) : /\ a \in Int /\ (a <= cur \/ After <= a)
                                       /\ ended[a].end \in Int
      BY <1>1, <1>2, <1>3, UndisturbedFacts, InstructionFacts, BlockStarts, ConstantsAssumption
      DEF Undisturbed, WellFormed, Word
    <2> HIDE DEF target
    <2>2. ASSUME NEW a \in Listed(next), NEW b \in Listed(next), a < b, b <= target
          PROVE  next[a].end <= target
      <3>1. CASE a \notin Listed(blocks)
        BY <1>1, <1>5, <2>1, <3>1
      <3>2. CASE a \in Listed(blocks) /\ b \in Listed(blocks)
        BY <1>3, <1>5, <2>2, <3>2 DEF Clear
      <3>3. CASE a \in Listed(blocks) /\ b \notin Listed(blocks)
        <4>1. b = After /\ a <= cur /\ cur <= target
          BY <1>1, <1>5, <2>1, <2>2, <3>3
        <4>2. CASE a = cur
          BY <1>1, <1>3, <1>5, <2>1, <4>2
        <4>3. CASE a # cur
          <5>1. a < cur
            BY <2>1, <3>3, <4>1, <4>3
          <5>2. ended[a].end <= target
            BY <1>3, <3>3, <4>1, <5>1 DEF Clear
          <5> QED
            BY <1>5, <3>3, <5>2
        <4> QED
          BY <4>2, <4>3
      <3> QED
        BY <3>1, <3>2, <3>3
    <2> QED
      BY <2>2 DEF Clear
  <1>7. Settles(next, registered)
    BY <1>1, <1>2, <1>5, <1>6, InstructionFacts, RegisterTargetSettles DEF Undisturbed, Instr
  <1> HIDE DEF registered
  <1> QED
    BY <1>1, <1>3, <1>5, <1>7, HandledSettles DEF Settles

(* The block is cut at the target when it lies in the block; then what     *)
(* follows it is the target itself.                                        *)
LEMMA BackwardBranchSettles ==
  ASSUME Undisturbed, BackwardBranch
  PROVE  StepSettles
  <1> DEFINE target == Instr.arg
             ended == IF target <= cur THEN Ended(blocks) ELSE Shrink(blocks, cur, target)
             registered == RegisterTarget(ended, pos, target, st)
             last == RegisterNext(registered, cur, st)
  <1>1. phase = "decode" /\ pos < Size /\ Instr.op = "jcc" /\ target < After
        /\ Handled(IF registered = None THEN None ELSE last, st, TRUE)
    BY DEF BackwardBranch, Decodes
  <1>2. target \in LookedUp /\ target \in Word
    BY <1>1, InstructionFacts DEF Undisturbed, LookedUp
  <1>3. /\ After \in Int /\ target \in Int /\ cur \in Int /\ cur < After
        /\ cur \in Listed(blocks) /\ cur \in Word
        /\ \A a \in Listed(blocks) : a \in Int /\ (a <= cur \/ After <= a)
        /\ blocks \in BlockList
    BY <1>1, <1>2, UndisturbedFacts, InstructionFacts, BlockStarts, ConstantsAssumption
    DEF Undisturbed, Inductive, TypeOK, Word
  <1>4. /\ WellFormed(ended) /\ Listed(ended) = Listed(blocks)
        /\ ended[cur].end = IF target <= cur THEN After ELSE target
        /\ Settled(blocks, cur) => Settled(ended, cur)
        /\ Clear(ended, target)
    <2>1. CASE target <= cur
      BY <1>1, <1>2, <1>3, <2>1, InstructionFacts, EndedSettles, EndedClear DEF Undisturbed
    <2>2. CASE ~(target <= cur)
      <3>1. cur < target /\ cur # None /\ WellFormed(blocks)
        BY <1>1, <1>2, <1>3, <2>2, InstructionFacts, ConstantsAssumption DEF Undisturbed
      <3>2. /\ Cuts(blocks, Shrink(blocks, cur, target), cur, target)
            /\ Shrink(blocks, cur, target)[cur].end = target
            /\ \A x : Settled(blocks, x) => Settled(Shrink(blocks, cur, target), x)
        BY <1>2, <1>3, <3>1, ShrinkCuts
      <3>3. ended = Shrink(blocks, cur, target)
        BY <2>2
      <3> HIDE DEF ended, target
      <3>4. Clear(blocks, target)
        BY <1>1, <1>2, UndisturbedFacts
      <3>5. ASSUME NEW a \in Listed(blocks), NEW b \in Listed(blocks), a < b, b <= target
            PROVE  ended[a].end <= target
        <4>1. b <= cur
          BY <1>1, <1>3, <3>5
        <4>2. a # cur
          BY <1>3, <3>5, <4>1
        <4> QED
          BY <3>2, <3>3, <3>4, <3>5, <4>2 DEF Cuts, Clear
      <3>6. Clear(ended, target)
        BY <3>2, <3>3, <3>5 DEF Cuts, Clear
      <3> QED
        BY <2>2, <3>2, <3>3, <3>6 DEF Cuts
    <2> QED
      BY <2>1, <2>2
  <1> HIDE DEF ended
  <1>5. Enters(ended, registered, target)
    BY <1>1, <1>2, <1>4, InstructionFacts, RegisterTargetSettles DEF Undisturbed, Instr
  <1> HIDE DEF registered, target
  <1>6. /\ registered # None /\ WellFormed(registered)
        /\ Listed(registered) = Listed(blocks) \cup {target} /\ cur \in Listed(registered)
        /\ registered[cur].end = IF target <= cur THEN After ELSE target
        /\ Settled(ended, cur) => Settled(registered, cur)
    BY <1>3, <1>4, <1>5 DEF Enters, Settles
  <1>7. Settled(registered, cur) =>
          \/ registered[cur].end \in Listed(registered)
          \/ Reaches(registered, cur, registered[cur].end) = {}
    <2> SUFFICES ASSUME Settled(registered, cur), target <= cur
                 PROVE  Reaches(registered, cur, After) = {}
      BY <1>6
    <2>1. target \in Listed(blocks) \/ target < cur
      BY <1>3
    <2> QED
      BY <1>1, <1>2, <1>6, <2>1, NothingReachesAfter
  <1>8. last # None /\ (Settled(registered, cur) => Settled(last, cur))
    BY <1>1, <1>6, <1>7, InstructionFacts, RegisterNextSettles DEF Undisturbed
  <1> HIDE DEF last
  <1> QED
    BY <1>1, <1>4, <1>6, <1>8, HandledSettles

LEMMA SetVectorSettles ==
  ASSUME Undisturbed, SetVector
  PROVE  StepSettles
  <1> DEFINE v == st.reg.val
             registered == RegisterHandler(st.reg)
             ended == Ended(registered)
             last == RegisterInterruptReturn(ended, cur, st)
  <1>1. phase = "decode" /\ pos < Size /\ Instr.op = "vector"
        /\ Handled(IF registered = None THEN None ELSE last, st, FALSE)
    BY DEF SetVector, Decodes
  <1>2. /\ st \in State /\ st.reg \in Register /\ v \in Word
        /\ HandlerState(st, st.reg) \in State /\ v \in LookedUp
        /\ WellFormed(blocks) /\ cur \in Listed(blocks) /\ cur \in Word
    <2>1. st \in State /\ st.reg \in Register /\ v \in Word
          /\ WellFormed(blocks) /\ cur \in Listed(blocks) /\ cur \in Word
      BY <1>1, InstructionFacts DEF Undisturbed, State, Register, Inductive, TypeOK
    <2> QED
      BY <1>1, <2>1, HandlerIsState DEF LookedUp
  <1>3. \E p \in Word :
          /\ registered # None /\ WellFormed(registered)
          /\ Listed(registered) \subseteq Listed(blocks) \cup {p} /\ cur \in Listed(registered)
          /\ p \notin Listed(blocks) => registered[p].end = p
          /\ p \in Listed(registered)
          /\ Settled(blocks, cur) => Settled(registered, cur)
    <2>1. CASE ~st.reg.def \/ Containing(blocks, v) = v
      <3>1. registered = blocks /\ blocks # None
        BY <1>2, <2>1, ConstantsAssumption DEF RegisterHandler, WellFormed
      <3> HIDE DEF registered
      <3> QED
        BY <1>2, <3>1
    <2>2. CASE ~(~st.reg.def \/ Containing(blocks, v) = v)
      <3> DEFINE c == Containing(blocks, v)
      <3>1. registered = Insert(Shrink(blocks, c, v), v, Interruption, HandlerState(st, st.reg))
        BY <2>2 DEF RegisterHandler
      <3>2. Clear(blocks, v)
        BY <1>1, <1>2, UndisturbedFacts
      <3> HIDE DEF registered, c
      <3>3. Enters(blocks, registered, v)
        BY <1>2, <2>2, <3>1, <3>2, KeysOfOrigins, EntersWhereShrunk DEF c
      <3> QED
        BY <1>2, <3>3 DEF Enters, Settles
    <2> QED
      BY <2>1, <2>2
  <1> HIDE DEF registered
  <1>4. PICK p \in Word :
          /\ registered # None /\ WellFormed(registered)
          /\ Listed(registered) \subseteq Listed(blocks) \cup {p} /\ cur \in Listed(registered)
          /\ p \notin Listed(blocks) => registered[p].end = p
          /\ p \in Listed(registered)
          /\ Settled(blocks, cur) => Settled(registered, cur)
    BY <1>3
  <1>5. /\ WellFormed(ended) /\ Listed(ended) = Listed(registered) /\ ended[cur].end = After
        /\ \A b \in Listed(registered) : b # cur => ended[b].end = registered[b].end
        /\ Settled(registered, cur) => Settled(ended, cur)
    BY <1>1, <1>4, EndedSettles DEF Undisturbed
  <1> HIDE DEF ended
  <1>6. Settled(ended, cur) =>
          After \in Listed(ended) \/ Reaches(ended, cur, After) = {}
    <2> SUFFICES ASSUME Settled(ended, cur), After \notin Listed(ended)
                 PROVE  Reaches(ended, cur, After) = {}
      OBVIOUS
    <2>1. CASE p \in Listed(blocks) \/ p < cur \/ After <= p \/ ended[p].end <= After
      BY <1>1, <1>4, <1>5, <2>1, NothingReachesAfter
    <2>2. CASE p \notin Listed(blocks) /\ ~(After <= p) /\ ~(ended[p].end <= After)
      <3>1. p # cur /\ ended[p].end = p
        BY <1>2, <1>4, <1>5, <2>2
      <3>2. After \in Int /\ cur \in Int /\ p \in Int /\ ~(p <= After)
        BY <1>1, <2>2, <3>1, InstructionFacts, ConstantsAssumption
        DEF Undisturbed, Inductive, TypeOK, Word
      <3> QED
        BY <2>2, <3>2
    <2> QED
      BY <2>1, <2>2
  <1>7. last # None /\ (Settled(ended, cur) => Settled(last, cur))
    BY <1>2, <1>4, <1>5, <1>6, RegisterNextSettles
  <1> HIDE DEF last
  <1> QED
    BY <1>1, <1>4, <1>5, <1>7, HandledSettles

LEMMA EnableInterruptsSettles ==
  ASSUME Undisturbed, EnableInterrupts
  PROVE  StepSettles
  <1>1. phase = "decode" /\ pos < Size /\ Instr.op = "sti"
        /\ WellFormed(blocks) /\ blocks # None
    BY ConstantsAssumption DEF EnableInterrupts, Decodes, Undisturbed, Inductive, WellFormed
  <1>2. CASE vec = None \/ Containing(blocks, vec) = vec
    <2>1. Handled(blocks, st, TRUE)
      BY <1>2 DEF EnableInterrupts
    <2> QED
      BY <1>1, <2>1, HandledSettles
  <1>3. CASE ~(vec = None \/ Containing(blocks, vec) = vec)
    <2> DEFINE c == Containing(blocks, vec)
               cut == IF c = None THEN blocks ELSE SetEnd(blocks, c, vec)
               handler(g) == Insert(cut, vec, Interruption,
                                    HandlerState(st, [def |-> FALSE, val |-> g]))
    <2>1. PICK garbage \in Uninitialized : Handled(handler(garbage), st, TRUE)
      BY <1>3 DEF EnableInterrupts
    <2>2. vec \in Word /\ vec \in LookedUp
      BY <1>1, <1>3, InstructionFacts DEF Undisturbed, LookedUp
    <2>3. [def |-> FALSE, val |-> garbage] \in Register
      BY ConstantsAssumption DEF Register
    <2> DEFINE s == HandlerState(st, [def |-> FALSE, val |-> garbage])
    <2>4. s \in State
      BY <1>1, <2>3, InstructionFacts, HandlerIsState DEF Undisturbed
    <2>5. c = None \/ (c \in Listed(blocks) /\ c < vec)
      BY <1>1, <1>3, <2>2, ContainingIsOther
    <2>6. Clear(blocks, vec)
      BY <1>1, <2>2, UndisturbedFacts
    <2>7. handler(garbage) = Insert(cut, vec, Interruption, s)
      OBVIOUS
    <2> HIDE DEF s, handler
    <2>8. Cuts(blocks, cut, c, vec) /\ (c # None => cut[c].end = vec)
      <3>1. CASE c = None
        BY <1>1, <3>1 DEF Cuts
      <3>2. CASE c # None
        <4>1. cut = SetEnd(blocks, c, vec) /\ c \in Listed(blocks) /\ c < vec
          BY <2>5, <3>2
        <4> HIDE DEF cut, c
        <4> QED
          BY <1>1, <2>2, <4>1, SetEndCuts
      <3> QED
        BY <3>1, <3>2
    <2> HIDE DEF cut
    <2>9. ASSUME NEW b \in Listed(blocks)
          PROVE  cut[b].end = blocks[b].end \/ (b < vec /\ cut[b].end = vec)
      <3>1. b # None
        BY ConstantsAssumption DEF Listed
      <3> QED
        BY <2>5, <2>8, <3>1 DEF Cuts
    <2>10. Enters(blocks, handler(garbage), vec)
      BY <1>1, <1>3, <2>2, <2>4, <2>6, <2>7, <2>8, <2>9, KeysOfOrigins, EntersWhereCut
    <2> QED
      BY <2>1, <2>10, HandledSettles DEF Enters, Settles
  <1> QED
    BY <1>2, <1>3


LEMMA ReturnSettles ==
  ASSUME Undisturbed, Return
  PROVE  StepSettles
  <1>1. phase = "decode" /\ pos < Size /\ blocks' = Ended(blocks) /\ phase' = "backtrack"
    BY DEF Return, Decodes
  <1> QED
    BY <1>1, EndedBlockSettles DEF StepSettles

(* The opcodes that are answered by return 1 and the maps that become      *)
(* empty apart, a handler that is not misled refuses nothing and leaves    *)
(* the evaluated blocks apart.                                             *)
LEMMA HandlersSettle ==
  ASSUME Undisturbed, Handlers, ~ReadPastImage, ~BadOpcode, ~(MoveData /\ MapEmptied)
  PROVE  StepSettles
  <1>1. CASE MoveData \/ ForwardBranch \/ BackwardBranch \/ ShortJump
    BY <1>1, MoveDataSettles, ForwardBranchSettles, BackwardBranchSettles, ShortJumpSettles
  <1>2. CASE NearJumpOrCall \/ IndirectJumpOrCall \/ FarJumpOrExit \/ ClockInterrupt
    BY <1>2, NearJumpOrCallSettles, IndirectJumpOrCallSettles, FarJumpOrExitSettles,
       UnchangedSettles
  <1>3. CASE Interrupt \/ SetVector \/ HookVector \/ EnableInterrupts
    BY <1>3, InterruptSettles, SetVectorSettles, UnchangedSettles, EnableInterruptsSettles
  <1>4. CASE UnknownOpcode \/ Return
    BY <1>4, UnknownOpcodeSettles, ReturnSettles
  <1> QED
    BY <1>1, <1>2, <1>3, <1>4 DEF Handlers

LEMMA HandlersStay ==
  ASSUME Handlers
  PROVE  /\ phase = "decode"
         /\ phase' \in {"link", "backtrack", "failed", "overrun"}
         /\ cur' = cur
         /\ phase' = "failed" => pos < Size
  BY DEF Handlers, MoveData, ForwardBranch, BackwardBranch, ShortJump, NearJumpOrCall,
         IndirectJumpOrCall, FarJumpOrExit, ClockInterrupt, Interrupt, SetVector,
         HookVector, EnableInterrupts, UnknownOpcode, BadOpcode, ReadPastImage, Return,
         Decodes, Handled

-----------------------------------------------------------------------------
(* The other steps.                                                        *)

(* A call that returns where no evaluated block reaches.                   *)
LEMMA VisitCallSettles ==
  ASSUME Inductive, VisitCall, ~ReturnsInside
  PROVE  StepSettles
  <1>1. phase = "backtrack" /\ phase' = phase
    BY DEF VisitCall, Visits
  <1>2. PICK a \in 0..(Size - 1) :
          /\ prog.code[a].op \in {"call", "icall"}
          /\ blocks' = EnsureCallReturn(blocks, a) \/ blocks' = blocks
    BY DEF VisitCall
  <1> DEFINE r == a + prog.code[a].len
             key == CallReturn(prog.code[a].len)
             s == PopReturn(st)
  <1>3. WellFormed(blocks) /\ prog \in Image /\ st \in State /\ cur \in Listed(blocks)
    BY DEF Inductive, TypeOK, Position
  <1>4. r \in Word /\ key \in Key
    BY <1>2, <1>3, ImageInstruction, KeysOfOrigins
  <1>5. s \in State
    BY <1>3, <1>4, MovesAreStates
  <1>6. \/ blocks' = blocks
        \/ r \notin Listed(blocks) /\ blocks' = Insert(blocks, r, key, s)
        \/ r \in Listed(blocks) /\ blocks' = PutOrigin(blocks, r, key, s)
           /\ blocks[r].origins[key] = None
        \/ r \in Listed(blocks) /\ blocks' = MergeOrigin(blocks, r, key, s)
           /\ blocks[r].origins[key] # None
    BY <1>2 DEF EnsureCallReturn
  <1> HIDE DEF r, key, s
  <1>7. CASE blocks' = blocks
    BY <1>1, <1>7 DEF StepSettles
  <1>8. CASE r \notin Listed(blocks) /\ blocks' = Insert(blocks, r, key, s)
    <2>1. /\ Listed(blocks') = Listed(blocks) \cup {r}
          /\ \A x : (Settled(blocks, x) /\ Reaches(blocks, x, r) = {})
                   => Settled(blocks', x)
      BY <1>3, <1>4, <1>5, <1>8, InsertSettles
    <2>2. Reaches(blocks, cur, r) = {}
      BY <1>1, <1>8, <2>1 DEF ReturnsInside, Reaches
    <2> QED
      BY <1>1, <2>1, <2>2 DEF StepSettles
  <1>9. CASE r \in Listed(blocks) /\ blocks' = PutOrigin(blocks, r, key, s)
    BY <1>1, <1>3, <1>4, <1>5, <1>9, PutOriginKeeps, KeepsClear
    DEF StepSettles, WellFormed
  <1>10. CASE r \in Listed(blocks) /\ blocks' = MergeOrigin(blocks, r, key, s)
              /\ blocks[r].origins[key] # None
    <2>1. blocks' = RegisterOrigin(blocks, r, key, s)
      BY <1>10 DEF RegisterOrigin
    <2> QED
      BY <1>1, <1>3, <1>4, <1>5, <1>10, <2>1, RegisterOriginKeeps, KeepsClear
      DEF StepSettles
  <1> QED
    BY <1>6, <1>7, <1>8, <1>9, <1>10

LEMMA ContinueIntoKeeps ==
  ASSUME NEW bs, WellFormed(bs), NEW b \in Listed(bs), st \in State
  PROVE  Keeps(bs, ContinueInto(bs, b))
  <1> DEFINE old == bs[b].origins[Continue]
  <1>1. Continue \in Key /\ bs[b] \in Block /\ bs \in BlockList
    BY KeysOfOrigins, ListedIsFinite DEF WellFormed
  <1>2. CASE old # None
    <2> DEFINE joined == JoinButStack(old, st)
    <2>1. joined \in State /\ Weaker(joined, old)
      BY <1>1, <1>2, JoinIsState, JoinIsWeaker DEF Block, Origins
    <2> HIDE DEF joined
    <2>2. Keeps(bs, Invalidate(PutOrigin(bs, b, Continue, joined), b))
      BY <1>1, <2>1, PutAndInvalidateKeeps
    <2> QED
      BY <1>2, <2>2, KeepsItself DEF ContinueInto, joined
  <1>3. CASE old = None
    <2>1. /\ Keeps(bs, PutOrigin(bs, b, Continue, st))
          /\ Keeps(bs, Invalidate(PutOrigin(bs, b, Continue, st), b))
      BY <1>1, <1>3, PutOriginKeeps, PutAndInvalidateKeeps
    <2> QED
      BY <1>3, <2>1, KeepsItself DEF ContinueInto, AddOrigin
  <1> QED
    BY <1>2, <1>3

(* The block ends at its follower, if the reader has reached one, and      *)
(* nothing else does.                                                      *)
LEMMA LinkedFacts ==
  ASSUME Inductive, phase = "link"
  PROVE  /\ Listed(Linked) = Listed(blocks)
         /\ \A b \in Listed(blocks) :
              /\ b # cur => Linked[b].end = blocks[b].end
              /\ Linked[b].valid => blocks[b].valid
         /\ IF \A b \in Listed(blocks) : b <= cur \/ pos < b
            THEN Linked[cur].end = blocks[cur].end
            ELSE \E b \in Listed(blocks) :
                   /\ cur < b /\ b <= pos /\ Linked[cur].end = b
                   /\ \A a \in Listed(blocks) : a <= cur \/ b <= a
  <1>1. /\ WellFormed(blocks) /\ blocks \in BlockList /\ cur \in Listed(blocks) /\ st \in State
        /\ pos \in Int /\ cur \in Int
        /\ \A b \in Listed(blocks) : b \in Int /\ b \in Nat /\ b \in Word
    BY BlockStarts, ConstantsAssumption DEF Inductive, TypeOK, Position, WellFormed, Word
  <1>2. CASE Follower = {}
    <2>1. \A b \in Listed(blocks) : b <= cur \/ pos < b
      <3> DEFINE Behind == {b \in Listed(blocks) : cur < b /\ b <= pos}
      <3> SUFFICES ASSUME Behind # {} PROVE FALSE
        BY <1>1
      <3>1. PICK b \in Behind : \A a \in Behind : b <= a
        <4>1. Behind \in SUBSET Nat
          BY <1>1
        <4> HIDE DEF Behind
        <4> QED
          BY <4>1, Least
      <3>2. \A a \in Listed(blocks) : a > cur => b <= a
        BY <1>1, <3>1
      <3>3. b \in Follower
        BY <1>1, <3>1, <3>2 DEF Follower, Following
      <3> QED
        BY <1>2, <3>3
    <2> QED
      BY <1>2, <2>1 DEF Linked
  <1>3. CASE Follower # {}
    <2> DEFINE b == CHOOSE b \in Follower : TRUE
               ended == SetEnd(blocks, cur, b)
    <2>1. b \in Follower
      BY <1>3
    <2>2. Linked = IF b = pos THEN ContinueInto(ended, b) ELSE ended
      BY <1>3 DEF Linked
    <2> HIDE DEF b
    <2>3. /\ b \in Listed(blocks) /\ cur < b /\ b <= pos /\ b \in Word
          /\ \A a \in Listed(blocks) : a <= cur \/ b <= a
      BY <1>1, <2>1 DEF Follower, Following
    <2>4. Cuts(blocks, ended, cur, b) /\ ended[cur].end = b
      BY <1>1, <2>3, SetEndCuts
    <2> HIDE DEF ended
    <2>5. Keeps(ended, Linked)
      BY <1>1, <2>2, <2>3, <2>4, ContinueIntoKeeps, KeepsItself DEF Cuts
    <2>6. ~(\A a \in Listed(blocks) : a <= cur \/ pos < a)
      BY <1>1, <2>3
    <2> QED
      BY <1>1, <2>3, <2>4, <2>5, <2>6 DEF Cuts, Keeps
  <1> QED
    BY <1>2, <1>3


LEMMA ReadOnSettles ==
  ASSUME Inductive, ReadOn
  PROVE  StepSettles /\ Between'
  <1>1. /\ phase = "link" /\ phase' = "decode" /\ cur' = cur /\ pos' = pos
        /\ blocks' = Linked
        /\ ~Known(Linked, cur) \/ pos < Linked[cur].end
    BY DEF ReadOn
  <1>2. StepSettles
    BY <1>1, LinkedFacts DEF StepSettles, Settled
  <1>3. \A b \in Listed(blocks) : b <= cur \/ pos < b
    <2> SUFFICES ASSUME ~(\A b \in Listed(blocks) : b <= cur \/ pos < b) PROVE FALSE
      OBVIOUS
    <2>1. PICK b \in Listed(blocks) : cur < b /\ b <= pos /\ Linked[cur].end = b
      BY <1>1, LinkedFacts
    <2>2. b \in Int /\ pos \in Int /\ cur \in Int
      BY ConstantsAssumption DEF Inductive, TypeOK, Listed, Word
    <2> QED
      BY <1>1, <2>1, <2>2 DEF Known
  <1>4. Listed(blocks') = Listed(blocks)
    BY <1>1, LinkedFacts
  <1> QED
    BY <1>1, <1>2, <1>3, <1>4 DEF Between

(* The block that was read ends before every block behind it.              *)
LEMMA EndBlockSettles ==
  ASSUME Inductive, EndBlock, Settled(blocks, cur)
  PROVE  Settled(blocks', None)
  <1>1. /\ phase = "link" /\ blocks' = Linked
        /\ pos >= Linked[cur].end
        /\ Extends(blocks, Linked) /\ cur \in Listed(blocks)
    BY LinkedExtends DEF EndBlock, Inductive, Position
  <1>2. /\ pos \in Int /\ cur \in Int /\ Linked[cur].end \in Int
        /\ \A b \in Listed(blocks) : b \in Int
    BY <1>1, BlockStarts, LinkedFacts, ConstantsAssumption
    DEF Extends, WellFormed, Inductive, TypeOK, Word
  <1>3. ASSUME NEW a \in Listed(blocks), NEW b \in Listed(blocks), a < b, Linked[a].valid
        PROVE  Linked[a].end <= b
    <2>1. CASE a # cur
      BY <1>1, <1>3, <2>1, LinkedFacts DEF Settled
    <2>2. CASE a = cur
      <3>1. CASE \A d \in Listed(blocks) : d <= cur \/ pos < d
        <4>1. cur < b /\ pos < b
          BY <1>2, <1>3, <2>2, <3>1
        <4>2. Linked[cur].end <= b
          <5> DEFINE end == Linked[cur].end
          <5>1. end \in Int /\ end <= pos /\ b \in Int /\ pos \in Int
            BY <1>1, <1>2
          <5> HIDE DEF end
          <5>2. end <= b
            BY <4>1, <5>1
          <5> QED
            BY <5>2 DEF end
        <4> QED
          BY <2>2, <4>2
      <3>2. CASE ~(\A d \in Listed(blocks) : d <= cur \/ pos < d)
        <4>1. PICK d \in Listed(blocks) :
                /\ Linked[cur].end = d
                /\ \A e \in Listed(blocks) : e <= cur \/ d <= e
          BY <1>1, <3>2, LinkedFacts
        <4> QED
          BY <1>2, <1>3, <2>2, <4>1
      <3> QED
        BY <3>1, <3>2
    <2> QED
      BY <2>1, <2>2
  <1> QED
    BY <1>1, <1>3, LinkedFacts DEF Settled

LEMMA BeginBlockSettles ==
  ASSUME Inductive, BeginBlock
  PROVE  /\ Between' /\ phase' = "decode"
         /\ Settled(blocks, None) => Settled(blocks', cur')
  <1>1. PICK b \in Listed(blocks) :
          /\ cur' = b /\ pos' = b
          /\ blocks' = [blocks EXCEPT ![b].valid = TRUE]
    BY DEF BeginBlock
  <1>2. blocks \in BlockList /\ b \in Word /\ blocks[b] \in Block /\ b \in Int
        /\ \A a \in Listed(blocks) : a \in Int /\ a # None
    BY BlockStarts DEF Inductive, TypeOK
  <1> DEFINE r == [blocks[b] EXCEPT !.valid = TRUE]
  <1>3. r \in Block
    BY <1>2 DEF Block
  <1>4. blocks' = [blocks EXCEPT ![b] = r]
    BY <1>1, <1>2 DEF BlockList
  <1> HIDE DEF r
  <1>5. /\ Listed(blocks') = Listed(blocks)
        /\ \A a \in Listed(blocks) : a # b => blocks'[a] = blocks[a]
    <2> DEFINE replaced == [blocks EXCEPT ![b] = r]
    <2>1. /\ Listed(replaced) = Listed(blocks)
          /\ \A a \in Listed(blocks) : a # b => replaced[a] = blocks[a]
      BY <1>2, <1>3, Replaced
    <2>2. blocks' = replaced
      BY <1>4
    <2> HIDE DEF replaced
    <2> QED
      BY <2>1, <2>2
  <1>6. Between'
    BY <1>1, <1>2, <1>5 DEF Between
  <1>7. Settled(blocks, None) => Settled(blocks', b)
    BY <1>2, <1>5 DEF Settled
  <1> QED
    BY <1>1, <1>6, <1>7 DEF BeginBlock

(* The steps that leave the list alone and do not decode.                  *)
LEMMA IdleSteps ==
  ASSUME \/ SkipBlock \/ NextLoop \/ Finish
         \/ VisitContinuation \/ VisitJump \/ VisitEntry \/ LeaveBlock
  PROVE  /\ blocks' = blocks /\ cur' = cur
         /\ \/ phase = "scan" /\ phase' \in {"scan", "done"}
            \/ phase = "backtrack" /\ phase' \in {"backtrack", "link"}
  <1>1. CASE SkipBlock \/ NextLoop \/ Finish
    BY <1>1 DEF SkipBlock, NextLoop, Finish
  <1>2. CASE VisitContinuation \/ VisitJump \/ VisitEntry \/ LeaveBlock
    BY <1>2 DEF VisitContinuation, VisitJump, VisitEntry, LeaveBlock, Visits
  <1> QED
    BY <1>1, <1>2

LEMMA BetweenStep ==
  ASSUME Inductive, Between, [Next]_vars
  PROVE  Between'
  <1>1. CASE UNCHANGED vars
    BY <1>1 DEF vars, Between
  <1>2. CASE Handlers
    BY <1>2, HandlersStay DEF Between
  <1>3. CASE SkipBlock \/ NextLoop \/ Finish
    BY <1>3, IdleSteps DEF Between
  <1>4. CASE VisitContinuation \/ VisitJump \/ VisitEntry \/ LeaveBlock
    BY <1>4, IdleSteps DEF Between
  <1>5. CASE VisitCall \/ EndBlock
    BY <1>5 DEF Between, VisitCall, Visits, EndBlock
  <1>6. CASE BeginBlock \/ ReadOn
    BY <1>6, BeginBlockSettles, ReadOnSettles
  <1> QED
    BY <1>1, <1>2, <1>3, <1>4, <1>5, <1>6
    DEF Next, Progress, Stopped, Loops, Backtracking

(* BlocksApart, by the phase.                                              *)
LEMMA ApartIsSettled ==
  ASSUME Inductive, BlocksApart, phase \notin {"failed", "overrun"}
  PROVE  Settled(blocks, IF Reading THEN cur ELSE None)
  <1>1. \A a \in Listed(blocks) : a # None
    BY BlockStarts DEF Inductive, TypeOK
  <1> QED
    BY <1>1 DEF BlocksApart, Settled

LEMMA SettledIsApart ==
  ASSUME blocks' \in BlockList,
         phase' \notin {"failed", "overrun"} =>
           Settled(blocks', IF Reading' THEN cur' ELSE None)
  PROVE  BlocksApart'
  <1>1. \A a \in Listed(blocks') : a # None
    BY BlockStarts
  <1> QED
    BY <1>1 DEF BlocksApart, Settled

(* Only a disturbance makes evaluated blocks overlap.                      *)
LEMMA ApartStep ==
  ASSUME Inductive, Between, BlocksApart, [Next]_vars, [~Disturbed]_vars
  PROVE  BlocksApart'
  <1>1. CASE UNCHANGED vars
    BY <1>1 DEF vars, BlocksApart, Reading
  <1> SUFFICES ASSUME ~(UNCHANGED vars) PROVE BlocksApart'
    BY <1>1
  <1>2. Undisturbed /\ ~ReturnsInside
    BY DEF Disturbed, Undisturbed
  <1>3. blocks' \in BlockList
    BY NextInductive DEF Inductive, TypeOK
  <1>4. CASE Handlers
    <2>1. phase = "decode" /\ cur' = cur /\ phase' \in {"link", "backtrack", "failed", "overrun"}
      BY <1>4, HandlersStay
    <2>2. Settled(blocks, cur)
      BY <2>1, ApartIsSettled DEF Reading
    <2>3. CASE phase' \in {"failed", "overrun"}
      BY <2>3 DEF BlocksApart
    <2>4. CASE phase' \in {"link", "backtrack"}
      <3>1. ~ReadPastImage /\ ~BadOpcode /\ ~(MoveData /\ MapEmptied)
        BY <2>4 DEF ReadPastImage, BadOpcode, MoveData, Handled
      <3>2. Settled(blocks', cur')
        BY <1>2, <1>4, <2>1, <2>2, <3>1, HandlersSettle DEF StepSettles
      <3> QED
        BY <1>3, <2>4, <3>2, SettledIsApart DEF Reading
    <2> QED
      BY <2>1, <2>3, <2>4
  <1>5. CASE \/ SkipBlock \/ NextLoop \/ Finish
             \/ VisitContinuation \/ VisitJump \/ VisitEntry \/ LeaveBlock
    <2>1. /\ blocks' = blocks /\ cur' = cur
          /\ \/ phase = "scan" /\ phase' \in {"scan", "done"}
             \/ phase = "backtrack" /\ phase' \in {"backtrack", "link"}
      BY <1>5, IdleSteps
    <2> QED
      BY <2>1 DEF BlocksApart, Reading
  <1>6. CASE VisitCall \/ ReadOn
    <2>1. /\ phase \in {"backtrack", "link"} /\ phase' \in {"backtrack", "decode"}
          /\ cur' = cur
      BY <1>6 DEF VisitCall, Visits, ReadOn
    <2>2. Settled(blocks, cur)
      BY <2>1, ApartIsSettled DEF Reading
    <2>3. Settled(blocks', cur')
      BY <1>2, <1>6, <2>1, <2>2, VisitCallSettles, ReadOnSettles DEF StepSettles
    <2> QED
      BY <1>3, <2>1, <2>3, SettledIsApart DEF Reading
  <1>7. CASE EndBlock
    <2>1. phase = "link" /\ phase' = "scan"
      BY <1>7 DEF EndBlock
    <2>2. Settled(blocks, cur)
      BY <2>1, ApartIsSettled DEF Reading
    <2>3. Settled(blocks', None)
      BY <1>7, <2>2, EndBlockSettles
    <2> QED
      BY <1>3, <2>1, <2>3, SettledIsApart DEF Reading
  <1>8. CASE BeginBlock
    <2>1. phase = "scan" /\ phase' = "decode"
      BY <1>8 DEF BeginBlock
    <2>2. Settled(blocks, None)
      BY <2>1, ApartIsSettled DEF Reading
    <2>3. Settled(blocks', cur')
      BY <1>8, <2>2, BeginBlockSettles
    <2> QED
      BY <1>3, <2>1, <2>3, SettledIsApart DEF Reading
  <1> QED
    BY <1>4, <1>5, <1>6, <1>7, <1>8 DEF Next, Progress, Stopped, Loops, Backtracking

(* Only a handler gives the analysis up, and only one that is misled       *)
(* refuses a block.                                                        *)
LEMMA RefusalStep ==
  ASSUME Inductive, Between, [Next]_vars, phase # "failed", phase' = "failed"
  PROVE  /\ Decoding
         /\ EnteredInside \/ Misled \/ Instr.op = "bad" \/ MapEmptied
  <1>1. Handlers
    <2>1. ~(UNCHANGED vars)
      BY DEF vars
    <2>2. ~(\/ SkipBlock \/ NextLoop \/ Finish
            \/ VisitContinuation \/ VisitJump \/ VisitEntry \/ LeaveBlock)
      BY IdleSteps
    <2>3. ~(VisitCall \/ EndBlock \/ ReadOn \/ BeginBlock)
      BY DEF VisitCall, Visits, EndBlock, ReadOn, BeginBlock
    <2> QED
      BY <2>1, <2>2, <2>3 DEF Next, Progress, Stopped, Loops, Backtracking
  <1>2. Decoding
    BY <1>1, HandlersStay DEF Decoding
  <1>3. SUFFICES ASSUME ~EnteredInside, ~Misled, ~(Instr.op = "bad"), ~MapEmptied
                 PROVE  FALSE
    BY <1>2
  <1>4. Undisturbed /\ ~BadOpcode /\ ~ReadPastImage
    BY <1>3 DEF Undisturbed, BadOpcode, Decodes, ReadPastImage
  <1> QED
    BY <1>1, <1>3, <1>4, HandlersSettle DEF StepSettles

LEMMA ReaderBetween == Spec => []Between
  <1>1. Init => Between
    BY DEF Init, Between
  <1>2. Inductive /\ Between /\ [Next]_vars => Between'
    BY BetweenStep
  <1> QED
    BY <1>1, <1>2, InductiveInvariant, PTL DEF Spec

(* Whatever an instruction registers, it leaves no evaluated block over    *)
(* the start of another one, unless blocks overlap for one of the reasons  *)
(* of Disturbed: register_jump_target_block and the handlers cut what they *)
(* enter, and read_block ends a block where the next one starts.           *)
THEOREM OverlapsFollowDisturbances == Spec => OverlapsAreDisturbances
  <1>1. Inductive /\ Between /\ [Next]_vars =>
          [BlocksApart => BlocksApart' \/ Disturbed]_vars
    BY ApartStep
  <1> QED
    BY <1>1, InductiveInvariant, ReaderBetween, PTL DEF Spec, OverlapsAreDisturbances

(* insert_cblock refuses nothing that index_of_cblock_containing_position  *)
(* has looked up among blocks that are apart.                              *)
THEOREM RefusalsFollowDisturbances == Spec => RefusalsAreDisturbances
  <1>1. Inductive /\ Between /\ [Next]_vars =>
          [phase # "failed" /\ phase' = "failed" =>
             EnteredInside \/ Misled \/ Instr.op = "bad" \/ MapEmptied]_vars
    BY RefusalStep
  <1> QED
    BY <1>1, InductiveInvariant, ReaderBetween, PTL DEF Spec, RefusalsAreDisturbances

LEMMA InitApart == Init => BlocksApart
  <1> SUFFICES ASSUME Init PROVE BlocksApart
    OBVIOUS
  <1>1. Inductive
    BY InitInductive
  <1>2. \A b \in Word : b # prog.entry => blocks[b] = None
    <2>1. blocks = Insert([a \in Word |-> None], prog.entry, OS, st)
      BY DEF Init
    <2>2. prog.entry \notin Listed([a \in Word |-> None])
      BY DEF Listed
    <2> QED
      BY <2>1, <2>2 DEF Insert
  <1>3. \A a \in Listed(blocks) : a = prog.entry /\ a \in Int
    BY <1>2, ConstantsAssumption DEF Listed, Word
  <1> QED
    BY <1>3 DEF BlocksApart

(* The blocks of a result that was completed do not overlap when the image *)
(* is entered at its instructions and has no interrupt handlers behind its *)
(* calls, so that no step is disturbed: the result blocks can be dumped    *)
(* one after the other.                                                    *)
THEOREM UndisturbedBlocksAreDisjoint ==
  Spec /\ NeverDisturbed => [](loop <= Limit => DisjointBlocks)
  <1>1. Inductive /\ Between /\ BlocksApart /\ [Next]_vars /\ [~Disturbed]_vars => BlocksApart'
    BY ApartStep
  <1>2. Inductive /\ BlocksApart => (loop <= Limit => DisjointBlocks)
    BY DEF Inductive, NothingPending, BlocksApart, DisjointBlocks, Reading
  <1> QED
    BY <1>1, <1>2, InitApart, InductiveInvariant, ReaderBetween, PTL
    DEF Spec, NeverDisturbed

(* Nor is such an image given up, as long as it has no opcode that is      *)
(* answered by return 1 and no store empties the map of values.            *)
THEOREM UndisturbedIsNotRefused ==
  Spec /\ NeverDisturbed /\ [](Decoding => Instr.op # "bad" /\ ~MapEmptied) => []NeverRefused
  <1>1. Init => NeverRefused
    BY DEF Init, NeverRefused
  <1>2. /\ Inductive /\ Between /\ NeverRefused /\ [Next]_vars /\ [~Disturbed]_vars
        /\ (Decoding => Instr.op # "bad" /\ ~MapEmptied)
        => NeverRefused'
    BY RefusalStep DEF NeverRefused, Disturbed, vars
  <1> QED
    BY <1>1, <1>2, InductiveInvariant, ReaderBetween, PTL DEF Spec, NeverDisturbed

=============================================================================

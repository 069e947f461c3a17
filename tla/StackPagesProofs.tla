-------------------------- MODULE StackPagesProofs --------------------------
(***************************************************************************)
(* That the stacks of stack.c are those of IdealStack, whatever the size   *)
(* of a page: what is read from the top does not depend on the pages.      *)
(***************************************************************************)
EXTENDS StackPages, ProofFacts

-----------------------------------------------------------------------------
(* A stack as it is read from its top.                                     *)

Proper(s) ==
  StackRecord(s) /\ s = [pages |-> s.pages, top |-> s.top, words |-> s.words]

(* What stands at a depth, and what is read there.                         *)
At(s, i) == IF s.top + i < Words(s) THEN s.words[s.top + i] ELSE NotKnown

Read(cell) == IF cell \in KnownWord THEN cell[1] ELSE NotKnown

LEMMA StackFacts ==
  ASSUME NEW s, Proper(s)
  PROVE  /\ s.pages \in Nat /\ Words(s) \in Nat /\ PageWords \in Nat \ {0}
         /\ s.top \in 0..Words(s) /\ s.top \in Nat
         /\ s.words \in [0..(Words(s) - 1) -> Cell]
         /\ DOMAIN s.words = 0..(Words(s) - 1)
         /\ Live(s) \in Nat /\ Live(s) = Words(s) - s.top
<1>1. s.pages \in Nat /\ PageWords \in Nat \ {0}
  BY StackAssumption DEF Proper, StackRecord
<1>2. Words(s) \in Nat
  BY <1>1 DEF Words
<1> QED
  BY <1>1, <1>2 DEF Proper, StackRecord, Live

LEMMA CellKinds ==
  /\ NotKnown \notin KnownWord /\ Merged \notin KnownWord /\ NotKnown # Merged
  /\ NotKnown \in Cell /\ Merged \in Cell
  /\ \A cell \in KnownWord : cell \in Cell /\ cell[1] \in StackValue
  BY StackAssumption DEF KnownWord, Cell

LEMMA CellAt ==
  ASSUME NEW s, Proper(s), NEW i \in Nat
  PROVE  /\ At(s, i) \in Cell
         /\ i >= Live(s) => At(s, i) = NotKnown
         /\ WordDefined(s, s.top + i) <=> At(s, i) \in KnownWord
         /\ DefinedOrMerged(s, s.top + i) <=> At(s, i) # NotKnown
<1>1. /\ Words(s) \in Nat /\ s.top \in Nat /\ Live(s) = Words(s) - s.top
      /\ s.words \in [0..(Words(s) - 1) -> Cell]
  BY StackFacts
<1>2. CASE s.top + i < Words(s)
  <2>1. s.top + i \in 0..(Words(s) - 1)
    BY <1>1, <1>2
  <2> QED
    BY <1>1, <1>2, <2>1 DEF At, WordDefined, DefinedOrMerged
<1>3. CASE ~ (s.top + i < Words(s))
  BY <1>1, <1>3, CellKinds DEF At, WordDefined, DefinedOrMerged
<1> QED
  BY <1>2, <1>3

LEMMA SameWordAt ==
  ASSUME NEW s, NEW o, Proper(s), Proper(o), NEW i \in Nat
  PROVE  SameWord(s, o, i) <=> At(s, i) \in KnownWord /\ At(o, i) = At(s, i)
<1>1. /\ WordDefined(s, s.top + i) <=> At(s, i) \in KnownWord
      /\ WordDefined(o, o.top + i) <=> At(o, i) \in KnownWord
  BY CellAt
<1>2. WordDefined(s, s.top + i) => At(s, i) = s.words[s.top + i]
  BY DEF WordDefined, At
<1>3. WordDefined(o, o.top + i) => At(o, i) = o.words[o.top + i]
  BY DEF WordDefined, At
<1> QED
  BY <1>1, <1>2, <1>3 DEF SameWord

LEMMA EntriesRead ==
  ASSUME NEW s, Proper(s)
  PROVE  /\ KnownEntries(s) = [i \in 0..(MaxWords - 1) |-> Read(At(s, i))]
         /\ KnownEntries(s) \in PlainStack!Stack
<1>1. MaxWords \in Nat
  BY StackAssumption
<1>2. ASSUME NEW i \in 0..(MaxWords - 1)
      PROVE  /\ (IF WordDefined(s, s.top + i) THEN s.words[s.top + i][1] ELSE NotKnown)
                  = Read(At(s, i))
             /\ Read(At(s, i)) \in StackValue \cup {NotKnown}
  <2>1. i \in Nat
    OBVIOUS
  <2>2. WordDefined(s, s.top + i) <=> At(s, i) \in KnownWord
    BY <2>1, CellAt
  <2>3. WordDefined(s, s.top + i) => At(s, i) = s.words[s.top + i]
    BY DEF WordDefined, At
  <2>4. At(s, i) \in KnownWord => At(s, i)[1] \in StackValue
    BY CellKinds
  <2> QED
    BY <2>2, <2>3, <2>4 DEF Read
<1>3. KnownEntries(s) = [i \in 0..(MaxWords - 1) |-> Read(At(s, i))]
  BY <1>2 DEF KnownEntries
<1> QED
  BY <1>2, <1>3 DEF PlainStack!Stack, PlainStack!Entry

-----------------------------------------------------------------------------
(* Pages.                                                                  *)

LEMMA Pages ==
  ASSUME NEW n \in Nat
  PROVE  /\ (n + 1) * PageWords = n * PageWords + PageWords
         /\ n > 0 => (n - 1) * PageWords = n * PageWords - PageWords
         /\ \A m \in Nat : (n + m) * PageWords = n * PageWords + m * PageWords
  BY StackAssumption

(* The pages that n words need.                                            *)
LEMMA PagesNeeded ==
  ASSUME NEW n \in Nat
  PROVE  /\ (n + PageWords - 1) \div PageWords \in Nat
         /\ ((n + PageWords - 1) \div PageWords) * PageWords \in Nat
         /\ ((n + PageWords - 1) \div PageWords) * PageWords >= n
<1> DEFINE q == (n + PageWords - 1) \div PageWords
<1>1. PageWords \in Nat \ {0} /\ n + PageWords - 1 \in Nat
  BY StackAssumption
<1>2. q \in Nat /\ n + PageWords - 1 = q * PageWords + ((n + PageWords - 1) % PageWords)
      /\ (n + PageWords - 1) % PageWords \in 0..(PageWords - 1)
  BY <1>1
<1> HIDE DEF q
<1>3. q * PageWords \in Nat
  BY <1>1, <1>2
<1>4. q * PageWords >= n
  BY <1>1, <1>2, <1>3
<1> QED
  BY <1>2, <1>3, <1>4 DEF q

(* A stack with the words of another, from the top on.                     *)
SameFromTop(t, s) ==
  Proper(t) /\ \A i \in Nat : At(t, i) = At(s, i)

LEMMA PageAtStart ==
  ASSUME NEW s, Proper(s)
  PROVE  /\ SameFromTop(AddPageAtStart(s), s)
         /\ Live(AddPageAtStart(s)) = Live(s)
         /\ AddPageAtStart(s).top = s.top + PageWords
<1> DEFINE t == AddPageAtStart(s)
           W == Words(s)
<1>1. /\ s.pages \in Nat /\ W \in Nat /\ PageWords \in Nat \ {0}
      /\ s.top \in 0..W /\ s.top \in Nat /\ Live(s) = W - s.top
      /\ s.words \in [0..(W - 1) -> Cell]
  BY StackFacts
<1>2. /\ t.pages = s.pages + 1 /\ t.top = s.top + PageWords
      /\ t.words = [w \in 0..(W + PageWords - 1) |->
                      IF w >= PageWords THEN s.words[w - PageWords] ELSE NotKnown]
      /\ t = [pages |-> t.pages, top |-> t.top, words |-> t.words]
  BY DEF AddPageAtStart
<1>3. Words(t) = W + PageWords
  BY <1>1, <1>2, Pages DEF Words
<1> HIDE DEF t, W
<1>4. t.words \in [0..(Words(t) - 1) -> Cell]
  <2>1. \A w \in 0..(W + PageWords - 1) : w >= PageWords => w - PageWords \in 0..(W - 1)
    BY <1>1
  <2> QED
    BY <1>1, <1>2, <1>3, <2>1, CellKinds
<1>5. Proper(t)
  BY <1>1, <1>2, <1>3, <1>4 DEF Proper, StackRecord
<1>6. ASSUME NEW i \in Nat PROVE At(t, i) = At(s, i)
  <2>1. t.top + i < Words(t) <=> s.top + i < W
    BY <1>1, <1>2, <1>3
  <2>2. CASE s.top + i < W
    <3>1. /\ t.top + i \in 0..(W + PageWords - 1) /\ t.top + i >= PageWords
          /\ (t.top + i) - PageWords = s.top + i
      <4>1. t.top = s.top + PageWords /\ s.top \in Nat /\ W \in Nat /\ PageWords \in Nat
        BY <1>1, <1>2
      <4> QED
        BY <2>2, <4>1
    <3>2. t.words[t.top + i] = s.words[s.top + i]
      BY <1>2, <3>1
    <3> QED
      BY <2>1, <2>2, <3>2 DEF At, W
  <2>3. CASE ~ (s.top + i < W)
    BY <2>1, <2>3 DEF At, W
  <2> QED
    BY <2>2, <2>3
<1>7. Live(t) = Live(s)
  BY <1>1, <1>2, <1>3 DEF Live, W
<1> QED
  BY <1>2, <1>5, <1>6, <1>7 DEF SameFromTop, t

LEMMA PagesAtEnd ==
  ASSUME NEW s, Proper(s), NEW count \in Nat
  PROVE  /\ SameFromTop(AddPagesAtEnd(s, count), s)
         /\ Words(AddPagesAtEnd(s, count)) = Words(s) + count * PageWords
         /\ AddPagesAtEnd(s, count).top = s.top
<1> DEFINE t == AddPagesAtEnd(s, count)
           W == Words(s)
           added == count * PageWords
<1>1. /\ s.pages \in Nat /\ W \in Nat /\ PageWords \in Nat \ {0}
      /\ s.top \in 0..W /\ s.top \in Nat /\ Live(s) = W - s.top
      /\ s.words \in [0..(W - 1) -> Cell]
      /\ s = [pages |-> s.pages, top |-> s.top, words |-> s.words]
  BY StackFacts DEF Proper
<1>2. /\ t.pages = s.pages + count /\ t.top = s.top
      /\ t.words = [w \in 0..(W + added - 1) |-> IF w < W THEN s.words[w] ELSE NotKnown]
      /\ t = [pages |-> t.pages, top |-> t.top, words |-> t.words]
  <2> DEFINE grown == [w \in 0..(W + added - 1) |-> IF w < W THEN s.words[w] ELSE NotKnown]
  <2>1. t = [s EXCEPT !.pages = @ + count, !.words = grown]
    BY DEF AddPagesAtEnd
  <2> HIDE DEF grown, t
  <2>2. t = [pages |-> s.pages + count, top |-> s.top, words |-> grown]
    BY <1>1, <2>1
  <2> QED
    BY <2>2 DEF grown
<1>3. Words(t) = W + added /\ added \in Nat
  <2>1. (s.pages + count) * PageWords = s.pages * PageWords + count * PageWords
    BY <1>1, Pages
  <2>2. count * PageWords \in Nat
    BY <1>1
  <2> HIDE DEF t
  <2> QED
    BY <1>2, <2>1, <2>2 DEF Words
<1> HIDE DEF t, W, added
<1>4. t.words \in [0..(Words(t) - 1) -> Cell]
  <2>1. \A w \in 0..(W + added - 1) : w < W => w \in 0..(W - 1)
    BY <1>1
  <2> QED
    BY <1>1, <1>2, <1>3, <2>1, CellKinds
<1>5. Proper(t)
  BY <1>1, <1>2, <1>3, <1>4 DEF Proper, StackRecord
<1>6. ASSUME NEW i \in Nat PROVE At(t, i) = At(s, i)
  <2>1. CASE s.top + i < W + added
    <3>1. s.top + i \in 0..(W + added - 1)
      BY <1>1, <1>3, <2>1
    <3>2. At(t, i) = IF s.top + i < W THEN s.words[s.top + i] ELSE NotKnown
      BY <1>2, <1>3, <2>1, <3>1 DEF At
    <3> QED
      BY <3>2 DEF At, W
  <2>2. CASE ~ (s.top + i < W + added)
    <3>1. ~ (s.top + i < W)
      BY <1>1, <1>3, <2>2
    <3> QED
      BY <1>2, <1>3, <2>2, <3>1 DEF At, W
  <2> QED
    BY <2>1, <2>2
<1> QED
  BY <1>2, <1>3, <1>5, <1>6 DEF SameFromTop, t, W, added

LEMMA PageRemoved ==
  ASSUME NEW s, Proper(s), s.top >= PageWords
  PROVE  /\ SameFromTop(RemovePageAtStart(s), s)
         /\ Live(RemovePageAtStart(s)) = Live(s)
<1> DEFINE t == RemovePageAtStart(s)
           W == Words(s)
<1>1. /\ s.pages \in Nat /\ W \in Nat /\ PageWords \in Nat \ {0}
      /\ s.top \in 0..W /\ s.top \in Nat /\ Live(s) = W - s.top
      /\ s.words \in [0..(W - 1) -> Cell]
  BY StackFacts
<1>2. /\ t.pages = s.pages - 1 /\ t.top = s.top - PageWords
      /\ t.words = [w \in 0..(W - PageWords - 1) |-> s.words[w + PageWords]]
      /\ t = [pages |-> t.pages, top |-> t.top, words |-> t.words]
  BY DEF RemovePageAtStart
<1>3. s.pages > 0
  <2> SUFFICES ASSUME s.pages = 0 PROVE FALSE
    BY <1>1
  <2>1. W = 0
    BY <1>1 DEF Words
  <2> QED
    BY <1>1, <2>1
<1>4. Words(t) = W - PageWords
  BY <1>1, <1>2, <1>3, Pages DEF Words
<1> HIDE DEF t, W
<1>5. t.words \in [0..(Words(t) - 1) -> Cell]
  <2>1. \A w \in 0..(W - PageWords - 1) : w + PageWords \in 0..(W - 1)
    BY <1>1
  <2> QED
    BY <1>1, <1>2, <1>4, <2>1
<1>6. Proper(t)
  BY <1>1, <1>2, <1>3, <1>4, <1>5 DEF Proper, StackRecord
<1>7. ASSUME NEW i \in Nat PROVE At(t, i) = At(s, i)
  <2>1. t.top + i < Words(t) <=> s.top + i < W
    BY <1>1, <1>2, <1>4
  <2>2. CASE s.top + i < W
    <3>1. /\ t.top + i \in 0..(W - PageWords - 1)
          /\ (t.top + i) + PageWords = s.top + i
      BY <1>1, <1>2, <2>2
    <3>2. t.words[t.top + i] = s.words[s.top + i]
      BY <1>2, <3>1
    <3> QED
      BY <2>1, <2>2, <3>2 DEF At, W
  <2>3. CASE ~ (s.top + i < W)
    BY <2>1, <2>3 DEF At, W
  <2> QED
    BY <2>2, <2>3
<1>8. Live(t) = Live(s)
  BY <1>1, <1>2, <1>4 DEF Live, W
<1> QED
  BY <1>6, <1>7, <1>8 DEF SameFromTop, t

-----------------------------------------------------------------------------
(* The operations, as they are seen from the top.                          *)

(* A stack of which only the words in the array have changed.              *)
LEMMA Rewritten ==
  ASSUME NEW s, Proper(s), NEW top \in 0..Words(s),
         NEW words \in [0..(Words(s) - 1) -> Cell]
  PROVE  LET t == [pages |-> s.pages, top |-> top, words |-> words]
         IN  /\ Proper(t) /\ Words(t) = Words(s) /\ Live(t) = Words(s) - top
             /\ \A i \in Nat :
                  At(t, i) = IF top + i < Words(s) THEN words[top + i] ELSE NotKnown
<1> DEFINE t == [pages |-> s.pages, top |-> top, words |-> words]
<1>1. t.pages = s.pages /\ t.top = top /\ t.words = words
  OBVIOUS
<1>2. Words(t) = Words(s)
  BY <1>1 DEF Words
<1>3. s.pages \in Nat
  BY StackFacts
<1> HIDE DEF t
<1>4. t = [pages |-> t.pages, top |-> t.top, words |-> t.words]
  BY DEF t
<1>5. Proper(t)
  BY <1>1, <1>2, <1>3, <1>4 DEF Proper, StackRecord
<1> QED
  BY <1>1, <1>2, <1>5 DEF t, Live, At

LEMMA PushedCells ==
  ASSUME NEW s, Proper(s), NEW cell \in Cell
  PROVE  /\ Proper(Pushed(s, cell)) /\ Live(Pushed(s, cell)) = Live(s) + 1
         /\ \A i \in Nat \ {0} : At(Pushed(s, cell), i) = At(s, i - 1)
<1> DEFINE r == Room(s)
           words == [r.words EXCEPT ![r.top - 1] = cell]
           t == Pushed(s, cell)
<1>1. Proper(r) /\ Live(r) = Live(s) /\ r.top > 0 /\ \A i \in Nat : At(r, i) = At(s, i)
  <2>1. CASE s.top = 0
    <3>1. r = AddPageAtStart(s) /\ s.top + PageWords > 0
      BY <2>1, StackAssumption DEF Room
    <3> QED
      BY <3>1, PageAtStart DEF SameFromTop
  <2>2. CASE s.top # 0
    BY <2>2, StackFacts DEF Room
  <2> QED
    BY <2>1, <2>2
<1>2. t = [r EXCEPT !.top = @ - 1, !.words[r.top - 1] = cell]
  BY DEF Pushed
<1> HIDE DEF r, t
<1>3. /\ Words(r) \in Nat /\ r.top \in 0..Words(r) /\ Live(r) = Words(r) - r.top
      /\ r.words \in [0..(Words(r) - 1) -> Cell]
      /\ r = [pages |-> r.pages, top |-> r.top, words |-> r.words]
  BY <1>1, StackFacts DEF Proper
<1>4. t = [pages |-> r.pages, top |-> r.top - 1, words |-> words]
  BY <1>2, <1>3
<1>5. words \in [0..(Words(r) - 1) -> Cell]
  BY <1>3
<1>6. r.top - 1 \in 0..Words(r)
  BY <1>1, <1>3
<1>7. \A i \in Nat \ {0} : words[(r.top - 1) + i] = r.words[(r.top - 1) + i]
  BY <1>3, <1>6
<1> HIDE DEF words
<1>8. /\ Proper(t) /\ Live(t) = Words(r) - (r.top - 1)
      /\ \A i \in Nat : At(t, i) = IF (r.top - 1) + i < Words(r)
                                   THEN words[(r.top - 1) + i] ELSE NotKnown
  BY <1>1, <1>4, <1>5, <1>6, Rewritten
<1>9. ASSUME NEW i \in Nat \ {0} PROVE At(t, i) = At(s, i - 1)
  <2>1. i - 1 \in Nat /\ (r.top - 1) + i = r.top + (i - 1)
    BY <1>3
  <2>2. At(r, i - 1) = At(s, i - 1)
    BY <1>1, <2>1
  <2> QED
    BY <1>7, <1>8, <2>1, <2>2 DEF At
<1>10. Live(t) = Live(s) + 1
  BY <1>1, <1>3, <1>8
<1> QED
  BY <1>8, <1>9, <1>10 DEF t

LEMMA PoppedCells ==
  ASSUME NEW s, Proper(s)
  PROVE  /\ Proper(Popped(s)) /\ Live(Popped(s)) <= Live(s) /\ Live(Popped(s)) \in Nat
         /\ \A i \in Nat : At(Popped(s), i) = At(s, i + 1)
<1> DEFINE words == [s.words EXCEPT ![s.top] = NotKnown]
           p == [s EXCEPT !.top = @ + 1, !.words[s.top] = NotKnown]
<1>1. /\ Words(s) \in Nat /\ s.top \in 0..Words(s) /\ Live(s) = Words(s) - s.top
      /\ s.words \in [0..(Words(s) - 1) -> Cell] /\ PageWords \in Nat \ {0}
      /\ s = [pages |-> s.pages, top |-> s.top, words |-> s.words]
  BY StackFacts DEF Proper
<1>2. CASE s.top = Words(s)
  <2>1. Popped(s) = s /\ Live(s) = 0
    BY <1>1, <1>2 DEF Popped
  <2>2. \A i \in Nat : At(s, i) = NotKnown /\ At(s, i + 1) = NotKnown
    BY <2>1, CellAt
  <2> QED
    BY <2>1, <2>2
<1>3. CASE s.top # Words(s)
  <2>1. p = [pages |-> s.pages, top |-> s.top + 1, words |-> words]
    <3>1. s = [pages |-> s.pages, top |-> s.top, words |-> s.words]
      BY <1>1
    <3>2. p = [s EXCEPT !.top = @ + 1, !.words[s.top] = NotKnown]
      OBVIOUS
    <3> HIDE DEF p
    <3> QED
      BY <3>1, <3>2
  <2>2. words \in [0..(Words(s) - 1) -> Cell]
    BY <1>1, CellKinds
  <2>3. s.top + 1 \in 0..Words(s)
    BY <1>1, <1>3
  <2>4. \A i \in Nat : words[(s.top + 1) + i] = s.words[(s.top + 1) + i]
    BY <1>1
  <2>5. Popped(s) = IF p.top >= ShrinkThreshold THEN RemovePageAtStart(p) ELSE p
    BY <1>3 DEF Popped
  <2> HIDE DEF words, p
  <2>6. /\ Proper(p) /\ Live(p) = Words(s) - (s.top + 1)
        /\ \A i \in Nat : At(p, i) = IF (s.top + 1) + i < Words(s)
                                     THEN words[(s.top + 1) + i] ELSE NotKnown
    BY <2>1, <2>2, <2>3, Rewritten
  <2>7. ASSUME NEW i \in Nat PROVE At(p, i) = At(s, i + 1)
    <3>1. (s.top + 1) + i = s.top + (i + 1)
      BY <1>1
    <3> QED
      BY <2>4, <2>6, <3>1 DEF At
  <2>8. Live(p) \in Nat /\ Live(p) <= Live(s)
    BY <1>1, <2>3, <2>6
  <2>9. CASE p.top >= ShrinkThreshold
    <3>1. p.top \in Nat
      BY <2>6, StackFacts
    <3>2. p.top >= PageWords
      BY <1>1, <2>9, <3>1 DEF ShrinkThreshold
    <3>3. SameFromTop(RemovePageAtStart(p), p) /\ Live(RemovePageAtStart(p)) = Live(p)
      BY <2>6, <3>2, PageRemoved
    <3> QED
      BY <2>5, <2>7, <2>8, <2>9, <3>3 DEF SameFromTop
  <2>10. CASE ~ (p.top >= ShrinkThreshold)
    BY <2>5, <2>6, <2>7, <2>8, <2>10
  <2> QED
    BY <2>9, <2>10
<1> QED
  BY <1>2, <1>3

LEMMA GrownCells ==
  ASSUME NEW s, Proper(s), NEW w \in Nat
  PROVE  SameFromTop(Grown(s, w), s) /\ Grown(s, w).top = s.top
<1>1. Words(s) \in Nat
  BY StackFacts
<1>2. MissingPages(s, w) \in Nat
  <2>1. CASE w > Words(s)
    <3> DEFINE n == w - Words(s)
    <3>1. n \in Nat
      BY <1>1, <2>1
    <3>2. MissingPages(s, w) = (n + PageWords - 1) \div PageWords
      BY <2>1 DEF MissingPages
    <3> HIDE DEF n
    <3> QED
      BY <3>1, <3>2, PagesNeeded
  <2>2. CASE ~ (w > Words(s))
    BY <2>2 DEF MissingPages
  <2> QED
    BY <2>1, <2>2
<1> QED
  BY <1>2, PagesAtEnd DEF Grown

(* A word that is set is read; the bit that is cleared with it never is.   *)
LEMMA SetCells ==
  ASSUME NEW s, Proper(s), NEW i \in Nat, s.top + i < Words(s),
         NEW v \in StackValue, NEW bit \in BOOLEAN
  PROVE  /\ Proper(WordSet(s, s.top + i, v, bit))
         /\ Live(WordSet(s, s.top + i, v, bit)) = Live(s)
         /\ \A j \in Nat \ {i} :
              Read(At(WordSet(s, s.top + i, v, bit), j)) = Read(At(s, j))
<1> DEFINE w == s.top + i
           t == WordSet(s, w, v, bit)
           cell(j) == IF j = w THEN <<v, bit>> ELSE s.words[j]
           words == [j \in 0..(Words(s) - 1) |->
                       IF j = ClearedBit(w) /\ cell(j) \in KnownWord
                       THEN <<cell(j)[1], FALSE>> ELSE cell(j)]
<1>1. /\ Words(s) \in Nat /\ s.top \in 0..Words(s) /\ Live(s) = Words(s) - s.top
      /\ s.words \in [0..(Words(s) - 1) -> Cell] /\ DOMAIN s.words = 0..(Words(s) - 1)
      /\ s = [pages |-> s.pages, top |-> s.top, words |-> s.words]
  BY StackFacts DEF Proper
<1>2. t = [pages |-> s.pages, top |-> s.top, words |-> words]
  <2>1. t = [s EXCEPT !.words = words]
    BY <1>1 DEF WordSet
  <2> HIDE DEF words, t
  <2> QED
    BY <1>1, <2>1
<1>3. ASSUME NEW j \in 0..(Words(s) - 1)
      PROVE  cell(j) \in Cell /\ (j # w => cell(j) = s.words[j])
  <2>1. <<v, bit>> \in Cell
    BY DEF Cell, KnownWord
  <2> QED
    BY <1>1, <2>1
<1>4. words \in [0..(Words(s) - 1) -> Cell]
  <2>1. \A c \in KnownWord : <<c[1], FALSE>> \in Cell
    BY DEF Cell, KnownWord
  <2> HIDE DEF cell
  <2> QED
    BY <1>3, <2>1
<1>5. ASSUME NEW j \in 0..(Words(s) - 1), j # w
      PROVE  Read(words[j]) = Read(s.words[j])
  <2>1. cell(j) = s.words[j]
    BY <1>5
  <2> HIDE DEF cell
  <2>2. words[j] = IF j = ClearedBit(w) /\ cell(j) \in KnownWord
                   THEN <<cell(j)[1], FALSE>> ELSE cell(j)
    OBVIOUS
  <2>3. \A c \in KnownWord : <<c[1], FALSE>> \in KnownWord /\ <<c[1], FALSE>>[1] = c[1]
    BY DEF KnownWord
  <2> QED
    BY <2>1, <2>2, <2>3 DEF Read
<1> HIDE DEF words, t, cell
<1>6. /\ Proper(t) /\ Live(t) = Live(s)
      /\ \A j \in Nat : At(t, j) = IF s.top + j < Words(s) THEN words[s.top + j] ELSE NotKnown
  BY <1>1, <1>2, <1>4, Rewritten
<1>7. ASSUME NEW j \in Nat \ {i} PROVE Read(At(t, j)) = Read(At(s, j))
  <2>1. CASE s.top + j < Words(s)
    <3>1. s.top + j \in 0..(Words(s) - 1) /\ s.top + j # w
      BY <1>1, <2>1
    <3> QED
      BY <1>5, <1>6, <2>1, <3>1 DEF At
  <2>2. CASE ~ (s.top + j < Words(s))
    BY <1>6, <2>2 DEF At
  <2> QED
    BY <2>1, <2>2
<1> QED
  BY <1>6, <1>7 DEF t

LEMMA UndefinedCells ==
  ASSUME NEW s, Proper(s), NEW i \in Nat
  PROVE  /\ Proper(WordUndefined(s, s.top + i))
         /\ Live(WordUndefined(s, s.top + i)) = Live(s)
         /\ \A j \in Nat \ {i} : At(WordUndefined(s, s.top + i), j) = At(s, j)
<1> DEFINE w == s.top + i
           t == WordUndefined(s, w)
           words == [s.words EXCEPT ![w] = NotKnown]
<1>1. /\ Words(s) \in Nat /\ s.top \in 0..Words(s) /\ Live(s) = Words(s) - s.top
      /\ s.words \in [0..(Words(s) - 1) -> Cell]
      /\ s = [pages |-> s.pages, top |-> s.top, words |-> s.words]
  BY StackFacts DEF Proper
<1>2. CASE w < Words(s)
  <2>1. t = [pages |-> s.pages, top |-> s.top, words |-> words]
    <3>1. t = [s EXCEPT !.words[w] = NotKnown]
      BY <1>2 DEF WordUndefined
    <3> HIDE DEF t, w
    <3> QED
      BY <1>1, <3>1
  <2>2. words \in [0..(Words(s) - 1) -> Cell]
    BY <1>1, CellKinds
  <2>3. \A j \in Nat \ {i} : words[s.top + j] = s.words[s.top + j]
    BY <1>1
  <2> HIDE DEF words, t
  <2>4. /\ Proper(t) /\ Live(t) = Live(s)
        /\ \A j \in Nat : At(t, j) = IF s.top + j < Words(s) THEN words[s.top + j] ELSE NotKnown
    BY <1>1, <2>1, <2>2, Rewritten
  <2> QED
    BY <2>3, <2>4 DEF At, t
<1>3. CASE ~ (w < Words(s))
  BY <1>3 DEF WordUndefined
<1> QED
  BY <1>2, <1>3

-----------------------------------------------------------------------------
(* Merging.                                                                *)

(* No stack is known of below the required words.                          *)
LEMMA RequiredWords ==
  ASSUME NEW s, NEW o, Proper(s), Proper(o)
  PROVE  /\ Required(s, o) \in Nat
         /\ Required(s, o) <= Live(s) \/ Required(s, o) <= Live(o)
         /\ \A i \in Nat : At(s, i) # NotKnown \/ At(o, i) # NotKnown => i < Required(s, o)
<1> DEFINE known(j) == DefinedOrMerged(s, s.top + j) \/ DefinedOrMerged(o, o.top + j)
           depth == Max({Live(s), Live(o)})
           S == {0} \cup {i + 1 : i \in {j \in 0..(depth - 1) : known(j)}}
<1>1. Live(s) \in Nat /\ Live(o) \in Nat
  BY StackFacts
<1>2. depth \in {Live(s), Live(o)} /\ depth >= Live(s) /\ depth >= Live(o)
  <2>1. \E x \in {Live(s), Live(o)} : \A y \in {Live(s), Live(o)} : x >= y
    BY <1>1
  <2> QED
    BY <2>1 DEF Max
<1>3. Required(s, o) = Max(S)
  BY DEF Required
<1>4. \A j \in Nat : known(j) <=> At(s, j) # NotKnown \/ At(o, j) # NotKnown
  BY CellAt
<1> HIDE DEF known, depth
<1>5. depth \in Nat
  BY <1>1, <1>2
<1>6. S \in SUBSET (0..depth) /\ S # {}
  BY <1>5
<1>7. Max(S) \in S /\ Max(S) \in 0..depth /\ \A y \in S : Max(S) >= y
  <2> HIDE DEF S
  <2>1. PICK x \in S : \A y \in S : y <= x
    BY <1>5, <1>6, Greatest
  <2>2. \A y \in S : x >= y
    BY <1>5, <1>6, <2>1
  <2>3. Max(S) \in S /\ \A y \in S : Max(S) >= y
    BY <2>1, <2>2 DEF Max
  <2> QED
    BY <1>6, <2>3, Zenon
<1>8. ASSUME NEW i \in Nat, At(s, i) # NotKnown \/ At(o, i) # NotKnown
      PROVE  i < Max(S)
  <2>1. i < Live(s) \/ i < Live(o)
    BY <1>1, <1>8, CellAt
  <2>2. i \in 0..(depth - 1) /\ known(i)
    BY <1>1, <1>2, <1>4, <1>5, <1>8, <2>1
  <2>3. i + 1 \in S
    BY <2>2
  <2> HIDE DEF S
  <2>4. Max(S) \in Nat /\ Max(S) >= i + 1
    BY <1>5, <1>7, <2>3
  <2> QED
    BY <2>4
<1>9. Max(S) \in Nat /\ Max(S) <= depth
  <2> HIDE DEF S
  <2> QED
    BY <1>5, <1>7
<1> HIDE DEF S
<1> QED
  BY <1>1, <1>2, <1>3, <1>8, <1>9

(* What is read after a merge is what both stacks know.                    *)
LEMMA MergedCells ==
  ASSUME NEW s, NEW o, Proper(s), Proper(o)
  PROVE  /\ Proper(MergeStacks(s, o)) /\ Live(MergeStacks(s, o)) = Required(s, o)
         /\ \A i \in Nat :
              /\ At(MergeStacks(s, o), i) \in KnownWord =>
                   At(s, i) = At(MergeStacks(s, o), i) /\ At(o, i) = At(MergeStacks(s, o), i)
              /\ At(s, i) \in KnownWord /\ At(o, i) = At(s, i) =>
                   At(MergeStacks(s, o), i) = At(s, i)
<1> DEFINE t == MergeStacks(s, o)
           required == Required(s, o)
           pages == (required + PageWords - 1) \div PageWords
           W == pages * PageWords
<1>1. required \in Nat
  BY RequiredWords
<1>2. pages \in Nat /\ W \in Nat /\ W >= required
  <2> HIDE DEF required
  <2> QED
    BY <1>1, PagesNeeded
<1>3. /\ t.pages = pages /\ t.top = W - required
      /\ t.words = [w \in 0..(W - 1) |->
                      IF w < W - required THEN NotKnown ELSE MergedWord(s, o, w - (W - required))]
      /\ t = [pages |-> t.pages, top |-> t.top, words |-> t.words]
  BY DEF MergeStacks
<1>4. Words(t) = W
  <2> HIDE DEF pages, t
  <2> QED
    BY <1>3 DEF Words
<1> HIDE DEF t, required, W
<1> HIDE DEF pages
<1>5. ASSUME NEW i \in Nat
      PROVE  /\ MergedWord(s, o, i) \in Cell
             /\ MergedWord(s, o, i) \in KnownWord =>
                  At(s, i) = MergedWord(s, o, i) /\ At(o, i) = MergedWord(s, o, i)
             /\ At(s, i) \in KnownWord /\ At(o, i) = At(s, i) =>
                  MergedWord(s, o, i) = At(s, i)
  <2>1. SameWord(s, o, i) <=> At(s, i) \in KnownWord /\ At(o, i) = At(s, i)
    BY SameWordAt
  <2>2. CASE SameWord(s, o, i)
    <3>1. MergedWord(s, o, i) = At(s, i)
      BY <2>2 DEF MergedWord, At, SameWord, WordDefined
    <3> QED
      BY <2>1, <2>2, <3>1, CellKinds
  <2>3. CASE ~ SameWord(s, o, i)
    <3>1. MergedWord(s, o, i) \in {Merged, NotKnown}
      BY <2>3 DEF MergedWord
    <3> QED
      BY <2>1, <2>3, <3>1, CellKinds
  <2> QED
    BY <2>2, <2>3
<1>6. t.words \in [0..(Words(t) - 1) -> Cell]
  <2>1. \A w \in 0..(W - 1) : w < W - required \/ w - (W - required) \in Nat
    BY <1>1, <1>2
  <2> QED
    BY <1>3, <1>4, <1>5, <2>1, CellKinds
<1>7. Proper(t)
  <2>1. t.pages \in Nat /\ t.top \in 0..Words(t)
    BY <1>1, <1>2, <1>3, <1>4
  <2> QED
    BY <1>3, <1>6, <2>1 DEF Proper, StackRecord
<1>8. Live(t) = required
  BY <1>1, <1>2, <1>3, <1>4 DEF Live
<1>9. \A i \in Nat : At(t, i) = IF i < required THEN MergedWord(s, o, i) ELSE NotKnown
  <2> SUFFICES ASSUME NEW i \in Nat
               PROVE  At(t, i) = IF i < required THEN MergedWord(s, o, i) ELSE NotKnown
    OBVIOUS
  <2>1. t.top + i < Words(t) <=> i < required
    BY <1>1, <1>2, <1>3, <1>4
  <2>2. CASE i < required
    <3>1. /\ t.top + i \in 0..(W - 1) /\ ~ (t.top + i < W - required)
          /\ (t.top + i) - (W - required) = i
      BY <1>1, <1>2, <1>3, <2>2
    <3>2. t.words[t.top + i] = MergedWord(s, o, i)
      BY <1>3, <3>1
    <3> QED
      BY <2>1, <2>2, <3>2 DEF At
  <2>3. CASE ~ (i < required)
    BY <2>1, <2>3 DEF At
  <2> QED
    BY <2>2, <2>3
<1>10. ASSUME NEW i \in Nat
       PROVE  /\ At(t, i) \in KnownWord =>
                   At(s, i) = At(t, i) /\ At(o, i) = At(t, i)
              /\ At(s, i) \in KnownWord /\ At(o, i) = At(s, i) => At(t, i) = At(s, i)
  <2>1. CASE i < required
    BY <1>5, <1>9, <2>1
  <2>2. CASE ~ (i < required)
    <3>1. At(s, i) = NotKnown /\ At(t, i) = NotKnown
      BY <1>9, <2>2, RequiredWords DEF required
    <3> QED
      BY <3>1, CellKinds
  <2> QED
    BY <2>1, <2>2
<1> QED
  BY <1>7, <1>8, <1>10 DEF t, required

-----------------------------------------------------------------------------
(* The steps.                                                              *)

(* TypeOK, and the bounds: no stack is deeper than what is told apart.     *)
StackInvariant ==
  /\ Proper(stack) /\ Live(stack) <= MaxWords
  /\ Proper(saved) /\ Live(saved) <= MaxWords
  /\ arrived \in BOOLEAN /\ overrun \in BOOLEAN

LEMMA StackStarts == StackInit => StackInvariant
<1> SUFFICES ASSUME StackInit PROVE StackInvariant
  OBVIOUS
<1> DEFINE s == EmptyStack
<1>1. s.pages = 0 /\ s.top = 0 /\ s.words = <<>> /\ s = [pages |-> 0, top |-> 0, words |-> <<>>]
  BY DEF EmptyStack
<1>2. Words(s) = 0
  BY <1>1, StackAssumption DEF Words
<1>3. <<>> \in [0..(0 - 1) -> Cell]
  <2>1. 0..(0 - 1) = {} /\ DOMAIN <<>> = {}
    OBVIOUS
  <2>2. <<>> = [x \in {} |-> x]
    OBVIOUS
  <2> QED
    BY <2>1, <2>2
<1> HIDE DEF s
<1>4. Proper(s)
  BY <1>1, <1>2, <1>3 DEF Proper, StackRecord
<1>5. Live(s) = 0
  BY <1>1, <1>2 DEF Live
<1>6. stack = s /\ saved = s /\ arrived = FALSE /\ overrun = FALSE
  BY DEF StackInit, s
<1>7. MaxWords >= 0
  BY StackAssumption
<1> QED
  BY <1>4, <1>5, <1>6, <1>7 DEF StackInvariant

(* What Working leaves of the rest.                                        *)
LEMMA WorkingLeaves ==
  ASSUME StackInvariant, Working, Proper(stack'), Live(stack') <= MaxWords
  PROVE  StackInvariant'
  BY DEF StackInvariant, Working, Live, Words, Proper, StackRecord

(* How the working stack and the stack of the origin are seen to change.   *)
LEMMA PushSeen ==
  ASSUME StackInvariant, Push
  PROVE  /\ Proper(stack') /\ Live(stack') <= MaxWords
         /\ \A i \in Nat \ {0} : At(stack', i) = At(stack, i - 1)
<1>1. PICK cell \in Cell : stack' = Pushed(stack, cell)
  <2>1. \A v \in StackValue : <<v, v \in Relatives>> \in Cell
    <3> SUFFICES ASSUME NEW v \in StackValue PROVE <<v, v \in Relatives>> \in Cell
      OBVIOUS
    <3>1. (v \in Relatives) \in BOOLEAN
      OBVIOUS
    <3> QED
      BY <3>1 DEF Cell, KnownWord
  <2> QED
    BY <2>1, CellKinds DEF Push
<1>2. Live(stack) \in Nat /\ MaxWords \in Nat /\ Proper(stack) /\ Live(stack) < MaxWords
  BY StackFacts, StackAssumption DEF StackInvariant, Push
<1>3. /\ Proper(Pushed(stack, cell)) /\ Live(Pushed(stack, cell)) = Live(stack) + 1
      /\ \A i \in Nat \ {0} : At(Pushed(stack, cell), i) = At(stack, i - 1)
  BY <1>2, PushedCells
<1>4. Live(Pushed(stack, cell)) <= MaxWords
  BY <1>2, <1>3
<1> QED
  BY <1>1, <1>3, <1>4

LEMMA PopSeen ==
  ASSUME StackInvariant, Pop
  PROVE  /\ Proper(stack') /\ Live(stack') <= MaxWords
         /\ \A i \in Nat : At(stack', i) = At(stack, i + 1)
<1>1. stack' = Popped(stack) /\ Proper(stack) /\ Live(stack) <= MaxWords
  BY DEF Pop, StackInvariant
<1>2. /\ Proper(Popped(stack)) /\ Live(Popped(stack)) <= Live(stack)
      /\ Live(Popped(stack)) \in Nat
      /\ \A i \in Nat : At(Popped(stack), i) = At(stack, i + 1)
  BY <1>1, PoppedCells
<1>3. Live(stack) \in Nat /\ MaxWords \in Nat
  BY <1>1, StackFacts, StackAssumption
<1>4. Live(Popped(stack)) <= MaxWords
  BY <1>1, <1>2, <1>3
<1> QED
  BY <1>1, <1>2, <1>4

LEMMA SetWordSeen ==
  ASSUME StackInvariant, SetWord
  PROVE  /\ Proper(stack') /\ Live(stack') <= MaxWords
         /\ \E i \in Nat : \A j \in Nat \ {i} : Read(At(stack', j)) = Read(At(stack, j))
         /\ UNCHANGED <<saved, arrived>> /\ overrun' \in BOOLEAN
<1>1. PICK i \in 0..MaxOffset : SetWordAt(i)
  BY DEF SetWord
<1>2. UNCHANGED <<saved, arrived>> /\ overrun \in BOOLEAN
  BY <1>1 DEF SetWordAt, StackInvariant
<1> DEFINE w == stack.top + i
           s == Grown(stack, w)
<1>3. i \in Nat /\ w \in Nat /\ stack.top \in Nat /\ Proper(stack) /\ Live(stack) <= MaxWords
  BY StackFacts, StackAssumption DEF StackInvariant
<1>4. SameFromTop(s, stack) /\ s.top = stack.top
  <2> HIDE DEF w
  <2> QED
    BY <1>3, GrownCells
<1>5. CASE w < Words(s)
  <2>1. PICK v \in Absolutes, bit \in BitsBefore(s, w) :
          stack' = WordSet(s, w, v, bit) /\ overrun' = overrun
    BY <1>1, <1>5 DEF SetWordAt
  <2>2. bit \in BOOLEAN
    BY DEF BitsBefore, WordDefined, KnownWord
  <2>3. s.top + i = w /\ Live(s) <= MaxWords /\ v \in StackValue /\ Proper(s)
    BY <1>1, <1>4 DEF StackValue, SameFromTop, SetWordAt
  <2> HIDE DEF s
  <2>4. /\ Proper(WordSet(s, s.top + i, v, bit))
        /\ Live(WordSet(s, s.top + i, v, bit)) = Live(s)
        /\ \A j \in Nat \ {i} : Read(At(WordSet(s, s.top + i, v, bit), j)) = Read(At(s, j))
    BY <1>3, <1>5, <2>2, <2>3, SetCells
  <2>5. /\ Proper(stack') /\ Live(stack') = Live(s)
        /\ \A j \in Nat \ {i} : Read(At(stack', j)) = Read(At(s, j))
    BY <2>1, <2>3, <2>4
  <2>6. \A j \in Nat \ {i} : Read(At(stack', j)) = Read(At(stack, j))
    BY <1>4, <2>5 DEF SameFromTop
  <2> QED
    BY <1>2, <1>3, <2>1, <2>3, <2>5, <2>6
<1>6. CASE ~ (w < Words(s))
  <2>1. stack' = stack /\ overrun' = TRUE
    BY <1>1, <1>6 DEF SetWordAt
  <2> QED
    BY <1>2, <1>3, <2>1
<1> QED
  BY <1>5, <1>6

LEMMA SetUndefinedSeen ==
  ASSUME StackInvariant, SetUndefined
  PROVE  /\ Proper(stack') /\ Live(stack') <= MaxWords
         /\ \E i \in Nat : \A j \in Nat \ {i} : At(stack', j) = At(stack, j)
<1>1. PICK i \in 0..MaxOffset : stack' = WordUndefined(stack, stack.top + i)
  BY DEF SetUndefined
<1>2. i \in Nat /\ Proper(stack) /\ Live(stack) <= MaxWords
  BY StackAssumption DEF StackInvariant
<1>3. /\ Proper(WordUndefined(stack, stack.top + i))
      /\ Live(WordUndefined(stack, stack.top + i)) = Live(stack)
      /\ \A j \in Nat \ {i} : At(WordUndefined(stack, stack.top + i), j) = At(stack, j)
  BY <1>2, UndefinedCells
<1> QED
  BY <1>1, <1>2, <1>3

LEMMA ArriveSeen ==
  ASSUME StackInvariant, StackArrives
  PROVE  /\ Proper(saved') /\ Live(saved') <= MaxWords /\ stack' = stack
         /\ \/ saved' = stack
            \/ saved' = MergeStacks(saved, stack)
            \/ saved' = saved /\ ~ StackChanges(saved, stack)
<1>1. /\ stack' = stack
      /\ \/ saved' = stack
         \/ saved' = MergeStacks(saved, stack)
         \/ saved' = saved /\ ~ StackChanges(saved, stack)
  BY DEF StackArrives
<1>2. /\ Proper(stack) /\ Live(stack) <= MaxWords /\ Live(stack) \in Nat
      /\ Proper(saved) /\ Live(saved) <= MaxWords /\ Live(saved) \in Nat
      /\ MaxWords \in Nat
  BY StackFacts, StackAssumption DEF StackInvariant
<1>3. Proper(MergeStacks(saved, stack)) /\ Live(MergeStacks(saved, stack)) <= MaxWords
  <2>1. Proper(MergeStacks(saved, stack)) /\ Live(MergeStacks(saved, stack)) = Required(saved, stack)
    BY <1>2, MergedCells
  <2>2. /\ Required(saved, stack) \in Nat
        /\ Required(saved, stack) <= Live(saved) \/ Required(saved, stack) <= Live(stack)
    BY <1>2, RequiredWords
  <2> QED
    BY <1>2, <2>1, <2>2
<1> QED
  BY <1>1, <1>2, <1>3

LEMMA StackStep == StackInvariant /\ [StackNext]_stackVars => StackInvariant'
<1> SUFFICES ASSUME StackInvariant, [StackNext]_stackVars PROVE StackInvariant'
  OBVIOUS
<1>1. CASE Push
  <2>1. Working
    BY <1>1 DEF Push
  <2> QED
    BY <1>1, <2>1, PushSeen, WorkingLeaves
<1>2. CASE Pop
  <2>1. Working
    BY <1>2 DEF Pop
  <2> QED
    BY <1>2, <2>1, PopSeen, WorkingLeaves
<1>3. CASE SetWord
  BY <1>3, SetWordSeen DEF StackInvariant, Live, Words, Proper, StackRecord
<1>4. CASE SetUndefined
  <2>1. Working
    BY <1>4 DEF SetUndefined
  <2> QED
    BY <1>4, <2>1, SetUndefinedSeen, WorkingLeaves
<1>5. CASE StackArrives
  <2>1. arrived' = TRUE /\ overrun' = overrun
    BY <1>5 DEF StackArrives
  <2> QED
    BY <1>5, <2>1, ArriveSeen DEF StackInvariant, Live, Words, Proper, StackRecord
<1>6. CASE ResumeStack
  BY <1>6 DEF ResumeStack, StackInvariant, Live, Words, Proper, StackRecord
<1>7. CASE UNCHANGED stackVars
  BY <1>7 DEF stackVars, StackInvariant, Live, Words, Proper, StackRecord
<1> QED
  BY <1>1, <1>2, <1>3, <1>4, <1>5, <1>6, <1>7 DEF StackNext

(* stack.c: the top never leaves the array and the array always has the    *)
(* words of its pages, however it grows, shrinks and is merged.            *)
THEOREM StacksStayInPages == StackSpec => []StackTypeOK
<1>1. StackInvariant => StackTypeOK
  BY DEF StackInvariant, StackTypeOK, Proper
<1> QED
  BY <1>1, StackStarts, StackStep, PTL DEF StackSpec

-----------------------------------------------------------------------------
(* The stacks without pages.                                               *)

LEMMA IdealStackInit == StackInit => PlainStack!Init
<1> SUFFICES ASSUME StackInit PROVE PlainStack!Init
  OBVIOUS
<1>1. stack = EmptyStack /\ saved = EmptyStack
  BY DEF StackInit
<1>2. \A i \in 0..(MaxWords - 1) : ~ WordDefined(EmptyStack, EmptyStack.top + i)
  BY StackAssumption DEF EmptyStack, WordDefined, Words
<1> QED
  BY <1>1, <1>2 DEF PlainStack!Init, PlainStack!Empty, KnownEntries

LEMMA IdealStackStep ==
  StackInvariant /\ StackInvariant' /\ [StackNext]_stackVars
    => [PlainStack!Next]_<<KnownEntries(stack), KnownEntries(saved)>>
<1> SUFFICES ASSUME StackInvariant, StackInvariant', [StackNext]_stackVars
             PROVE  [PlainStack!Next]_<<KnownEntries(stack), KnownEntries(saved)>>
  OBVIOUS
<1> DEFINE old == KnownEntries(stack)
           new == KnownEntries(stack')
           of == KnownEntries(saved)
           to == KnownEntries(saved')
           Depths == 0..(MaxWords - 1)
<1>0. Proper(stack) /\ Proper(saved) /\ Proper(stack') /\ Proper(saved') /\ MaxWords \in Nat
  BY StackAssumption DEF StackInvariant, Proper, StackRecord, Words
<1>1. /\ new \in PlainStack!Stack /\ to \in PlainStack!Stack
      /\ DOMAIN old = Depths /\ DOMAIN new = Depths
      /\ DOMAIN of = Depths /\ DOMAIN to = Depths
      /\ \A i \in Depths : /\ old[i] = Read(At(stack, i)) /\ new[i] = Read(At(stack', i))
                           /\ of[i] = Read(At(saved, i)) /\ to[i] = Read(At(saved', i))
  BY <1>0, EntriesRead DEF KnownEntries
<1>2. KnownEntries(stack)' = new /\ KnownEntries(saved)' = to
  BY DEF KnownEntries
<1> HIDE DEF old, new, of, to
<1>3. CASE Push
  <2>1. to = of
    BY <1>3 DEF Push, Working, of, to
  <2>2. \A i \in Depths \ {0} : new[i] = old[i - 1]
    <3> SUFFICES ASSUME NEW i \in Depths \ {0} PROVE new[i] = old[i - 1]
      OBVIOUS
    <3>1. i \in Nat \ {0} /\ i - 1 \in Depths
      BY <1>0
    <3>2. At(stack', i) = At(stack, i - 1)
      BY <1>3, <3>1, PushSeen
    <3> QED
      BY <1>1, <3>1, <3>2
  <2>3. PlainStack!Push
    BY <1>1, <1>2, <2>1, <2>2 DEF PlainStack!Push, old, of
  <2> QED
    BY <2>3 DEF PlainStack!Next
<1>4. CASE Pop
  <2>1. to = of
    BY <1>4 DEF Pop, Working, of, to
  <2>2. ASSUME NEW i \in Depths
        PROVE  new[i] = IF i + 1 \in Depths THEN old[i + 1] ELSE NotKnown
    <3>1. i \in Nat /\ i + 1 \in Nat /\ At(stack', i) = At(stack, i + 1)
      BY <1>4, PopSeen
    <3>2. CASE i + 1 \in Depths
      BY <1>1, <3>1, <3>2
    <3>3. CASE i + 1 \notin Depths
      <4>1. i + 1 = MaxWords
        BY <1>0, <3>3
      <4>2. i + 1 >= Live(stack)
        BY <4>1 DEF StackInvariant
      <4>3. At(stack, i + 1) = NotKnown
        BY <1>0, <3>1, <4>2, CellAt
      <4> QED
        BY <1>1, <3>1, <3>3, <4>3, CellKinds DEF Read
    <3> QED
      BY <3>2, <3>3
  <2>3. new \in [Depths -> StackValue \cup {NotKnown}]
    BY <1>1 DEF PlainStack!Stack, PlainStack!Entry
  <2>4. new = [i \in Depths |-> IF i + 1 \in Depths THEN old[i + 1] ELSE NotKnown]
    BY <2>2, <2>3
  <2>5. PlainStack!Pop
    BY <1>1, <1>2, <2>1, <2>4 DEF PlainStack!Pop, old, of
  <2> QED
    BY <2>5 DEF PlainStack!Next
<1>5. CASE SetWord \/ SetUndefined
  <2>1. to = of
    BY <1>5, SetWordSeen DEF SetUndefined, Working, of, to
  <2>2. PICK i \in Nat : \A j \in Nat \ {i} : Read(At(stack', j)) = Read(At(stack, j))
    BY <1>5, SetWordSeen, SetUndefinedSeen
  <2>3. \A j \in Depths \ {i} : new[j] = old[j]
    BY <1>1, <2>2
  <2>4. CASE i \in Depths
    <3>1. PlainStack!Put(i)
      BY <1>1, <1>2, <2>1, <2>3 DEF PlainStack!Put, old, of
    <3> QED
      BY <1>1, <2>4, <3>1 DEF PlainStack!Next, old
  <2>5. CASE i \notin Depths
    <3>1. new \in [Depths -> StackValue \cup {NotKnown}]
      BY <1>1 DEF PlainStack!Stack, PlainStack!Entry
    <3>2. old \in [Depths -> StackValue \cup {NotKnown}]
      BY <1>0, EntriesRead DEF PlainStack!Stack, PlainStack!Entry, old
    <3> HIDE DEF Depths
    <3>3. \A j \in Depths : new[j] = old[j]
      BY <2>3, <2>5
    <3>4. new = old
      BY <3>1, <3>2, <3>3
    <3> QED
      BY <1>2, <2>1, <3>4 DEF old, of
  <2> QED
    BY <2>4, <2>5
<1>6. CASE StackArrives
  <2>1. /\ stack' = stack
        /\ \/ saved' = stack
           \/ saved' = MergeStacks(saved, stack)
           \/ saved' = saved
    BY <1>6, ArriveSeen
  <2>2. new = old
    BY <2>1 DEF new, old
  <2>3. CASE saved' = stack
    <3>1. to = old
      BY <2>3 DEF to, old
    <3>2. PlainStack!Keep
      BY <1>2, <2>2, <3>1 DEF PlainStack!Keep, old
    <3> QED
      BY <3>2 DEF PlainStack!Next
  <2>4. CASE saved' = MergeStacks(saved, stack)
    <3>1. ASSUME NEW i \in Depths, to[i] # NotKnown
          PROVE  to[i] = of[i] /\ to[i] = old[i]
      <4>1. i \in Nat /\ to[i] = Read(At(saved', i))
        BY <1>1
      <4>2. At(saved', i) \in KnownWord
        BY <3>1, <4>1 DEF Read
      <4>3. At(saved, i) = At(saved', i) /\ At(stack, i) = At(saved', i)
        BY <1>0, <2>4, <4>1, <4>2, MergedCells
      <4> QED
        BY <1>1, <4>3
    <3>2. PlainStack!Agree
      BY <1>1, <1>2, <2>2, <3>1 DEF PlainStack!Agree, old, of
    <3> QED
      BY <3>2 DEF PlainStack!Next
  <2>5. CASE saved' = saved
    BY <2>1, <2>5
  <2> QED
    BY <2>1, <2>3, <2>4, <2>5
<1>7. CASE ResumeStack
  <2>1. stack' = saved /\ saved' = saved
    BY <1>7 DEF ResumeStack
  <2>2. PlainStack!Resume
    BY <2>1 DEF PlainStack!Resume
  <2> QED
    BY <2>2 DEF PlainStack!Next
<1>8. CASE UNCHANGED stackVars
  BY <1>8 DEF stackVars
<1> QED
  BY <1>3, <1>4, <1>5, <1>6, <1>7, <1>8 DEF StackNext

(* stack.c: however the array has grown, shrunk, been copied and merged,   *)
(* for any size of a page, the entries read from the top are the ones      *)
(* pushed, and the stack of an origin knows what all that arrived agree on.*)
THEOREM StackImplemented == StackSpec => ImplementsStack
  BY StackStarts, StackStep, IdealStackInit, IdealStackStep, PTL
  DEF StackSpec, ImplementsStack, PlainStack!Spec, PlainStack!vars

-----------------------------------------------------------------------------
(* Arriving again.                                                         *)

LEMMA NothingToChange ==
  ASSUME NEW s, NEW o, Proper(s), Proper(o),
         \A i \in Nat : At(s, i) \in KnownWord => At(o, i) = At(s, i)
  PROVE  ~ StackChanges(s, o)
<1> SUFFICES ASSUME NEW i \in 0..(Required(s, o) - 1),
                    WordDefined(s, s.top + i), ~ SameWord(s, o, i)
             PROVE  FALSE
  BY DEF StackChanges
<1>1. i \in Nat
  BY RequiredWords
<1> QED
  BY <1>1, CellAt, SameWordAt

LEMMA ArriveSettles == StackInvariant /\ StackArrives => ~ StackChanges(saved', stack')
<1> SUFFICES ASSUME StackInvariant, StackArrives PROVE ~ StackChanges(saved', stack')
  OBVIOUS
<1>1. /\ Proper(saved') /\ stack' = stack
      /\ \/ saved' = stack
         \/ saved' = MergeStacks(saved, stack)
         \/ saved' = saved /\ ~ StackChanges(saved, stack)
  BY ArriveSeen
<1>2. Proper(stack) /\ Proper(saved)
  BY DEF StackInvariant
<1>3. CASE saved' = stack
  BY <1>1, <1>2, <1>3, NothingToChange
<1>4. CASE saved' = MergeStacks(saved, stack)
  <2>1. \A i \in Nat : At(saved', i) \in KnownWord => At(stack, i) = At(saved', i)
    BY <1>2, <1>4, MergedCells
  <2> QED
    BY <1>1, <1>2, <2>1, NothingToChange
<1>5. CASE saved' = saved /\ ~ StackChanges(saved, stack)
  BY <1>1, <1>5
<1> QED
  BY <1>1, <1>3, <1>4, <1>5

(* stack.c: the stack that has arrived at a block changes nothing when it  *)
(* arrives again, so that a block is only read again for another one.      *)
THEOREM ArrivedStackSettles == StackSpec => ArrivalSettles
<1>1. StackInvariant /\ [StackNext]_stackVars => [StackArrives => ~ StackChanges(saved', stack')]_stackVars
  BY ArriveSettles
<1> QED
  BY <1>1, StackStarts, StackStep, PTL DEF StackSpec, ArrivalSettles

-----------------------------------------------------------------------------
(* Writes behind the end.                                                  *)

LEMMA WholePages ==
  ASSUME NEW n \in Nat
  PROVE  (n * PageWords) % PageWords = 0
<1> DEFINE p == PageWords
           q == (n * p) \div p
           r == (n * p) % p
<1>1. p \in Nat \ {0} /\ n * p \in Nat
  BY StackAssumption
<1>2. q \in Nat /\ r \in 0..(p - 1) /\ n * p = q * p + r
  BY <1>1
<1> HIDE DEF p, q, r
<1>3. r = (n - q) * p
  BY <1>1, <1>2
<1>4. ~ (n > q)
  <2> SUFFICES ASSUME n > q PROVE FALSE
    OBVIOUS
  <2>1. (n - q) * p >= p
    BY <1>1, <1>2
  <2> QED
    BY <1>1, <1>2, <1>3, <2>1
<1>5. (n - q) * p <= 0
  BY <1>1, <1>2, <1>4
<1>6. r = 0
  BY <1>1, <1>2, <1>3, <1>5
<1> QED
  BY <1>6 DEF p, r

LEMMA OverrunAtPage ==
  ASSUME StackInvariant, NEW i \in 0..MaxOffset, SetWordAt(i), overrun'
  PROVE  (stack.top + i) % PageWords = 0 /\ stack.top + i >= Words(stack)
<1> DEFINE w == stack.top + i
           W == Words(stack)
           missing == MissingPages(stack, w)
<1>1. /\ Proper(stack) /\ stack.pages \in Nat /\ W \in Nat /\ w \in Nat
      /\ PageWords \in Nat \ {0}
  BY StackFacts, StackAssumption DEF StackInvariant
<1>2. ~ (w < Words(Grown(stack, w)))
  BY DEF SetWordAt
<1> HIDE DEF w
<1>3. missing \in Nat /\ missing * PageWords \in Nat
      /\ (w > W => missing * PageWords >= w - W) /\ (w <= W => missing = 0)
  <2>1. CASE w > W
    <3>1. w - W \in Nat /\ missing = ((w - W) + PageWords - 1) \div PageWords
      BY <1>1, <2>1 DEF MissingPages
    <3> QED
      BY <1>1, <2>1, <3>1, PagesNeeded
  <2>2. CASE ~ (w > W)
    BY <1>1, <2>2 DEF MissingPages
  <2> QED
    BY <2>1, <2>2
<1>4. Words(Grown(stack, w)) = W + missing * PageWords
  BY <1>1, <1>3, PagesAtEnd DEF Grown
<1> HIDE DEF missing, W
<1>5. w = W + missing * PageWords
  BY <1>1, <1>2, <1>3, <1>4
<1>6. w = (stack.pages + missing) * PageWords /\ stack.pages + missing \in Nat
  BY <1>1, <1>3, <1>5, Pages DEF W, Words
<1>7. w % PageWords = 0
  BY <1>6, WholePages
<1>8. w >= W
  BY <1>1, <1>3, <1>5
<1> QED
  BY <1>7, <1>8 DEF w, W

(* stack.c:266-288: for any size of a page and any depth, the array is     *)
(* made long enough for a word, except for one that would be the first of  *)
(* a page: that one is written behind the end.                             *)
THEOREM OverrunsOnlyAtPages == StackSpec => OverrunOnlyAtPages
<1>1. StackInvariant /\ [StackNext]_stackVars =>
        [\A i \in 0..MaxOffset : SetWordAt(i) /\ overrun' =>
           (stack.top + i) % PageWords = 0 /\ stack.top + i >= Words(stack)]_stackVars
  BY OverrunAtPage
<1> QED
  BY <1>1, StackStarts, StackStep, PTL DEF StackSpec, OverrunOnlyAtPages

=============================================================================

-------------------------- MODULE PagedListProofs ---------------------------
(***************************************************************************)
(* Where the arrays of a list are written outside of their bounds: with    *)
(* one page more than the granularity in use, and never before.  That the  *)
(* searches find every item, and that a list is one of IdealList, however  *)
(* it has grown.                                                           *)
(***************************************************************************)
EXTENDS PagedList, ProofFacts

Run == ItemsPerPage * Granularity

(* Between the reallocation at the first item and the one at a full run of *)
(* pages the arrays have the room of the granularity, then one page more.  *)
RoomFollowsCount ==
  /\ room \in {0, Granularity, Granularity + 1}
  /\ room = Granularity + 1 => ItemCount >= Run
  /\ ItemCount > Run => room = Granularity + 1
  /\ ItemCount > 0 => room >= Granularity

ListInvariant == ListTypeOK /\ RoomFollowsCount /\ OutsideOnlyBeyond

-----------------------------------------------------------------------------
(* Division.                                                               *)

LEMMA Division ==
  ASSUME NEW d \in Nat \ {0}, NEW n \in Nat
  PROVE  /\ n \div d \in Nat /\ n % d \in 0..(d - 1)
         /\ n = d * (n \div d) + (n % d)
  OBVIOUS

LEMMA QuotientBound ==
  ASSUME NEW d \in Nat \ {0}, NEW n \in Nat, NEW m \in Nat, n <= d * m
  PROVE  n \div d <= m
  OBVIOUS

LEMMA QuotientOfProduct ==
  ASSUME NEW d \in Nat \ {0}, NEW m \in Nat
  PROVE  (d * m) \div d = m /\ (d * m) % d = 0
  OBVIOUS

LEMMA MultipleBelowDouble ==
  ASSUME NEW d \in Nat \ {0}, NEW n \in Nat, n < 2 * d, n % d = 0
  PROVE  n = 0 \/ n = d
  OBVIOUS

LEMMA ProductMonotonic ==
  ASSUME NEW d \in Nat, NEW a \in Nat, NEW b \in Nat, a <= b
  PROVE  d * a <= d * b
  OBVIOUS

-----------------------------------------------------------------------------
(* Facts about the state.                                                  *)

LEMMA RunIsLong ==
  /\ Run \in Nat \ {0}
  /\ ItemsPerPage * (Granularity + 1) < 2 * Run
  /\ ItemsPerPage * (Granularity + 1) = Run + ItemsPerPage
<1>1. ItemsPerPage \in Nat \ {0} /\ Granularity \in Nat /\ Granularity > 1
  BY ListAssumption
<1>2. Run \in Nat
  BY <1>1 DEF Run
<1>3. ItemsPerPage * 2 <= Run
  BY <1>1, ProductMonotonic DEF Run
<1>4. ItemsPerPage * (Granularity + 1) = Run + ItemsPerPage
  BY <1>1 DEF Run
<1> QED
  BY <1>1, <1>2, <1>3, <1>4

(* The arrays are reallocated for the first item and for the one behind a  *)
(* full run, and for no other.                                             *)
LEMMA RoomPrepared ==
  ASSUME ListInvariant
  PROVE  /\ ItemCount \in Nat
         /\ ItemCount <= ItemsPerPage * room
         /\ ItemCount <= ItemsPerPage * (Granularity + 1)
         /\ ItemCount = 0 => RoomToPrepare = Granularity
         /\ ItemCount = Run => RoomToPrepare = Granularity + 1
         /\ ItemCount \notin {0, Run} => RoomToPrepare = room
<1>1. /\ ItemsPerPage \in Nat \ {0} /\ Granularity \in Nat /\ Granularity > 1
      /\ ItemCount \in Nat /\ room \in Nat /\ Len(pages) \in Nat
  BY ListAssumption DEF ListInvariant, ListTypeOK, ItemCount
<1>2. ItemCount <= ItemsPerPage * room
  <2>1. ItemsPerPage * Len(pages) <= ItemsPerPage * room
    BY <1>1, ProductMonotonic DEF ListInvariant, ListTypeOK
  <2> QED
    BY <1>1, <2>1 DEF ListInvariant, ListTypeOK
<1>3. ItemCount <= ItemsPerPage * (Granularity + 1)
  <2>1. room <= Granularity + 1
    BY <1>1 DEF ListInvariant, RoomFollowsCount
  <2>2. ItemsPerPage * room <= ItemsPerPage * (Granularity + 1)
    BY <1>1, <2>1, ProductMonotonic
  <2> QED
    BY <1>1, <1>2, <2>2
<1>4. ItemCount < 2 * Run /\ Run \in Nat \ {0}
  BY <1>1, <1>3, RunIsLong
<1>5. CASE ItemCount = 0
  <2>1. 0 % Run = 0 /\ 0 \div Run = 0
    BY <1>4
  <2> QED
    BY <1>1, <1>2, <1>3, <1>4, <1>5, <2>1 DEF RoomToPrepare, Run
<1>6. CASE ItemCount = Run
  <2>1. Run % Run = 0 /\ Run \div Run = 1
    BY <1>4, QuotientOfProduct
  <2> QED
    BY <1>1, <1>2, <1>3, <1>4, <1>6, <2>1 DEF RoomToPrepare, Run
<1>7. CASE ItemCount \notin {0, Run}
  <2>1. ItemCount % Run # 0
    BY <1>1, <1>4, <1>7, MultipleBelowDouble
  <2> QED
    BY <1>1, <1>2, <1>3, <1>7, <2>1 DEF RoomToPrepare, Run
<1> QED
  BY <1>5, <1>6, <1>7

-----------------------------------------------------------------------------
(* The steps.                                                              *)

LEMMA ListInitInvariant == ListInit => ListInvariant
<1> SUFFICES ASSUME ListInit PROVE ListInvariant
  OBVIOUS
<1>1. /\ ItemCount = 0 /\ Len(pages) = 0 /\ room = 0
      /\ pages \in Seq(Page) /\ sorted \in Seq(Nat)
      /\ prepared = FALSE /\ outside = FALSE
  BY DEF ListInit, ItemCount
<1>2. ListTypeOK
  <2>1. ItemsPerPage * Len(pages) = 0 /\ Len(pages) <= room
    BY <1>1, ListAssumption
  <2> QED
    BY <1>1, <2>1 DEF ListTypeOK
<1>3. RoomFollowsCount
  BY <1>1, ListAssumption, RunIsLong DEF RoomFollowsCount
<1> QED
  BY <1>1, <1>2, <1>3 DEF ListInvariant, OutsideOnlyBeyond

LEMMA ListInitInvariantNext == ListInit' => ListInvariant'
  BY ListInitInvariant, PTL

LEMMA FilledPages ==
  ASSUME NEW ps \in Seq(Page), NEW k \in Keys
  PROVE  Fill(ps, k) \in Seq(Page) /\ Len(Fill(ps, k)) = Len(ps)
<1> DEFINE page == ItemCount \div ItemsPerPage + 1
           slot == ItemCount % ItemsPerPage
           filled == [ps[page] EXCEPT ![slot] = k]
<1>1. Fill(ps, k) = [ps EXCEPT ![page] = filled]
  BY DEF Fill
<1>2. page \in DOMAIN ps => ps[page] \in Page
  OBVIOUS
<1>3. page \in DOMAIN ps => filled \in Page
  BY <1>2 DEF Page
<1> HIDE DEF page, filled
<1> QED
  BY <1>1, <1>3, ExceptInSequence

(* A page that is not full has a slot left.                                *)
LEMMA ItemCountInPages ==
  ASSUME ListInvariant, PrepareInPage
  PROVE  ItemCount < ItemsPerPage * Len(pages)
<1>1. /\ ItemsPerPage \in Nat \ {0} /\ Len(pages) \in Nat /\ ItemCount \in Nat
      /\ ItemCount <= ItemsPerPage * Len(pages)
      /\ ItemCount % ItemsPerPage # 0
  BY ListAssumption
  DEF ListInvariant, ListTypeOK, ItemCount, PrepareInPage, PageNeeded
<1>2. (ItemsPerPage * Len(pages)) % ItemsPerPage = 0
  BY <1>1, QuotientOfProduct
<1> QED
  BY <1>1, <1>2

LEMMA NewPageHasRoom ==
  ASSUME ListInvariant, PageNeeded
  PROVE  /\ WithNewPage \in Seq(Page)
         /\ Len(WithNewPage) = ItemCount \div ItemsPerPage + 1
         /\ ItemCount \div ItemsPerPage \in 0..Len(pages)
         /\ ItemCount = ItemsPerPage * (ItemCount \div ItemsPerPage)
         /\ ItemCount < ItemsPerPage * Len(WithNewPage)
<1> DEFINE used == ItemCount \div ItemsPerPage
<1>1. /\ ItemsPerPage \in Nat \ {0} /\ ItemCount \in Nat /\ Len(pages) \in Nat
      /\ pages \in Seq(Page) /\ ItemCount <= ItemsPerPage * Len(pages)
  BY ListAssumption DEF ListInvariant, ListTypeOK, ItemCount
<1>2. used \in 0..Len(pages) /\ ItemCount = ItemsPerPage * used
  <2>1. ItemCount % ItemsPerPage = 0
    BY DEF PageNeeded
  <2>2. used <= Len(pages)
    BY <1>1, QuotientBound
  <2>3. used \in Nat /\ ItemCount = ItemsPerPage * used + (ItemCount % ItemsPerPage)
    BY <1>1, Division
  <2> QED
    BY <1>1, <2>1, <2>2, <2>3
<1>3. WithNewPage \in Seq(Page) /\ Len(WithNewPage) = used + 1
  <2>1. /\ SubSeq(pages, 1, used) \in Seq(Page)
        /\ Len(SubSeq(pages, 1, used)) = used
    BY <1>1, <1>2
  <2>2. [slot \in 0..(ItemsPerPage - 1) |-> Blank] \in Page
    BY DEF Page
  <2> QED
    BY <2>1, <2>2, <1>2 DEF WithNewPage
<1>4. ItemCount < ItemsPerPage * (used + 1)
  BY <1>1, <1>2
<1> QED
  BY <1>2, <1>3, <1>4

LEMMA PrepareInPagePreserves ==
  ASSUME ListInvariant, PrepareInPage
  PROVE  ListInvariant'
<1>1. PICK k \in Keys : pages' = Fill(pages, k)
  BY DEF PrepareInPage
<1>2. pages' \in Seq(Page) /\ Len(pages') = Len(pages)
  BY <1>1, FilledPages DEF ListInvariant, ListTypeOK
<1>3. ItemCount < ItemsPerPage * Len(pages)
  BY ItemCountInPages
<1> QED
  BY <1>2, <1>3
  DEF ListInvariant, ListTypeOK, RoomFollowsCount, OutsideOnlyBeyond, ItemCount,
      PrepareInPage

LEMMA PrepareInNewPagePreserves ==
  ASSUME ListInvariant, PrepareInNewPage
  PROVE  ListInvariant'
<1> DEFINE used == ItemCount \div ItemsPerPage
<1>1. /\ ItemsPerPage \in Nat \ {0} /\ Granularity \in Nat /\ Granularity > 1
      /\ ItemCount \in Nat /\ room \in Nat /\ Len(pages) \in Nat
      /\ pages \in Seq(Page)
      /\ ItemCount <= ItemsPerPage * Len(pages)
  BY ListAssumption DEF ListInvariant, ListTypeOK, ItemCount
<1>2. PageNeeded
  BY DEF PrepareInNewPage
<1>3. PICK k \in Keys : pages' = Fill(WithNewPage, k)
  BY DEF PrepareInNewPage
<1>4. /\ used \in Nat /\ WithNewPage \in Seq(Page) /\ Len(WithNewPage) = used + 1
      /\ ItemCount < ItemsPerPage * (used + 1)
  BY <1>1, <1>2, NewPageHasRoom
<1>5. pages' \in Seq(Page) /\ Len(pages') = used + 1
  BY <1>3, <1>4, FilledPages
<1>6. ItemCount < ItemsPerPage * (used + 1)
  BY <1>4
<1>7. room' = RoomToPrepare /\ used + 1 <= room' /\ room' \in Nat
  <2>1. RoomToPrepare \in Nat
    BY <1>1, RoomPrepared
  <2> QED
    BY <1>1, <1>4, <2>1 DEF PrepareInNewPage
<1>8. UNCHANGED <<sorted, outside>> /\ prepared' = TRUE /\ ItemCount' = ItemCount
  BY DEF PrepareInNewPage, ItemCount
<1>9. ListTypeOK'
  BY <1>1, <1>5, <1>6, <1>7, <1>8 DEF ListInvariant, ListTypeOK
<1>10. RoomFollowsCount'
  BY <1>1, <1>7, <1>8, RoomPrepared, RunIsLong
  DEF ListInvariant, RoomFollowsCount
<1> QED
  BY <1>8, <1>9, <1>10 DEF ListInvariant, OutsideOnlyBeyond

(* At the first item and behind a full run the arrays have just been       *)
(* reallocated; elsewhere all pages they have room for are used up, which  *)
(* they are with a full run, excluded, or with one page more.              *)
LEMMA PrepareOutsidePreserves ==
  ASSUME ListInvariant, PrepareOutside
  PROVE  ListInvariant'
<1> DEFINE used == ItemCount \div ItemsPerPage
<1>1. /\ ItemsPerPage \in Nat \ {0} /\ Granularity \in Nat /\ Granularity > 1
      /\ ItemCount \in Nat /\ room \in Nat
      /\ ItemCount <= ItemsPerPage * room
  BY ListAssumption, RoomPrepared DEF ListInvariant, ListTypeOK
<1>2. used \in Nat /\ ItemCount = ItemsPerPage * used /\ used <= room
  <2>1. ItemCount % ItemsPerPage = 0
    BY DEF PrepareOutside, PageNeeded
  <2>2. used <= room
    BY <1>1, QuotientBound
  <2>3. used \in Nat /\ ItemCount = ItemsPerPage * used + (ItemCount % ItemsPerPage)
    BY <1>1, Division
  <2> QED
    BY <1>1, <2>1, <2>2, <2>3
<1>3. room' = RoomToPrepare /\ used >= RoomToPrepare
  BY DEF PrepareOutside
<1>4. ItemCount # 0
  <2> SUFFICES ASSUME ItemCount = 0 PROVE FALSE
    OBVIOUS
  <2>1. used = 0
    BY <1>1
  <2> QED
    BY <1>1, <1>3, <2>1, RoomPrepared
<1>5. ItemCount # Run
  <2> SUFFICES ASSUME ItemCount = Run PROVE FALSE
    OBVIOUS
  <2>1. used = Granularity
    BY <1>1, QuotientOfProduct DEF Run
  <2> QED
    BY <1>1, <1>3, <2>1, RoomPrepared
<1>6. RoomToPrepare = room /\ used = room
  BY <1>1, <1>2, <1>3, <1>4, <1>5, RoomPrepared
<1>7. room # Granularity /\ room # 0
  BY <1>1, <1>2, <1>4, <1>5, <1>6 DEF Run
<1>8. ItemCount = ItemsPerPage * (Granularity + 1)
  BY <1>2, <1>6, <1>7 DEF ListInvariant, RoomFollowsCount
<1>9. UNCHANGED <<pages, sorted, prepared>> /\ outside' = TRUE
      /\ ItemCount' = ItemCount /\ room' = room
  BY <1>3, <1>6 DEF PrepareOutside, ItemCount
<1> QED
  BY <1>8, <1>9
  DEF ListInvariant, ListTypeOK, RoomFollowsCount, OutsideOnlyBeyond

LEMMA InsertPreserves ==
  ASSUME ListInvariant, Insert
  PROVE  ListInvariant'
<1>1. /\ ItemsPerPage \in Nat \ {0} /\ Granularity \in Nat /\ Granularity > 1
      /\ ItemCount \in Nat /\ room \in Nat /\ Len(pages) \in Nat
      /\ sorted \in Seq(Nat) /\ ItemCount = Len(sorted)
      /\ Len(pages) <= room
      /\ ItemCount < ItemsPerPage * Len(pages)
  BY ListAssumption DEF ListInvariant, ListTypeOK, ItemCount, Insert
<1>2. sorted' \in Seq(Nat) /\ ItemCount' \in {ItemCount, ItemCount + 1}
  <2>1. PICK place \in Place :
          sorted' = IF place.found THEN sorted ELSE InsertedAt(place.at)
    BY DEF Insert
  <2>2. place.at \in 0..Len(sorted)
    BY <1>1 DEF Place
  <2>3. /\ InsertedAt(place.at) \in Seq(Nat)
        /\ Len(InsertedAt(place.at)) = Len(sorted) + 1
    <3> DEFINE at == place.at
    <3>1. at \in 0..Len(sorted)
      BY <2>2
    <3> HIDE DEF at
    <3>2. InsertedAt(at) \in Seq(Nat) /\ Len(InsertedAt(at)) = Len(sorted) + 1
      <4>1. ItemCount \in Nat /\ sorted \in Seq(Nat) /\ at + 1 \in 1..(Len(sorted) + 1)
        BY <1>1, <3>1
      <4> QED
        BY <4>1, InsertedNumber DEF InsertedAt
    <3> QED
      BY <3>2 DEF at
  <2> QED
    BY <1>1, <2>1, <2>3 DEF ItemCount
<1>3. /\ pages' = pages /\ room' = room /\ outside' = outside
      /\ ~outside /\ prepared' = FALSE
  BY DEF Insert
<1>4. ListTypeOK'
  <2>1. ItemsPerPage * Len(pages) \in Nat
    BY <1>1
  <2>2. ItemCount' <= ItemsPerPage * Len(pages)
    BY <1>1, <1>2, <2>1
  <2>3. ItemCount' <= ItemsPerPage * Len(pages')
    BY <1>3, <2>2
  <2> QED
    BY <1>1, <1>2, <1>3, <2>3 DEF ListInvariant, ListTypeOK
<1>5. ItemCount = Run => room = Granularity + 1
  <2> SUFFICES ASSUME ItemCount = Run PROVE room = Granularity + 1
    OBVIOUS
  <2>1. ItemsPerPage * Len(pages) <= ItemsPerPage * room
    BY <1>1, ProductMonotonic
  <2>2. Run < ItemsPerPage * room
    <3>1. Run \in Nat /\ ItemsPerPage * room \in Nat /\ ItemsPerPage * Len(pages) \in Nat
      BY <1>1, RunIsLong
    <3> QED
      BY <1>1, <2>1, <3>1
  <2>3. room # Granularity /\ room # 0
    BY <1>1, <2>2, RunIsLong DEF Run
  <2> QED
    BY <2>3 DEF ListInvariant, RoomFollowsCount
<1>6. room # 0
  BY <1>1
<1>7. RoomFollowsCount'
  BY <1>1, <1>2, <1>3, <1>5, <1>6, RunIsLong
  DEF ListInvariant, RoomFollowsCount
<1> QED
  BY <1>3, <1>4, <1>7 DEF ListInvariant, OutsideOnlyBeyond

LEMMA ClearPreserves ==
  ASSUME ListInvariant, Clear
  PROVE  ListInvariant'
<1>1. ListInit'
  BY DEF ListInit, Clear
<1> QED
  BY <1>1, ListInitInvariantNext

-----------------------------------------------------------------------------

LEMMA ListStep == ListInvariant /\ [ListNext]_listVars => ListInvariant'
<1> SUFFICES ASSUME ListInvariant, [ListNext]_listVars PROVE ListInvariant'
  OBVIOUS
<1>1. CASE PrepareInPage
  BY <1>1, PrepareInPagePreserves
<1>2. CASE PrepareInNewPage
  BY <1>2, PrepareInNewPagePreserves
<1>3. CASE PrepareOutside
  BY <1>3, PrepareOutsidePreserves
<1>4. CASE Insert
  BY <1>4, InsertPreserves
<1>5. CASE Clear
  BY <1>5, ClearPreserves
<1>6. CASE UNCHANGED listVars
  BY <1>6
  DEF listVars, ListInvariant, ListTypeOK, RoomFollowsCount, OutsideOnlyBeyond,
      ItemCount
<1> QED
  BY <1>1, <1>2, <1>3, <1>4, <1>5, <1>6 DEF ListNext

(* slmacros.h: in every list, whatever the size of its pages, every item   *)
(* has a slot, every page a place in page_array and every item one in the  *)
(* sorted array, as long as nothing has been written outside of them.      *)
THEOREM ListFits == ListSpec => []ListTypeOK
<1>1. ListInvariant => ListTypeOK
  BY DEF ListInvariant
<1> QED
  BY <1>1, ListInitInvariant, ListStep, PTL DEF ListSpec

(* slmacros.h:99: nothing is written outside of the arrays before the list *)
(* has one page more than the granularity, and is asked for another one.   *)
THEOREM OutsideWithTheLastPage == ListSpec => []OutsideOnlyBeyond
<1>1. ListInvariant => OutsideOnlyBeyond
  BY DEF ListInvariant
<1> QED
  BY <1>1, ListInitInvariant, ListStep, PTL DEF ListSpec

-----------------------------------------------------------------------------
(* The searches.                                                           *)

(* The key of the item at a place of the sorted array.                     *)
Key(i) == KeyOf(sorted[i])

(* The sorted array has a pointer to every item, in the order of the keys. *)
Arranged ==
  /\ sorted \in Seq(0..(ItemCount - 1))
  /\ \A item \in 0..(ItemCount - 1) :
       KeyOf(item) \in Keys /\ \E i \in 1..ItemCount : sorted[i] = item
  /\ \A i, j \in 1..ItemCount : i < j => Key(i) < Key(j)
  /\ prepared => KeyOf(ItemCount) \in Keys

(* The searches halve what is left; the loops end with the gap between the *)
(* smaller and the greater keys, or at the item.                           *)
Probe(search, k, span) ==
  LET index == (span[1] + span[2]) \div 2
      this == KeyOf(sorted[index + 1])
  IN  IF span[2] <= span[1] THEN [found |-> FALSE, at |-> span[2]]
      ELSE CASE this < k -> search[<<index + 1, span[2]>>]
             [] this > k -> search[<<span[1], index>>]
             [] this = k -> [found |-> TRUE, at |-> index]

Within(gap, first, last) ==
  IF last <= first \/ gap > last THEN last
  ELSE IF gap < first THEN first ELSE gap

Answer(k, gap, first, last) ==
  IF /\ gap < ItemCount /\ Key(gap + 1) = k
     /\ first <= gap /\ gap < last
  THEN [found |-> TRUE, at |-> gap]
  ELSE [found |-> FALSE, at |-> Within(gap, first, last)]

(* What the loop answers for a part of the array does not depend on the    *)
(* half that is left aside.                                                *)
LEMMA AnswerOfHalf ==
  ASSUME ItemCount \in Nat, NEW k \in Int, NEW gap \in 0..ItemCount,
         \A i \in 1..ItemCount : Key(i) \in Int /\ (i <= gap <=> Key(i) < k),
         \A i \in 1..ItemCount : i > gap + 1 => Key(i) > k,
         NEW s, NEW span \in Spans,
         span[1] < span[2] =>
           \A h \in Spans : h[2] - h[1] < span[2] - span[1] => s[h] = Answer(k, gap, h[1], h[2])
  PROVE  Probe(s, k, span) = Answer(k, gap, span[1], span[2])
<1> DEFINE first == span[1]
           last == span[2]
           index == (first + last) \div 2
<1>1. first \in 0..ItemCount /\ last \in 0..ItemCount
  BY DEF Spans
<1>2. CASE last <= first
  BY <1>1, <1>2 DEF Probe, Answer, Within
<1>3. CASE first < last
  <2>1. index \in Nat /\ first <= index /\ index < last
    BY <1>1, <1>3
  <2> HIDE DEF index
  <2>2. Key(index + 1) \in Int /\ index + 1 \in 1..ItemCount
    BY <1>1, <2>1
  <2>3. CASE Key(index + 1) < k
    <3>1. <<index + 1, last>> \in Spans /\ last - (index + 1) < last - first
      BY <1>1, <2>1 DEF Spans
    <3>2. s[<<index + 1, last>>] = Answer(k, gap, index + 1, last)
      BY <1>3, <3>1
    <3>3. index + 1 <= gap
      BY <1>1, <2>1, <2>2, <2>3
    <3>4. Answer(k, gap, index + 1, last) = Answer(k, gap, first, last)
      <4>1. Within(gap, index + 1, last) = Within(gap, first, last)
        BY <1>1, <1>3, <2>1, <3>3 DEF Within
      <4>2. index + 1 <= gap <=> first <= gap
        BY <1>1, <2>1, <3>3
      <4> QED
        BY <4>1, <4>2 DEF Answer
    <3>5. Probe(s, k, span) = s[<<index + 1, last>>]
      BY <1>1, <1>3, <2>2, <2>3 DEF Probe, Key, index
    <3> QED
      BY <3>2, <3>4, <3>5
  <2>4. CASE Key(index + 1) > k
    <3>1. <<first, index>> \in Spans /\ index - first < last - first
      BY <1>1, <2>1 DEF Spans
    <3>2. s[<<first, index>>] = Answer(k, gap, first, index)
      BY <1>3, <3>1
    <3>3. gap <= index /\ (gap = index => Key(gap + 1) # k)
      BY <1>1, <2>1, <2>2, <2>4
    <3>4. Answer(k, gap, first, index) = Answer(k, gap, first, last)
      <4>1. Within(gap, first, index) = Within(gap, first, last)
        BY <1>1, <1>3, <2>1, <3>3 DEF Within
      <4>2. gap < last /\ (gap < index \/ gap = index)
        BY <1>1, <2>1, <3>3
      <4> QED
        BY <3>3, <4>1, <4>2 DEF Answer
    <3>5. Probe(s, k, span) = s[<<first, index>>]
      BY <1>1, <1>3, <2>2, <2>4 DEF Probe, Key, index
    <3> QED
      BY <3>2, <3>4, <3>5
  <2>5. CASE Key(index + 1) = k
    <3>1. gap = index
      BY <1>1, <2>1, <2>2, <2>5
    <3>2. Probe(s, k, span) = [found |-> TRUE, at |-> index]
      BY <1>1, <1>3, <2>2, <2>5 DEF Probe, Key, index
    <3> QED
      BY <1>1, <2>1, <2>2, <2>5, <3>1, <3>2 DEF Answer
  <2> QED
    BY <2>2, <2>3, <2>4, <2>5
<1> QED
  BY <1>1, <1>2, <1>3

(* The keys below k stand before the others.                               *)
LEMMA GapOf ==
  ASSUME Arranged, ListTypeOK, NEW k \in Int
  PROVE  \E gap \in 0..ItemCount :
           /\ \A i \in 1..ItemCount : Key(i) \in Int /\ (i <= gap <=> Key(i) < k)
           /\ \A i \in 1..ItemCount : i > gap + 1 => Key(i) > k
<1> DEFINE S == {i \in 1..ItemCount : Key(i) < k}
<1>1. ItemCount \in Nat /\ \A i \in 1..ItemCount : Key(i) \in Int
  <2>1. ItemCount = Len(sorted) /\ ItemCount \in Nat
    BY DEF ItemCount, ListTypeOK
  <2>2. \A i \in 1..ItemCount : sorted[i] \in 0..(ItemCount - 1)
    BY <2>1 DEF Arranged
  <2> QED
    BY <2>1, <2>2, ListAssumption DEF Arranged, Key
<1>2. \A i \in S : \A j \in 1..i : j \in S
  <2> SUFFICES ASSUME NEW i \in S, NEW j \in 1..i PROVE Key(j) < k
    BY <1>1
  <2>1. j = i \/ Key(j) < Key(i)
    BY <1>1 DEF Arranged
  <2> QED
    BY <1>1, <2>1
<1>3. PICK gap \in 0..ItemCount : \A i \in 1..ItemCount : i \in S <=> i <= gap
  <2>1. S \in SUBSET (1..ItemCount)
    OBVIOUS
  <2> HIDE DEF S
  <2> QED
    BY <1>1, <1>2, <2>1, InitialInterval
<1>4. ASSUME NEW i \in 1..ItemCount, i > gap + 1 PROVE Key(i) > k
  <2>1. gap + 1 \in 1..ItemCount /\ gap + 1 < i
    BY <1>1, <1>4
  <2>2. ~ (Key(gap + 1) < k) /\ Key(gap + 1) < Key(i)
    BY <1>1, <1>3, <2>1 DEF Arranged
  <2> QED
    BY <1>1, <2>1, <2>2
<1> QED
  BY <1>1, <1>3, <1>4

(* The loops of insert and index_of end at the item with the key or at its *)
(* gap.  The answers of all parts of the array make up a function that     *)
(* satisfies the recursion, so that the one chosen does; the shortest part *)
(* for which it answered otherwise would contradict it.                    *)
LEMMA SearchEnds ==
  ASSUME ItemCount \in Nat, NEW k \in Int, NEW gap \in 0..ItemCount,
         \A i \in 1..ItemCount : Key(i) \in Int /\ (i <= gap <=> Key(i) < k),
         \A i \in 1..ItemCount : i > gap + 1 => Key(i) > k
  PROVE  Search(k) = Answer(k, gap, 0, ItemCount)
<1> DEFINE search == CHOOSE f : f = [span \in Spans |-> Probe(f, k, span)]
           answers == [span \in Spans |-> Answer(k, gap, span[1], span[2])]
           wrong(span) == search[span] # Answer(k, gap, span[1], span[2])
           length(span) == IF span[2] <= span[1] THEN 0 ELSE span[2] - span[1]
           Lengths == {m \in Nat : \E span \in Spans : wrong(span) /\ length(span) = m}
<1>1. Search(k) = search[<<0, ItemCount>>]
  BY DEF Search, Probe
<1>2. answers = [span \in Spans |-> Probe(answers, k, span)]
  <2> SUFFICES ASSUME NEW span \in Spans
               PROVE  Answer(k, gap, span[1], span[2]) = Probe(answers, k, span)
    OBVIOUS
  <2>1. \A h \in Spans : answers[h] = Answer(k, gap, h[1], h[2])
    OBVIOUS
  <2> HIDE DEF answers
  <2> QED
    BY <2>1, AnswerOfHalf
<1>3. search = [span \in Spans |-> Probe(search, k, span)]
  <2> HIDE DEF answers
  <2> QED
    BY <1>2
<1>4. Lengths = {}
  <2> SUFFICES ASSUME Lengths # {} PROVE FALSE
    OBVIOUS
  <2> HIDE DEF search
  <2>1. PICK m \in Lengths : m \in Nat /\ \A l \in Lengths : m <= l
    <3>1. Lengths \in SUBSET Nat
      OBVIOUS
    <3> HIDE DEF Lengths
    <3> QED
      BY <3>1, Least
  <2>2. PICK span \in Spans : wrong(span) /\ length(span) = m
    OBVIOUS
  <2>3. span[1] \in 0..ItemCount /\ span[2] \in 0..ItemCount
    BY DEF Spans
  <2>4. ASSUME span[1] < span[2],
               NEW h \in Spans, h[2] - h[1] < span[2] - span[1]
        PROVE  search[h] = Answer(k, gap, h[1], h[2])
    <3>1. h[1] \in 0..ItemCount /\ h[2] \in 0..ItemCount
      BY DEF Spans
    <3>2. length(h) \in Nat /\ length(h) < m
      BY <2>2, <2>3, <2>4, <3>1
    <3>3. length(h) \notin Lengths
      <4> HIDE DEF Lengths, length
      <4> QED
        BY <2>1, <3>2
    <3> QED
      BY <3>2, <3>3
  <2>5. Probe(search, k, span) = Answer(k, gap, span[1], span[2])
    BY <2>4, AnswerOfHalf
  <2> QED
    BY <1>3, <2>2, <2>5
<1>5. <<0, ItemCount>> \in Spans
  BY DEF Spans
<1>6. search[<<0, ItemCount>>] = Answer(k, gap, 0, ItemCount)
  <2> HIDE DEF search
  <2> SUFFICES ASSUME wrong(<<0, ItemCount>>) PROVE FALSE
    OBVIOUS
  <2>1. length(<<0, ItemCount>>) \in Nat
    OBVIOUS
  <2>2. length(<<0, ItemCount>>) \in Lengths
    BY <1>5, <2>1
  <2> QED
    BY <1>4, <2>2
<1> QED
  BY <1>1, <1>6

(* So the searches of insert and index_of answer the item with the key, or *)
(* the number of the items before its place.                               *)
LEMMA SearchAnswers ==
  ASSUME Arranged, ListTypeOK, NEW k \in Int
  PROVE  /\ Search(k) \in Place
         /\ Search(k).found =>
              Search(k).at < ItemCount /\ Key(Search(k).at + 1) = k
         /\ ~ Search(k).found =>
              \A i \in 1..ItemCount : IF i <= Search(k).at THEN Key(i) < k ELSE Key(i) > k
<1>1. PICK gap \in 0..ItemCount :
        /\ \A i \in 1..ItemCount : Key(i) \in Int /\ (i <= gap <=> Key(i) < k)
        /\ \A i \in 1..ItemCount : i > gap + 1 => Key(i) > k
  BY GapOf
<1>2. ItemCount \in Nat
  BY DEF ItemCount, ListTypeOK
<1>3. Search(k) = Answer(k, gap, 0, ItemCount)
  BY <1>1, <1>2, SearchEnds
<1>4. CASE gap < ItemCount /\ Key(gap + 1) = k
  <2>1. Search(k) = [found |-> TRUE, at |-> gap]
    BY <1>2, <1>3, <1>4 DEF Answer
  <2> QED
    BY <1>4, <2>1 DEF Place
<1>5. CASE ~ (gap < ItemCount /\ Key(gap + 1) = k)
  <2>1. Search(k) = [found |-> FALSE, at |-> gap]
    <3>1. Within(gap, 0, ItemCount) = gap
      BY <1>2 DEF Within
    <3> QED
      BY <1>3, <1>5, <3>1 DEF Answer
  <2>2. ASSUME NEW i \in 1..ItemCount, i > gap PROVE Key(i) > k
    <3>1. CASE i = gap + 1
      BY <1>1, <1>2, <1>5, <2>2, <3>1
    <3>2. CASE i > gap + 1
      BY <1>1, <3>2
    <3> QED
      BY <1>2, <2>2, <3>1, <3>2
  <2> QED
    BY <1>1, <2>1, <2>2 DEF Place
<1> QED
  BY <1>4, <1>5

-----------------------------------------------------------------------------
(* The sorted array stays in order.                                        *)

(* The slot of an item, in an array of pages.                              *)
KeyIn(ps, item) == ps[item \div ItemsPerPage + 1][item % ItemsPerPage]

LEMMA SlotOfItem ==
  ASSUME NEW item \in Nat, NEW n \in Nat, item < ItemsPerPage * n
  PROVE  /\ item \div ItemsPerPage + 1 \in 1..n
         /\ item % ItemsPerPage \in 0..(ItemsPerPage - 1)
<1>1. ItemsPerPage \in Nat \ {0}
  BY ListAssumption
<1>2. /\ item \div ItemsPerPage \in Nat /\ item % ItemsPerPage \in 0..(ItemsPerPage - 1)
      /\ item = ItemsPerPage * (item \div ItemsPerPage) + (item % ItemsPerPage)
  BY <1>1, Division
<1> DEFINE page == item \div ItemsPerPage
<1>3. page < n
  <2> HIDE DEF page
  <2> SUFFICES ASSUME n <= page PROVE FALSE
    BY <1>2 DEF page
  <2>1. page \in Nat /\ ItemsPerPage * page <= item
    BY <1>1, <1>2 DEF page
  <2>2. ItemsPerPage * n <= ItemsPerPage * page
    BY <1>1, <2>1, ProductMonotonic
  <2> QED
    BY <1>1, <2>1, <2>2
<1> QED
  BY <1>2, <1>3

(* The slot that prepare_new answers is the one of no other item.          *)
LEMMA FilledKeys ==
  ASSUME NEW ps \in Seq(Page), NEW k \in Keys, ItemCount \in Nat,
         ItemCount < ItemsPerPage * Len(ps),
         NEW item \in 0..ItemCount
  PROVE  KeyIn(Fill(ps, k), item) = IF item = ItemCount THEN k ELSE KeyIn(ps, item)
<1> DEFINE page(i) == i \div ItemsPerPage + 1
           slot(i) == i % ItemsPerPage
<1>1. ItemsPerPage \in Nat \ {0} /\ item \in Nat /\ Len(ps) \in Nat
  BY ListAssumption
<1>2. /\ page(item) \in DOMAIN ps /\ page(ItemCount) \in DOMAIN ps
      /\ slot(item) \in 0..(ItemsPerPage - 1)
      /\ slot(ItemCount) \in 0..(ItemsPerPage - 1)
  <2>1. item < ItemsPerPage * Len(ps) /\ DOMAIN ps = 1..Len(ps)
    <3>1. ItemsPerPage * Len(ps) \in Nat
      BY <1>1
    <3> QED
      BY <1>1, <3>1
  <2>2. page(item) \in 1..Len(ps) /\ slot(item) \in 0..(ItemsPerPage - 1)
    BY <1>1, <2>1, SlotOfItem, Zenon
  <2>3. page(ItemCount) \in 1..Len(ps) /\ slot(ItemCount) \in 0..(ItemsPerPage - 1)
    BY <1>1, SlotOfItem, Zenon
  <2> QED
    BY <2>1, <2>2, <2>3
<1>3. page(item) = page(ItemCount) /\ slot(item) = slot(ItemCount) => item = ItemCount
  <2>1. /\ item = ItemsPerPage * (item \div ItemsPerPage) + (item % ItemsPerPage)
        /\ ItemCount = ItemsPerPage * (ItemCount \div ItemsPerPage)
                         + (ItemCount % ItemsPerPage)
        /\ item \div ItemsPerPage \in Nat /\ ItemCount \div ItemsPerPage \in Nat
    BY <1>1, Division
  <2> QED
    BY <2>1
<1>4. ps[page(ItemCount)] \in [0..(ItemsPerPage - 1) -> Keys \cup {Blank}]
  BY <1>2 DEF Page
<1>5. /\ KeyIn(ps, item) = ps[page(item)][slot(item)]
      /\ KeyIn(Fill(ps, k), item) =
           [ps EXCEPT ![page(ItemCount)] =
              [ps[page(ItemCount)] EXCEPT ![slot(ItemCount)] = k]][page(item)][slot(item)]
  BY DEF KeyIn, Fill
<1> HIDE DEF page, slot
<1> QED
  BY <1>2, <1>3, <1>4, <1>5

LEMMA KeptKeys ==
  ASSUME ListInvariant, PageNeeded, NEW item \in 0..(ItemCount - 1)
  PROVE  KeyIn(WithNewPage, item) = KeyOf(item)
<1> DEFINE used == ItemCount \div ItemsPerPage
           page == item \div ItemsPerPage + 1
           new  == [slot \in 0..(ItemsPerPage - 1) |-> Blank]
<1>1. /\ ItemsPerPage \in Nat \ {0} /\ ItemCount \in Nat /\ item \in Nat
      /\ Len(pages) \in Nat /\ pages \in Seq(Page)
      /\ ItemCount <= ItemsPerPage * Len(pages)
  BY ListAssumption DEF ListInvariant, ListTypeOK, ItemCount
<1>2. used \in 0..Len(pages) /\ ItemCount = ItemsPerPage * used
  <2>1. used <= Len(pages)
    BY <1>1, QuotientBound
  <2>2. used \in Nat /\ ItemCount = ItemsPerPage * used + (ItemCount % ItemsPerPage)
    BY <1>1, Division
  <2> QED
    BY <1>1, <2>1, <2>2 DEF PageNeeded
<1>3. page \in 1..used
  <2>1. item < ItemsPerPage * used
    BY <1>1, <1>2
  <2> QED
    <3>1. used \in Nat
      BY <1>2
    <3> HIDE DEF used, page
    <3> QED
      BY <1>1, <2>1, <3>1, SlotOfItem DEF page
<1>4. WithNewPage = SubSeq(pages, 1, used) \o <<new>>
  BY DEF WithNewPage
<1> HIDE DEF used, page, new
<1>5. /\ SubSeq(pages, 1, used) \in Seq(Page) /\ Len(SubSeq(pages, 1, used)) = used
      /\ SubSeq(pages, 1, used)[page] = pages[page]
  BY <1>1, <1>2, <1>3
<1>6. WithNewPage[page] = pages[page]
  BY <1>2, <1>3, <1>4, <1>5
<1> QED
  BY <1>6 DEF KeyIn, KeyOf, page

LEMMA ArrangedInit == ListInit => Arranged
<1> SUFFICES ASSUME ListInit PROVE Arranged
  OBVIOUS
<1>1. sorted = <<>> /\ ItemCount = 0 /\ prepared = FALSE
  BY DEF ListInit, ItemCount
<1> QED
  BY <1>1 DEF Arranged

LEMMA ArrangedInitNext == ListInit' => Arranged'
  BY ArrangedInit, PTL

(* Preparing an item leaves the others where they are.                     *)
LEMMA ArrangedWithKeys ==
  ASSUME ListInvariant, Arranged, sorted' = sorted,
         \A item \in 0..(ItemCount - 1) : KeyIn(pages', item) = KeyOf(item),
         prepared' => KeyIn(pages', ItemCount) \in Keys
  PROVE  Arranged'
<1>1. ItemCount' = ItemCount /\ ItemCount = Len(sorted)
  BY DEF ItemCount
<1>2. \A item \in 0..(ItemCount - 1) : KeyOf(item)' = KeyOf(item)
  BY DEF KeyIn, KeyOf
<1>3. \A i \in 1..ItemCount : sorted[i] \in 0..(ItemCount - 1) /\ Key(i)' = Key(i)
  BY <1>1 DEF Arranged, Key, KeyIn, KeyOf
<1>4. prepared' => KeyOf(ItemCount)' \in Keys
  BY <1>1 DEF KeyIn, KeyOf
<1> QED
  BY <1>1, <1>2, <1>3, <1>4 DEF Arranged

(* What prepare_new leaves, in either case.                                *)
LEMMA PreparedKeys ==
  ASSUME ListInvariant, PrepareInPage \/ PrepareInNewPage
  PROVE  /\ \A item \in 0..(ItemCount - 1) : KeyIn(pages', item) = KeyOf(item)
         /\ KeyIn(pages', ItemCount) \in Keys
<1>1. ItemCount \in Nat /\ pages \in Seq(Page) /\ ItemsPerPage \in Nat \ {0}
  BY ListAssumption DEF ListInvariant, ListTypeOK, ItemCount
<1>2. CASE PrepareInPage
  <2>1. PICK k \in Keys : pages' = Fill(pages, k)
    BY <1>2 DEF PrepareInPage
  <2>2. ItemCount < ItemsPerPage * Len(pages)
    BY <1>2, ItemCountInPages
  <2>3. \A item \in 0..ItemCount :
          KeyIn(pages', item) = IF item = ItemCount THEN k ELSE KeyIn(pages, item)
    BY <1>1, <2>1, <2>2, FilledKeys
  <2>4. \A item \in 0..(ItemCount - 1) : KeyIn(pages, item) = KeyOf(item)
    BY DEF KeyIn, KeyOf
  <2> QED
    BY <1>1, <2>3, <2>4
<1>3. CASE PrepareInNewPage
  <2>1. PICK k \in Keys : pages' = Fill(WithNewPage, k)
    BY <1>3 DEF PrepareInNewPage
  <2>2. /\ WithNewPage \in Seq(Page)
        /\ ItemCount < ItemsPerPage * Len(WithNewPage)
    BY <1>3, NewPageHasRoom DEF PrepareInNewPage
  <2>3. \A item \in 0..ItemCount :
          KeyIn(pages', item) = IF item = ItemCount THEN k ELSE KeyIn(WithNewPage, item)
    BY <1>1, <2>1, <2>2, FilledKeys
  <2>4. \A item \in 0..(ItemCount - 1) : KeyIn(WithNewPage, item) = KeyOf(item)
    BY <1>3, KeptKeys DEF PrepareInNewPage
  <2> QED
    BY <1>1, <2>3, <2>4
<1> QED
  BY <1>2, <1>3

(* An item is put before the first with a greater key.                     *)
LEMMA InsertArranges ==
  ASSUME ListInvariant, Arranged, Insert
  PROVE  Arranged'
<1> DEFINE k == KeyOf(ItemCount)
           at == Search(k).at
<1>1. /\ ItemCount \in Nat /\ ItemCount = Len(sorted) /\ sorted \in Seq(Nat)
      /\ ListTypeOK /\ k \in Keys /\ k \in Int
  <2>1. ItemCount \in Nat /\ ItemCount = Len(sorted) /\ sorted \in Seq(Nat)
    BY DEF ListInvariant, ListTypeOK, ItemCount
  <2>2. ListTypeOK /\ k \in Keys
    BY DEF ListInvariant, Arranged, Insert
  <2> QED
    BY <2>1, <2>2, ListAssumption
<1>2. /\ Search(k) \in Place
      /\ ~ Search(k).found =>
           \A i \in 1..ItemCount : IF i <= at THEN Key(i) < k ELSE Key(i) > k
  BY <1>1, SearchAnswers
<1>3. /\ pages' = pages /\ prepared' = FALSE
      /\ sorted' = IF Search(k).found THEN sorted ELSE InsertedAt(at)
  BY DEF Insert
<1> HIDE DEF k
<1>4. CASE Search(k).found
  BY <1>3, <1>4, ArrangedWithKeys DEF KeyIn, KeyOf
<1>5. CASE ~ Search(k).found
  <2> DEFINE n == ItemCount
             placed == InsertedAt(at)
  <2>1. at \in 0..n
    BY <1>2 DEF Place
  <2> HIDE DEF at
  <2>2. /\ sorted' = placed /\ Len(placed) = n + 1 /\ ItemCount' = n + 1
        /\ \A i \in 1..(n + 1) :
             placed[i] = IF i <= at THEN sorted[i]
                         ELSE IF i = at + 1 THEN n ELSE sorted[i - 1]
        /\ placed \in Seq(Nat)
    <3>1. n \in Nat /\ at \in 0..Len(sorted) /\ sorted \in Seq(Nat)
      BY <1>1, <2>1
    <3>2. placed = InsertAt(sorted, at + 1, n)
      BY DEF InsertedAt
    <3> HIDE DEF placed, n
    <3>3. /\ placed \in Seq(Nat) /\ Len(placed) = Len(sorted) + 1
          /\ \A i \in 1..at : placed[i] = sorted[i]
          /\ placed[at + 1] = n
          /\ \A i \in (at + 2)..(Len(sorted) + 1) : placed[i] = sorted[i - 1]
      <4>1. at + 1 \in 1..(Len(sorted) + 1) /\ (at + 1) - 1 = at /\ (at + 1) + 1 = at + 2
        BY <3>1
      <4> DEFINE spot == at + 1
      <4>2. spot \in 1..(Len(sorted) + 1) /\ placed = InsertAt(sorted, spot, n)
        BY <3>2, <4>1
      <4> HIDE DEF spot
      <4>3. /\ InsertAt(sorted, spot, n) \in Seq(Nat)
            /\ Len(InsertAt(sorted, spot, n)) = Len(sorted) + 1
            /\ \A i \in 1..(spot - 1) : InsertAt(sorted, spot, n)[i] = sorted[i]
            /\ InsertAt(sorted, spot, n)[spot] = n
            /\ \A i \in (spot + 1)..(Len(sorted) + 1) :
                 InsertAt(sorted, spot, n)[i] = sorted[i - 1]
        BY <3>1, <4>2, InsertedNumber
      <4> QED
        BY <3>1, <4>1, <4>2, <4>3 DEF spot
    <3>4. sorted' = placed
      BY <1>3, <1>5 DEF placed, at
    <3>5. ItemCount' = Len(placed) /\ Len(sorted) = n
      BY <1>1, <3>4 DEF ItemCount, n
    <3>6. ASSUME NEW i \in 1..(n + 1)
          PROVE  placed[i] = IF i <= at THEN sorted[i]
                             ELSE IF i = at + 1 THEN n ELSE sorted[i - 1]
      <4>1. i \in 1..at \/ i = at + 1 \/ i \in (at + 2)..(Len(sorted) + 1)
        BY <3>1, <3>5
      <4> QED
        BY <3>1, <3>3, <4>1
    <3> QED
      BY <3>3, <3>4, <3>5, <3>6
  <2> HIDE DEF placed
  <2>3. \A i \in 1..n : sorted[i] \in 0..(n - 1)
    BY <1>1 DEF Arranged
  <2>4. placed \in Seq(0..n)
    <3> HIDE DEF n
    <3>1. n \in Nat
      BY <1>1 DEF n
    <3>2. ASSUME NEW i \in 1..(n + 1) PROVE placed[i] \in 0..n
      <4>1. CASE i <= at
        <5>1. i \in 1..n /\ placed[i] = sorted[i]
          BY <2>1, <2>2, <3>1, <4>1
        <5> QED
          BY <2>3, <3>1, <5>1
      <4>2. CASE i = at + 1
        <5>1. placed[i] = n
          BY <2>1, <2>2, <3>1, <4>2
        <5> QED
          BY <3>1, <5>1
      <4>3. CASE i > at + 1
        <5>1. i - 1 \in 1..n /\ placed[i] = sorted[i - 1]
          BY <2>1, <2>2, <3>1, <4>3
        <5> QED
          BY <2>3, <3>1, <5>1
      <4> QED
        BY <2>1, <3>1, <4>1, <4>2, <4>3
    <3>3. placed = [i \in 1..(n + 1) |-> placed[i]]
      BY <2>2, <3>1
    <3> QED
      BY <3>1, <3>2, <3>3
  <2>5. ASSUME NEW item \in 0..n
        PROVE  KeyOf(item)' \in Keys /\ \E i \in 1..(n + 1) : placed[i] = item
    <3>1. KeyOf(item)' = KeyOf(item)
      BY <1>3 DEF KeyOf
    <3>2. CASE item = n
      <4>1. placed[at + 1] = n /\ at + 1 \in 1..(n + 1)
        <5> HIDE DEF n
        <5>1. n \in Nat
          BY <1>1 DEF n
        <5> QED
          BY <2>1, <2>2, <5>1
      <4> QED
        BY <1>1, <3>1, <3>2, <4>1 DEF k
    <3>3. CASE item # n
      <4>1. item \in 0..(ItemCount - 1)
        BY <1>1, <3>3
      <4>2. PICK i \in 1..n : sorted[i] = item
        BY <4>1 DEF Arranged
      <4>3. CASE i <= at
        <5>1. i \in 1..(n + 1) /\ placed[i] = sorted[i]
          BY <1>1, <2>1, <2>2, <4>3
        <5> QED
          BY <3>1, <4>1, <4>2, <5>1 DEF Arranged
      <4>4. CASE i > at
        <5>1. i + 1 \in 1..(n + 1) /\ placed[i + 1] = sorted[i]
          BY <1>1, <2>1, <2>2, <4>4
        <5> QED
          BY <3>1, <4>1, <4>2, <5>1 DEF Arranged
      <4> QED
        BY <1>1, <2>1, <4>3, <4>4
    <3> QED
      BY <3>2, <3>3
  <2>6. \A i \in 1..(n + 1) :
          Key(i)' = IF i <= at THEN Key(i) ELSE IF i = at + 1 THEN k ELSE Key(i - 1)
    <3>1. ASSUME NEW i \in 1..(n + 1) PROVE Key(i)' = KeyOf(placed[i])
      BY <1>3, <2>2 DEF Key, KeyOf
    <3> QED
      BY <1>1, <2>1, <2>2, <3>1 DEF Key, k
  <2>7. ASSUME NEW i \in 1..(n + 1), NEW j \in 1..(n + 1), i < j
        PROVE  Key(i)' < Key(j)'
    <3> DEFINE K(m) == IF m <= at THEN Key(m) ELSE IF m = at + 1 THEN k ELSE Key(m - 1)
    <3>1. \A m \in 1..n : Key(m) \in Int /\ IF m <= at THEN Key(m) < k ELSE Key(m) > k
      BY <1>1, <1>2, <1>5, <2>3, ListAssumption DEF Arranged, Key, at
    <3>2. \A l, m \in 1..n : l < m => Key(l) < Key(m)
      BY DEF Arranged
    <3>3. K(i) < K(j)
      <4>1. CASE j <= at
        BY <1>1, <2>1, <2>7, <3>2, <4>1
      <4>2. CASE j = at + 1
        BY <1>1, <2>1, <2>7, <3>1, <4>2
      <4>3. CASE j > at + 1
        <5>1. j - 1 \in 1..n /\ K(j) = Key(j - 1)
          BY <1>1, <2>1, <4>3
        <5>2. CASE i <= at
          BY <1>1, <2>1, <2>7, <3>2, <4>3, <5>1, <5>2
        <5>3. CASE i = at + 1
          BY <1>1, <2>1, <3>1, <4>3, <5>1, <5>3
        <5>4. CASE i > at + 1
          <6>1. i - 1 \in 1..n /\ K(i) = Key(i - 1) /\ i - 1 < j - 1
            BY <1>1, <2>1, <2>7, <5>4
          <6> QED
            BY <3>2, <5>1, <6>1
        <5> QED
          BY <1>1, <2>1, <5>2, <5>3, <5>4
      <4> QED
        BY <1>1, <2>1, <4>1, <4>2, <4>3
    <3>4. Key(i)' = K(i) /\ Key(j)' = K(j)
      BY <2>6
    <3> QED
      BY <3>3, <3>4
  <2>8. /\ sorted' \in Seq(0..n) /\ ItemCount' - 1 = n
        /\ \A item \in 0..n : KeyOf(item)' \in Keys /\ \E i \in 1..(n + 1) : sorted'[i] = item
        /\ \A i, j \in 1..(n + 1) : i < j => Key(i)' < Key(j)'
    BY <1>1, <2>2, <2>4, <2>5, <2>7
  <2> QED
    BY <1>3, <2>2, <2>8 DEF Arranged
<1> QED
  BY <1>4, <1>5

LEMMA ArrangedStep ==
  ListInvariant /\ Arranged /\ [ListNext]_listVars => Arranged'
<1> SUFFICES ASSUME ListInvariant, Arranged, [ListNext]_listVars PROVE Arranged'
  OBVIOUS
<1>1. CASE PrepareInPage \/ PrepareInNewPage
  <2>1. sorted' = sorted
    BY <1>1 DEF PrepareInPage, PrepareInNewPage
  <2> QED
    BY <1>1, <2>1, PreparedKeys, ArrangedWithKeys
<1>2. CASE PrepareOutside \/ UNCHANGED listVars
  <2>1. pages' = pages /\ sorted' = sorted /\ prepared' = prepared
    BY <1>2 DEF PrepareOutside, listVars
  <2>2. \A item \in 0..(ItemCount - 1) : KeyIn(pages', item) = KeyOf(item)
    BY <2>1 DEF KeyIn, KeyOf
  <2>3. prepared' => KeyIn(pages', ItemCount) \in Keys
    BY <2>1 DEF KeyIn, KeyOf, Arranged
  <2> QED
    BY <2>1, <2>2, <2>3, ArrangedWithKeys
<1>3. CASE Insert
  BY <1>3, InsertArranges
<1>4. CASE Clear
  <2>1. ListInit'
    BY <1>4 DEF ListInit, Clear
  <2> QED
    BY <2>1, ArrangedInitNext
<1> QED
  BY <1>1, <1>2, <1>3, <1>4 DEF ListNext

LEMMA ItemsAreFound == ListTypeOK /\ Arranged => EveryItemIsFound
<1> SUFFICES ASSUME ListTypeOK, Arranged, NEW k \in Keys
             PROVE  IF \E item \in 0..(ItemCount - 1) : KeyOf(item) = k
                    THEN Search(k).found /\ KeyOf(sorted[Search(k).at + 1]) = k
                    ELSE /\ ~Search(k).found
                         /\ \A i \in 1..ItemCount :
                              i <= Search(k).at <=> KeyOf(sorted[i]) < k
  BY DEF EveryItemIsFound
<1> DEFINE at == Search(k).at
<1>1. /\ ItemCount \in Nat /\ ItemCount = Len(sorted) /\ k \in Int
      /\ \A i \in 1..ItemCount : sorted[i] \in 0..(ItemCount - 1) /\ Key(i) \in Int
  <2>1. ItemCount \in Nat /\ ItemCount = Len(sorted) /\ k \in Int
    BY ListAssumption DEF ItemCount, ListTypeOK
  <2>2. \A i \in 1..ItemCount : sorted[i] \in 0..(ItemCount - 1)
    BY <2>1 DEF Arranged
  <2> QED
    BY <2>1, <2>2, ListAssumption DEF Arranged, Key
<1>2. /\ at \in 0..ItemCount /\ Search(k).found \in BOOLEAN
      /\ Search(k).found => at < ItemCount /\ Key(at + 1) = k
      /\ ~ Search(k).found =>
           \A i \in 1..ItemCount : IF i <= at THEN Key(i) < k ELSE Key(i) > k
  BY <1>1, SearchAnswers DEF Place
<1> HIDE DEF at
<1>3. CASE Search(k).found
  <2>1. at + 1 \in 1..ItemCount
    BY <1>1, <1>2, <1>3
  <2> QED
    BY <1>1, <1>2, <1>3, <2>1 DEF Key, at
<1>4. CASE ~ Search(k).found
  <2>1. \A i \in 1..ItemCount : Key(i) # k /\ (i <= at <=> Key(i) < k)
    BY <1>1, <1>2, <1>4
  <2>2. \A item \in 0..(ItemCount - 1) : KeyOf(item) # k
    BY <2>1 DEF Arranged, Key
  <2> QED
    BY <1>4, <2>1, <2>2 DEF Key, at
<1> QED
  BY <1>2, <1>3, <1>4

(* slmacros.h, insert and index_of: in every list, in whatever order the   *)
(* items came, the searches answer every item that has been inserted, and  *)
(* for any other key the place it would have.                              *)
THEOREM EveryItemFound == ListSpec => []EveryItemIsFound
<1>1. ListInvariant => ListTypeOK
  BY DEF ListInvariant
<1> QED
  BY <1>1, ListInitInvariant, ListStep, ArrangedInit, ArrangedStep, ItemsAreFound, PTL
  DEF ListSpec

-----------------------------------------------------------------------------
(* What a list is, however it grows: the keys in the order of the items.   *)

OldestFirst == [i \in 1..ItemCount |-> KeyOf(i - 1)]

LEMMA OrderInit == ListInit => Order!Init
<1> SUFFICES ASSUME ListInit PROVE OldestFirst = <<>>
  BY DEF Order!Init, OldestFirst
<1>1. ItemCount = 0
  BY DEF ListInit, ItemCount
<1> QED
  BY <1>1 DEF OldestFirst

LEMMA OldestFirstIsSequence ==
  ASSUME ListTypeOK, Arranged
  PROVE  /\ ItemCount \in Nat /\ OldestFirst \in Seq(Keys)
         /\ Len(OldestFirst) = ItemCount
         /\ \A i \in 1..ItemCount : OldestFirst[i] = KeyOf(i - 1)
<1>1. ItemCount \in Nat
  BY DEF ListTypeOK, ItemCount
<1>2. \A i \in 1..ItemCount : KeyOf(i - 1) \in Keys
  <2>1. \A i \in 1..ItemCount : i - 1 \in 0..(ItemCount - 1)
    BY <1>1
  <2> QED
    BY <2>1 DEF Arranged
<1> QED
  BY <1>1, <1>2 DEF OldestFirst

(* Nothing but insert and clear changes what the list is.                  *)
LEMMA SameOrder ==
  ASSUME ListTypeOK, Arranged, sorted' = sorted,
         \A item \in 0..(ItemCount - 1) : KeyIn(pages', item) = KeyOf(item)
  PROVE  OldestFirst' = OldestFirst
<1>1. ItemCount' = ItemCount /\ ItemCount \in Nat
  BY DEF ItemCount, ListTypeOK
<1>2. \A i \in 1..ItemCount : KeyOf(i - 1)' = KeyOf(i - 1)
  <2>1. \A i \in 1..ItemCount : i - 1 \in 0..(ItemCount - 1)
    BY <1>1
  <2> QED
    BY <2>1 DEF KeyIn, KeyOf
<1> QED
  BY <1>1, <1>2 DEF OldestFirst

LEMMA InsertAdds ==
  ASSUME ListInvariant, Arranged, Arranged', ListInvariant', Insert
  PROVE  [Order!Next]_OldestFirst
<1> DEFINE k == KeyOf(ItemCount)
<1>1. ListTypeOK /\ ListTypeOK' /\ k \in Keys /\ k \in Int
  <2>1. ListTypeOK /\ ListTypeOK' /\ k \in Keys
    BY DEF ListInvariant, Arranged, Insert
  <2> QED
    BY <2>1, ListAssumption
<1>2. /\ pages' = pages
      /\ sorted' = IF Search(k).found THEN sorted ELSE InsertedAt(Search(k).at)
      /\ Search(k).at \in 0..ItemCount
      /\ ~ Search(k).found => \A i \in 1..ItemCount : Key(i) # k
  <2>1. /\ Search(k) \in Place
        /\ ~ Search(k).found =>
             \A i \in 1..ItemCount :
               IF i <= Search(k).at THEN Key(i) < k ELSE Key(i) > k
    BY <1>1, SearchAnswers
  <2> QED
    BY <1>1, <2>1 DEF Insert, Place
<1>3. CASE Search(k).found
  <2>1. sorted' = sorted /\ \A item \in 0..(ItemCount - 1) : KeyIn(pages', item) = KeyOf(item)
    BY <1>2, <1>3 DEF KeyIn, KeyOf
  <2> QED
    BY <1>1, <2>1, SameOrder
<1>4. CASE ~ Search(k).found
  <2>1. /\ ItemCount \in Nat /\ OldestFirst \in Seq(Keys)
        /\ Len(OldestFirst) = ItemCount
        /\ \A i \in 1..ItemCount : OldestFirst[i] = KeyOf(i - 1)
    BY <1>1, OldestFirstIsSequence
  <2>2. ItemCount' = ItemCount + 1
    <3> DEFINE spot == Search(k).at + 1
    <3>1. /\ sorted \in Seq(Nat) /\ ItemCount = Len(sorted)
          /\ spot \in 1..(Len(sorted) + 1) /\ sorted' = InsertAt(sorted, spot, ItemCount)
      <4>1. sorted \in Seq(Nat) /\ ItemCount = Len(sorted)
        BY <1>1 DEF ListTypeOK, ItemCount
      <4> QED
        BY <1>2, <1>4, <2>1, <4>1 DEF InsertedAt
    <3> HIDE DEF spot
    <3>2. Len(InsertAt(sorted, spot, ItemCount)) = Len(sorted) + 1
      BY <2>1, <3>1, InsertedNumber
    <3> QED
      BY <3>1, <3>2 DEF ItemCount
  <2>3. OldestFirst' = Append(OldestFirst, k)
    <3>1. OldestFirst' = [i \in 1..(ItemCount + 1) |-> KeyOf(i - 1)]
      BY <1>2, <2>2 DEF OldestFirst, KeyOf
    <3>2. ASSUME NEW i \in 1..(ItemCount + 1)
          PROVE  KeyOf(i - 1) = Append(OldestFirst, k)[i]
      <4>1. CASE i = ItemCount + 1
        <5>1. i - 1 = ItemCount
          BY <2>1, <4>1
        <5> HIDE DEF k
        <5>2. Append(OldestFirst, k)[i] = k
          BY <2>1, <4>1
        <5> QED
          BY <5>1, <5>2 DEF k
      <4>2. CASE i # ItemCount + 1
        <5> HIDE DEF k
        <5>1. i \in 1..ItemCount
          BY <2>1, <4>2
        <5>2. Append(OldestFirst, k)[i] = OldestFirst[i]
          BY <2>1, <5>1
        <5> QED
          BY <2>1, <5>1, <5>2
      <4> QED
        BY <4>1, <4>2
    <3> HIDE DEF k
    <3>3. Append(OldestFirst, k) = [i \in 1..(ItemCount + 1) |-> Append(OldestFirst, k)[i]]
      <4>1. k \in Keys /\ OldestFirst \in Seq(Keys)
        BY <1>1, <2>1
      <4>2. /\ Append(OldestFirst, k) \in Seq(Keys)
            /\ Len(Append(OldestFirst, k)) = ItemCount + 1
        BY <2>1, <4>1
      <4> DEFINE longer == Append(OldestFirst, k)
      <4> HIDE DEF longer
      <4>3. longer \in Seq(Keys) /\ Len(longer) = ItemCount + 1
        BY <4>2 DEF longer
      <4>4. longer = [i \in 1..(ItemCount + 1) |-> longer[i]]
        BY <2>1, <4>3
      <4> QED
        BY <4>4 DEF longer
    <3> QED
      BY <3>1, <3>2, <3>3
  <2>4. k \notin Range(OldestFirst)
    <3> HIDE DEF k
    <3>1. ASSUME NEW i \in 1..ItemCount PROVE OldestFirst[i] # k
      <4>1. i - 1 \in 0..(ItemCount - 1)
        BY <2>1
      <4>2. PICK j \in 1..ItemCount : sorted[j] = i - 1
        BY <4>1 DEF Arranged
      <4> QED
        BY <1>2, <1>4, <2>1, <4>2 DEF Key
    <3>2. DOMAIN OldestFirst = 1..ItemCount
      BY <2>1
    <3> QED
      BY <3>1, <3>2 DEF Range
  <2> QED
    BY <1>1, <2>3, <2>4 DEF Order!Next, Order!Add, Order!Range, Range, OldestFirst
<1> QED
  BY <1>3, <1>4

LEMMA OrderStep ==
  ListInvariant /\ Arranged /\ ListInvariant' /\ Arranged' /\ [ListNext]_listVars
    => [Order!Next]_OldestFirst
<1> SUFFICES ASSUME ListInvariant, Arranged, ListInvariant', Arranged',
                    [ListNext]_listVars
             PROVE  [Order!Next]_OldestFirst
  OBVIOUS
<1>1. ListTypeOK
  BY DEF ListInvariant
<1>2. CASE PrepareInPage \/ PrepareInNewPage
  <2>1. sorted' = sorted
    BY <1>2 DEF PrepareInPage, PrepareInNewPage
  <2> QED
    BY <1>1, <1>2, <2>1, PreparedKeys, SameOrder
<1>3. CASE PrepareOutside \/ UNCHANGED listVars
  <2>1. pages' = pages /\ sorted' = sorted
    BY <1>3 DEF PrepareOutside, listVars
  <2>2. \A item \in 0..(ItemCount - 1) : KeyIn(pages', item) = KeyOf(item)
    BY <2>1 DEF KeyIn, KeyOf
  <2> QED
    BY <1>1, <2>1, <2>2, SameOrder
<1>4. CASE Insert
  BY <1>4, InsertAdds
<1>5. CASE Clear
  <2>1. ItemCount' = 0
    BY <1>5 DEF Clear, ItemCount
  <2>2. OldestFirst' = <<>>
    BY <2>1 DEF OldestFirst
  <2> QED
    BY <2>2 DEF Order!Next, Order!Empty, OldestFirst
<1> QED
  BY <1>2, <1>3, <1>4, <1>5 DEF ListNext

(* slmacros.h: no item of any list is lost, moved, overwritten or doubled  *)
(* while pages are added, whatever the sizes of pages and arrays.          *)
THEOREM ListImplemented == ListSpec => ImplementsList
<1>1. [Order!Next]_OldestFirst => [Order!Next]_([i \in 1..ItemCount |-> KeyOf(i - 1)])
  BY DEF OldestFirst
<1> QED
  BY <1>1, ListInitInvariant, ListStep, ArrangedInit, ArrangedStep, OrderInit, OrderStep,
     PTL
  DEF ListSpec, ImplementsList, Order!Spec

=============================================================================

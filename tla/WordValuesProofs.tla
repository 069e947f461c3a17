-------------------------- MODULE WordValuesProofs --------------------------
(***************************************************************************)
(* That the maps of gvwvmap.c stay sorted, and are the tables of           *)
(* IdealValues: an entry is found where the halving of the array ends, and *)
(* what is stored, removed or merged is seen of the others as before.      *)
(***************************************************************************)
EXTENDS WordValues, ProofFacts

-----------------------------------------------------------------------------
(* A map by what stands in it.                                             *)

Map(m) == m \in Seq(Entry) /\ Sorted(m)

Contents(m) == {m[i] : i \in Indices(m)}

(* What is known from an entry.                                            *)
Told(e) == IF e.kind = "unknown" THEN Unknown ELSE <<e.kind, e.word>>

LEMMA EntryOfMap ==
  ASSUME NEW m, Map(m), NEW i \in Indices(m)
  PROVE  m[i] \in Entry /\ m[i].key \in Variables /\ m[i].key \in Int
<1>1. m[i] \in Entry
  BY DEF Map, Indices
<1> QED
  BY <1>1, VariablesAssumption DEF Entry

(* The entries with smaller keys stand first.                              *)
LEMMA GapFound ==
  ASSUME NEW m, Map(m), NEW key \in Int
  PROVE  /\ Gap(m, key) \in 0..Len(m) /\ Len(m) \in Nat
         /\ \A i \in Indices(m) : m[i].key < key <=> i <= Gap(m, key)
<1> DEFINE S == {i \in Indices(m) : m[i].key < key}
<1>1. Len(m) \in Nat /\ S \in SUBSET (1..Len(m))
  BY DEF Map, Indices
<1>2. \A i \in S : \A j \in 1..i : j \in S
  <2> SUFFICES ASSUME NEW i \in S, NEW j \in 1..i PROVE m[j].key < key /\ j \in Indices(m)
    OBVIOUS
  <2>1. i \in Indices(m) /\ j \in Indices(m) /\ m[i].key < key /\ (j = i \/ j < i)
    BY <1>1 DEF Indices
  <2>2. m[i].key \in Int /\ m[j].key \in Int
    BY <2>1, EntryOfMap
  <2>3. j < i => m[j].key < m[i].key
    BY <2>1 DEF Map, Sorted
  <2> QED
    BY <2>1, <2>2, <2>3
<1>3. Gap(m, key) = Cardinality(S)
  BY DEF Gap
<1>4. \A i \in Indices(m) : i \in S <=> m[i].key < key
  OBVIOUS
<1> HIDE DEF S
<1>5. Cardinality(S) \in 0..Len(m) /\ \A i \in 1..Len(m) : i \in S <=> i <= Cardinality(S)
  BY <1>1, <1>2, InitialInterval
<1> QED
  BY <1>1, <1>3, <1>4, <1>5 DEF Indices

(* An entry with the key stands behind the gap, and nowhere else.          *)
LEMMA EntryBehindGap ==
  ASSUME NEW m, Map(m), NEW key \in Int
  PROVE  /\ Has(m, key) => Gap(m, key) + 1 \in Indices(m) /\ m[Gap(m, key) + 1].key = key
         /\ \A i \in Indices(m) : m[i].key = key => Has(m, key) /\ i = Gap(m, key) + 1
<1> DEFINE gap == Gap(m, key)
<1>1. /\ gap \in 0..Len(m) /\ Len(m) \in Nat
      /\ \A i \in Indices(m) : m[i].key < key <=> i <= gap
  BY GapFound
<1> HIDE DEF gap
<1>2. Has(m, key) <=> gap < Len(m) /\ m[gap + 1].key = key
  BY DEF Has, gap
<1>3. ASSUME NEW i \in Indices(m), m[i].key = key
      PROVE  Has(m, key) /\ i = gap + 1
  <2>1. i > gap /\ i \in 1..Len(m)
    BY <1>1, <1>3 DEF Indices
  <2>2. gap + 1 \in Indices(m) /\ ~ (m[gap + 1].key < key) /\ m[gap + 1].key \in Int
    <3>1. gap + 1 \in Indices(m)
      BY <1>1, <2>1 DEF Indices
    <3> QED
      BY <1>1, <3>1, EntryOfMap
  <2>3. i = gap + 1
    <3> SUFFICES ASSUME gap + 1 < i PROVE FALSE
      BY <1>1, <2>1
    <3>1. m[gap + 1].key < m[i].key
      BY <2>2 DEF Map, Sorted
    <3> QED
      BY <1>3, <2>2, <3>1
  <2> QED
    BY <1>1, <1>2, <1>3, <2>1, <2>3
<1>4. Has(m, key) => gap + 1 \in Indices(m) /\ m[gap + 1].key = key
  BY <1>1, <1>2 DEF Indices
<1> QED
  BY <1>3, <1>4 DEF gap

LEMMA LookupTells ==
  ASSUME NEW m, Map(m), NEW key \in Variables
  PROVE  /\ \A e \in Contents(m) : e.key = key => Lookup(m, key) = Told(e)
         /\ (\A e \in Contents(m) : e.key # key) => Lookup(m, key) = Original
<1>1. key \in Int
  BY VariablesAssumption
<1>2. ASSUME NEW e \in Contents(m), e.key = key PROVE Lookup(m, key) = Told(e)
  <2>1. PICK i \in Indices(m) : e = m[i]
    BY DEF Contents
  <2>2. Has(m, key) /\ i = Gap(m, key) + 1
    BY <1>1, <1>2, <2>1, EntryBehindGap
  <2> QED
    BY <2>1, <2>2 DEF Lookup, Told
<1>3. ASSUME \A e \in Contents(m) : e.key # key PROVE Lookup(m, key) = Original
  <2>1. ~ Has(m, key)
    BY <1>1, <1>3, EntryBehindGap DEF Contents
  <2> QED
    BY <2>1 DEF Lookup
<1> QED
  BY <1>2, <1>3

-----------------------------------------------------------------------------
(* What the operations leave.                                              *)

LEMMA PutContents ==
  ASSUME NEW m, Map(m), NEW e \in Entry
  PROVE  /\ Map(Put(m, e))
         /\ Contents(Put(m, e)) = {d \in Contents(m) : d.key # e.key} \cup {e}
<1> DEFINE gap == Gap(m, e.key)
           t == Put(m, e)
<1>1. /\ e.key \in Int /\ m \in Seq(Entry)
      /\ \A i, j \in Indices(m) : i < j => m[i].key < m[j].key
  BY VariablesAssumption DEF Entry, Map, Sorted
<1>2. /\ gap \in 0..Len(m) /\ Len(m) \in Nat
      /\ \A i \in Indices(m) : m[i].key < e.key <=> i <= gap
  BY <1>1, GapFound
<1>3. /\ Has(m, e.key) => gap + 1 \in Indices(m) /\ m[gap + 1].key = e.key
      /\ \A i \in Indices(m) : m[i].key = e.key => Has(m, e.key) /\ i = gap + 1
  BY <1>1, EntryBehindGap
<1>4. \A i \in Indices(m) : m[i].key \in Int
  BY EntryOfMap
<1>5. t = IF Has(m, e.key) THEN [m EXCEPT ![gap + 1] = e] ELSE InsertAt(m, gap + 1, e)
  BY DEF Put
<1> HIDE DEF gap, t
<1>6. CASE Has(m, e.key)
  <2>1. /\ t \in Seq(Entry) /\ Len(t) = Len(m)
        /\ \A i \in Indices(m) : t[i] = IF i = gap + 1 THEN e ELSE m[i]
    <3>1. t = [m EXCEPT ![gap + 1] = e]
      BY <1>5, <1>6
    <3>2. t \in Seq(Entry) /\ Len(t) = Len(m)
      BY <1>1, <3>1, ExceptInSequence
    <3> QED
      BY <1>1, <3>1, <3>2 DEF Indices
  <2>2. \A i \in Indices(m) : t[i].key = m[i].key
    BY <1>3, <1>6, <2>1
  <2>3. Indices(t) = Indices(m)
    BY <2>1 DEF Indices
  <2>4. Sorted(t)
    BY <1>1, <2>2, <2>3 DEF Sorted
  <2>5. Contents(t) = {d \in Contents(m) : d.key # e.key} \cup {e}
    BY <1>3, <1>6, <2>1, <2>3 DEF Contents
  <2> QED
    BY <2>1, <2>4, <2>5 DEF Map, t
<1>7. CASE ~ Has(m, e.key)
  <2> DEFINE place == gap + 1
  <2>1. place \in 1..(Len(m) + 1)
    BY <1>2
  <2>2. \A i \in Indices(m) : m[i].key # e.key /\ (i < place <=> m[i].key < e.key)
    BY <1>2, <1>3, <1>7 DEF Indices
  <2>3. t = InsertAt(m, place, e)
    BY <1>5, <1>7
  <2> HIDE DEF place
  <2>4. /\ t \in Seq(Entry) /\ Len(t) = Len(m) + 1
        /\ \A i \in 1..(place - 1) : t[i] = m[i]
        /\ t[place] = e
        /\ \A i \in (place + 1)..(Len(m) + 1) : t[i] = m[i - 1]
    <3>1. /\ InsertAt(m, place, e) \in Seq(Entry)
          /\ Len(InsertAt(m, place, e)) = Len(m) + 1
          /\ \A i \in 1..(place - 1) : InsertAt(m, place, e)[i] = m[i]
          /\ InsertAt(m, place, e)[place] = e
          /\ \A i \in (place + 1)..(Len(m) + 1) : InsertAt(m, place, e)[i] = m[i - 1]
      BY <1>1, <2>1, InsertedElements
    <3> QED
      BY <2>3, <3>1, Zenon
  <2>5. ASSUME NEW i \in Indices(t)
        PROVE  \/ i < place /\ i \in Indices(m) /\ t[i] = m[i]
               \/ i = place /\ t[i] = e
               \/ i > place /\ i - 1 \in Indices(m) /\ t[i] = m[i - 1]
    <3>1. Indices(t) = 1..(Len(m) + 1) /\ Indices(m) = 1..Len(m)
      BY <2>4 DEF Indices
    <3>2. CASE i < place
      <4>1. i \in 1..(place - 1) /\ i \in Indices(m)
        BY <1>2, <2>1, <3>1, <3>2
      <4> QED
        BY <2>4, <3>2, <4>1
    <3>3. CASE i = place
      BY <2>4, <3>3
    <3>4. CASE i > place
      <4>1. i \in (place + 1)..(Len(m) + 1) /\ i - 1 \in Indices(m)
        BY <1>2, <2>1, <3>1, <3>4
      <4> QED
        BY <2>4, <3>4, <4>1
    <3> QED
      BY <2>1, <3>1, <3>2, <3>3, <3>4
  <2>6. Sorted(t)
    <3> SUFFICES ASSUME NEW i \in Indices(t), NEW j \in Indices(t), i < j
                 PROVE  t[i].key < t[j].key
      BY DEF Sorted
    <3>1. i \in Int /\ j \in Int /\ place \in Int
      BY <2>1 DEF Indices
    <3>2. CASE j < place
      BY <1>1, <2>5, <3>1, <3>2
    <3>3. CASE j = place
      BY <2>2, <2>5, <3>1, <3>3
    <3>4. CASE j > place
      <4>1. j - 1 \in Indices(m) /\ t[j] = m[j - 1]
        BY <2>5, <3>1, <3>4
      <4>2. e.key < m[j - 1].key
        <5>1. ~ (j - 1 < place)
          BY <3>1, <3>4
        <5> QED
          BY <1>1, <1>4, <2>2, <4>1, <5>1
      <4>3. CASE i < place
        <5>1. i \in Indices(m) /\ t[i] = m[i] /\ i < j - 1
          BY <2>5, <3>1, <3>4, <4>3
        <5> QED
          BY <1>1, <4>1, <5>1
      <4>4. CASE i = place
        BY <2>4, <4>1, <4>2, <4>4
      <4>5. CASE i > place
        <5>1. i - 1 \in Indices(m) /\ t[i] = m[i - 1] /\ i - 1 < j - 1
          BY <2>5, <3>1, <4>5
        <5> QED
          BY <1>1, <4>1, <5>1
      <4> QED
        BY <3>1, <4>3, <4>4, <4>5
    <3> QED
      BY <3>1, <3>2, <3>3, <3>4
  <2>7. Contents(t) = {d \in Contents(m) : d.key # e.key} \cup {e}
    <3>1. ASSUME NEW i \in Indices(t)
          PROVE  t[i] = e \/ (t[i] \in Contents(m) /\ t[i].key # e.key)
      BY <2>2, <2>5 DEF Contents
    <3>2. ASSUME NEW i \in Indices(m) PROVE m[i] \in Contents(t)
      <4>1. CASE i < place
        <5>1. i \in Indices(t) /\ t[i] = m[i]
          BY <1>2, <2>1, <2>4, <4>1 DEF Indices
        <5> QED
          BY <5>1 DEF Contents
      <4>2. CASE i >= place
        <5>1. i + 1 \in Indices(t) /\ t[i + 1] = m[(i + 1) - 1] /\ (i + 1) - 1 = i
          <6>1. i + 1 \in (place + 1)..(Len(m) + 1) /\ i + 1 \in Indices(t) /\ (i + 1) - 1 = i
            BY <1>2, <2>1, <2>4, <4>2 DEF Indices
          <6> QED
            BY <2>4, <6>1
        <5> QED
          BY <5>1 DEF Contents
      <4> QED
        BY <2>1, <4>1, <4>2 DEF Indices
    <3>3. e \in Contents(t)
      <4>1. place \in Indices(t)
        BY <1>2, <2>1, <2>4 DEF Indices
      <4> QED
        BY <2>4, <4>1 DEF Contents
    <3> QED
      BY <3>1, <3>2, <3>3 DEF Contents
  <2> QED
    BY <2>4, <2>6, <2>7 DEF Map, t
<1> QED
  BY <1>6, <1>7

LEMMA RemovedContents ==
  ASSUME NEW m, Map(m), NEW key \in Variables
  PROVE  /\ Map(Removed(m, key))
         /\ Contents(Removed(m, key)) = {d \in Contents(m) : d.key # key}
<1> DEFINE place == Gap(m, key) + 1
           t == Removed(m, key)
<1>1. /\ key \in Int /\ m \in Seq(Entry) /\ Len(m) \in Nat
      /\ \A i, j \in Indices(m) : i < j => m[i].key < m[j].key
  BY VariablesAssumption DEF Map, Sorted
<1>2. /\ Has(m, key) => place \in Indices(m) /\ m[place].key = key
      /\ \A i \in Indices(m) : m[i].key = key => Has(m, key) /\ i = place
  BY <1>1, EntryBehindGap
<1>3. t = IF Has(m, key) THEN RemoveAt(m, place) ELSE m
  BY DEF Removed
<1> HIDE DEF place, t
<1>4. CASE ~ Has(m, key)
  <2>1. Contents(m) = {d \in Contents(m) : d.key # key}
    BY <1>2, <1>4 DEF Contents
  <2> QED
    BY <1>3, <1>4, <2>1 DEF t
<1>5. CASE Has(m, key)
  <2>1. place \in 1..Len(m) /\ t = RemoveAt(m, place)
    BY <1>2, <1>3, <1>5 DEF Indices
  <2>2. /\ t \in Seq(Entry) /\ Len(t) = Len(m) - 1
        /\ \A i \in 1..(place - 1) : t[i] = m[i]
        /\ \A i \in place..(Len(m) - 1) : t[i] = m[i + 1]
    BY <1>1, <2>1, RemovedElements
  <2>3. ASSUME NEW i \in Indices(t)
        PROVE  \/ i < place /\ i \in Indices(m) /\ t[i] = m[i]
               \/ i >= place /\ i + 1 \in Indices(m) /\ t[i] = m[i + 1]
    <3>1. Indices(t) = 1..(Len(m) - 1) /\ Indices(m) = 1..Len(m)
      BY <2>2 DEF Indices
    <3>2. CASE i < place
      <4>1. i \in 1..(place - 1) /\ i \in Indices(m)
        BY <1>1, <2>1, <3>1, <3>2
      <4> QED
        BY <2>2, <3>2, <4>1
    <3>3. CASE i >= place
      <4>1. i \in place..(Len(m) - 1) /\ i + 1 \in Indices(m)
        BY <1>1, <2>1, <3>1, <3>3
      <4> QED
        BY <2>2, <3>3, <4>1
    <3> QED
      BY <2>1, <3>1, <3>2, <3>3
  <2>4. Sorted(t)
    <3> SUFFICES ASSUME NEW i \in Indices(t), NEW j \in Indices(t), i < j
                 PROVE  t[i].key < t[j].key
      BY DEF Sorted
    <3>1. i \in Int /\ j \in Int /\ place \in Int
      BY <2>1 DEF Indices
    <3>2. CASE j < place
      BY <1>1, <2>3, <3>1, <3>2
    <3>3. CASE j >= place
      <4>1. j + 1 \in Indices(m) /\ t[j] = m[j + 1]
        BY <2>3, <3>1, <3>3
      <4>2. CASE i < place
        <5>1. i \in Indices(m) /\ t[i] = m[i] /\ i < j + 1
          BY <2>3, <3>1, <4>2
        <5> QED
          BY <1>1, <4>1, <5>1
      <4>3. CASE i >= place
        <5>1. i + 1 \in Indices(m) /\ t[i] = m[i + 1] /\ i + 1 < j + 1
          BY <2>3, <3>1, <4>3
        <5> QED
          BY <1>1, <4>1, <5>1
      <4> QED
        BY <3>1, <4>2, <4>3
    <3> QED
      BY <3>1, <3>2, <3>3
  <2>5. Contents(t) = {d \in Contents(m) : d.key # key}
    <3>1. ASSUME NEW i \in Indices(t) PROVE t[i] \in Contents(m) /\ t[i].key # key
      <4>1. CASE i < place
        BY <1>2, <2>1, <2>3, <4>1 DEF Contents, Indices
      <4>2. CASE i >= place
        <5>1. i + 1 \in Indices(m) /\ t[i] = m[i + 1] /\ i + 1 # place
          BY <2>1, <2>3, <4>2 DEF Indices
        <5> QED
          BY <1>2, <5>1 DEF Contents
      <4> QED
        BY <2>1, <4>1, <4>2 DEF Indices
    <3>2. ASSUME NEW i \in Indices(m), m[i].key # key PROVE m[i] \in Contents(t)
      <4>1. i # place
        BY <1>2, <1>5, <3>2
      <4>2. CASE i < place
        <5>1. i \in Indices(t) /\ t[i] = m[i]
          BY <1>1, <2>1, <2>2, <4>2 DEF Indices
        <5> QED
          BY <5>1 DEF Contents
      <4>3. CASE i > place
        <5>1. i - 1 \in Indices(t) /\ t[i - 1] = m[(i - 1) + 1] /\ (i - 1) + 1 = i
          BY <1>1, <2>1, <2>2, <4>3 DEF Indices
        <5> QED
          BY <5>1 DEF Contents
      <4> QED
        BY <2>1, <4>1, <4>2, <4>3 DEF Indices
    <3> QED
      BY <3>1, <3>2 DEF Contents
  <2> QED
    BY <2>2, <2>4, <2>5 DEF Map, t
<1> QED
  BY <1>4, <1>5

-----------------------------------------------------------------------------
(* Merging leaves the entries in their places, and makes some unknown.     *)

LEMMA MergedEntries ==
  ASSUME NEW m, Map(m), NEW other, NEW memory
  PROVE  LET t == Merge(m, other, memory)
         IN  /\ Map(t) /\ Indices(t) = Indices(m)
             /\ \A i \in Indices(m) :
                  /\ t[i].key = m[i].key
                  /\ t[i] = m[i] \/ (Defined(m, i) /\ t[i].kind = "unknown")
                  /\ Defined(t, i) =>
                       t[i] = m[i] /\ Defined(m, i) /\ Agrees(m, i, other, memory)
<1> DEFINE t == Merge(m, other, memory)
           lost(i) == Defined(m, i) /\ ~ Agrees(m, i, other, memory)
<1>1. m \in Seq(Entry) /\ Len(m) \in Nat
  BY DEF Map
<1>2. \A i \in Indices(m) : m[i] \in Entry
  BY EntryOfMap
<1>3. t = [i \in 1..Len(m) |-> IF lost(i) THEN [m[i] EXCEPT !.kind = "unknown"] ELSE m[i]]
  BY DEF Merge, Indices
<1>4. ASSUME NEW i \in 1..Len(m)
      PROVE  /\ t[i] = IF lost(i) THEN [m[i] EXCEPT !.kind = "unknown"] ELSE m[i]
             /\ t[i] \in Entry
             /\ t[i].key = m[i].key
             /\ lost(i) => t[i].kind = "unknown"
  <2> HIDE DEF t, lost
  <2>1. t[i] = IF lost(i) THEN [m[i] EXCEPT !.kind = "unknown"] ELSE m[i]
    BY <1>3
  <2> QED
    BY <1>2, <2>1 DEF Entry, Kind, Indices
<1>5. t \in Seq(Entry) /\ Len(t) = Len(m)
  <2> HIDE DEF t, lost
  <2>1. t = [i \in 1..Len(m) |-> t[i]]
    BY <1>3
  <2> QED
    BY <1>1, <1>4, <2>1
<1> HIDE DEF t
<1>6. Indices(t) = Indices(m) /\ Indices(m) = 1..Len(m)
  BY <1>5 DEF Indices
<1>7. Sorted(t)
  BY <1>4, <1>6 DEF Map, Sorted
<1>8. ASSUME NEW i \in Indices(m)
      PROVE  /\ t[i].key = m[i].key
             /\ t[i] = m[i] \/ (Defined(m, i) /\ t[i].kind = "unknown")
             /\ Defined(t, i) =>
                  t[i] = m[i] /\ Defined(m, i) /\ Agrees(m, i, other, memory)
  <2>1. CASE lost(i)
    BY <1>4, <1>6, <2>1 DEF Defined
  <2>2. CASE ~ lost(i)
    BY <1>4, <1>6, <2>2 DEF Defined
  <2> QED
    BY <2>1, <2>2
<1> QED
  BY <1>5, <1>6, <1>7, <1>8 DEF Map, t

-----------------------------------------------------------------------------
(* The type.                                                               *)

LEMMA TypeOfMaps == TypeOK <=> /\ Map(values) /\ Map(kept)
                              /\ reached \in BOOLEAN /\ failed \in BOOLEAN
  BY DEF TypeOK, Map

(* What a store of a variable leaves of the working map.                   *)
Stores(k) ==
  /\ Map(values')
  /\ \/ \E e \in Entry :
          e.key = k /\ Contents(values') = {d \in Contents(values) : d.key # k} \cup {e}
     \/ Contents(values') = {d \in Contents(values) : d.key # k}

LEMMA StoreStores ==
  ASSUME TypeOK, StoreKnown \/ StoreUnknown \/ StoreOriginal
  PROVE  \E k \in Variables : Stores(k)
<1>0. Map(values)
  BY TypeOfMaps
<1>1. ASSUME StoreKnown \/ StoreUnknown
      PROVE  \E e \in Entry : values' = Put(values, e)
  <2>1. CASE StoreKnown
    <3>1. PICK k \in Variables, known \in ({"absolute"} \X Number)
                                         \cup ({"relative"} \X Segment) :
            values' = Put(values, [key |-> k, word |-> known[2], kind |-> known[1]])
      BY <2>1 DEF StoreKnown
    <3>2. [key |-> k, word |-> known[2], kind |-> known[1]] \in Entry
      BY DEF Entry, Value, Kind
    <3> QED
      BY <3>1, <3>2
  <2>2. CASE StoreUnknown
    <3>1. PICK k \in Variables : \E w \in WordBefore(values, k) :
            values' = Put(values, [key |-> k, word |-> w, kind |-> "unknown"])
      BY <2>2 DEF StoreUnknown
    <3>2. PICK w \in WordBefore(values, k) :
            values' = Put(values, [key |-> k, word |-> w, kind |-> "unknown"])
      BY <3>1
    <3>3. w \in Value
      <4>1. k \in Int
        BY VariablesAssumption
      <4>2. CASE Has(values, k)
        <5>1. w = values[Gap(values, k) + 1].word /\ Gap(values, k) + 1 \in Indices(values)
          BY <1>0, <4>1, <4>2, EntryBehindGap DEF WordBefore
        <5>2. values[Gap(values, k) + 1] \in Entry
          BY <1>0, <5>1, EntryOfMap
        <5> QED
          BY <5>1, <5>2 DEF Entry
      <4>3. CASE ~ Has(values, k)
        BY <4>3 DEF WordBefore
      <4> QED
        BY <4>2, <4>3
    <3>4. [key |-> k, word |-> w, kind |-> "unknown"] \in Entry
      BY <3>3 DEF Entry, Kind
    <3> QED
      BY <3>2, <3>4
  <2> QED
    BY <1>1, <2>1, <2>2
<1>2. CASE StoreKnown \/ StoreUnknown
  <2>1. PICK e \in Entry : values' = Put(values, e)
    BY <1>1, <1>2
  <2>2. /\ Map(values')
        /\ Contents(values') = {d \in Contents(values) : d.key # e.key} \cup {e}
    BY <1>0, <2>1, PutContents
  <2>3. e.key \in Variables
    BY DEF Entry
  <2> QED
    BY <2>2, <2>3 DEF Stores
<1>3. CASE StoreOriginal
  <2>1. PICK k \in Variables : values' = Removed(values, k)
    BY <1>3 DEF StoreOriginal
  <2> QED
    BY <1>0, <2>1, RemovedContents DEF Stores
<1> QED
  BY <1>2, <1>3

LEMMA KeptAfterArrive ==
  ASSUME TypeOK, Arrive
  PROVE  \E memory :
           \/ kept' = values
           \/ kept' = Merge(kept, values, memory)
           \/ kept' = kept /\ ~ Changes(kept, values, memory)
<1>1. PICK memory \in [1..Len(kept) -> Value] :
        kept' = CASE ~reached -> values
                  [] reached /\ Changes(kept, values, memory) ->
                       Merge(kept, values, memory)
                  [] OTHER -> kept
  BY DEF Arrive
<1>2. CASE ~ reached
  BY <1>1, <1>2
<1>3. CASE reached /\ Changes(kept, values, memory)
  BY <1>1, <1>3
<1>4. CASE reached /\ ~ Changes(kept, values, memory)
  BY <1>1, <1>4
<1> QED
  BY <1>2, <1>3, <1>4

LEMMA EmptyMap == Map(<<>>) /\ Contents(<<>>) = {}
<1>1. <<>> \in Seq(Entry) /\ Indices(<<>>) = {}
  BY DEF Indices
<1> QED
  BY <1>1 DEF Map, Contents, Sorted

LEMMA InitType == Init => TypeOK
  BY EmptyMap, TypeOfMaps DEF Init

LEMMA TypeStep == TypeOK /\ [Next]_vars => TypeOK'
<1> SUFFICES ASSUME TypeOK, [Next]_vars PROVE TypeOK'
  OBVIOUS
<1>0. Map(values) /\ Map(kept) /\ reached \in BOOLEAN /\ failed \in BOOLEAN
  BY TypeOfMaps
<1>1. CASE StoreKnown \/ StoreUnknown \/ StoreOriginal
  <2>1. Map(values')
    BY <1>1, StoreStores DEF Stores
  <2>2. kept' = kept /\ reached' = reached /\ failed' \in BOOLEAN
    BY <1>0, <1>1 DEF StoreKnown, StoreUnknown, StoreOriginal, Has
  <2> QED
    BY <1>0, <2>1, <2>2 DEF TypeOK, Map
<1>2. CASE Arrive
  <2>1. Map(kept')
    <3>1. PICK memory :
            \/ kept' = values
            \/ kept' = Merge(kept, values, memory)
            \/ kept' = kept /\ ~ Changes(kept, values, memory)
      BY <1>2, KeptAfterArrive
    <3>2. Map(Merge(kept, values, memory))
      BY <1>0, MergedEntries
    <3> QED
      BY <1>0, <3>1, <3>2
  <2> QED
    BY <1>0, <1>2, <2>1 DEF Arrive, TypeOK, Map
<1>3. CASE Resume
  BY <1>0, <1>3 DEF Resume, TypeOK, Map
<1>4. CASE UNCHANGED vars
  BY <1>4 DEF vars, TypeOK, Sorted, Indices
<1> QED
  BY <1>1, <1>2, <1>3, <1>4 DEF Next

(* gvwvmap.c: the entries of a map stay sorted by the position of their    *)
(* variable, one for each, whatever is stored, removed and merged, so that *)
(* the halving of the array finds the value of any variable.               *)
THEOREM MapsStaySorted == Spec => []TypeOK
  BY InitType, TypeStep, PTL DEF Spec

-----------------------------------------------------------------------------
(* The tables.                                                             *)

Known == {"absolute", "relative"} \X Value

LEMMA LookupInTable ==
  ASSUME NEW m, Map(m), NEW k \in Variables
  PROVE  Lookup(m, k) \in Known \cup {Unknown, Original}
<1>1. CASE \E e \in Contents(m) : e.key = k
  <2>1. PICK e \in Contents(m) : e.key = k
    BY <1>1
  <2>2. Lookup(m, k) = Told(e)
    BY <2>1, LookupTells
  <2>3. e \in Entry
    BY EntryOfMap DEF Contents
  <2> QED
    BY <2>2, <2>3 DEF Told, Known, Entry, Kind
<1>2. CASE ~ \E e \in Contents(m) : e.key = k
  BY <1>2, LookupTells
<1> QED
  BY <1>1, <1>2

LEMMA SameLookup ==
  ASSUME NEW m, Map(m), NEW t, Map(t), NEW k \in Variables,
         {e \in Contents(m) : e.key = k} = {e \in Contents(t) : e.key = k}
  PROVE  Lookup(t, k) = Lookup(m, k)
<1>1. CASE \E e \in Contents(m) : e.key = k
  <2>1. PICK e \in Contents(m) : e.key = k /\ e \in Contents(t)
    BY <1>1
  <2>2. Lookup(m, k) = Told(e) /\ Lookup(t, k) = Told(e)
    BY <2>1, LookupTells
  <2> QED
    BY <2>2
<1>2. CASE ~ \E e \in Contents(m) : e.key = k
  <2>1. ~ \E e \in Contents(t) : e.key = k
    BY <1>2
  <2>2. Lookup(m, k) = Original /\ Lookup(t, k) = Original
    BY <1>2, <2>1, LookupTells
  <2> QED
    BY <2>2
<1> QED
  BY <1>1, <1>2

LEMMA IdealInit == Init => Ideal!Init
<1> SUFFICES ASSUME Init PROVE Ideal!Init
  OBVIOUS
<1>1. values = <<>> /\ kept = <<>>
  BY DEF Init
<1>2. \A k \in Variables : Lookup(<<>>, k) = Original
  BY EmptyMap, LookupTells
<1> QED
  BY <1>1, <1>2 DEF Ideal!Init, TableOf

LEMMA IdealStep ==
  TypeOK /\ TypeOK' /\ [Next]_vars
    => [Ideal!Next]_<<TableOf(values), TableOf(kept)>>
<1> SUFFICES ASSUME TypeOK, TypeOK', [Next]_vars
             PROVE  [Ideal!Next]_<<TableOf(values), TableOf(kept)>>
  OBVIOUS
<1>0. Map(values) /\ Map(kept) /\ Map(values') /\ Map(kept')
  BY DEF TypeOK, Map
<1>1. CASE StoreKnown \/ StoreUnknown \/ StoreOriginal
  <2>1. PICK k \in Variables : Stores(k)
    BY <1>1, StoreStores
  <2>2. TableOf(values') \in Ideal!Table
    BY <1>0, LookupInTable DEF Ideal!Table, TableOf, Known
  <2>3. \A j \in Variables \ {k} : TableOf(values')[j] = TableOf(values)[j]
    <3> SUFFICES ASSUME NEW j \in Variables \ {k}
                 PROVE  Lookup(values', j) = Lookup(values, j)
      BY DEF TableOf
    <3>1. {e \in Contents(values) : e.key = j} = {e \in Contents(values') : e.key = j}
      BY <2>1 DEF Stores
    <3> QED
      BY <1>0, <3>1, SameLookup
  <2>4. kept' = kept
    BY <1>1 DEF StoreKnown, StoreUnknown, StoreOriginal
  <2>5. Ideal!Store(k)
    BY <2>2, <2>3, <2>4 DEF Ideal!Store, TableOf
  <2> QED
    BY <2>5 DEF Ideal!Next
<1>2. CASE Arrive
  <2>1. PICK memory :
          \/ kept' = values
          \/ kept' = Merge(kept, values, memory)
          \/ kept' = kept /\ ~ Changes(kept, values, memory)
    BY <1>2, KeptAfterArrive
  <2>2. values' = values
    BY <1>2 DEF Arrive
  <2>3. CASE kept' = values
    <3>1. Ideal!Keep
      BY <2>2, <2>3 DEF Ideal!Keep, TableOf
    <3> QED
      BY <3>1 DEF Ideal!Next
  <2>4. CASE kept' = Merge(kept, values, memory)
    <3>1. TableOf(kept') \in Ideal!Table
      BY <1>0, LookupInTable DEF Ideal!Table, TableOf, Known
    <3>2. ASSUME NEW k \in Variables, Lookup(kept', k) # Lookup(kept, k)
          PROVE  Lookup(kept, k) \in Known /\ Lookup(kept', k) = Unknown
      <4>1. /\ Indices(kept') = Indices(kept)
            /\ \A i \in Indices(kept) :
                 /\ kept'[i].key = kept[i].key
                 /\ kept'[i] = kept[i] \/ (Defined(kept, i) /\ kept'[i].kind = "unknown")
        BY <1>0, <2>4, MergedEntries
      <4>2. PICK i \in Indices(kept) : kept[i].key = k
        <5> SUFFICES ASSUME \A i \in Indices(kept) : kept[i].key # k PROVE FALSE
          OBVIOUS
        <5>1. /\ \A e \in Contents(kept) : e.key # k
              /\ \A e \in Contents(kept') : e.key # k
          BY <4>1 DEF Contents
        <5>2. Lookup(kept', k) = Original /\ Lookup(kept, k) = Original
          BY <1>0, <5>1, LookupTells
        <5> QED
          BY <3>2, <5>2
      <4>3. Lookup(kept, k) = Told(kept[i]) /\ Lookup(kept', k) = Told(kept'[i])
        <5>1. /\ kept[i] \in Contents(kept) /\ kept'[i] \in Contents(kept')
              /\ kept[i].key = k /\ kept'[i].key = k
          BY <4>1, <4>2 DEF Contents
        <5> QED
          BY <1>0, <5>1, LookupTells
      <4>4. Defined(kept, i) /\ kept'[i].kind = "unknown"
        BY <3>2, <4>1, <4>3
      <4>5. kept[i] \in Entry
        BY <1>0, EntryOfMap
      <4> QED
        BY <4>3, <4>4, <4>5 DEF Told, Defined, Known, Entry
    <3>3. Ideal!Lose
      BY <2>2, <3>1, <3>2 DEF Ideal!Lose, TableOf, Known
    <3> QED
      BY <3>3 DEF Ideal!Next
  <2>5. CASE kept' = kept
    BY <2>2, <2>5
  <2> QED
    BY <2>1, <2>3, <2>4, <2>5
<1>3. CASE Resume
  <2>1. Ideal!Resume
    BY <1>3 DEF Resume, Ideal!Resume, TableOf
  <2> QED
    BY <2>1 DEF Ideal!Next
<1>4. CASE UNCHANGED vars
  BY <1>4 DEF vars
<1> QED
  BY <1>1, <1>2, <1>3, <1>4 DEF Next

(* gvwvmap.c: what is read of a variable is what was last stored there,    *)
(* and the map of an origin only loses what it knows, for any number of    *)
(* variables and words.                                                    *)
THEOREM ValuesImplemented == Spec => ImplementsValues
  BY InitType, TypeStep, IdealInit, IdealStep, PTL
  DEF Spec, ImplementsValues, Ideal!Spec, Ideal!vars

-----------------------------------------------------------------------------
(* What a merge keeps.                                                     *)

LEMMA MergeAgrees ==
  ASSUME TypeOK, Arrive
  PROVE  \A i \in Indices(kept') :
           Defined(kept', i) => AgreesWith(kept'[i], i, values)
<1>0. Map(values) /\ Map(kept)
  BY TypeOfMaps
<1>1. PICK memory :
        \/ kept' = values
        \/ kept' = Merge(kept, values, memory)
        \/ kept' = kept /\ ~ Changes(kept, values, memory)
  BY KeptAfterArrive
<1>2. ASSUME NEW i \in Indices(kept), Defined(kept, i), Agrees(kept, i, values, memory)
      PROVE  AgreesWith(kept[i], i, values)
  <2> DEFINE j == Gap(values, kept[i].key) + 1
  <2>1. Has(values, kept[i].key) /\ Defined(values, j)
    BY <1>2 DEF Agrees
  <2>2. ASSUME i = j
        PROVE  kept[i] = values[j]
    <3>1. i \in Indices(values) /\ i <= Len(values)
      <4>1. kept[i].key \in Int
        BY <1>0, <1>2, EntryOfMap
      <4>2. j \in Indices(values) /\ values[j].key = kept[i].key
        BY <1>0, <2>1, <4>1, EntryBehindGap
      <4> QED
        BY <1>0, <2>2, <4>2 DEF Indices, Map
    <3>2. kept[i] \in Entry /\ values[i] \in Entry
      BY <1>0, <1>2, <3>1, EntryOfMap
    <3>3. kept[i].key = values[i].key /\ kept[i].word = values[i].word
      BY <1>2, <2>1, <2>2, <3>1 DEF Agrees, Has
    <3>4. kept[i].kind = "absolute" /\ values[i].kind = "absolute"
      BY <1>2, <2>1, <2>2 DEF Defined
    <3> QED
      BY <2>2, <3>2, <3>3, <3>4 DEF Entry
  <2> QED
    BY <2>1, <2>2 DEF AgreesWith
<1>3. CASE kept' = values
  <2> SUFFICES ASSUME NEW i \in Indices(values), Defined(values, i)
               PROVE  AgreesWith(values[i], i, values)
    BY <1>3
  <2>1. values[i].key \in Int
    BY <1>0, EntryOfMap
  <2>2. i = Gap(values, values[i].key) + 1 /\ Has(values, values[i].key)
    BY <1>0, <2>1, EntryBehindGap
  <2> QED
    BY <2>2 DEF AgreesWith
<1>4. CASE kept' = Merge(kept, values, memory)
  <2>1. /\ Indices(kept') = Indices(kept)
        /\ \A i \in Indices(kept) :
             Defined(kept', i) =>
               kept'[i] = kept[i] /\ Defined(kept, i) /\ Agrees(kept, i, values, memory)
    BY <1>0, <1>4, MergedEntries
  <2> QED
    BY <1>2, <2>1
<1>5. CASE kept' = kept /\ ~ Changes(kept, values, memory)
  BY <1>2, <1>5 DEF Changes
<1> QED
  BY <1>1, <1>3, <1>4, <1>5

(* gvwvmap.c:319-332: every absolute value that a merge keeps is known to  *)
(* the code that arrived, and is its value where both maps have the        *)
(* variable at the same index.                                             *)
THEOREM MergesAgree == Spec => MergedValuesAgree
<1>1. TypeOK /\ [Next]_vars =>
        [Arrive => \A i \in Indices(kept') :
           Defined(kept', i) => AgreesWith(kept'[i], i, values)]_vars
  BY MergeAgrees
<1> QED
  BY <1>1, MapsStaySorted, PTL DEF Spec, MergedValuesAgree

=============================================================================

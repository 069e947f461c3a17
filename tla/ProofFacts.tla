----------------------------- MODULE ProofFacts -----------------------------
(***************************************************************************)
(* What several proofs need to know of sets of numbers and of sequences.   *)
(* Induction is used in the form of the least counterexample: the set of   *)
(* the numbers for which a claim fails has a least one, unless it is       *)
(* empty.                                                                  *)
(***************************************************************************)
EXTENDS Integers, FiniteSets, SequencesExt, FiniteSetTheorems,
        WellFoundedInduction, TLAPS

-----------------------------------------------------------------------------
(* Numbers.                                                                *)

(* The natural numbers of a set have a least one.                          *)
LEMMA Least ==
  ASSUME NEW S \in SUBSET Nat, S # {}
  PROVE  \E x \in S : \A y \in S : x <= y
<1> DEFINE R == OpToRel(<, Nat)
<1>1. PICK x \in S : \A y \in S : ~ (<<y, x>> \in R)
  <2>1. IsWellFoundedOn(R, Nat)
    BY NatLessThanWellFounded
  <2> HIDE DEF R
  <2> QED
    BY <2>1, WFMin, Zenon
<1>2. \A y \in S : ~ (y < x)
  BY <1>1, Zenon DEF OpToRel
<1> QED
  BY <1>2, SMT

(* If none is greater than n they have a greatest one: the least of the    *)
(* distances to n.                                                         *)
LEMMA Greatest ==
  ASSUME NEW n \in Nat, NEW S \in SUBSET (0..n), S # {}
  PROVE  \E x \in S : \A y \in S : y <= x
<1> DEFINE D == {d \in Nat : n - d \in S}
<1>1. D # {}
  <2>1. PICK x \in S : TRUE
    OBVIOUS
  <2>2. n - x \in Nat /\ n - (n - x) = x
    OBVIOUS
  <2> QED
    BY <2>1, <2>2
<1>2. PICK d \in D : \A e \in D : d <= e
  <2> HIDE DEF D
  <2>1. D \in SUBSET Nat
    BY DEF D
  <2> QED
    BY <1>1, <2>1, Least
<1>3. \A y \in S : y <= n - d
  <2> SUFFICES ASSUME NEW y \in S PROVE y <= n - d
    OBVIOUS
  <2>1. n - y \in Nat /\ n - (n - y) = y
    OBVIOUS
  <2>2. n - y \in D
    BY <2>1
  <2> QED
    BY <1>2, <2>2
<1> QED
  BY <1>2, <1>3

(* A set of numbers that has, with each of them, all smaller ones down to  *)
(* 1 is an interval, which its cardinality tells.                          *)
LEMMA InitialInterval ==
  ASSUME NEW n \in Nat, NEW S \in SUBSET (1..n),
         \A i \in S : \A j \in 1..i : j \in S
  PROVE  /\ Cardinality(S) \in 0..n
         /\ \A i \in 1..n : i \in S <=> i <= Cardinality(S)
<1>1. IsFiniteSet(1..n) /\ Cardinality(1..n) = n
  BY FS_Interval
<1>2. IsFiniteSet(S) /\ Cardinality(S) \in Nat /\ Cardinality(S) <= n
  BY <1>1, FS_Subset, FS_CardinalityType
<1>3. ASSUME NEW i \in S PROVE i <= Cardinality(S)
  <2>1. 1..i \in SUBSET S /\ i \in Nat
    OBVIOUS
  <2>2. Cardinality(1..i) = i
    BY <2>1, FS_Interval
  <2> QED
    BY <1>2, <2>1, <2>2, FS_Subset
<1>4. ASSUME NEW i \in 1..n, i \notin S PROVE Cardinality(S) < i
  <2>1. S \in SUBSET (1..(i - 1))
    BY <1>4
  <2>2. IsFiniteSet(1..(i - 1)) /\ Cardinality(1..(i - 1)) = i - 1
    BY FS_Interval
  <2>3. Cardinality(S) <= Cardinality(1..(i - 1))
    BY <2>1, <2>2, FS_Subset, Zenon
  <2> QED
    BY <1>2, <2>2, <2>3
<1> QED
  BY <1>2, <1>3, <1>4

-----------------------------------------------------------------------------
(* Sequences.                                                              *)

LEMMA ExceptInSequence ==
  ASSUME NEW S, NEW s \in Seq(S), NEW i, NEW x, i \in DOMAIN s => x \in S
  PROVE  [s EXCEPT ![i] = x] \in Seq(S) /\ Len([s EXCEPT ![i] = x]) = Len(s)
<1> DEFINE t == [s EXCEPT ![i] = x]
<1>1. DOMAIN t = 1..Len(s)
  OBVIOUS
<1>2. \A j \in 1..Len(s) : t[j] \in S
  OBVIOUS
<1>3. t = [j \in 1..Len(s) |-> t[j]]
  BY <1>1
<1> HIDE DEF t
<1>4. [j \in 1..Len(s) |-> t[j]] \in Seq(S) /\ Len([j \in 1..Len(s) |-> t[j]]) = Len(s)
  BY <1>2
<1>5. t \in Seq(S) /\ Len(t) = Len(s)
  BY <1>3, <1>4
<1> QED
  BY <1>5 DEF t

(* An element put at a place moves those from there on by one.             *)
LEMMA InsertedElements ==
  ASSUME NEW S, NEW s \in Seq(S), NEW x \in S, NEW place \in 1..(Len(s) + 1)
  PROVE  /\ InsertAt(s, place, x) \in Seq(S)
         /\ Len(InsertAt(s, place, x)) = Len(s) + 1
         /\ \A i \in 1..(place - 1) : InsertAt(s, place, x)[i] = s[i]
         /\ InsertAt(s, place, x)[place] = x
         /\ \A i \in (place + 1)..(Len(s) + 1) : InsertAt(s, place, x)[i] = s[i - 1]
<1>0. PICK at \in 0..Len(s) : place = at + 1 /\ at = place - 1
  <2>1. place - 1 \in 0..Len(s) /\ place = (place - 1) + 1
    OBVIOUS
  <2> QED
    BY <2>1
<1> DEFINE before == SubSeq(s, 1, at)
           behind == SubSeq(s, at + 1, Len(s))
           front  == before \o <<x>>
           all    == InsertAt(s, place, x)
<1>1. all = front \o behind
  BY <1>0 DEF InsertAt
<1>2. /\ before \in Seq(S) /\ Len(before) = at
      /\ \A i \in 1..at : before[i] = s[i]
  OBVIOUS
<1>3. /\ behind \in Seq(S) /\ Len(behind) = Len(s) - at
      /\ \A i \in 1..(Len(s) - at) : behind[i] = s[at + i]
  OBVIOUS
<1> HIDE DEF before, behind
<1>4. /\ front \in Seq(S) /\ Len(front) = at + 1 /\ front[at + 1] = x
      /\ \A i \in 1..at : front[i] = s[i]
  BY <1>2
<1> HIDE DEF front, all
<1>5. all \in Seq(S) /\ Len(all) = Len(front) + Len(behind)
  <2>1. /\ front \o behind \in Seq(S)
        /\ Len(front \o behind) = Len(front) + Len(behind)
    <3>1. front \in Seq(S) /\ behind \in Seq(S)
      BY <1>3, <1>4
    <3> QED
      BY <3>1
  <2> QED
    BY <1>1, <2>1, Zenon
<1>6. Len(s) \in Nat /\ at \in Nat /\ Len(front) + Len(behind) = Len(s) + 1
  BY <1>3, <1>4
<1>7. ASSUME NEW i \in 1..(Len(s) + 1)
      PROVE  all[i] = IF i <= at THEN s[i] ELSE IF i = at + 1 THEN x ELSE s[i - 1]
  <2>1. CASE i <= at + 1
    <3>1. all[i] = front[i]
      BY <1>1, <1>3, <1>4, <1>6, <2>1
    <3> QED
      BY <1>4, <1>6, <2>1, <3>1
  <2>2. CASE i > at + 1
    <3>1. all[i] = behind[i - (at + 1)]
      BY <1>0, <1>1, <1>3, <1>4, <1>6, <2>2
    <3>2. i - (at + 1) \in 1..(Len(s) - at) /\ at + (i - (at + 1)) = i - 1
      BY <1>6, <2>2
    <3> QED
      BY <1>3, <1>6, <2>2, <3>1, <3>2
  <2> QED
    BY <1>6, <2>1, <2>2
<1>8. all[place] = x
  BY <1>0, <1>6, <1>7
<1>9. \A i \in 1..(place - 1) : all[i] = s[i]
  BY <1>0, <1>6, <1>7
<1>10. \A i \in (place + 1)..(Len(s) + 1) : all[i] = s[i - 1]
  BY <1>0, <1>6, <1>7
<1> QED
  BY <1>5, <1>6, <1>8, <1>9, <1>10 DEF all

(* The same of numbers, a case that the provers do not see in it.          *)
LEMMA InsertedNumber ==
  ASSUME NEW s \in Seq(Nat), NEW x \in Nat, NEW place \in 1..(Len(s) + 1)
  PROVE  /\ InsertAt(s, place, x) \in Seq(Nat)
         /\ Len(InsertAt(s, place, x)) = Len(s) + 1
         /\ \A i \in 1..(place - 1) : InsertAt(s, place, x)[i] = s[i]
         /\ InsertAt(s, place, x)[place] = x
         /\ \A i \in (place + 1)..(Len(s) + 1) : InsertAt(s, place, x)[i] = s[i - 1]
<1>1. PICK S : S = Nat
  OBVIOUS
<1>2. s \in Seq(S) /\ x \in S
  BY <1>1
<1>3. /\ InsertAt(s, place, x) \in Seq(S)
      /\ Len(InsertAt(s, place, x)) = Len(s) + 1
      /\ \A i \in 1..(place - 1) : InsertAt(s, place, x)[i] = s[i]
      /\ InsertAt(s, place, x)[place] = x
      /\ \A i \in (place + 1)..(Len(s) + 1) : InsertAt(s, place, x)[i] = s[i - 1]
  BY <1>2, InsertedElements
<1> QED
  BY <1>1, <1>3

(* The elements behind one that is taken out move back by one.            *)
LEMMA RemovedElements ==
  ASSUME NEW S, NEW s \in Seq(S), NEW place \in 1..Len(s)
  PROVE  /\ RemoveAt(s, place) \in Seq(S)
         /\ Len(RemoveAt(s, place)) = Len(s) - 1
         /\ \A i \in 1..(place - 1) : RemoveAt(s, place)[i] = s[i]
         /\ \A i \in place..(Len(s) - 1) : RemoveAt(s, place)[i] = s[i + 1]
<1>0. PICK at \in 0..(Len(s) - 1) : place = at + 1 /\ at = place - 1
  <2>1. place - 1 \in 0..(Len(s) - 1) /\ place = (place - 1) + 1
    OBVIOUS
  <2> QED
    BY <2>1
<1> DEFINE before == SubSeq(s, 1, at)
           behind == SubSeq(s, at + 2, Len(s))
           all    == RemoveAt(s, place)
<1>1. all = before \o behind
  <2>1. place + 1 = at + 2 /\ place - 1 = at
    BY <1>0
  <2> QED
    BY <2>1 DEF RemoveAt
<1>2. /\ before \in Seq(S) /\ Len(before) = at
      /\ \A i \in 1..at : before[i] = s[i]
  OBVIOUS
<1>3. /\ behind \in Seq(S) /\ Len(behind) = Len(s) - (at + 1)
      /\ \A i \in 1..(Len(s) - (at + 1)) : behind[i] = s[at + 1 + i]
  OBVIOUS
<1> HIDE DEF before, behind, all
<1>4. all \in Seq(S) /\ Len(all) = Len(before) + Len(behind)
  <2>1. /\ before \o behind \in Seq(S)
        /\ Len(before \o behind) = Len(before) + Len(behind)
    <3>1. before \in Seq(S) /\ behind \in Seq(S)
      BY <1>2, <1>3
    <3> QED
      BY <3>1
  <2> QED
    BY <1>1, <2>1, Zenon
<1>5. Len(s) \in Nat /\ at \in Nat /\ Len(before) + Len(behind) = Len(s) - 1
  BY <1>2, <1>3
<1>6. ASSUME NEW i \in 1..(Len(s) - 1)
      PROVE  all[i] = IF i <= at THEN s[i] ELSE s[i + 1]
  <2>1. CASE i <= at
    <3>1. all[i] = before[i]
      BY <1>1, <1>2, <1>3, <1>5, <2>1
    <3> QED
      BY <1>2, <1>5, <2>1, <3>1
  <2>2. CASE i > at
    <3>1. all[i] = behind[i - at]
      BY <1>1, <1>2, <1>3, <1>5, <2>2
    <3>2. i - at \in 1..(Len(s) - (at + 1)) /\ at + 1 + (i - at) = i + 1
      BY <1>5, <2>2
    <3> QED
      BY <1>3, <1>5, <2>2, <3>1, <3>2
  <2> QED
    BY <1>5, <2>1, <2>2
<1>7. \A i \in 1..(place - 1) : all[i] = s[i]
  BY <1>0, <1>5, <1>6
<1>8. \A i \in place..(Len(s) - 1) : all[i] = s[i + 1]
  BY <1>0, <1>5, <1>6
<1> QED
  BY <1>4, <1>5, <1>7, <1>8 DEF all

=============================================================================

----------------------------- MODULE WordValues -----------------------------
(***************************************************************************)
(* The values of global variables of gvwvmap.c: an array of entries sorted *)
(* by the position of the variable, with the value as a word and two bits  *)
(* for "defined" and "relative".  A variable without an entry has the      *)
(* value that stands in the image.                                         *)
(*                                                                         *)
(* The module follows the two maps that meet when a block is reached: the  *)
(* map of the code that jumps, and the map kept by the origin.             *)
(***************************************************************************)
EXTENDS Integers, FiniteSets, Sequences, SequencesExt

CONSTANTS
  Variables,  \* the positions of the variables
  Number,     \* the words that are stored as absolute values
  Segment,    \* the words that are stored as values relative to CS
  Unknown,    \* what is known of a variable that may hold anything
  Original    \* what is known of a variable without an entry

ASSUME VariablesAssumption == Variables \subseteq Int

VARIABLES
  values,   \* the working map
  kept,     \* the map of the origin
  reached,  \* whether the origin exists
  failed    \* whether a reallocation has returned NULL

vars == <<values, kept, reached, failed>>

Value == Number \cup Segment
Kind == {"absolute", "relative", "unknown"}
Entry == [key : Variables, word : Value, kind : Kind]

Indices(map) == 1..Len(map)

(* is_gvwvalue_defined_at_index: the relative bit has to be clear.         *)
Defined(map, i) == map[i].kind = "absolute"

-----------------------------------------------------------------------------
(* Searching and writing.                                                  *)

(* Mutant: the place behind the first entry that is not before the key.    *)
GapBehind(map, key) ==
  LET before == {i \in Indices(map) : map[i].key < key}
  IN  IF Cardinality(before) = Len(map) THEN Len(map)
      ELSE Cardinality(before) + 1

(* The entries before the place of the key, found by halving the array.    *)
Gap(map, key) == Cardinality({i \in Indices(map) : map[i].key < key})

Has(map, key) ==
  Gap(map, key) < Len(map) /\ map[Gap(map, key) + 1].key = key

(* Mutant: no gap is made for a new entry.                                 *)
PutOver(map, entry) ==
  LET i == Gap(map, entry.key) + 1
  IN  IF i <= Len(map) THEN [map EXCEPT ![i] = entry] ELSE Append(map, entry)

Put(map, entry) ==
  LET i == Gap(map, entry.key) + 1
  IN  IF Has(map, entry.key) THEN [map EXCEPT ![i] = entry]
      ELSE InsertAt(map, i, entry)

(* The word of an entry is left alone, or never initialised.               *)
WordBefore(map, key) ==
  IF Has(map, key) THEN {map[Gap(map, key) + 1].word} ELSE Value

Removed(map, key) ==
  IF Has(map, key) THEN RemoveAt(map, Gap(map, key) + 1) ELSE map

-----------------------------------------------------------------------------
(* Merging.  Only the entries of the first map that are absolute are       *)
(* compared, and their words with those at the same index of the other     *)
(* map, whatever variable stands there; behind its end with what is left   *)
(* in memory.                                                              *)

(* Mutant: an entry of the other map is taken for known.                   *)
AgreesIfStored(map, i, other, memory) ==
  /\ Has(other, map[i].key)
  /\ map[i].word = IF i <= Len(other) THEN other[i].word ELSE memory[i]

Agrees(map, i, other, memory) ==
  /\ Has(other, map[i].key)
  /\ Defined(other, Gap(other, map[i].key) + 1)
  /\ map[i].word = IF i <= Len(other) THEN other[i].word ELSE memory[i]

Changes(map, other, memory) ==
  \E i \in Indices(map) : Defined(map, i) /\ ~Agrees(map, i, other, memory)

Merge(map, other, memory) ==
  [i \in Indices(map) |->
     IF Defined(map, i) /\ ~Agrees(map, i, other, memory)
     THEN [map[i] EXCEPT !.kind = "unknown"] ELSE map[i]]

-----------------------------------------------------------------------------
(* The finder's use of it.                                                 *)

Init == values = <<>> /\ kept = <<>> /\ reached = FALSE /\ failed = FALSE

StoreKnown ==
  /\ ~failed
  /\ \E k \in Variables, known \in ({"absolute"} \X Number)
                                  \cup ({"relative"} \X Segment) :
       values' = Put(values, [key |-> k, word |-> known[2], kind |-> known[1]])
  /\ UNCHANGED <<kept, reached, failed>>

StoreUnknown ==
  /\ ~failed
  /\ \E k \in Variables : \E w \in WordBefore(values, k) :
       values' = Put(values, [key |-> k, word |-> w, kind |-> "unknown"])
  /\ UNCHANGED <<kept, reached, failed>>

(* The value of the image is stored: the entry is removed.  An array that  *)
(* becomes empty is reallocated to no bytes, for which the C library       *)
(* returns NULL, and the finder gives up.                                  *)
StoreOriginal ==
  /\ ~failed
  /\ \E k \in Variables :
       /\ values' = Removed(values, k)
       /\ failed' = (Has(values, k) /\ Len(values) = 1)
  /\ UNCHANGED <<kept, reached>>

(* The first jump to a block leaves its map there, each further one is     *)
(* merged if that changes something.                                       *)
Arrive ==
  /\ ~failed
  /\ reached' = TRUE
  /\ \E memory \in [1..Len(kept) -> Value] :
       kept' = CASE ~reached -> values
                 [] reached /\ Changes(kept, values, memory) ->
                      Merge(kept, values, memory)
                 [] OTHER -> kept
  /\ UNCHANGED <<values, failed>>

(* A block is read with the map of its origin.                             *)
Resume ==
  /\ ~failed /\ reached
  /\ values' = kept
  /\ UNCHANGED <<kept, reached, failed>>

Next == StoreKnown \/ StoreUnknown \/ StoreOriginal \/ Arrive \/ Resume

Spec == Init /\ [][Next]_vars

-----------------------------------------------------------------------------
(* Properties.                                                             *)

Sorted(map) == \A i, j \in Indices(map) : i < j => map[i].key < map[j].key

(* The searches of gvwvmap.c rely on it: the entries stay sorted by their  *)
(* position, one for a variable, whatever is stored, removed and merged.   *)
TypeOK ==
  /\ values \in Seq(Entry) /\ kept \in Seq(Entry)
  /\ Sorted(values) /\ Sorted(kept)
  /\ reached \in BOOLEAN /\ failed \in BOOLEAN

Lookup(map, key) ==
  IF ~Has(map, key) THEN Original
  ELSE LET e == map[Gap(map, key) + 1]
       IN  IF e.kind = "unknown" THEN Unknown ELSE <<e.kind, e.word>>

TableOf(map) == [k \in Variables |-> Lookup(map, k)]

Ideal == INSTANCE IdealValues WITH
  Key <- Variables, Known <- {"absolute", "relative"} \X Value,
  values <- TableOf(values), kept <- TableOf(kept)

(* What is read of a variable is what was last stored there, whatever else *)
(* was inserted or removed around it, and the map of an origin only loses  *)
(* what it knows.                                                          *)
ImplementsValues == Ideal!Spec

(* gvwvmap.c:319-332: an absolute value that is kept when a block is       *)
(* reached is known to the code that reached it, wherever the two maps     *)
(* have the variable, and is the same where they have it at one index: at  *)
(* different ones the words compared are those of different variables.     *)
AgreesWith(e, i, other) ==
  LET j == Gap(other, e.key) + 1
  IN  Has(other, e.key) /\ Defined(other, j) /\ (i = j => e = other[j])

MergedValuesAgree ==
  [][Arrive => \A i \in Indices(kept') :
       Defined(kept', i) => AgreesWith(kept'[i], i, values)]_vars

=============================================================================

----------------------------- MODULE PagedList ------------------------------
(***************************************************************************)
(* The lists that slmacros.h generates for blocks, origins, functions,     *)
(* variables and references.  The items stand in pages, in the order in    *)
(* which they come, and never move: the program keeps pointers to them.    *)
(* "page_array" holds the pages, and a sorted array holds a pointer to     *)
(* every item.  The two arrays are reallocated when their pages are used   *)
(* up; "room" is the number of pages they are allocated for.               *)
(*                                                                         *)
(* A pointer to an item is its number in the order of insertion.           *)
(***************************************************************************)
EXTENDS Integers, Sequences, SequencesExt

CONSTANTS
  Keys,          \* the positions the items are sorted by
  Blank,         \* what a slot holds that has not been written
  ItemsPerPage,  \* initial_items_per_page
  Granularity    \* initial_page_array_granularity

(* Every list of the program is defined with a granularity of 8.           *)
ASSUME ListAssumption ==
  /\ Keys \subseteq Int /\ Blank \notin Keys
  /\ ItemsPerPage \in Nat \ {0}
  /\ Granularity \in Nat /\ Granularity > 1

VARIABLES
  pages,     \* the pages, each with the keys of its items
  room,      \* the pages that the arrays are allocated for
  sorted,    \* the sorted array
  prepared,  \* whether an item has been prepared and not yet inserted
  outside    \* whether page_array has been written behind its end

listVars == <<pages, room, sorted, prepared, outside>>

ItemCount == Len(sorted)

Page == [0..(ItemsPerPage - 1) -> Keys \cup {Blank}]

(* get_unsorted                                                            *)
KeyOf(item) == pages[item \div ItemsPerPage + 1][item % ItemsPerPage]

-----------------------------------------------------------------------------

(* What is left to search: from the first item, up to before the last.     *)
Spans == (0..ItemCount) \X (0..ItemCount)

(* Mutant: the search for a smaller key leaves out one item too many.      *)
SearchTooFar(k) ==
  LET search[span \in Spans] ==
        LET index == (span[1] + span[2]) \div 2
            this == KeyOf(sorted[index + 1])
        IN  IF span[2] <= span[1] THEN [found |-> FALSE, at |-> span[2]]
            ELSE CASE this < k -> search[<<index + 1, span[2]>>]
                   [] this > k -> search[<<span[1], IF index = 0 THEN 0 ELSE index - 1>>]
                   [] this = k -> [found |-> TRUE, at |-> index]
  IN  search[<<0, ItemCount>>]

(***************************************************************************)
(* The search of insert and of index_of: the item with the key, or the gap *)
(* where it would stand, as the number of items before it.                 *)
(***************************************************************************)
Search(k) ==
  LET search[span \in Spans] ==
        LET index == (span[1] + span[2]) \div 2
            this == KeyOf(sorted[index + 1])
        IN  IF span[2] <= span[1] THEN [found |-> FALSE, at |-> span[2]]
            ELSE CASE this < k -> search[<<index + 1, span[2]>>]
                   [] this > k -> search[<<span[1], index>>]
                   [] this = k -> [found |-> TRUE, at |-> index]
  IN  search[<<0, ItemCount>>]

(* Mutant: a page that is full is not left for a new one.                  *)
FirstPageNeeded == ItemCount = 0

PageNeeded == ItemCount % ItemsPerPage = 0

(* Mutant: the arrays are reallocated for the pages in use.                *)
RoomInUse ==
  IF ItemCount % (ItemsPerPage * Granularity) = 0
  THEN ItemCount \div ItemsPerPage ELSE room

(* The quotient is the number of the full runs of pages, not of the pages  *)
(* in them: at the second reallocation a single page is gained.            *)
RoomToPrepare ==
  IF ItemCount % (ItemsPerPage * Granularity) = 0
  THEN ItemCount \div (ItemsPerPage * Granularity) + Granularity ELSE room

(* Mutant: the new page is put before the others.                          *)
WithPageInFront ==
  <<[slot \in 0..(ItemsPerPage - 1) |-> Blank]>>
    \o SubSeq(pages, 1, ItemCount \div ItemsPerPage)

(* A new page takes the place of one that was allocated for an item which  *)
(* was prepared and not inserted.                                          *)
WithNewPage ==
  SubSeq(pages, 1, ItemCount \div ItemsPerPage)
    \o <<[slot \in 0..(ItemsPerPage - 1) |-> Blank]>>

Fill(ps, k) ==
  [ps EXCEPT ![ItemCount \div ItemsPerPage + 1][ItemCount % ItemsPerPage] = k]

-----------------------------------------------------------------------------

ListInit ==
  /\ pages = <<>> /\ room = 0 /\ sorted = <<>>
  /\ prepared = FALSE /\ outside = FALSE

(* prepare_new; the caller fills in the slot that it answers.              *)
PrepareInPage ==
  /\ ~outside /\ ~PageNeeded
  /\ \E k \in Keys : pages' = Fill(pages, k)
  /\ prepared' = TRUE
  /\ UNCHANGED <<room, sorted, outside>>

PrepareInNewPage ==
  /\ ~outside /\ PageNeeded
  /\ room' = RoomToPrepare
  /\ ItemCount \div ItemsPerPage < RoomToPrepare
  /\ \E k \in Keys : pages' = Fill(WithNewPage, k)
  /\ prepared' = TRUE
  /\ UNCHANGED <<sorted, outside>>

(* The page is written into an array that has no place for it.             *)
PrepareOutside ==
  /\ ~outside /\ PageNeeded
  /\ room' = RoomToPrepare
  /\ ItemCount \div ItemsPerPage >= RoomToPrepare
  /\ outside' = TRUE
  /\ UNCHANGED <<pages, sorted, prepared>>

InsertedAt(at) == InsertAt(sorted, at + 1, ItemCount)

Place == [found : BOOLEAN, at : 0..ItemCount]

(* insert: an item with a key that is there is refused.                    *)
Insert ==
  /\ ~outside /\ prepared
  /\ \E place \in Place :
       /\ place = Search(KeyOf(ItemCount))
       /\ sorted' = IF place.found THEN sorted ELSE InsertedAt(place.at)
  /\ prepared' = FALSE
  /\ UNCHANGED <<pages, room, outside>>

(* clear does nothing when no item has been inserted.                      *)
Clear ==
  /\ ~outside /\ ItemCount > 0
  /\ pages' = <<>> /\ room' = 0 /\ sorted' = <<>> /\ prepared' = FALSE
  /\ UNCHANGED outside

ListNext ==
  PrepareInPage \/ PrepareInNewPage \/ PrepareOutside \/ Insert \/ Clear

ListSpec == ListInit /\ [][ListNext]_listVars

-----------------------------------------------------------------------------
(* Properties.                                                             *)

(* Every item, and the one that is prepared, has a slot in a page, every   *)
(* page a place in page_array and every item one in the sorted array.      *)
ListTypeOK ==
  /\ pages \in Seq(Page) /\ room \in Nat
  /\ sorted \in Seq(Nat)
  /\ prepared \in BOOLEAN /\ outside \in BOOLEAN
  /\ Len(pages) <= room
  /\ ItemCount <= ItemsPerPage * Len(pages)
  /\ prepared => ItemCount < ItemsPerPage * Len(pages)

(* The searches of the lists answer the item with the key if it has been   *)
(* inserted, and otherwise the gap between the smaller and the greater     *)
(* keys, in whatever order the items came.                                 *)
EveryItemIsFound ==
  \A k \in Keys :
    IF \E item \in 0..(ItemCount - 1) : KeyOf(item) = k
    THEN Search(k).found /\ KeyOf(sorted[Search(k).at + 1]) = k
    ELSE /\ ~Search(k).found
         /\ \A i \in 1..ItemCount : i <= Search(k).at <=> KeyOf(sorted[i]) < k

Order == INSTANCE IdealList WITH
  Key <- Keys, order <- [i \in 1..ItemCount |-> KeyOf(i - 1)]

(* No item is lost, moved, overwritten or doubled while pages are added:   *)
(* the lists of Finder and FuncFind, which have no pages, are these.       *)
ImplementsList == Order!Spec

(* slmacros.h:99: the arrays have room for one page more than the          *)
(* granularity.  With fewer items nothing is written outside of them.      *)
OutsideOnlyBeyond ==
  outside => ItemCount = ItemsPerPage * (Granularity + 1)

(* slmacros.h:9: the list grows as more items are added to it.             *)
GrowsWithItsItems == ~outside

=============================================================================

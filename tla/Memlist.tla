------------------------------ MODULE Memlist ------------------------------
(***************************************************************************)
(* The lists of regions that the test framework of the allocator keeps     *)
(* (test_framework/memlist.c), as sequences: the links of a doubly linked  *)
(* list and the objects kept for reuse are left out.  A region is a record *)
(* [start, end] of the words from start to end - 1.                        *)
(***************************************************************************)
EXTENDS Integers, SequencesExt

Region(start, len) == [start |-> start, end |-> start + len]

RegionsOverlap(r, s) == ~(r.end <= s.start \/ r.start >= s.end)

\* Is region before or behind the whole list?
Outside(list, region) ==
  list = <<>> \/ region.end <= list[1].start \/ region.start >= Last(list).end

\* memlist_find_overlap: is an overlap found?  The search stops at a region that
\* lies before the one that is looked for.
FindOverlap(list, region) ==
  /\ ~Outside(list, region)
  /\ \E i \in 1 .. Len(list) :
       /\ RegionsOverlap(list[i], region)
       /\ \A j \in 1 .. i - 1 : ~(list[j].end <= region.start)

\* Does region lie behind the i-th region and before the next?
FitsAfter(list, region, i) ==
  list[i].end <= region.start /\ (i = Len(list) \/ list[i + 1].start >= region.end)

\* Where memlist_add_region's loop stops without an error: at the first place
\* that fits, unless an overlap has been met.
StopsAt(list, region, i) ==
  /\ FitsAfter(list, region, i)
  /\ \A j \in 1 .. i : ~RegionsOverlap(list[j], region)
  /\ \A j \in 1 .. i - 1 : ~FitsAfter(list, region, j)

\* memlist_add_region: can the region be added ...
CanAdd(list, region) ==
  Outside(list, region) \/ \E i \in 1 .. Len(list) : StopsAt(list, region, i)

\* ... and the list with it.
AddRegion(list, region) ==
  IF list = <<>> \/ region.end <= list[1].start THEN <<region>> \o list
  ELSE IF region.start >= Last(list).end THEN Append(list, region)
  ELSE InsertAt(list, 1 + CHOOSE i \in 1 .. Len(list) : StopsAt(list, region, i), region)

\* The list that holds these regions, none of which overlap.
InOrder(regions) ==
  [i \in 1 .. Cardinality(regions) |->
     CHOOSE r \in regions : Cardinality({s \in regions : s.start < r.start}) = i - 1]

\* memlist_find: the place of the region with the word, or 0.  The search stops
\* at a region that starts behind it.
Find(list, word) ==
  LET i == SelectInSeq(list, LAMBDA r : word < r.end)
  IN IF i # 0 /\ word >= list[i].start THEN i ELSE 0
=============================================================================

----------------------------- MODULE ObjectSort -----------------------------
(***************************************************************************)
(* cJSONUtils_SortObject of cJSON_Utils.c: a merge sort that relinks the   *)
(* members of an object in place.  The list is followed as a sequence of   *)
(* items; what the sort writes into next and prev is kept in the heap.     *)
(***************************************************************************)
EXTENDS ItemLinks, SequencesExt

CONSTANTS
  rank,         \* the order of strcmp() on the names: [Key -> Nat]
  object,       \* the object that is sorted
  members       \* the items it can have, in the order they are added

ASSUME SortAssumption ==
  /\ rank \in [Key -> Nat] /\ object \in Item
  /\ members \in Seq(Item \ {object}) /\ IsInjective(members)

\* compare_strings() < 0, which is never so for a member without a name.
Less(h, a, b, case_sensitive) ==
  LET x == h.string[a]
      y == h.string[b]
  IN  /\ x # NULL /\ y # NULL
      /\ IF case_sensitive THEN rank[x] < rank[y]
                           ELSE rank[lower[x]] < rank[lower[y]]

\* Mutant: what is left of the second list is not appended.
MergeDropsRest(h, first, second, case_sensitive) ==
  LET merge[lists \in Seq(Item) \X Seq(Item)] ==
        LET a == lists[1]
            b == lists[2]
        IN  IF a = << >> \/ b = << >> THEN a
            ELSE IF Less(h, a[1], b[1], case_sensitive)
            THEN <<a[1]>> \o merge[<<Tail(a), b>>]
            ELSE <<b[1]>> \o merge[<<a, Tail(b)>>]
  IN  merge[<<first, second>>]

\* Of two members that compare equal the one of the second list goes first.
Merge(h, first, second, case_sensitive) ==
  LET merge[lists \in Seq(Item) \X Seq(Item)] ==
        LET a == lists[1]
            b == lists[2]
        IN  IF a = << >> \/ b = << >> THEN a \o b
            ELSE IF Less(h, a[1], b[1], case_sensitive)
            THEN <<a[1]>> \o merge[<<Tail(a), b>>]
            ELSE <<b[1]>> \o merge[<<a, Tail(b)>>]
  IN  merge[<<first, second>>]

\* The place of an item in a list, 0 if it is not there.
Place(list, i) == SelectInSeq(list, LAMBDA x : x = i)

\* Mutant: the members are chained forwards only.
RelinkedForwards(h, list) ==
  [h EXCEPT !.next = [i \in Item |-> IF Place(list, i) \in 1 .. Len(list) - 1
                                    THEN list[Place(list, i) + 1] ELSE h.next[i]]]

\* result_tail->next = smaller, smaller->prev = result_tail: the first
\* element keeps the prev it had, and the last one its next.
Relinked(h, list) ==
  [h EXCEPT !.next = [i \in Item |-> IF Place(list, i) \in 1 .. Len(list) - 1
                                    THEN list[Place(list, i) + 1] ELSE h.next[i]],
            !.prev = [i \in Item |-> IF Place(list, i) > 1
                                    THEN list[Place(list, i) - 1] ELSE h.prev[i]]]

\* Mutant: only the first two members are compared.
InOrderAtFirst(h, list, case_sensitive) == Less(h, list[1], list[2], case_sensitive)

\* The test that leaves a list alone: strictly increasing names.
InOrder(h, list, case_sensitive) ==
  \A n \in 1 .. Len(list) - 1 : Less(h, list[n], list[n + 1], case_sensitive)

\* The last item of the first half.
Middle(list) == (Len(list) + 1) \div 2

Split(h, list) ==
  [h EXCEPT !.next[list[Middle(list)]] = NULL, !.prev[list[Middle(list) + 1]] = NULL]

sort_list(h, list, case_sensitive) ==
  LET sort[call \in Heap \X Seq(Item)] ==
        LET g == call[1]
            items == call[2]
            first == sort[<<Split(g, items), SubSeq(items, 1, Middle(items))>>]
            second == sort[<<first.heap,
                             SubSeq(items, Middle(items) + 1, Len(items))>>]
            merged == Merge(g, first.ret, second.ret, case_sensitive)
        IN  IF Len(items) < 2 \/ InOrder(g, items, case_sensitive)
            THEN Returns(items, g)
            ELSE Returns(merged, Relinked(second.heap, merged))
  IN  sort[<<h, list>>]

\* The members of the object, read along next.
MembersOf(h) ==
  LET size == CHOOSE n \in 0 .. Cardinality(Item) :
                /\ get_array_item(h, object, n) = NULL
                /\ \A m \in 0 .. n - 1 : get_array_item(h, object, m) # NULL
  IN  [n \in 1 .. size |-> get_array_item(h, object, n - 1)]

sort_object(h, case_sensitive) ==
  LET sorted == sort_list(h, MembersOf(h), case_sensitive)
  IN  IF sorted.ret = << >> THEN h
      ELSE [sorted.heap EXCEPT !.child[object] = sorted.ret[1]]

-----------------------------------------------------------------------------
VARIABLES
  heap,
  order         \* the mode of the last sort, or "none"

vars == <<heap, order>>

\* An object with the given names, as the parser or AddItemToObject makes it.
ObjectWith(names) ==
  LET count == Len(names)
      list == CreateNumberArray(EmptyHeap, <<object>> \o SubSeq(members, 1, count),
                                count).heap
  IN  [list EXCEPT
         !.string = [i \in Item |->
                       IF i \in ToSet(SubSeq(members, 1, count))
                       THEN names[Place(members, i)]
                       ELSE NULL],
         !.strings = count]

Init ==
  /\ \E n \in 0 .. Len(members) : \E names \in [1 .. n -> Key] :
       heap = ObjectWith(names)
  /\ order = "none"

\* cJSONUtils_SortObject and cJSONUtils_SortObjectCaseSensitive.
SortObject(case_sensitive) ==
  /\ heap' = sort_object(heap, case_sensitive)
  /\ order' = IF case_sensitive THEN "case_sensitive" ELSE "case_insensitive"

Next == \E case_sensitive \in BOOLEAN : SortObject(case_sensitive)

Spec == Init /\ [][Next]_vars

-----------------------------------------------------------------------------
\* A sort loses no member, doubles none and changes no name.
KeepsMembers ==
  [][/\ ToSet(MembersOf(heap')) = ToSet(MembersOf(heap))
     /\ Len(MembersOf(heap')) = Len(MembersOf(heap))
     /\ heap'.string = heap.string]_vars

\* After a sort no member precedes one whose name is smaller in that mode.
Ordered ==
  LET list == MembersOf(heap)
  IN  order # "none" =>
        \A m, n \in DOMAIN list :
          m < n => ~Less(heap, list[n], list[m], order = "case_sensitive")

\* What still links the members after any number of sorts: every member but
\* the first one has the one before it as prev, and the last one is the end.
LinkedFromSecond ==
  LET list == MembersOf(heap)
  IN  /\ \A n \in 2 .. Len(list) : heap.prev[list[n]] = list[n - 1]
      /\ list # << >> => heap.next[list[Len(list)]] = NULL

\* What becomes of the prev of the first member, which the sort does not set:
\* a new first member was the first of a second half, whose prev is reset; the
\* same first member keeps its prev, wherever the sort puts that item.
FirstPrevAfterSort ==
  [][LET before == MembersOf(heap)
         after == MembersOf(heap')
     IN  before # << >> =>
           heap'.prev[after[1]] = IF after[1] = before[1] THEN heap.prev[after[1]]
                                  ELSE NULL]_vars

\* README.md:219 (and :220 for objects): the first element has
\* prev.next == NULL, that is, its prev is the last element.
FirstPrevIsLast ==
  LET list == MembersOf(heap)
  IN  list # << >> => heap.prev[list[1]] = list[Len(list)]
=============================================================================

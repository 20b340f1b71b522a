------------------------------- MODULE Copying -------------------------------
(***************************************************************************)
(* cJSON_Duplicate on the heap of ItemTree.  The allocator grants a call   *)
(* so many items, at given addresses, and so many strings, and then has no *)
(* memory left.                                                            *)
(***************************************************************************)
EXTENDS ItemTree

CONSTANTS
  CircularLimit   \* CJSON_CIRCULAR_LIMIT, the depth at which copying stops

ASSUME CircularAssumption == CircularLimit \in Nat \ {0}

\* A call: the memory, the copy it returns, and what it will be granted yet.
Calls == [heap: Heap, ret: Link, addresses: Seq(Item), blocks: Nat]

Granted(h, addresses, blocks) ==
  [heap |-> h, ret |-> NULL, addresses |-> addresses, blocks |-> blocks]

\* Mutant: the call returns NULL and deletes nothing.
Kept(copy, h, newitem) == [copy EXCEPT !.heap = h, !.ret = NULL]

\* The label fail: what has been made of the new item is deleted.
Gone(copy, h, newitem) == [copy EXCEPT !.heap = cJSON_Delete(h, newitem), !.ret = NULL]

\* The new item, its text and its key, as far as they are granted.  A copy of
\* a reference is none; a constant key is shared.
CopyFields(copy, item, newitem) ==
  LET h == copy.heap
      text == IF "HasText" \in h.type[item] THEN 1 ELSE 0
      key == IF OwnsKey(h, item) THEN 1 ELSE 0
      made == [cJSON_New_Item(h, newitem) EXCEPT
                 !.type[newitem] = h.type[item] \ {"IsReference", "HasText"}]
      texted == [made EXCEPT !.type[newitem] = h.type[item] \ {"IsReference"},
                             !.strings = @ + text]
      keyed == [texted EXCEPT !.string[newitem] = h.string[item], !.strings = @ + key]
  IN  IF copy.blocks < text THEN Gone(copy, made, newitem)
      ELSE IF copy.blocks < text + key THEN Gone(copy, texted, newitem)
      ELSE [copy EXCEPT !.heap = keyed, !.ret = newitem, !.blocks = @ - text - key]

\* The link from what was copied last, NULL at first, to the next copy.
LinkCopy(h, newitem, next, newchild) ==
  IF next = NULL THEN [h EXCEPT !.child[newitem] = newchild]
  ELSE suffix_object(h, next, newchild)

\* Mutant: the first copy does not learn which is the last one.
CloseNothing(h, newitem, last) == h

CloseCopies(h, newitem, last) ==
  IF last = NULL THEN h ELSE [h EXCEPT !.prev[h.child[newitem]] = last]

\* A new item with the fields of another one.
NewCopy(copy, item) ==
  IF copy.addresses = << >> THEN [copy EXCEPT !.ret = NULL]
  ELSE CopyFields([copy EXCEPT !.addresses = Tail(@)], item, Head(copy.addresses))

\* Where the loop of a call is: what has been copied last, NULL at first, and
\* the child that is to be copied next.
Loops ==
  [copy: Calls, newitem: Item, next: Link, child: Link, depth: Nat]

LoopAt(copy, newitem, next, child, depth) ==
  [copy |-> copy, newitem |-> newitem, next |-> next, child |-> child, depth |-> depth]

\* The loop of cJSON_Duplicate_rec, and what follows it.
CopyChildren[loop \in Loops] ==
  LET copy == loop.copy
      child == loop.child
      fields == NewCopy(copy, child)
      below == IF fields.ret = NULL THEN fields
               ELSE CopyChildren[LoopAt(fields, fields.ret, NULL, fields.heap.child[child],
                                        loop.depth + 1)]
      linked == [below EXCEPT !.heap = LinkCopy(@, loop.newitem, loop.next, below.ret)]
  IN  IF child = NULL
      THEN [copy EXCEPT !.heap = CloseCopies(@, loop.newitem, loop.next), !.ret = loop.newitem]
      ELSE IF loop.depth >= CircularLimit THEN Gone(copy, copy.heap, loop.newitem)
      ELSE IF below.ret = NULL THEN Gone(below, below.heap, loop.newitem)
      ELSE CopyChildren[LoopAt(linked, loop.newitem, below.ret, linked.heap.next[child],
                               loop.depth)]

cJSON_Duplicate(copy, item, recurse) ==
  LET fields == NewCopy(copy, item)
  IN  IF fields.ret = NULL \/ ~recurse THEN fields
      ELSE CopyChildren[LoopAt(fields, fields.ret, NULL, fields.heap.child[item], 0)]

\* Bound: no item has more than two strings.
Duplicate ==
  \E item \in heap.live, recurse \in BOOLEAN :
    \E blocks \in 0 .. 2 * Cardinality(heap.live), granted \in 0 .. Cardinality(Item) :
      \E addresses \in [1 .. granted -> Item \ heap.live] :
        /\ \A m, n \in 1 .. granted : addresses[m] = addresses[n] => m = n
        /\ Give(cJSON_Duplicate(Granted(heap, addresses, blocks), item, recurse))

CopySpec == Init /\ [][Next \/ Duplicate]_vars
=============================================================================

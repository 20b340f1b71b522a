----------------------------- MODULE ItemLinks -----------------------------
(***************************************************************************)
(* The memory of a cJSON client and the list functions of cJSON.c that     *)
(* change it.  A cJSON item is an address (an element of Item); a heap     *)
(* gives the fields of every address.  Each operator is one C function,    *)
(* named as in the source, and maps the heap before the call to what the   *)
(* call returns and the heap after it.                                     *)
(*                                                                         *)
(* What is abstracted: the base type and the value of an item (the list    *)
(* functions never look at them), except the bit "HasText" that stands for *)
(* a non-NULL valuestring (cJSON_String, cJSON_Raw).  String blocks are    *)
(* counted, not addressed: `strings' is the number of key and value blocks *)
(* obtained from the allocator and not given back.                         *)
(***************************************************************************)
EXTENDS Integers, FiniteSets, Sequences

CONSTANTS
  Item,         \* the addresses the allocator can hand out for items
  Key,          \* the member names in use
  lower,        \* tolower() over a whole name: [Key -> Key]
  NULL

ASSUME ItemAssumption == IsFiniteSet(Item)
ASSUME NULLAssumption == NULL \notin Item /\ NULL \notin Key
ASSUME LowerAssumption == lower \in [Key -> Key]

Link == Item \cup {NULL}

Bit == {"IsReference", "StringIsConst", "HasText"}

Heap ==
  [next:    [Item -> Link],
   prev:    [Item -> Link],
   child:   [Item -> Link],
   type:    [Item -> SUBSET Bit],
   string:  [Item -> Key \cup {NULL}],
   live:    SUBSET Item,
   strings: Int]

\* No item and no string has been allocated.
EmptyHeap ==
  [next    |-> [i \in Item |-> NULL],
   prev    |-> [i \in Item |-> NULL],
   child   |-> [i \in Item |-> NULL],
   type    |-> [i \in Item |-> {}],
   string  |-> [i \in Item |-> NULL],
   live    |-> {},
   strings |-> 0]

IsReference(h, i) == "IsReference" \in h.type[i]

\* The two conditions under which cJSON_Delete frees a string of an item.
OwnsKey(h, i)  == h.string[i] # NULL /\ "StringIsConst" \notin h.type[i]
OwnsText(h, i) == "HasText" \in h.type[i] /\ "IsReference" \notin h.type[i]

-----------------------------------------------------------------------------
(* The allocator.                                                          *)

\* A zeroed item at a free address.
cJSON_New_Item(h, i) ==
  [h EXCEPT !.live = @ \cup {i}, !.next[i] = NULL, !.prev[i] = NULL,
            !.child[i] = NULL, !.type[i] = {}, !.string[i] = NULL]

\* One more string block.
cJSON_strdup(h) == [h EXCEPT !.strings = @ + 1]

\* Mutant: cJSON_Delete frees the children that a reference only shows.
DeletedThroughReferences(h, item) ==
  LET Closed(S) == /\ item \in S
                   /\ \A x \in S : {h.next[x], h.child[x]} \subseteq S \cup {NULL}
  IN  {x \in Item : \A S \in SUBSET Item : Closed(S) => x \in S}

\* The items cJSON_Delete(item) frees: the least set with item, the siblings
\* that follow a member and, unless it is a reference, its first child.
Deleted(h, item) ==
  LET Closed(S) == /\ item \in S
                   /\ \A x \in S :
                        /\ h.next[x] = NULL \/ h.next[x] \in S
                        /\ \/ IsReference(h, x)
                           \/ h.child[x] = NULL
                           \/ h.child[x] \in S
  IN  {x \in Item : \A S \in SUBSET Item : Closed(S) => x \in S}

\* cJSON_Delete: the freed addresses are cleared, so that heaps that differ in
\* memory nobody may read again are the same.
cJSON_Delete(h, item) ==
  IF item = NULL
  THEN h
  ELSE LET gone == Deleted(h, item)
           Wiped(field, nothing) ==
             [i \in Item |-> IF i \in gone THEN nothing ELSE field[i]]
       IN  [next    |-> Wiped(h.next, NULL),
            prev    |-> Wiped(h.prev, NULL),
            child   |-> Wiped(h.child, NULL),
            type    |-> Wiped(h.type, {}),
            string  |-> Wiped(h.string, NULL),
            live    |-> h.live \ gone,
            strings |-> h.strings - Cardinality({i \in gone : OwnsKey(h, i)})
                                  - Cardinality({i \in gone : OwnsText(h, i)})]

-----------------------------------------------------------------------------
(* Looking items up.                                                       *)

\* The index-th item of a list, NULL beyond its end.
get_array_item(h, array, index) ==
  LET current_child[n \in 0 .. index] ==
        IF n = 0 THEN h.child[array]
        ELSE IF current_child[n - 1] = NULL THEN NULL
        ELSE h.next[current_child[n - 1]]
  IN  current_child[index]

\* The first member with the name.  The case-sensitive loop gives up at a
\* member without a name, the other one walks past it.
get_object_item(h, object, name, case_sensitive) ==
  LET element(n) == get_array_item(h, object, n)
      Named(x) == /\ x # NULL
                  /\ h.string[x] # NULL
                  /\ IF case_sensitive THEN h.string[x] = name
                                       ELSE lower[h.string[x]] = lower[name]
      GivesUp(x) == x = NULL \/ (case_sensitive /\ h.string[x] = NULL)
      hits == {n \in 0 .. Cardinality(Item) :
                 /\ Named(element(n))
                 /\ \A m \in 0 .. n - 1 :
                      ~Named(element(m)) /\ ~GivesUp(element(m))}
  IN  IF hits = {} THEN NULL ELSE element(CHOOSE n \in hits : TRUE)

-----------------------------------------------------------------------------
(* Changing a list.  Returns(v, h) is the value and the heap a call leaves. *)

Returns(value, h) == [ret |-> value, heap |-> h]

\* Mutant: the item does not learn what comes before it.
suffix_without_prev(h, prev, item) == [h EXCEPT !.next[prev] = item]

suffix_object(h, prev, item) ==
  [h EXCEPT !.next[prev] = item, !.prev[item] = prev]

\* Mutant: a detached item still points to the one after it.
UnlinkedBackwards(h, item) == [h EXCEPT !.prev[item] = NULL]

\* The item points nowhere any more.
Unlinked(h, item) == [h EXCEPT !.next[item] = NULL, !.prev[item] = NULL]

\* Mutant: appends after the first child instead of the last one.
append_after_first(h, array, item) ==
  LET first == h.child[array]
  IN  IF item = NULL \/ array = item
      THEN Returns(FALSE, h)
      ELSE IF first = NULL
      THEN Returns(TRUE, [h EXCEPT !.child[array] = item,
                                   !.prev[item] = item, !.next[item] = NULL])
      ELSE Returns(TRUE, [suffix_object(h, first, item)
                            EXCEPT !.prev[first] = item])

\* Appends through the prev of the first child, which must be the last one.
add_item_to_array(h, array, item) ==
  LET first == h.child[array]
  IN  IF item = NULL \/ array = item
      THEN Returns(FALSE, h)
      ELSE IF first = NULL
      THEN Returns(TRUE, [h EXCEPT !.child[array] = item,
                                   !.prev[item] = item, !.next[item] = NULL])
      ELSE IF h.prev[first] = NULL
      THEN Returns(TRUE, h)
      ELSE Returns(TRUE, [suffix_object(h, h.prev[first], item)
                            EXCEPT !.prev[first] = item])

\* The item gets the new key; the key block it owned is freed.
Rename(h, item, string, constant_key) ==
  [h EXCEPT !.strings = IF OwnsKey(h, item) THEN @ - 1 ELSE @,
            !.string[item] = string,
            !.type[item] = IF constant_key THEN @ \cup {"StringIsConst"}
                                           ELSE @ \ {"StringIsConst"}]

\* memory: the copy of the key can be allocated.
add_item_to_object(h, object, string, item, constant_key, memory) ==
  IF item = NULL \/ object = item \/ (~constant_key /\ ~memory)
  THEN Returns(FALSE, h)
  ELSE LET copied == IF constant_key THEN h ELSE cJSON_strdup(h)
       IN  add_item_to_array(Rename(copied, item, string, constant_key),
                             object, item)

cJSON_DetachItemViaPointer(h, parent, item) ==
  IF item = NULL
  THEN Returns(NULL, h)
  ELSE LET next == h.next[item]
           prev == h.prev[item]
           first == item = h.child[parent]
           skipped == IF first THEN h ELSE [h EXCEPT !.next[prev] = next]
           joined == IF next = NULL THEN skipped
                     ELSE [skipped EXCEPT !.prev[next] = prev]
           closed == IF first THEN [joined EXCEPT !.child[parent] = next]
                     ELSE IF next = NULL
                     THEN [joined EXCEPT !.prev[joined.child[parent]] = prev]
                     ELSE joined
       IN  IF ~first /\ prev = NULL
           THEN Returns(NULL, h)
           ELSE Returns(item, Unlinked(closed, item))

\* Mutant: an item inserted in front of the first one is not the first one.
InsertBehindChild(h, array, which, newitem) ==
  LET after_inserted == get_array_item(h, array, which)
  IN  IF after_inserted = NULL
      THEN add_item_to_array(h, array, newitem)
      ELSE Returns(TRUE, [h EXCEPT !.next[newitem] = after_inserted,
                                   !.prev[newitem] = h.prev[after_inserted],
                                   !.prev[after_inserted] = newitem])

\* Mutant: the item goes behind the one at the index.
InsertOneFurther(h, array, which, newitem) ==
  LET after_inserted == get_array_item(h, array, which + 1)
      prev == h.prev[after_inserted]
  IN  IF after_inserted = NULL
      THEN add_item_to_array(h, array, newitem)
      ELSE Returns(TRUE, [h EXCEPT !.next[newitem] = after_inserted,
                                   !.prev[newitem] = prev,
                                   !.prev[after_inserted] = newitem,
                                   !.next[prev] = newitem])

cJSON_InsertItemInArray(h, array, which, newitem) ==
  LET after_inserted == get_array_item(h, array, which)
      prev == h.prev[after_inserted]
      placed == [h EXCEPT !.next[newitem] = after_inserted,
                          !.prev[newitem] = prev,
                          !.prev[after_inserted] = newitem]
  IN  IF after_inserted = NULL
      THEN add_item_to_array(h, array, newitem)
      ELSE IF after_inserted = h.child[array]
      THEN Returns(TRUE, [placed EXCEPT !.child[array] = newitem])
      ELSE IF prev = NULL
      THEN Returns(FALSE, h)
      ELSE Returns(TRUE, [placed EXCEPT !.next[prev] = newitem])

\* The replacement takes the place of the item, and the item is deleted.
cJSON_ReplaceItemViaPointer(h, parent, item, replacement) ==
  IF h.child[parent] = NULL \/ item = NULL
  THEN Returns(FALSE, h)
  ELSE IF replacement = item
  THEN Returns(TRUE, h)
  ELSE LET next == h.next[item]
           prev == h.prev[item]
           taken == [h EXCEPT !.next[replacement] = next,
                              !.prev[replacement] = prev]
           joined == IF next = NULL THEN taken
                     ELSE [taken EXCEPT !.prev[next] = replacement]
           first == h.child[parent]
           placed ==
             IF first = item
             THEN [joined EXCEPT
                     !.prev[replacement] =
                       IF joined.prev[first] = first THEN replacement ELSE @,
                     !.child[parent] = replacement]
             ELSE LET linked == IF prev = NULL THEN joined
                                ELSE [joined EXCEPT !.next[prev] = replacement]
                  IN  IF next = NULL
                      THEN [linked EXCEPT !.prev[first] = replacement]
                      ELSE linked
       IN  Returns(TRUE, cJSON_Delete(Unlinked(placed, item), item))

\* The replacement loses its key before anything can fail.
replace_item_in_object(h, object, string, replacement, case_sensitive, memory) ==
  LET copied == cJSON_strdup(Rename(h, replacement, string, FALSE))
      stripped == [h EXCEPT !.string[replacement] = NULL,
                            !.strings = IF OwnsKey(h, replacement)
                                        THEN @ - 1 ELSE @]
  IN  IF ~memory
      THEN Returns(FALSE, stripped)
      ELSE cJSON_ReplaceItemViaPointer(copied, object,
             get_object_item(copied, object, string, case_sensitive),
             replacement)

-----------------------------------------------------------------------------
(* Making items.  An address is where the allocator puts an item, NULL when *)
(* it has no memory left.                                                   *)

\* cJSON_CreateNull, True, False, Bool, Number, Array and Object; with text,
\* cJSON_CreateString and cJSON_CreateRaw.  memory: the text can be copied.
Create(h, address, text, memory) ==
  IF address = NULL
  THEN Returns(NULL, h)
  ELSE LET item == cJSON_New_Item(h, address)
       IN  IF ~text THEN Returns(address, item)
           ELSE IF memory
           THEN Returns(address, [cJSON_strdup(item)
                                    EXCEPT !.type[address] = {"HasText"}])
           ELSE Returns(NULL, cJSON_Delete(item, address))

\* cJSON_CreateArrayReference, cJSON_CreateObjectReference.
CreateReferenceTo(h, address, child) ==
  IF address = NULL
  THEN Returns(NULL, h)
  ELSE Returns(address, [cJSON_New_Item(h, address)
                           EXCEPT !.type[address] = {"IsReference"},
                                  !.child[address] = child])

\* A shallow copy that owns neither the children nor the text.
create_reference(h, item, address) ==
  IF address = NULL
  THEN Returns(NULL, h)
  ELSE Returns(address,
         [cJSON_New_Item(h, address)
            EXCEPT !.type[address] = h.type[item] \cup {"IsReference"},
                   !.child[address] = h.child[item]])

\* cJSON_CreateIntArray, FloatArray and DoubleArray, for count elements: the
\* array and its elements go to the given addresses, fewer than count + 1 of
\* them when the allocator runs out.
CreateNumberArray(h, addresses, count) ==
  LET built == Len(addresses)
      a == addresses[1]
      elements == 2 .. built
      at(i) == CHOOSE n \in elements : addresses[n] = i
      IsElement(i) == \E n \in elements : addresses[n] = i
      chained ==
        [h EXCEPT
           !.live  = @ \cup {addresses[n] : n \in 1 .. built},
           !.child[a] = IF built > 1 THEN addresses[2] ELSE NULL,
           !.next  = [i \in Item |->
                        IF IsElement(i) /\ at(i) < built
                        THEN addresses[at(i) + 1] ELSE h.next[i]],
           !.prev  = [i \in Item |->
                        IF IsElement(i) /\ at(i) > 2
                        THEN addresses[at(i) - 1] ELSE h.prev[i]]]
  IN  IF built = 0
      THEN Returns(NULL, h)
      ELSE IF built < count + 1
      THEN Returns(NULL, cJSON_Delete(chained, a))
      ELSE IF built = 1
      THEN Returns(a, chained)
      ELSE Returns(a, [chained EXCEPT !.prev[addresses[2]] = addresses[built]])

\* cJSON_CreateStringArray: the same, with a text in each element.  A text that
\* cannot be copied ends the call like an element that cannot be allocated.
CreateStringArray(h, addresses, count) ==
  LET array == CreateNumberArray(h, addresses, count)
      elements == array.heap.live \ (h.live \cup {array.ret})
  IN  IF array.ret = NULL
      THEN array
      ELSE Returns(array.ret,
             [array.heap EXCEPT
                !.strings = @ + count,
                !.type = [i \in Item |-> IF i \in elements THEN @[i] \cup {"HasText"}
                                                           ELSE @[i]]])
=============================================================================

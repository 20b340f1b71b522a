------------------------------ MODULE ItemTree ------------------------------
(***************************************************************************)
(* A client that builds and changes JSON trees through the item functions  *)
(* of cJSON.h, in any order, with an allocator that may fail at any call.  *)
(* Every action is one call of the library (the library has no state of    *)
(* its own here and no function calls back, so a call is one step).        *)
(*                                                                         *)
(* The guards are what README.md asks of a client: it deletes, or hands    *)
(* over, only roots it owns; it does not put an item below itself; it      *)
(* changes no list through a reference; it deletes nothing that a          *)
(* remaining reference shows.                                              *)
(***************************************************************************)
EXTENDS ItemLinks

CONSTANTS
  Text,                \* SUBSET BOOLEAN: items without, with a valuestring
  ConstantKey,         \* SUBSET BOOLEAN: AddItemToObject, AddItemToObjectCS
  ReferenceKeyMemory,  \* SUBSET BOOLEAN: can the key of a reference that is
                       \* added to an object be copied
  MaxCount,            \* bound on the count given to CreateIntArray, ...
  MaxReferences        \* bound on the references that exist at a time

ASSUME TreeAssumption ==
  /\ Text \subseteq BOOLEAN /\ ConstantKey \subseteq BOOLEAN
  /\ ReferenceKeyMemory \subseteq BOOLEAN /\ MaxCount \in Nat /\ MaxReferences \in Nat

VARIABLES
  heap,         \* the memory, see ItemLinks
  held          \* the roots the client owns

vars == <<heap, held>>

Init == heap = EmptyHeap /\ held = {}

-----------------------------------------------------------------------------
(* The client.                                                             *)

\* An address the allocator can return for an item.
Address == (Item \ heap.live) \cup {NULL}

Owner(h, c) == c \in h.live /\ ~IsReference(h, c)

\* A list the client may change: not one of a reference, and not the one of
\* a string, which has none.
Container(c) == Owner(heap, c) /\ "HasText" \notin heap.type[c]

\* The client makes no more references than the bound allows.
MayRefer ==
  Cardinality({r \in heap.live : IsReference(heap, r)}) < MaxReferences

\* The client may put the root i into the list of c.
CanAdopt(c, i) == Container(c) /\ i \in held /\ c \notin Deleted(heap, i)

\* Going from heap to h frees nothing that a remaining reference shows.
KeepsReferents(h) ==
  \A r \in h.live : IsReference(h, r) => h.child[r] \notin heap.live \ h.live

\* The call returns an item that the client owns from now on.
Give(call) == heap' = call.heap /\ held' = held \cup ({call.ret} \ {NULL})

\* The call takes the item over if it returns true.
Adopt(call, i) ==
  heap' = call.heap /\ held' = IF call.ret THEN held \ {i} ELSE held

-----------------------------------------------------------------------------
(* Making and deleting trees.                                              *)

CreateItem ==
  \E address \in Address, text \in Text, memory \in BOOLEAN :
    Give(Create(heap, address, text, memory))

CreateReference ==
  \E address \in Address, child \in heap.live :
    MayRefer /\ Give(CreateReferenceTo(heap, address, child))

\* cJSON_CreateIntArray, FloatArray, DoubleArray and StringArray.
CreateFilledArray ==
  \E count \in 0 .. MaxCount : \E built \in 0 .. count + 1 :
    \E addresses \in [1 .. built -> Item \ heap.live] :
      /\ \A m, n \in 1 .. built : addresses[m] = addresses[n] => m = n
      /\ \/ Give(CreateNumberArray(heap, addresses, count))
         \/ TRUE \in Text /\ Give(CreateStringArray(heap, addresses, count))

DeleteRoot ==
  \E i \in held :
    /\ heap' = cJSON_Delete(heap, i)
    /\ held' = held \ {i}
    /\ KeepsReferents(heap')

-----------------------------------------------------------------------------
(* Adding.                                                                 *)

cJSON_AddItemToArray ==
  \E c \in Item, i \in held :
    /\ CanAdopt(c, i) \/ (Container(c) /\ c = i)
    /\ Adopt(add_item_to_array(heap, c, i), i)

\* cJSON_AddItemToObject and cJSON_AddItemToObjectCS.
cJSON_AddItemToObject ==
  \E c \in Item, i \in held, k \in Key :
    \E constant_key \in ConstantKey, memory \in BOOLEAN :
      /\ CanAdopt(c, i) \/ (Container(c) /\ c = i)
      /\ Adopt(add_item_to_object(heap, c, k, i, constant_key, memory), i)

cJSON_AddItemReferenceToArray ==
  \E c \in Item, i \in heap.live, address \in Address :
    LET reference == create_reference(heap, i, address)
    IN  /\ Container(c) /\ MayRefer
        /\ heap' = add_item_to_array(reference.heap, c, reference.ret).heap
        /\ UNCHANGED held

cJSON_AddItemReferenceToObject ==
  \E c \in Item, i \in heap.live, k \in Key, address \in Address :
    \E memory \in ReferenceKeyMemory :
      LET reference == create_reference(heap, i, address)
      IN  /\ Container(c) /\ MayRefer
          /\ heap' = add_item_to_object(reference.heap, c, k, reference.ret,
                                        FALSE, memory).heap
          /\ UNCHANGED held

\* Mutant: the item that could not be added is not deleted.
AddNewToObjectOrForget(c, k, address, text, memory, key_memory) ==
  LET new == Create(heap, address, text, memory)
  IN  heap' = add_item_to_object(new.heap, c, k, new.ret, FALSE, key_memory).heap

\* cJSON_AddNullToObject and its siblings: create an item and add it, or
\* delete it again.  The item that is returned belongs to the object.
AddNewToObject(c, k, address, text, memory, key_memory) ==
  LET new == Create(heap, address, text, memory)
      added == add_item_to_object(new.heap, c, k, new.ret, FALSE, key_memory)
  IN  heap' = IF added.ret THEN added.heap
                           ELSE cJSON_Delete(added.heap, new.ret)

cJSON_AddXToObject ==
  \E c \in Item, k \in Key, address \in Address, text \in Text :
    \E memory, key_memory \in BOOLEAN :
      /\ Container(c)
      /\ AddNewToObject(c, k, address, text, memory, key_memory)
      /\ UNCHANGED held

\* The index is at most the length of the longest list.
InsertItemInArray ==
  \E c \in Item, i \in held, which \in 0 .. Cardinality(Item) :
    /\ CanAdopt(c, i)
    /\ Adopt(cJSON_InsertItemInArray(heap, c, which, i), i)

-----------------------------------------------------------------------------
(* Taking out.                                                             *)

DeleteDetached(detached) ==
  /\ heap' = cJSON_Delete(detached.heap, detached.ret)
  /\ KeepsReferents(heap')
  /\ UNCHANGED held

InList(c, i) == \E n \in 0 .. Cardinality(Item) : get_array_item(heap, c, n) = i

\* An item that is in no list has no prev, which the function checks.
DetachItemViaPointer ==
  \E c, i \in Item :
    /\ Container(c) /\ (InList(c, i) \/ i \in held)
    /\ Give(cJSON_DetachItemViaPointer(heap, c, i))

\* cJSON_DetachItemFromArray and cJSON_DeleteItemFromArray.
TakeItemFromArray ==
  \E c \in Item, which \in 0 .. Cardinality(Item) :
    LET detached == cJSON_DetachItemViaPointer(heap, c,
                      get_array_item(heap, c, which))
    IN  Container(c) /\ (Give(detached) \/ DeleteDetached(detached))

\* cJSON_DetachItemFromObject, cJSON_DeleteItemFromObject, and the two that
\* compare case-sensitively.
TakeItemFromObject ==
  \E c \in Item, k \in Key, case_sensitive \in BOOLEAN :
    LET detached == cJSON_DetachItemViaPointer(heap, c,
                      get_object_item(heap, c, k, case_sensitive))
    IN  Container(c) /\ (Give(detached) \/ DeleteDetached(detached))

-----------------------------------------------------------------------------
(* Replacing.                                                              *)

\* Replacing an item by itself is allowed.
ReplaceItemViaPointer ==
  \E c, i, item \in Item :
    /\ InList(c, item)
    /\ CanAdopt(c, i) \/ (Container(c) /\ i = item)
    /\ Adopt(cJSON_ReplaceItemViaPointer(heap, c, item, i), i)
    /\ KeepsReferents(heap')

cJSON_ReplaceItemInArray ==
  \E c, i \in Item, which \in 0 .. Cardinality(Item) :
    /\ CanAdopt(c, i)
    /\ Adopt(cJSON_ReplaceItemViaPointer(heap, c,
               get_array_item(heap, c, which), i), i)
    /\ KeepsReferents(heap')

\* cJSON_ReplaceItemInObject and cJSON_ReplaceItemInObjectCaseSensitive.
cJSON_ReplaceItemInObject ==
  \E c, i \in Item, k \in Key, case_sensitive, memory \in BOOLEAN :
    /\ CanAdopt(c, i)
    /\ Adopt(replace_item_in_object(heap, c, k, i, case_sensitive, memory), i)
    /\ KeepsReferents(heap')

Next ==
  \/ CreateItem \/ CreateReference \/ CreateFilledArray \/ DeleteRoot
  \/ cJSON_AddItemToArray \/ cJSON_AddItemToObject
  \/ cJSON_AddItemReferenceToArray \/ cJSON_AddItemReferenceToObject
  \/ cJSON_AddXToObject \/ InsertItemInArray
  \/ DetachItemViaPointer \/ TakeItemFromArray \/ TakeItemFromObject
  \/ ReplaceItemViaPointer \/ cJSON_ReplaceItemInArray
  \/ cJSON_ReplaceItemInObject

Spec == Init /\ [][Next]_vars

-----------------------------------------------------------------------------
(* Correctness.                                                            *)

\* Every field holds a value of its kind, the client owns only items that
\* exist, and an item that does not exist has no fields left.
TypeOK ==
  /\ heap \in Heap
  /\ held \subseteq heap.live
  /\ \A i \in Item \ heap.live :
       /\ heap.next[i] = NULL /\ heap.prev[i] = NULL /\ heap.child[i] = NULL
       /\ heap.type[i] = {} /\ heap.string[i] = NULL

\* The list of an item that owns one, read along next from its first child.
Children(h, c) ==
  LET size == Cardinality({n \in 0 .. Cardinality(Item) :
                             get_array_item(h, c, n) # NULL})
  IN  IF Owner(h, c) THEN [n \in 1 .. size |-> get_array_item(h, c, n - 1)]
                     ELSE << >>

\* README.md, cJSON_Array: the elements are linked with next and prev; the
\* prev of the first one is the last one, whose next is NULL; the prev of any
\* other one is the one before it; no element occurs twice in a list.
ListShape ==
  \A c \in heap.live :
    LET list == Children(heap, c)
        last == Len(list)
    IN  /\ \A m, n \in 1 .. last : list[m] = list[n] => m = n
        /\ last > 0 => /\ heap.prev[list[1]] = list[last]
                       /\ heap.next[list[last]] = NULL
        /\ \A n \in 2 .. last : heap.prev[list[n]] = list[n - 1]

\* Every item has one owner: the client, or one list; what the client owns
\* hangs in no list.
Ownership ==
  /\ \A i \in heap.live :
       LET parents == {c \in heap.live :
                         \E n \in DOMAIN Children(heap, c) :
                           Children(heap, c)[n] = i}
       IN  Cardinality(parents) = IF i \in held THEN 0 ELSE 1
  /\ \A i \in held : heap.next[i] = NULL /\ heap.prev[i] = NULL

\* No item that exists points to one that does not, a reference included.
NoDangling ==
  \A i \in heap.live :
    {heap.next[i], heap.prev[i], heap.child[i]} \subseteq heap.live \cup {NULL}

\* README.md, "Working with the data structure": a client that deletes the
\* trees it owns, in any order, gets no memory leak and no double free: no
\* item and no string is left, and none was freed twice.
NothingLeaks ==
  LET left[S \in SUBSET held] ==
        IF S = {} THEN {heap}
        ELSE UNION {{cJSON_Delete(h, i) : h \in left[S \ {i}]} : i \in S}
  IN  left[held] = {EmptyHeap}
=============================================================================

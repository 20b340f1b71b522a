--------------------------- MODULE ItemTreeProofs ---------------------------
(***************************************************************************)
(* ItemTree, with cJSON_Duplicate of Copying, keeps its heap well linked   *)
(* and its strings accounted for, for every number of items and every      *)
(* choice of the constants.  TypeOK, ListShape and NoDangling follow;      *)
(* Ownership and NothingLeaks do if the key of a reference can always be   *)
(* copied.                                                                 *)
(***************************************************************************)
EXTENDS Copying, ItemLinksProofs

\* The roots of the trees that exist: those the client owns, and the references
\* that were lost because their key could not be copied.
Claims(roots) ==
  held \subseteq roots /\ (FALSE \notin ReferenceKeyMemory => roots = held)

\* The lists are well formed and everything that exists hangs below a root.
Linked == \E roots : Claims(roots) /\ WellLinked(heap, roots)

\* Every string block belongs to an item; every reference shows what exists.
Accounts == Ledger(heap) /\ Referents(heap)

IInv == Linked /\ Accounts

-----------------------------------------------------------------------------
(* The steps.                                                              *)

\* The invariant holds at first.
LEMMA InitIInv == Init => IInv
<1> SUFFICES ASSUME Init PROVE IInv
  OBVIOUS
<1>1. heap = EmptyHeap /\ held = {}
  BY DEF Init
<1>2. Linked
  BY <1>1, NoItems DEF Linked, Claims
<1>3. Keyed(heap) = {} /\ Texted(heap) = {} /\ heap.live = {} /\ heap.strings = 0
  BY <1>1 DEF Keyed, Texted, OwnsKey, OwnsText, EmptyHeap
<1>4. Accounts
  BY <1>3, FS_EmptySet DEF Accounts, Ledger, Referents
<1> QED
  BY <1>2, <1>4 DEF IInv

\* A list the client may change is owned.
LEMMA ContainerOwns ==
  ASSUME NEW c \in Item, Container(c)
  PROVE  IsOwner(heap, c)
BY DEF Container, Owner, IsOwner

\* A root the client puts in a list is not what owns the list.
LEMMA CanAdoptOther ==
  ASSUME NEW c \in Item, NEW i \in Item, CanAdopt(c, i)
  PROVE  Container(c) /\ i \in held /\ i # c /\ c \notin Deleted(heap, i)
<1>1. i \in Deleted(heap, i)
  BY DEF Deleted
<1> QED
  BY <1>1 DEF CanAdopt

\* An item that may be added to a list: the list does not hang below it.
LEMMA AddedOther ==
  ASSUME NEW c \in Item, NEW i \in held,
         CanAdopt(c, i) \/ (Container(c) /\ c = i)
  PROVE  Container(c) /\ (c \in Deleted(heap, i) => c = i)
BY DEF CanAdopt

\* InList finds an item that hangs in the list.
LEMMA InListOwned ==
  ASSUME NEW owner, NEW H, Links(heap, owner, H), NEW c \in Item, IsOwner(heap, c),
         NEW i \in Item, InList(c, i)
  PROVE  owner[i] = c
<1>1. PICK n \in 0 .. Cardinality(Item) : get_array_item(heap, c, n) = i
  BY DEF InList
<1>2. n \in Nat
  BY <1>1, ItemAssumption, FS_CardinalityType
<1>3. i # NULL
  BY NULLAssumption
<1> QED
  BY <1>1, <1>2, <1>3, GetArrayItemOwned

\* What a call gives the client is one more root.
LEMMA GiveLinked ==
  ASSUME NEW roots, Claims(roots), NEW call, Give(call),
         WellLinked(call.heap, roots \cup ({call.ret} \ {NULL}))
  PROVE  Linked'
<1> DEFINE new == roots \cup ({call.ret} \ {NULL})
<1>1. Claims(new)'
  BY DEF Claims, Give
<1>2. WellLinked(heap', new)
  BY DEF Give
<1> QED
  BY <1>1, <1>2 DEF Linked

\* What a call takes over is a root no more.
LEMMA AdoptLinked ==
  ASSUME NEW roots, Claims(roots), NEW call, NEW i, Adopt(call, i),
         call.ret \in BOOLEAN,
         call.ret => WellLinked(call.heap, roots \ {i}),
         ~call.ret => WellLinked(call.heap, roots)
  PROVE  Linked'
<1>1. CASE call.ret
  <2>1. held' = held \ {i} /\ WellLinked(heap', roots \ {i})
    BY <1>1 DEF Adopt
  <2>2. Claims(roots \ {i})'
    BY <2>1 DEF Claims
  <2> QED
    BY <2>1, <2>2 DEF Linked
<1>2. CASE ~call.ret
  <2>1. held' = held /\ WellLinked(heap', roots)
    BY <1>2 DEF Adopt
  <2>2. Claims(roots)'
    BY <2>1 DEF Claims
  <2> QED
    BY <2>1, <2>2 DEF Linked
<1> QED
  BY <1>1, <1>2

\* The client owns what it owned.
LEMMA KeepLinked ==
  ASSUME NEW roots, Claims(roots), held' = held, WellLinked(heap', roots)
  PROVE  Linked'
BY DEF Linked, Claims

\* The client owns what it owned, and a root it cannot reach may be left.
LEMMA LoseLinked ==
  ASSUME NEW roots, held \subseteq roots, held' = held, WellLinked(heap', roots),
         FALSE \notin ReferenceKeyMemory => roots = held
  PROVE  Linked'
<1>1. Claims(roots)'
  BY DEF Claims
<1> QED
  BY <1>1 DEF Linked

\* The accounts stay in order when nothing is freed, and when what is freed is
\* shown by no reference.
LEMMA GrowAccounts ==
  ASSUME Accounts, NEW g, heap' = g, Keeps(heap, g), heap.live \subseteq g.live
  PROVE  Accounts'
<1>1. Ledger(g)
  BY DEF Accounts, Keeps
<1>2. Referents(g)
  BY ReferentsKept DEF Accounts, Keeps
<1> QED
  BY <1>1, <1>2 DEF Accounts

\* A call that frees items frees nothing that a reference shows.
LEMMA FreeAccounts ==
  ASSUME Accounts, NEW g, heap' = g, Keeps(heap, g), KeepsReferents(heap')
  PROVE  Accounts'
<1>1. Ledger(g)
  BY DEF Accounts, Keeps
<1>2. Referents(g)
  BY ReferentsKept DEF Accounts, Keeps, KeepsReferents
<1> QED
  BY <1>1, <1>2 DEF Accounts

\* Every call keeps the invariant.
LEMMA NextIInv == IInv /\ [Next]_vars => IInv'
<1> SUFFICES ASSUME Linked, Accounts, [Next]_vars PROVE Linked' /\ Accounts'
  BY DEF IInv
<1> USE NULLAssumption
<1>a. PICK roots : Claims(roots) /\ WellLinked(heap, roots)
  BY DEF Linked
<1>b. PICK owner : Links(heap, owner, roots)
  BY <1>a DEF WellLinked
<1>c. /\ heap \in Heap /\ held \subseteq roots
      /\ roots \subseteq heap.live /\ roots \subseteq Item
  BY <1>a, <1>b DEF Links, IsRoot, Claims
<1>d. heap.live \subseteq Item
  BY <1>c DEF Heap
<1>e. Cardinality(Item) \in Nat
  BY ItemAssumption, FS_CardinalityType
<1>1. CASE CreateItem
  <2>1. PICK address \in Address, text \in Text, memory \in BOOLEAN :
           Give(Create(heap, address, text, memory))
    BY <1>1 DEF CreateItem
  <2>2. text \in BOOLEAN /\ address \in (Item \ heap.live) \cup {NULL}
    BY TreeAssumption DEF Address
  <2>3. Made(Create(heap, address, text, memory), heap, roots)
    BY <1>a, <2>2, CreateLinks DEF MadeAlone
  <2>4. Linked'
    BY <1>a, <2>1, <2>3, GiveLinked DEF Made
  <2>5. /\ Keeps(heap, Create(heap, address, text, memory).heap)
        /\ heap.live \subseteq Create(heap, address, text, memory).heap.live
    BY <1>a, <2>2, CreateKeeps
  <2>6. Accounts'
    BY <2>1, <2>5, GrowAccounts DEF Give
  <2> QED
    BY <2>4, <2>6
<1>2. CASE CreateReference
  <2>1. PICK address \in Address, child \in heap.live :
           Give(CreateReferenceTo(heap, address, child))
    BY <1>2 DEF CreateReference
  <2>2. address \in (Item \ heap.live) \cup {NULL}
    BY DEF Address
  <2>3. Made(CreateReferenceTo(heap, address, child), heap, roots)
    BY <1>a, <2>2, ReferenceLinks DEF MadeAlone
  <2>4. Linked'
    BY <1>a, <2>1, <2>3, GiveLinked DEF Made
  <2>5. /\ Ledger(CreateReferenceTo(heap, address, child).heap)
        /\ Referents(CreateReferenceTo(heap, address, child).heap)
    BY <1>a, <2>2, ReferenceKeeps DEF Accounts
  <2>6. Accounts'
    BY <2>1, <2>5 DEF Give, Accounts
  <2> QED
    BY <2>4, <2>6
<1>3. CASE CreateFilledArray
  <2>1. PICK count \in 0 .. MaxCount :
           \E built \in 0 .. count + 1 :
             \E addresses \in [1 .. built -> Item \ heap.live] :
               /\ \A m, n \in 1 .. built : addresses[m] = addresses[n] => m = n
               /\ \/ Give(CreateNumberArray(heap, addresses, count))
                  \/ Give(CreateStringArray(heap, addresses, count))
    BY <1>3 DEF CreateFilledArray
  <2>2. count \in Nat
    BY <2>1, TreeAssumption
  <2>3. PICK built \in 0 .. count + 1 :
           \E addresses \in [1 .. built -> Item \ heap.live] :
             /\ \A m, n \in 1 .. built : addresses[m] = addresses[n] => m = n
             /\ \/ Give(CreateNumberArray(heap, addresses, count))
                \/ Give(CreateStringArray(heap, addresses, count))
    BY <2>1
  <2>4. PICK addresses \in [1 .. built -> Item \ heap.live] :
             /\ \A m, n \in 1 .. built : addresses[m] = addresses[n] => m = n
             /\ \/ Give(CreateNumberArray(heap, addresses, count))
                \/ Give(CreateStringArray(heap, addresses, count))
    BY <2>3
  <2>5. built \in Nat
    BY <2>2
  <2>6. addresses \in Seq(Item \ heap.live) /\ Len(addresses) = built
    BY <2>5
  <2>7. \A m, n \in 1 .. Len(addresses) : addresses[m] = addresses[n] => m = n
    BY <2>4, <2>6
  <2>8. /\ Made(CreateNumberArray(heap, addresses, count), heap, roots)
        /\ Made(CreateStringArray(heap, addresses, count), heap, roots)
    BY <1>a, <2>2, <2>6, <2>7, CreateNumberArrayLinks, CreateStringArrayLinks
  <2>9. Linked'
    BY <1>a, <2>4, <2>8, GiveLinked DEF Made
  <2>10. Len(addresses) <= count + 1
    BY <2>2, <2>3, <2>6
  <2>11. /\ Keeps(heap, CreateNumberArray(heap, addresses, count).heap)
         /\ heap.live \subseteq CreateNumberArray(heap, addresses, count).heap.live
         /\ Keeps(heap, CreateStringArray(heap, addresses, count).heap)
         /\ heap.live \subseteq CreateStringArray(heap, addresses, count).heap.live
    BY <1>a, <2>2, <2>6, <2>7, <2>10, CreateNumberArrayKeeps, CreateStringArrayKeeps
  <2>12. Accounts'
    BY <2>4, <2>11, GrowAccounts DEF Give
  <2> QED
    BY <2>9, <2>12
<1>4. CASE DeleteRoot
  <2>1. PICK i \in held : /\ heap' = cJSON_Delete(heap, i)
                           /\ held' = held \ {i}
                           /\ KeepsReferents(heap')
    BY <1>4 DEF DeleteRoot
  <2>2. WellLinked(cJSON_Delete(heap, i), roots \ {i})
    BY <1>a, <1>c, DeleteLinks
  <2>3. Claims(roots \ {i})'
    BY <1>a, <2>1 DEF Claims
  <2>4. Linked'
    BY <2>1, <2>2, <2>3 DEF Linked
  <2>5. Keeps(heap, cJSON_Delete(heap, i))
    BY <1>c, <2>1, DeleteKeeps
  <2>6. Accounts'
    BY <2>1, <2>5, FreeAccounts
  <2> QED
    BY <2>4, <2>6
<1>5. CASE cJSON_AddItemToArray
  <2>1. PICK c \in Item, i \in held :
           /\ CanAdopt(c, i) \/ (Container(c) /\ c = i)
           /\ Adopt(add_item_to_array(heap, c, i), i)
    BY <1>5 DEF cJSON_AddItemToArray
  <2> DEFINE r == add_item_to_array(heap, c, i)
  <2>2. IsOwner(heap, c) /\ (c \in Deleted(heap, i) => c = i)
    BY <2>1, AddedOther, ContainerOwns
  <2>a. i \in roots \cup {NULL} /\ (i # NULL /\ c \in Deleted(heap, i) => c = i)
    BY <1>c, <2>1, <2>2
  <2>3. /\ r.ret \in BOOLEAN
        /\ r.ret => WellLinked(r.heap, roots \ {i})
        /\ ~r.ret => r.heap = heap
    BY <1>a, <2>2, <2>a, AddLinks
  <2>4. Adopt(r, i)
    BY <2>1
  <2>5. Keeps(heap, r.heap) /\ r.heap.live = heap.live
    BY <1>c, <2>1, <2>2, AddKeeps DEF Link
  <2> HIDE DEF r
  <2>6. Linked'
    BY <1>a, <2>3, <2>4, AdoptLinked
  <2>7. Accounts'
    BY <2>4, <2>5, GrowAccounts DEF Adopt
  <2> QED
    BY <2>6, <2>7
<1>6. CASE cJSON_AddItemToObject
  <2>1. PICK c \in Item, i \in held, k \in Key :
           \E constant_key \in ConstantKey, memory \in BOOLEAN :
             /\ CanAdopt(c, i) \/ (Container(c) /\ c = i)
             /\ Adopt(add_item_to_object(heap, c, k, i, constant_key, memory), i)
    BY <1>6 DEF cJSON_AddItemToObject
  <2>2. PICK constant_key \in ConstantKey, memory \in BOOLEAN :
             Adopt(add_item_to_object(heap, c, k, i, constant_key, memory), i)
    BY <2>1
  <2> DEFINE r == add_item_to_object(heap, c, k, i, constant_key, memory)
  <2>3. IsOwner(heap, c) /\ constant_key \in BOOLEAN
    BY <2>1, AddedOther, ContainerOwns, TreeAssumption
  <2>a. i \in roots \cup {NULL} /\ (i # NULL /\ c \in Deleted(heap, i) => c = i)
    BY <1>c, <2>1, AddedOther
  <2>4. /\ r.ret \in BOOLEAN
        /\ r.ret => WellLinked(r.heap, roots \ {i})
        /\ ~r.ret => WellLinked(r.heap, roots)
    BY <1>a, <2>3, <2>a, AddToObjectLinks
  <2>5. Adopt(r, i)
    BY <2>2
  <2>6. Keeps(heap, r.heap) /\ r.heap.live = heap.live
    BY <1>c, <2>1, <2>3, AddToObjectKeeps DEF Link
  <2> HIDE DEF r
  <2>7. Linked'
    BY <1>a, <2>4, <2>5, AdoptLinked
  <2>8. Accounts'
    BY <2>5, <2>6, GrowAccounts DEF Adopt
  <2> QED
    BY <2>7, <2>8
<1>7. CASE cJSON_AddItemReferenceToArray
  <2>1. PICK c \in Item, i \in heap.live, address \in Address :
           /\ Container(c)
           /\ heap' = add_item_to_array(create_reference(heap, i, address).heap, c,
                        create_reference(heap, i, address).ret).heap
           /\ held' = held
    BY <1>7 DEF cJSON_AddItemReferenceToArray
  <2> DEFINE r == create_reference(heap, i, address)
  <2>2. IsOwner(heap, c) /\ address \in (Item \ heap.live) \cup {NULL}
    BY <2>1, ContainerOwns DEF Address
  <2>3. MadeAlone(r, heap, roots)
    BY <1>a, <2>2, ReferenceLinks
  <2>4. heap' = add_item_to_array(r.heap, c, r.ret).heap
    BY <2>1
  <2>a. Ledger(r.heap) /\ Referents(r.heap)
    BY <1>a, <2>2, ReferenceKeeps DEF Accounts
  <2> HIDE DEF r
  <2>5. WellLinked(add_item_to_array(r.heap, c, r.ret).heap, roots)
    BY <1>a, <2>2, <2>3, MadeAndListed
  <2>6. Linked'
    BY <1>a, <2>1, <2>4, <2>5, KeepLinked
  <2>7. /\ Keeps(r.heap, add_item_to_array(r.heap, c, r.ret).heap)
        /\ add_item_to_array(r.heap, c, r.ret).heap.live = r.heap.live
    BY <2>2, <2>3, ListedKeeps
  <2>8. Accounts'
    BY <2>4, <2>a, <2>7, ReferentsKept DEF Accounts, Keeps
  <2> QED
    BY <2>6, <2>8
<1>8. CASE cJSON_AddItemReferenceToObject
  <2>1. PICK c \in Item, i \in heap.live, k \in Key, address \in Address :
           \E memory \in ReferenceKeyMemory :
             /\ Container(c)
             /\ heap' = add_item_to_object(create_reference(heap, i, address).heap,
                          c, k, create_reference(heap, i, address).ret,
                          FALSE, memory).heap
             /\ held' = held
    BY <1>8 DEF cJSON_AddItemReferenceToObject
  <2> DEFINE r == create_reference(heap, i, address)
  <2>2. PICK memory \in ReferenceKeyMemory :
           heap' = add_item_to_object(r.heap, c, k, r.ret, FALSE, memory).heap
    BY <2>1
  <2>3. /\ IsOwner(heap, c) /\ memory \in BOOLEAN
        /\ address \in (Item \ heap.live) \cup {NULL}
    BY <2>1, ContainerOwns, TreeAssumption DEF Address
  <2>4. MadeAlone(r, heap, roots)
    BY <1>a, <2>3, ReferenceLinks
  <2>a. Ledger(r.heap) /\ Referents(r.heap) /\ heap.live \subseteq r.heap.live
    BY <1>a, <2>3, ReferenceKeeps DEF Accounts
  <2> HIDE DEF r
  <2> DEFINE lost == IF memory THEN {} ELSE {r.ret} \ {NULL}
  <2>5. WellLinked(add_item_to_object(r.heap, c, k, r.ret, FALSE, memory).heap,
                   roots \cup lost)
    BY <1>a, <2>3, <2>4, MadeAndAdded
  <2> DEFINE kept == roots \cup lost
  <2>6. held \subseteq kept /\ (FALSE \notin ReferenceKeyMemory => kept = held)
    <3>1. FALSE \notin ReferenceKeyMemory => memory
      <4>1. \A e \in ReferenceKeyMemory : e \in BOOLEAN /\ (e \/ ~e)
        BY TreeAssumption
      <4>2. \A e \in BOOLEAN : ~e => e = FALSE
        OBVIOUS
      <4> QED
        BY <2>2, <4>1, <4>2
    <3> QED
      BY <1>a, <3>1 DEF Claims
  <2>7. WellLinked(heap', kept)
    BY <2>2, <2>5
  <2> HIDE DEF kept
  <2>8. Linked'
    BY <2>1, <2>6, <2>7, LoseLinked
  <2> DEFINE added == add_item_to_object(r.heap, c, k, r.ret, FALSE, memory)
  <2>9. Keeps(r.heap, added.heap) /\ added.heap.live = r.heap.live
    <3>1. \A e \in BOOLEAN :
            LET g == add_item_to_object(r.heap, c, k, r.ret, e, memory).heap
            IN  Keeps(r.heap, g) /\ g.live = r.heap.live
      BY <2>3, <2>4, AddedKeeps
    <3> QED
      BY <3>1
  <2>10. Ledger(added.heap) /\ Referents(added.heap)
    <3> HIDE DEF added
    <3> QED
      BY <2>a, <2>9, ReferentsKept DEF Keeps
  <2>11. Accounts'
    BY <2>2, <2>10 DEF Accounts
  <2> QED
    BY <2>8, <2>11
<1>9. CASE cJSON_AddXToObject
  <2>1. PICK c \in Item, k \in Key, address \in Address, text \in Text :
           \E memory, key_memory \in BOOLEAN :
             /\ Container(c)
             /\ AddNewToObject(c, k, address, text, memory, key_memory)
             /\ held' = held
    BY <1>9 DEF cJSON_AddXToObject
  <2>2. PICK memory \in BOOLEAN, key_memory \in BOOLEAN :
           AddNewToObject(c, k, address, text, memory, key_memory)
    BY <2>1
  <2> DEFINE r == Create(heap, address, text, memory)
             added == add_item_to_object(r.heap, c, k, r.ret, FALSE, key_memory)
             g == IF added.ret THEN added.heap ELSE cJSON_Delete(added.heap, r.ret)
  <2>3. /\ IsOwner(heap, c) /\ text \in BOOLEAN
        /\ address \in (Item \ heap.live) \cup {NULL}
    BY <2>1, ContainerOwns, TreeAssumption DEF Address
  <2>4. MadeAlone(r, heap, roots)
    BY <1>a, <2>3, CreateLinks
  <2>5. heap' = g
    BY <2>2 DEF AddNewToObject
  <2>6. WellLinked(g, roots)
    <3> HIDE DEF r
    <3> QED
      BY <1>a, <2>3, <2>4, MadeAndAdded
  <2>7. Keeps(heap, r.heap) /\ heap.live \subseteq r.heap.live
    BY <1>a, <2>3, CreateKeeps
  <2>8. Keeps(r.heap, g) /\ heap.live \subseteq g.live
    <3> HIDE DEF r
    <3> QED
      BY <2>3, <2>4, <2>7, AddedOrDeletedKeeps
  <2> HIDE DEF g
  <2>9. Linked'
    BY <1>a, <2>1, <2>5, <2>6, KeepLinked
  <2>10. Keeps(heap, g)
    BY <2>7, <2>8, KeepsTransitive
  <2>11. Accounts'
    BY <2>5, <2>8, <2>10, GrowAccounts
  <2> QED
    BY <2>9, <2>11
<1>10. CASE InsertItemInArray
  <2>1. PICK c \in Item, i \in held, which \in 0 .. Cardinality(Item) :
           /\ CanAdopt(c, i)
           /\ Adopt(cJSON_InsertItemInArray(heap, c, which, i), i)
    BY <1>10 DEF InsertItemInArray
  <2> DEFINE r == cJSON_InsertItemInArray(heap, c, which, i)
  <2>2. /\ IsOwner(heap, c) /\ i \in roots /\ i # c
        /\ c \notin Deleted(heap, i) /\ which \in Nat
    BY <1>c, <1>e, <2>1, CanAdoptOther, ContainerOwns
  <2>3. /\ r.ret \in BOOLEAN
        /\ r.ret => WellLinked(r.heap, roots \ {i})
        /\ ~r.ret => r.heap = heap
    <3>1. r.ret \in BOOLEAN
      BY <1>a, <2>2, InsertLinks
    <3>2. r.ret => WellLinked(r.heap, roots \ {i})
      BY <1>a, <2>2, InsertLinks
    <3>3. ~r.ret => r.heap = heap
      BY DEF cJSON_InsertItemInArray, add_item_to_array, Returns
    <3> QED
      BY <3>1, <3>2, <3>3
  <2>4. Adopt(r, i)
    BY <2>1
  <2>5. Keeps(heap, r.heap) /\ r.heap.live = heap.live
    BY <1>a, <2>2, InsertKeeps
  <2> HIDE DEF r
  <2>6. Linked'
    BY <1>a, <2>3, <2>4, AdoptLinked
  <2>7. Accounts'
    BY <2>4, <2>5, GrowAccounts DEF Adopt
  <2> QED
    BY <2>6, <2>7
<1>11. CASE DetachItemViaPointer
  <2>1. PICK c \in Item, i \in Item :
           /\ Container(c) /\ (InList(c, i) \/ i \in held)
           /\ Give(cJSON_DetachItemViaPointer(heap, c, i))
    BY <1>11 DEF DetachItemViaPointer
  <2> DEFINE r == cJSON_DetachItemViaPointer(heap, c, i)
  <2>2. IsOwner(heap, c) /\ i \in Link
    BY <2>1, ContainerOwns DEF Link
  <2>3. i = NULL \/ i \in roots \/ owner[i] = c
    BY <1>b, <1>c, <2>1, <2>2, InListOwned
  <2>4. WellLinked(r.heap, roots \cup ({r.ret} \ {NULL}))
    BY <1>b, <2>2, <2>3, DetachLinks
  <2>5. Give(r)
    BY <2>1
  <2>6. Keeps(heap, r.heap) /\ r.heap.live = heap.live
    BY <1>b, <2>2, <2>3, DetachKeeps
  <2> HIDE DEF r
  <2>7. Linked'
    BY <1>a, <2>4, <2>5, GiveLinked
  <2>8. Accounts'
    BY <2>5, <2>6, GrowAccounts DEF Give
  <2> QED
    BY <2>7, <2>8
\* What both ways to take an item out do with it.
<1>t. ASSUME NEW c \in Item, IsOwner(heap, c),
             NEW x \in Link, x # NULL => owner[x] = c,
             \/ Give(cJSON_DetachItemViaPointer(heap, c, x))
             \/ DeleteDetached(cJSON_DetachItemViaPointer(heap, c, x))
      PROVE  Linked' /\ Accounts'
  <2> DEFINE r == cJSON_DetachItemViaPointer(heap, c, x)
  <2>1. /\ WellLinked(r.heap, roots \cup ({r.ret} \ {NULL}))
        /\ WellLinked(cJSON_Delete(r.heap, r.ret), roots)
    BY <1>b, <1>t, TakeLinks
  <2>2. Give(r) \/ DeleteDetached(r)
    BY <1>t
  <2>5. r.heap \in Heap /\ Keeps(heap, r.heap) /\ r.heap.live = heap.live
    BY <1>b, <1>t, DetachKeeps
  <2>6. r.ret \in Item \cup {NULL}
    BY <1>b, <1>t, DetachLinks DEF Link
  <2> HIDE DEF r
  <2>7. Keeps(heap, cJSON_Delete(r.heap, r.ret))
    BY <2>5, <2>6, DeleteKeeps, KeepsTransitive
  <2>3. CASE Give(r)
    <3>1. Linked'
      BY <1>a, <2>1, <2>3, GiveLinked
    <3>2. Accounts'
      BY <2>3, <2>5, GrowAccounts DEF Give
    <3> QED
      BY <3>1, <3>2
  <2>4. CASE DeleteDetached(r)
    <3>1. Linked'
      BY <1>a, <2>1, <2>4, KeepLinked DEF DeleteDetached
    <3>2. Accounts'
      BY <2>4, <2>7, FreeAccounts DEF DeleteDetached
    <3> QED
      BY <3>1, <3>2
  <2> QED
    BY <2>2, <2>3, <2>4
<1>12. CASE TakeItemFromArray
  <2>1. PICK c \in Item, which \in 0 .. Cardinality(Item) :
           LET x == get_array_item(heap, c, which)
           IN  /\ Container(c)
               /\ \/ Give(cJSON_DetachItemViaPointer(heap, c, x))
                  \/ DeleteDetached(cJSON_DetachItemViaPointer(heap, c, x))
    BY <1>12 DEF TakeItemFromArray
  <2> DEFINE x == get_array_item(heap, c, which)
  <2>2. IsOwner(heap, c) /\ which \in Nat
    BY <1>e, <2>1, ContainerOwns
  <2>3. x \in Link /\ (x # NULL => owner[x] = c)
    BY <1>b, <2>2, GetArrayItemOwned
  <2>4. \/ Give(cJSON_DetachItemViaPointer(heap, c, x))
        \/ DeleteDetached(cJSON_DetachItemViaPointer(heap, c, x))
    BY <2>1
  <2> HIDE DEF x
  <2> QED
    BY <1>t, <2>2, <2>3, <2>4
<1>13. CASE TakeItemFromObject
  <2>1. PICK c \in Item, k \in Key, case_sensitive \in BOOLEAN :
           LET x == get_object_item(heap, c, k, case_sensitive)
           IN  /\ Container(c)
               /\ \/ Give(cJSON_DetachItemViaPointer(heap, c, x))
                  \/ DeleteDetached(cJSON_DetachItemViaPointer(heap, c, x))
    BY <1>13 DEF TakeItemFromObject
  <2> DEFINE x == get_object_item(heap, c, k, case_sensitive)
  <2>2. IsOwner(heap, c)
    BY <2>1, ContainerOwns
  <2>3. x \in Link /\ (x # NULL => owner[x] = c)
    BY <1>b, <2>2, GetObjectItemOwned
  <2>4. \/ Give(cJSON_DetachItemViaPointer(heap, c, x))
        \/ DeleteDetached(cJSON_DetachItemViaPointer(heap, c, x))
    BY <2>1
  <2> HIDE DEF x
  <2> QED
    BY <1>t, <2>2, <2>3, <2>4
<1>14. CASE ReplaceItemViaPointer
  <2>1. PICK c \in Item, i \in Item, item \in Item :
           /\ InList(c, item)
           /\ CanAdopt(c, i) \/ (Container(c) /\ i = item)
           /\ Adopt(cJSON_ReplaceItemViaPointer(heap, c, item, i), i)
           /\ KeepsReferents(heap')
    BY <1>14 DEF ReplaceItemViaPointer
  <2> DEFINE r == cJSON_ReplaceItemViaPointer(heap, c, item, i)
  <2>2. /\ IsOwner(heap, c)
        /\ (i \in roots \ {c} /\ c \notin Deleted(heap, i)) \/ i = item
    BY <1>c, <2>1, CanAdoptOther, ContainerOwns
  <2>3. item \in Link /\ owner[item] = c
    BY <1>b, <2>1, <2>2, InListOwned DEF Link
  <2>4. /\ r.ret \in BOOLEAN
        /\ r.ret => WellLinked(r.heap, roots \ {i})
        /\ ~r.ret => r.heap = heap
    BY <1>b, <2>2, <2>3, ReplaceLinks
  <2>5. Adopt(r, i)
    BY <2>1
  <2>6. Keeps(heap, r.heap)
    BY <1>b, <2>2, <2>3, ReplaceKeeps
  <2> HIDE DEF r
  <2>7. Linked'
    BY <1>a, <2>4, <2>5, AdoptLinked
  <2>8. Accounts'
    BY <2>1, <2>5, <2>6, FreeAccounts DEF Adopt
  <2> QED
    BY <2>7, <2>8
<1>15. CASE cJSON_ReplaceItemInArray
  <2>1. PICK c \in Item, i \in Item, which \in 0 .. Cardinality(Item) :
           /\ CanAdopt(c, i)
           /\ Adopt(cJSON_ReplaceItemViaPointer(heap, c,
                      get_array_item(heap, c, which), i), i)
           /\ KeepsReferents(heap')
    BY <1>15 DEF cJSON_ReplaceItemInArray
  <2> DEFINE x == get_array_item(heap, c, which)
             r == cJSON_ReplaceItemViaPointer(heap, c, x, i)
  <2>2. /\ IsOwner(heap, c) /\ which \in Nat
        /\ i \in roots \ {c} /\ c \notin Deleted(heap, i)
    BY <1>c, <1>e, <2>1, CanAdoptOther, ContainerOwns
  <2>3. x \in Link /\ (x # NULL => owner[x] = c)
    BY <1>b, <2>2, GetArrayItemOwned
  <2>4. Adopt(r, i)
    BY <2>1
  <2> HIDE DEF x
  <2>5. /\ r.ret \in BOOLEAN
        /\ r.ret => WellLinked(r.heap, roots \ {i})
        /\ ~r.ret => r.heap = heap
    BY <1>b, <2>2, <2>3, ReplaceLinks
  <2>6. Keeps(heap, r.heap)
    BY <1>b, <2>2, <2>3, ReplaceKeeps
  <2> HIDE DEF r
  <2>7. Linked'
    BY <1>a, <2>4, <2>5, AdoptLinked
  <2>8. Accounts'
    BY <2>1, <2>4, <2>6, FreeAccounts DEF Adopt
  <2> QED
    BY <2>7, <2>8
<1>16. CASE cJSON_ReplaceItemInObject
  <2>1. PICK c \in Item, i \in Item, k \in Key :
           \E case_sensitive, memory \in BOOLEAN :
             /\ CanAdopt(c, i)
             /\ Adopt(replace_item_in_object(heap, c, k, i, case_sensitive, memory), i)
             /\ KeepsReferents(heap')
    BY <1>16 DEF cJSON_ReplaceItemInObject
  <2>2. PICK case_sensitive \in BOOLEAN, memory \in BOOLEAN :
           Adopt(replace_item_in_object(heap, c, k, i, case_sensitive, memory), i)
    BY <2>1
  <2> DEFINE r == replace_item_in_object(heap, c, k, i, case_sensitive, memory)
  <2>3. IsOwner(heap, c) /\ i \in roots /\ i # c /\ c \notin Deleted(heap, i)
    BY <1>c, <2>1, CanAdoptOther, ContainerOwns
  <2>4. /\ r.ret \in BOOLEAN
        /\ r.ret => WellLinked(r.heap, roots \ {i})
        /\ ~r.ret => WellLinked(r.heap, roots)
    BY <1>a, <2>3, ReplaceInObjectLinks
  <2>5. Adopt(r, i)
    BY <2>2
  <2>6. Keeps(heap, r.heap)
    BY <1>a, <2>3, ReplaceInObjectKeeps
  <2> HIDE DEF r
  <2>7. Linked'
    BY <1>a, <2>4, <2>5, AdoptLinked
  <2>8. Accounts'
    BY <2>1, <2>5, <2>6, FreeAccounts DEF Adopt
  <2> QED
    BY <2>7, <2>8
<1>17. CASE UNCHANGED vars
  <2>1. heap' = heap /\ held' = held
    BY <1>17 DEF vars
  <2>2. Linked'
    BY <1>a, <2>1, KeepLinked
  <2>3. Accounts'
    BY <2>1 DEF Accounts
  <2> QED
    BY <2>2, <2>3
<1> QED
  BY <1>1, <1>2, <1>3, <1>4, <1>5, <1>6, <1>7, <1>8, <1>9, <1>10, <1>11,
     <1>12, <1>13, <1>14, <1>15, <1>16, <1>17 DEF Next

-----------------------------------------------------------------------------
(* cJSON_Duplicate.  The items of a copy are new.  While the children of an  *)
(* item are copied, the first copy does not show the last one yet; the heap  *)
(* is well linked but for that prev, and for those of the calls further up.  *)

\* What g has and h has not.
New(h, g) == g.live \ h.live

\* g is h and new items, which are no references and lead to new items only.
Adds(h, g) ==
  /\ g \in Heap /\ Zeroed(g) /\ h.live \subseteq g.live
  /\ \A x \in Item \ New(h, g) :
       /\ g.next[x] = h.next[x] /\ g.prev[x] = h.prev[x] /\ g.child[x] = h.child[x]
       /\ g.type[x] = h.type[x] /\ g.string[x] = h.string[x]
  /\ \A x \in New(h, g) :
       /\ ~IsReference(g, x)
       /\ g.next[x] \in New(h, g) \cup {NULL}
       /\ g.child[x] \in New(h, g) \cup {NULL}
  /\ Ledger(h) => Ledger(g)

\* The new items hang below n.
HangBelow(h, g, n) ==
  /\ n \in New(h, g) /\ g.next[n] = NULL
  /\ New(h, g) \subseteq Deleted(g, n)

WithPrev(h, p) == [h EXCEPT !.prev = p]

\* The prev of the items of h is p.
Over(g, h, p) == [x \in Item |-> IF x \in h.live THEN p[x] ELSE g.prev[x]]

\* If h is well linked but for some prev, so is g, and n is one more root.
Hangs(h, g, n) ==
  \A p \in [Item -> Link] : \A H :
    WellLinked(WithPrev(h, p), H) => WellLinked(WithPrev(g, Over(g, h, p)), H \cup {n})

\* g is h and a copy whose root is n.
CopyOf(h, g, n) == Adds(h, g) /\ HangBelow(h, g, n) /\ Hangs(h, g, n)

\* The same before the first copy of a child shows the last one.
CopyBegun(h, g, n, last) ==
  /\ Adds(h, g) /\ HangBelow(h, g, n)
  /\ Hangs(h, CloseCopies(g, n, last), n)
  /\ last \in (New(h, g) \ {n}) \cup {NULL}
  /\ last = NULL => g.child[n] = NULL
  /\ last # NULL => g.child[n] # NULL /\ g.next[last] = NULL

\* The heap of a call before it allocates.
Sound(h) == h \in Heap /\ Zeroed(h) /\ Ledger(h)

\* The addresses are free and different.
Spare(addresses, h) ==
  /\ addresses \in Seq(Item)
  /\ \A n \in 1 .. Len(addresses) : addresses[n] \notin h.live
  /\ \A m, n \in 1 .. Len(addresses) : addresses[m] = addresses[n] => m = n

\* What a call makes of h: a copy, or nothing.
Copied(h, call) ==
  /\ call \in Calls
  /\ IF call.ret = NULL THEN call.heap = h
     ELSE CopyOf(h, call.heap, call.ret) /\ Spare(call.addresses, call.heap)

\* Deleted is the least set that is closed.
LEMMA DeletedLeast ==
  ASSUME NEW h, NEW i, NEW S \in SUBSET Item, i \in S,
         \A x \in S : /\ h.next[x] = NULL \/ h.next[x] \in S
                      /\ \/ IsReference(h, x)
                         \/ h.child[x] = NULL
                         \/ h.child[x] \in S
  PROVE  Deleted(h, i) \subseteq S
<1> DEFINE Closed(T) == /\ i \in T
                        /\ \A x \in T :
                             /\ h.next[x] = NULL \/ h.next[x] \in T
                             /\ \/ IsReference(h, x)
                                \/ h.child[x] = NULL
                                \/ h.child[x] \in T
<1>1. Deleted(h, i) = {x \in Item : \A T \in SUBSET Item : Closed(T) => x \in T}
  BY DEF Deleted
<1>2. Closed(S)
  OBVIOUS
<1> HIDE DEF Closed
<1> QED
  BY <1>1, <1>2

\* Deleting the root of what has been added gives the heap from before.
LEMMA AddedRemoved ==
  ASSUME NEW h, Sound(h), NEW g, Adds(h, g), NEW n, HangBelow(h, g, n)
  PROVE  cJSON_Delete(g, n) = h
<1> USE NULLAssumption
<1> DEFINE new == New(h, g)
           d == cJSON_Delete(g, n)
<1>1. /\ h \in Heap /\ g \in Heap /\ n \in Item /\ n \in new
      /\ new \in SUBSET Item /\ new = g.live \ h.live /\ h.live \subseteq g.live
      /\ h.live \in SUBSET Item
  BY DEF Adds, HangBelow, Sound, Heap, New
<1>2. Deleted(g, n) \subseteq new
  <2>1. \A x \in new : /\ g.next[x] = NULL \/ g.next[x] \in new
                       /\ g.child[x] = NULL \/ g.child[x] \in new
    BY DEF Adds
  <2> HIDE DEF new
  <2> QED
    BY <1>1, <2>1, DeletedLeast
<1>3. Deleted(g, n) = new
  BY <1>2 DEF HangBelow
<1>4. /\ d \in Heap /\ d.live = g.live \ new
      /\ \A x \in Item :
           /\ d.next[x] = IF x \in new THEN NULL ELSE g.next[x]
           /\ d.prev[x] = IF x \in new THEN NULL ELSE g.prev[x]
           /\ d.child[x] = IF x \in new THEN NULL ELSE g.child[x]
           /\ d.type[x] = IF x \in new THEN {} ELSE g.type[x]
           /\ d.string[x] = IF x \in new THEN NULL ELSE g.string[x]
  BY <1>1, <1>3, DeleteFields
<1>5. Keeps(g, d)
  BY <1>1, DeleteKeeps
<1> HIDE DEF d
<1>6. \A x \in Item :
        /\ d.next[x] = h.next[x] /\ d.prev[x] = h.prev[x] /\ d.child[x] = h.child[x]
        /\ d.type[x] = h.type[x] /\ d.string[x] = h.string[x]
  <2>1. ASSUME NEW x \in new
        PROVE  /\ h.next[x] = NULL /\ h.prev[x] = NULL /\ h.child[x] = NULL
               /\ h.type[x] = {} /\ h.string[x] = NULL
    BY <1>1 DEF Sound, Zeroed
  <2>2. ASSUME NEW x \in Item \ new
        PROVE  /\ g.next[x] = h.next[x] /\ g.prev[x] = h.prev[x]
               /\ g.child[x] = h.child[x]
               /\ g.type[x] = h.type[x] /\ g.string[x] = h.string[x]
    BY DEF Adds
  <2> HIDE DEF new
  <2> SUFFICES ASSUME NEW x \in Item
               PROVE  /\ d.next[x] = h.next[x] /\ d.prev[x] = h.prev[x]
                      /\ d.child[x] = h.child[x]
                      /\ d.type[x] = h.type[x] /\ d.string[x] = h.string[x]
    OBVIOUS
  <2>3. CASE x \in new
    BY <1>4, <2>1, <2>3
  <2>4. CASE x \notin new
    BY <1>4, <2>2, <2>4
  <2> QED
    BY <2>3, <2>4
<1>7. d.live = h.live
  BY <1>1, <1>4
<1>8. d.type = h.type /\ d.string = h.string
  BY <1>1, <1>4, <1>6 DEF Heap
<1>9. d.strings = h.strings
  <2>1. Keyed(d) = Keyed(h) /\ Texted(d) = Texted(h)
    BY <1>8 DEF Keyed, Texted, OwnsKey, OwnsText
  <2>2. Ledger(d) /\ Ledger(h)
    BY <1>5 DEF Sound, Adds, Keeps
  <2> QED
    BY <2>1, <2>2 DEF Ledger
<1> QED
  BY <1>1, <1>4, <1>6, <1>7, <1>8, <1>9, SameFields DEF d

-----------------------------------------------------------------------------
(* One item.                                                               *)

\* g is h with an item at a, not linked to any other.
IsFilled(g, h, a, type, string, strings) ==
  /\ g \in Heap /\ g.live = h.live \cup {a} /\ g.strings = strings
  /\ g.next = [h.next EXCEPT ![a] = NULL]
  /\ g.prev = [h.prev EXCEPT ![a] = NULL]
  /\ g.child = [h.child EXCEPT ![a] = NULL]
  /\ g.type = [h.type EXCEPT ![a] = type]
  /\ g.string = [h.string EXCEPT ![a] = string]

\* What CopyFields makes of the new item: all of it, or it deletes one of the
\* two that are begun.
FieldsCopied(copy, item, a, r) ==
  LET h == copy.heap
      text == IF "HasText" \in h.type[item] THEN 1 ELSE 0
      key == IF OwnsKey(h, item) THEN 1 ELSE 0
      type == h.type[item] \ {"IsReference"}
  IN  \E made, texted, keyed \in Heap :
        /\ IsFilled(made, h, a, type \ {"HasText"}, NULL, h.strings)
        /\ IsFilled(texted, h, a, type, NULL, h.strings + text)
        /\ IsFilled(keyed, h, a, type, h.string[item], h.strings + text + key)
        /\ \/ copy.blocks < text /\ r = Gone(copy, made, a)
           \/ /\ ~(copy.blocks < text) /\ copy.blocks < text + key
              /\ r = Gone(copy, texted, a)
           \/ /\ ~(copy.blocks < text + key)
              /\ r = [copy EXCEPT !.heap = keyed, !.ret = a, !.blocks = @ - text - key]

\* The three outcomes of filling a new item.
LEMMA CopyFieldsCases ==
  ASSUME NEW copy \in Calls, NEW item \in Item, NEW a \in Item
  PROVE  FieldsCopied(copy, item, a, CopyFields(copy, item, a))
<1> DEFINE h == copy.heap
           text == IF "HasText" \in h.type[item] THEN 1 ELSE 0
           key == IF OwnsKey(h, item) THEN 1 ELSE 0
           type == h.type[item] \ {"IsReference"}
           new == cJSON_New_Item(h, a)
           made == [new EXCEPT !.type[a] = h.type[item] \ {"IsReference", "HasText"}]
           texted == [made EXCEPT !.type[a] = h.type[item] \ {"IsReference"},
                                  !.strings = @ + text]
           keyed == [texted EXCEPT !.string[a] = h.string[item], !.strings = @ + key]
<1>1. h \in Heap
  BY DEF Calls
<1>2. /\ new \in Heap /\ new.live = h.live \cup {a}
      /\ new.next = [h.next EXCEPT ![a] = NULL]
      /\ new.prev = [h.prev EXCEPT ![a] = NULL]
      /\ new.child = [h.child EXCEPT ![a] = NULL]
      /\ new.type = [h.type EXCEPT ![a] = {}]
      /\ new.string = [h.string EXCEPT ![a] = NULL]
      /\ new.strings = h.strings
  <2>1. NULL \in Link
    BY DEF Link
  <2> QED
    BY <1>1, <2>1 DEF cJSON_New_Item, Heap
<1>3. text \in Nat /\ key \in Nat /\ text + key \in Nat
  OBVIOUS
<1> HIDE DEF new, text, key
<1>4. h.strings \in Int /\ type \in SUBSET Bit /\ h.string[item] \in Key \cup {NULL}
      /\ type \ {"HasText"} = h.type[item] \ {"IsReference", "HasText"}
  BY <1>1 DEF Heap
<1>5. IsFilled(made, h, a, type \ {"HasText"}, NULL, h.strings)
  <2>1. /\ made \in Heap /\ made.live = new.live /\ made.next = new.next
        /\ made.prev = new.prev /\ made.child = new.child /\ made.string = new.string
        /\ made.strings = new.strings
        /\ made.type = [new.type EXCEPT ![a] = type \ {"HasText"}]
    BY <1>2, <1>4 DEF Heap
  <2>2. made.type = [h.type EXCEPT ![a] = type \ {"HasText"}]
    BY <1>1, <1>2, <2>1 DEF Heap
  <2> HIDE DEF made, type
  <2> QED
    BY <1>2, <2>1, <2>2 DEF IsFilled
<1> HIDE DEF made
<1>6. IsFilled(texted, h, a, type, NULL, h.strings + text)
  <2>0. made \in Heap /\ made.strings \in Int /\ made.strings + text \in Int
    BY <1>3, <1>4, <1>5 DEF IsFilled
  <2>1. /\ texted \in Heap /\ texted.live = made.live /\ texted.next = made.next
        /\ texted.prev = made.prev /\ texted.child = made.child
        /\ texted.string = made.string
        /\ texted.strings = made.strings + text
        /\ texted.type = [made.type EXCEPT ![a] = type]
    BY <1>3, <1>4, <2>0 DEF Heap
  <2>2. texted.type = [h.type EXCEPT ![a] = type]
    BY <1>1, <1>5, <2>1 DEF Heap, IsFilled
  <2> HIDE DEF texted, type
  <2> QED
    BY <1>5, <2>1, <2>2 DEF IsFilled
<1> HIDE DEF texted
<1>7. IsFilled(keyed, h, a, type, h.string[item], h.strings + text + key)
  <2>0. texted \in Heap /\ texted.strings \in Int /\ texted.strings + key \in Int
    BY <1>3, <1>4, <1>6 DEF IsFilled
  <2>1. /\ keyed \in Heap /\ keyed.live = texted.live /\ keyed.next = texted.next
        /\ keyed.prev = texted.prev /\ keyed.child = texted.child
        /\ keyed.type = texted.type
        /\ keyed.strings = texted.strings + key
        /\ keyed.string = [texted.string EXCEPT ![a] = h.string[item]]
    BY <1>3, <1>4, <2>0 DEF Heap
  <2>2. keyed.string = [h.string EXCEPT ![a] = h.string[item]]
    BY <1>1, <1>6, <2>1 DEF Heap, IsFilled
  <2> HIDE DEF keyed, type
  <2> QED
    BY <1>6, <2>1, <2>2 DEF IsFilled
<1>8. CopyFields(copy, item, a) =
        IF copy.blocks < text THEN Gone(copy, made, a)
        ELSE IF copy.blocks < text + key THEN Gone(copy, texted, a)
        ELSE [copy EXCEPT !.heap = keyed, !.ret = a, !.blocks = @ - text - key]
  BY Zenon DEF CopyFields, text, key, made, texted, new
<1> HIDE DEF keyed
<1>9. made \in Heap /\ texted \in Heap /\ keyed \in Heap
  BY <1>5, <1>6, <1>7 DEF IsFilled
<1>10. copy.blocks \in Nat
  BY DEF Calls
<1> DEFINE r == CopyFields(copy, item, a)
<1>11. \/ copy.blocks < text /\ r = Gone(copy, made, a)
       \/ /\ ~(copy.blocks < text) /\ copy.blocks < text + key
          /\ r = Gone(copy, texted, a)
       \/ /\ ~(copy.blocks < text + key)
          /\ r = [copy EXCEPT !.heap = keyed, !.ret = a, !.blocks = @ - text - key]
  <2>1. copy.blocks < text => copy.blocks < text + key
    BY <1>3, <1>10
  <2> QED
    BY <1>8, <2>1
<1> HIDE DEF r
<1> QED
  BY <1>5, <1>6, <1>7, <1>9, <1>11, Zenon DEF FieldsCopied, text, key, r

\* A call that deletes what it has begun.
LEMMA GoneFields ==
  ASSUME NEW copy \in Calls, NEW g \in Heap, NEW a \in Item
  PROVE  /\ Gone(copy, g, a) \in Calls
         /\ Gone(copy, g, a).heap = cJSON_Delete(g, a)
         /\ Gone(copy, g, a).ret = NULL
         /\ Gone(copy, g, a).addresses = copy.addresses
<1>1. cJSON_Delete(g, a) \in Heap /\ NULL \in Link
  BY DeleteFields DEF Link
<1> QED
  BY <1>1 DEF Gone, Calls

\* A call that copies the fields of an item, whatever it is given.
LEMMA CopyFieldsTyped ==
  ASSUME NEW copy \in Calls, NEW item \in Item, NEW a \in Item
  PROVE  LET r == CopyFields(copy, item, a)
         IN  r \in Calls /\ r.addresses = copy.addresses /\ r.ret \in {NULL, a}
<1> DEFINE r == CopyFields(copy, item, a)
           h == copy.heap
           text == IF "HasText" \in h.type[item] THEN 1 ELSE 0
           key == IF OwnsKey(h, item) THEN 1 ELSE 0
<1>1. FieldsCopied(copy, item, a, r)
  BY CopyFieldsCases
<1> HIDE DEF r
<1>2. \/ \E g \in Heap : r = Gone(copy, g, a)
      \/ \E g \in Heap : /\ ~(copy.blocks < text + key)
                         /\ r = [copy EXCEPT !.heap = g, !.ret = a,
                                             !.blocks = @ - text - key]
  BY <1>1 DEF FieldsCopied
<1>3. CASE \E g \in Heap : r = Gone(copy, g, a)
  BY <1>3, GoneFields DEF r
<1>4. ASSUME NEW g \in Heap, ~(copy.blocks < text + key),
             r = [copy EXCEPT !.heap = g, !.ret = a, !.blocks = @ - text - key]
      PROVE  r \in Calls /\ r.addresses = copy.addresses /\ r.ret = a
  <2>1. copy.blocks \in Nat /\ text \in Nat /\ key \in Nat
    BY DEF Calls
  <2>2. copy.blocks - text - key \in Nat
    BY <1>4, <2>1
  <2> HIDE DEF text, key
  <2> QED
    BY <1>4, <2>2 DEF Calls, Link
<1> QED
  BY <1>2, <1>3, <1>4 DEF r

\* A call that makes a copy of one item uses the first address, if there is one.
LEMMA NewCopyTyped ==
  ASSUME NEW copy \in Calls, NEW item \in Item
  PROVE  LET r == NewCopy(copy, item)
         IN  /\ r \in Calls /\ Len(r.addresses) <= Len(copy.addresses)
             /\ r.ret # NULL =>
                  /\ copy.addresses # << >> /\ r.ret = Head(copy.addresses)
                  /\ r.ret \in Item
                  /\ r = CopyFields([copy EXCEPT !.addresses = Tail(@)], item, r.ret)
                  /\ r.addresses = Tail(copy.addresses)
                  /\ Len(r.addresses) < Len(copy.addresses)
<1> DEFINE r == NewCopy(copy, item)
           left == [copy EXCEPT !.addresses = Tail(@)]
           a == Head(copy.addresses)
<1>1. copy.addresses \in Seq(Item)
  BY DEF Calls
<1>2. CASE copy.addresses = << >>
  <2>1. r = [copy EXCEPT !.ret = NULL]
    BY <1>2 DEF NewCopy
  <2> QED
    BY <1>1, <2>1 DEF Calls, Link
<1>3. CASE copy.addresses # << >>
  <2>1. /\ a \in Item /\ Tail(copy.addresses) \in Seq(Item)
        /\ Len(Tail(copy.addresses)) < Len(copy.addresses)
        /\ Len(Tail(copy.addresses)) <= Len(copy.addresses)
    BY <1>1, <1>3
  <2>2. left \in Calls /\ left.addresses = Tail(copy.addresses)
    BY <2>1 DEF Calls
  <2>3. r = CopyFields(left, item, a)
    BY <1>3 DEF NewCopy
  <2> HIDE DEF left, r
  <2>4. r \in Calls /\ r.addresses = left.addresses /\ r.ret \in {NULL, a}
    BY <2>1, <2>2, <2>3, CopyFieldsTyped
  <2> QED
    BY <1>3, <2>1, <2>2, <2>3, <2>4 DEF r, left
<1> QED
  BY <1>2, <1>3

\* A new item counts for its key and for its text.
LEMMA FilledLedger ==
  ASSUME NEW h \in Heap, Zeroed(h), NEW a \in Item \ h.live, NEW g,
         NEW type \in SUBSET Bit, NEW string \in Key \cup {NULL}, NEW strings,
         IsFilled(g, h, a, type, string, strings), "IsReference" \notin type,
         strings = h.strings + (IF "HasText" \in type THEN 1 ELSE 0)
                     + (IF string # NULL /\ "StringIsConst" \notin type THEN 1 ELSE 0)
  PROVE  Ledger(h) => Ledger(g)
<1> USE NULLAssumption
<1> DEFINE text == IF "HasText" \in type THEN 1 ELSE 0
           key == IF string # NULL /\ "StringIsConst" \notin type THEN 1 ELSE 0
<1>1. /\ ~OwnsKey(h, a) /\ ~OwnsText(h, a) /\ h.strings \in Int
      /\ OwnsKey(g, a) <=> key = 1
      /\ OwnsText(g, a) <=> text = 1
  BY DEF Zeroed, OwnsKey, OwnsText, Heap, IsFilled
<1>2. \A x \in Item \ {a} : g.type[x] = h.type[x] /\ g.string[x] = h.string[x]
  BY DEF IsFilled, Heap
<1>3. /\ a \notin Keyed(h) /\ a \notin Texted(h)
      /\ Keyed(g) = IF key = 1 THEN Keyed(h) \cup {a} ELSE Keyed(h)
      /\ Texted(g) = IF text = 1 THEN Texted(h) \cup {a} ELSE Texted(h)
  <2> HIDE DEF key, text
  <2>1. \A x \in Item \ {a} : /\ OwnsKey(g, x) <=> OwnsKey(h, x)
                              /\ OwnsText(g, x) <=> OwnsText(h, x)
    BY <1>2 DEF OwnsKey, OwnsText
  <2> QED
    BY <1>1, <2>1 DEF Keyed, Texted
<1>4. Texted(h) \in SUBSET Item /\ Keyed(h) \in SUBSET Item
  BY DEF Texted, Keyed
<1>5. /\ IsFiniteSet(Texted(h)) /\ IsFiniteSet(Keyed(h))
      /\ Cardinality(Texted(h)) \in Nat /\ Cardinality(Keyed(h)) \in Nat
  BY <1>4, ItemAssumption, FS_Subset, FS_CardinalityType
<1>6. Cardinality(Texted(h) \cup {a}) = Cardinality(Texted(h)) + 1
  BY <1>3, <1>5, FS_AddElement
<1>7. Cardinality(Keyed(h) \cup {a}) = Cardinality(Keyed(h)) + 1
  BY <1>3, <1>5, FS_AddElement
<1>8. /\ Cardinality(Texted(g)) = Cardinality(Texted(h)) + text
      /\ Cardinality(Keyed(g)) = Cardinality(Keyed(h)) + key
  BY <1>3, <1>5, <1>6, <1>7
<1>9. g.strings = h.strings + text + key
  BY DEF IsFilled
<1> HIDE DEF text, key
<1> QED
  BY <1>1, <1>5, <1>8, <1>9 DEF Ledger, text, key

\* A new item is a copy without children.
LEMMA FilledIsCopy ==
  ASSUME NEW h, Sound(h), NEW a \in Item \ h.live, NEW g,
         NEW type \in SUBSET Bit, NEW string \in Key \cup {NULL}, NEW strings,
         IsFilled(g, h, a, type, string, strings), "IsReference" \notin type,
         strings = h.strings + (IF "HasText" \in type THEN 1 ELSE 0)
                     + (IF string # NULL /\ "StringIsConst" \notin type THEN 1 ELSE 0)
  PROVE  CopyOf(h, g, a) /\ g.child[a] = NULL /\ New(h, g) = {a}
<1> USE NULLAssumption
<1>1. /\ h \in Heap /\ g \in Heap /\ Zeroed(h) /\ h.live \in SUBSET Item
      /\ g.live = h.live \cup {a}
      /\ h.next[a] = NULL /\ h.prev[a] = NULL /\ h.child[a] = NULL
  BY DEF Sound, IsFilled, Heap, Zeroed
<1>2. /\ g.next = h.next /\ g.prev = h.prev /\ g.child = h.child
      /\ g.type = [h.type EXCEPT ![a] = type]
      /\ g.string = [h.string EXCEPT ![a] = string]
  BY <1>1 DEF IsFilled, Heap
<1>3. /\ \A x \in Item \ {a} : g.type[x] = h.type[x] /\ g.string[x] = h.string[x]
      /\ g.type[a] = type
  BY <1>1, <1>2 DEF Heap
<1>4. New(h, g) = {a}
  BY <1>1 DEF New
<1>5. Adds(h, g)
  <2>1. Ledger(h) => Ledger(g)
    BY <1>1, FilledLedger
  <2>2. ~IsReference(g, a) /\ g.next[a] = NULL /\ g.child[a] = NULL
    BY <1>1, <1>2, <1>3 DEF IsReference
  <2>3. Zeroed(g)
    BY <1>1, <1>2, <1>3 DEF Zeroed
  <2> QED
    BY <1>1, <1>2, <1>3, <1>4, <2>1, <2>2, <2>3 DEF Adds
<1>6. HangBelow(h, g, a)
  <2>1. a \in Deleted(g, a)
    BY <1>1, DeletedClosed
  <2> QED
    BY <1>1, <1>2, <1>4, <2>1 DEF HangBelow
<1>7. ASSUME NEW p \in [Item -> Link], NEW H, WellLinked(WithPrev(h, p), H)
      PROVE  WellLinked(WithPrev(g, Over(g, h, p)), H \cup {a})
  <2> DEFINE k == WithPrev(h, p)
             l == WithPrev(g, Over(g, h, p))
  <2>1. /\ k \in Heap /\ k.live = h.live /\ k.next = h.next /\ k.child = h.child
        /\ k.type = h.type /\ k.string = h.string /\ k.prev = p
    BY <1>1 DEF WithPrev, Heap
  <2>2. Zeroed(k)
    BY <1>7 DEF WellLinked, Links
  <2>3. Over(g, h, p) = p
    <3>1. \A x \in Item \ h.live : p[x] = NULL /\ g.prev[x] = NULL
      BY <1>1, <1>2, <2>1, <2>2 DEF Zeroed
    <3> QED
      BY <3>1 DEF Over
  <2>4. /\ l \in Heap /\ l.live = g.live /\ l.next = g.next /\ l.child = g.child
        /\ l.type = g.type /\ l.string = g.string /\ l.prev = p
    BY <1>1, <2>3 DEF WithPrev, Heap
  <2> HIDE DEF k, l
  <2> QED
    <3>1. WellLinked(k, H) /\ a \in Item \ k.live
      BY <1>7, <2>1 DEF k
    <3>2. /\ l.live = k.live \cup {a} /\ l.next = k.next /\ l.prev = k.prev
          /\ \A x \in Item \ {a} : /\ l.child[x] = k.child[x]
                                   /\ l.type[x] = k.type[x]
                                   /\ l.string[x] = k.string[x]
          /\ l.child[a] # NULL => IsReference(l, a)
      BY <1>1, <1>2, <1>3, <2>1, <2>4
    <3>3. WellLinked(l, H \cup {a})
      BY <2>4, <3>1, <3>2, NewItemLinks
    <3> QED
      BY <3>3 DEF l
<1>8. Hangs(h, g, a)
  BY <1>7 DEF Hangs
<1>9. CopyOf(h, g, a)
  BY <1>5, <1>6, <1>8, Zenon DEF CopyOf
<1> QED
  BY <1>1, <1>2, <1>4, <1>9

\* A new item without children is a copy that has begun, and one that is done.
LEMMA BegunAlone ==
  ASSUME NEW h, NEW g, NEW n, CopyOf(h, g, n), g.child[n] = NULL
  PROVE  CopyBegun(h, g, n, NULL)
BY DEF CopyOf, CopyBegun, CloseCopies

\* NewCopy makes a copy without children, or leaves the heap as it was.
LEMMA NewCopyMade ==
  ASSUME NEW copy \in Calls, Sound(copy.heap), Spare(copy.addresses, copy.heap),
         NEW item \in Item
  PROVE  LET r == NewCopy(copy, item)
         IN  /\ Copied(copy.heap, r)
             /\ r.ret # NULL => CopyBegun(copy.heap, r.heap, r.ret, NULL)
<1> USE NULLAssumption
<1> DEFINE r == NewCopy(copy, item)
           h == copy.heap
           a == Head(copy.addresses)
           left == [copy EXCEPT !.addresses = Tail(@)]
<1>1. /\ r \in Calls
      /\ r.ret # NULL => /\ copy.addresses # << >> /\ r.ret = a
                         /\ r.addresses = Tail(copy.addresses)
  BY NewCopyTyped
<1>2. CASE copy.addresses = << >>
  <2>1. r.ret = NULL /\ r.heap = h
    BY <1>2 DEF NewCopy, Calls
  <2> QED
    BY <1>1, <2>1 DEF Copied
<1>3. CASE copy.addresses # << >>
  <2>1. /\ copy.addresses \in Seq(Item) /\ h \in Heap
        /\ \A n \in 1 .. Len(copy.addresses) : copy.addresses[n] \notin h.live
    BY DEF Spare, Calls
  <2>2. /\ a \in Item \ h.live /\ a = copy.addresses[1]
        /\ Tail(copy.addresses) \in Seq(Item)
    BY <1>3, <2>1
  <2>3. left \in Calls /\ left.heap = h /\ left.blocks = copy.blocks
    BY <2>2 DEF Calls
  <2>4. r = CopyFields(left, item, a)
    BY <1>3 DEF NewCopy
  <2>5. FieldsCopied(left, item, a, r)
    BY <2>2, <2>3, <2>4, CopyFieldsCases
  <2> DEFINE text == IF "HasText" \in h.type[item] THEN 1 ELSE 0
             key == IF OwnsKey(h, item) THEN 1 ELSE 0
             type == h.type[item] \ {"IsReference"}
  <2>6. PICK made \in Heap, texted \in Heap, keyed \in Heap :
          /\ IsFilled(made, h, a, type \ {"HasText"}, NULL, h.strings)
          /\ IsFilled(texted, h, a, type, NULL, h.strings + text)
          /\ IsFilled(keyed, h, a, type, h.string[item], h.strings + text + key)
          /\ \/ r = Gone(left, made, a)
             \/ r = Gone(left, texted, a)
             \/ r = [left EXCEPT !.heap = keyed, !.ret = a, !.blocks = @ - text - key]
    BY <2>3, <2>5 DEF FieldsCopied
  <2>7. /\ h.strings \in Int /\ type \in SUBSET Bit /\ type \ {"HasText"} \in SUBSET Bit
        /\ h.string[item] \in Key \cup {NULL} /\ "IsReference" \notin type
        /\ "HasText" \in type <=> "HasText" \in h.type[item]
        /\ "StringIsConst" \in type <=> "StringIsConst" \in h.type[item]
        /\ text \in Nat /\ key \in Nat
    BY <2>1 DEF Heap
  <2>8. CopyOf(h, made, a)
    <3>1. h.strings = h.strings + 0 + 0
      BY <2>7
    <3> HIDE DEF r, type, text, key, left, h, a
    <3> QED
      BY <2>2, <2>6, <2>7, <3>1, FilledIsCopy DEF h
  <2>9. CopyOf(h, texted, a)
    <3>1. h.strings + text = h.strings + (IF "HasText" \in type THEN 1 ELSE 0) + 0
      BY <2>7
    <3> HIDE DEF r, type, text, key, left, h, a
    <3> QED
      BY <2>2, <2>6, <2>7, <3>1, FilledIsCopy DEF h
  <2>10. CopyOf(h, keyed, a) /\ keyed.child[a] = NULL /\ New(h, keyed) = {a}
    <3>1. /\ text = IF "HasText" \in type THEN 1 ELSE 0
          /\ key = IF h.string[item] # NULL /\ "StringIsConst" \notin type THEN 1 ELSE 0
      BY <2>7 DEF OwnsKey
    <3>2. h.strings + text + key
            = h.strings + (IF "HasText" \in type THEN 1 ELSE 0)
                + (IF h.string[item] # NULL /\ "StringIsConst" \notin type THEN 1 ELSE 0)
      BY <3>1
    <3> HIDE DEF r, type, text, key, left, h, a
    <3> QED
      BY <2>2, <2>6, <2>7, <3>2, FilledIsCopy DEF h
  <2> HIDE DEF r, type, text, key, left, h
  <2>11. CASE r = Gone(left, made, a)
    <3>1. r.ret = NULL /\ r.heap = cJSON_Delete(made, a)
      BY <2>2, <2>3, <2>6, <2>11, GoneFields
    <3>2. cJSON_Delete(made, a) = h
      BY <2>8, AddedRemoved DEF CopyOf, h
    <3> QED
      BY <1>1, <3>1, <3>2 DEF Copied, h, r
  <2>12. CASE r = Gone(left, texted, a)
    <3>1. r.ret = NULL /\ r.heap = cJSON_Delete(texted, a)
      BY <2>2, <2>3, <2>6, <2>12, GoneFields
    <3>2. cJSON_Delete(texted, a) = h
      BY <2>9, AddedRemoved DEF CopyOf, h
    <3> QED
      BY <1>1, <3>1, <3>2 DEF Copied, h, r
  <2>13. CASE r = [left EXCEPT !.heap = keyed, !.ret = a, !.blocks = @ - text - key]
    <3>1. r.ret = a /\ r.heap = keyed
      BY <2>3, <2>13 DEF Calls
    <3>2. a # NULL /\ r.addresses = Tail(copy.addresses)
      BY <1>1, <2>2, <3>1 DEF r
    <3>3. Spare(r.addresses, keyed)
      <4>1. keyed.live = h.live \cup {a}
        BY <2>6 DEF IsFilled
      <4>2. /\ Len(Tail(copy.addresses)) = Len(copy.addresses) - 1
            /\ Len(copy.addresses) \in Nat
            /\ \A n \in 1 .. Len(copy.addresses) - 1 :
                 /\ Tail(copy.addresses)[n] = copy.addresses[n + 1]
                 /\ n + 1 \in 1 .. Len(copy.addresses) /\ n + 1 # 1
        BY <1>3, <2>1
      <4>3. /\ 1 \in 1 .. Len(copy.addresses)
            /\ \A m, n \in 1 .. Len(copy.addresses) :
                 copy.addresses[m] = copy.addresses[n] => m = n
        BY <1>3, <2>1 DEF Spare
      <4>4. \A n \in 1 .. Len(copy.addresses) - 1 : Tail(copy.addresses)[n] # a
        BY <2>2, <4>2, <4>3
      <4>5. \A m, n \in 1 .. Len(copy.addresses) - 1 :
              Tail(copy.addresses)[m] = Tail(copy.addresses)[n] => m = n
        <5> SUFFICES ASSUME NEW m \in 1 .. Len(copy.addresses) - 1,
                            NEW n \in 1 .. Len(copy.addresses) - 1,
                            Tail(copy.addresses)[m] = Tail(copy.addresses)[n]
                     PROVE  m = n
          OBVIOUS
        <5>1. copy.addresses[m + 1] = copy.addresses[n + 1]
          BY <4>2
        <5>2. m + 1 = n + 1
          BY <4>2, <4>3, <5>1
        <5> QED
          BY <4>2, <5>2
      <4>6. \A n \in 1 .. Len(copy.addresses) - 1 :
              Tail(copy.addresses)[n] \notin keyed.live
        BY <2>1, <4>1, <4>2, <4>4
      <4> QED
        BY <2>2, <3>2, <4>2, <4>5, <4>6 DEF Spare
    <3>4. CopyBegun(h, keyed, a, NULL)
      BY <2>10, BegunAlone
    <3> QED
      BY <1>1, <2>10, <3>1, <3>2, <3>3, <3>4 DEF Copied, h, r
  <2> QED
    BY <2>6, <2>11, <2>12, <2>13
<1> QED
  BY <1>2, <1>3

-----------------------------------------------------------------------------
(* The loop over the children, as a function of what it calls.             *)

\* The copy of the next child without its children, and the call that makes
\* them.
ChildFields(loop) == NewCopy(loop.copy, loop.child)

Inner(loop) ==
  LoopAt(ChildFields(loop), ChildFields(loop).ret, NULL,
         ChildFields(loop).heap.child[loop.child], loop.depth + 1)

\* The copy of the next child, if f gives what the calls return.
ChildCopied(loop, f) ==
  IF ChildFields(loop).ret = NULL THEN ChildFields(loop) ELSE f[Inner(loop)]

\* The copy is linked, and where the loop goes on.
ChildLinked(loop, below) ==
  [below EXCEPT !.heap = LinkCopy(@, loop.newitem, loop.next, below.ret)]

Outer(loop, below) ==
  LoopAt(ChildLinked(loop, below), loop.newitem, below.ret,
         ChildLinked(loop, below).heap.next[loop.child], loop.depth)

\* What the loop returns.
LoopStep(loop, f) ==
  IF loop.child = NULL
  THEN [loop.copy EXCEPT !.heap = CloseCopies(@, loop.newitem, loop.next),
                         !.ret = loop.newitem]
  ELSE IF loop.depth >= CircularLimit THEN Gone(loop.copy, loop.copy.heap, loop.newitem)
  ELSE IF ChildCopied(loop, f).ret = NULL
  THEN Gone(ChildCopied(loop, f), ChildCopied(loop, f).heap, loop.newitem)
  ELSE f[Outer(loop, ChildCopied(loop, f))]

\* What a loop can return: it gives no address back.
Returned(loop) == {v \in Calls : Len(v.addresses) <= Len(loop.copy.addresses)}

\* f with only such values.
Clipped(f) == [loop \in Loops |-> IF f[loop] \in Returned(loop) THEN f[loop] ELSE loop.copy]

\* The places of a loop.
LEMMA LoopTyped ==
  ASSUME NEW copy \in Calls, NEW newitem \in Item, NEW next \in Link, NEW child \in Link,
         NEW depth \in Nat
  PROVE  /\ LoopAt(copy, newitem, next, child, depth) \in Loops
         /\ LoopAt(copy, newitem, next, child, depth).copy = copy
         /\ LoopAt(copy, newitem, next, child, depth).newitem = newitem
         /\ LoopAt(copy, newitem, next, child, depth).next = next
         /\ LoopAt(copy, newitem, next, child, depth).child = child
         /\ LoopAt(copy, newitem, next, child, depth).depth = depth
BY DEF LoopAt, Loops

\* The fields of a loop.
LEMMA LoopParts ==
  ASSUME NEW loop \in Loops
  PROVE  /\ loop.copy \in Calls /\ loop.newitem \in Item /\ loop.next \in Link
         /\ loop.child \in Link /\ loop.depth \in Nat
         /\ loop.copy.heap \in Heap /\ Len(loop.copy.addresses) \in Nat
         /\ loop.copy.addresses \in Seq(Item)
BY DEF Loops, Calls

\* Linking a copy changes links.
LEMMA LinkCopyTyped ==
  ASSUME NEW h \in Heap, NEW n \in Item, NEW last \in Link, NEW c \in Item
  PROVE  LET g == LinkCopy(h, n, last, c)
         IN  /\ g \in Heap /\ g.live = h.live /\ g.type = h.type
             /\ g.string = h.string /\ g.strings = h.strings
             /\ g.child = IF last = NULL THEN [h.child EXCEPT ![n] = c] ELSE h.child
             /\ g.next = IF last = NULL THEN h.next ELSE [h.next EXCEPT ![last] = c]
             /\ g.prev = IF last = NULL THEN h.prev ELSE [h.prev EXCEPT ![c] = last]
<1>1. CASE last = NULL
  BY <1>1 DEF LinkCopy, Heap, Link
<1>2. CASE last # NULL
  BY <1>2 DEF LinkCopy, suffix_object, Heap, Link
<1> QED
  BY <1>1, <1>2

\* Closing the list changes the prev of the first copy.
LEMMA CloseCopiesTyped ==
  ASSUME NEW h \in Heap, NEW n \in Item, NEW last \in Link
  PROVE  LET g == CloseCopies(h, n, last)
         IN  /\ g \in Heap /\ g.live = h.live /\ g.type = h.type
             /\ g.string = h.string /\ g.strings = h.strings
             /\ g.child = h.child /\ g.next = h.next
             /\ g.prev = IF last = NULL THEN h.prev
                         ELSE [h.prev EXCEPT ![h.child[n]] = last]
<1>1. CASE last = NULL
  BY <1>1 DEF CloseCopies
<1>2. CASE last # NULL
  BY <1>2 DEF CloseCopies, Heap, Link
<1> QED
  BY <1>1, <1>2

\* The calls of a loop have fewer addresses.
LEMMA InnerSmaller ==
  ASSUME NEW loop \in Loops, loop.child # NULL, ChildFields(loop).ret # NULL
  PROVE  /\ Inner(loop) \in Loops
         /\ Inner(loop).copy = ChildFields(loop)
         /\ Len(Inner(loop).copy.addresses) < Len(loop.copy.addresses)
<1>1. loop.copy \in Calls /\ loop.child \in Item /\ loop.depth + 1 \in Nat
  BY LoopParts DEF Link
<1>2. /\ ChildFields(loop) \in Calls /\ ChildFields(loop).ret \in Item
      /\ Len(ChildFields(loop).addresses) < Len(loop.copy.addresses)
  BY <1>1, NewCopyTyped DEF ChildFields
<1>3. ChildFields(loop).heap.child[loop.child] \in Link /\ NULL \in Link
  BY <1>1, <1>2 DEF Calls, Heap, Link
<1>4. /\ Inner(loop) \in Loops /\ Inner(loop).copy = ChildFields(loop)
  BY <1>1, <1>2, <1>3, LoopTyped DEF Inner
<1> QED
  BY <1>2, <1>4

\* The copy of a child, if the calls return what they can return.
LEMMA ChildCopiedTyped ==
  ASSUME NEW loop \in Loops, loop.child # NULL, NEW f,
         \A y \in Loops : f[y] \in Returned(y)
  PROVE  LET below == ChildCopied(loop, f)
         IN  /\ below \in Returned(loop)
             /\ below.ret # NULL =>
                  /\ Outer(loop, below) \in Loops
                  /\ Outer(loop, below).copy = ChildLinked(loop, below)
                  /\ Len(Outer(loop, below).copy.addresses) < Len(loop.copy.addresses)
<1> DEFINE below == ChildCopied(loop, f)
           linked == ChildLinked(loop, below)
<1>1. /\ loop.copy \in Calls /\ loop.child \in Item /\ loop.newitem \in Item
      /\ loop.next \in Link /\ loop.depth \in Nat /\ Len(loop.copy.addresses) \in Nat
  BY LoopParts DEF Link
<1>2. CASE ChildFields(loop).ret = NULL
  <2>1. below = ChildFields(loop)
    BY <1>2 DEF ChildCopied
  <2>2. /\ below \in Calls /\ Len(below.addresses) <= Len(loop.copy.addresses)
    BY <1>1, <2>1, NewCopyTyped DEF ChildFields
  <2> QED
    BY <1>2, <2>1, <2>2 DEF Returned
<1>3. CASE ChildFields(loop).ret # NULL
  <2>1. /\ Inner(loop) \in Loops
        /\ Len(Inner(loop).copy.addresses) < Len(loop.copy.addresses)
    BY <1>3, InnerSmaller
  <2>2. below = f[Inner(loop)]
    BY <1>3 DEF ChildCopied
  <2> HIDE DEF below
  <2>3. below \in Calls /\ Len(below.addresses) <= Len(Inner(loop).copy.addresses)
    BY <2>1, <2>2 DEF Returned
  <2>4. /\ Len(below.addresses) \in Nat /\ Len(Inner(loop).copy.addresses) \in Nat
        /\ below.heap \in Heap /\ below.addresses \in Seq(Item)
    <3>1. Len(Inner(loop).copy.addresses) \in Nat
      BY <2>1, LoopParts
    <3> QED
      BY <2>3, <3>1 DEF Calls
  <2>5. Len(below.addresses) < Len(loop.copy.addresses)
    BY <1>1, <2>1, <2>3, <2>4
  <2>6. below \in Returned(loop)
    BY <1>1, <2>3, <2>4, <2>5 DEF Returned
  <2>7. ASSUME below.ret # NULL
        PROVE  /\ Outer(loop, below) \in Loops
               /\ Outer(loop, below).copy = linked
               /\ linked.addresses = below.addresses
    <3>1. below.ret \in Item
      BY <2>3, <2>7 DEF Calls, Link
    <3>2. LinkCopy(below.heap, loop.newitem, loop.next, below.ret) \in Heap
      BY <1>1, <2>4, <3>1, LinkCopyTyped
    <3>3. linked \in Calls /\ linked.addresses = below.addresses
      BY <2>3, <3>2 DEF Calls, ChildLinked
    <3>4. linked.heap.next[loop.child] \in Link /\ below.ret \in Link
      BY <1>1, <3>1, <3>3 DEF Calls, Heap, Link
    <3>5. Outer(loop, below) \in Loops /\ Outer(loop, below).copy = linked
      BY <1>1, <3>3, <3>4, LoopTyped DEF Outer
    <3> QED
      BY <3>3, <3>5
  <2> QED
    BY <2>5, <2>6, <2>7 DEF below
<1> QED
  BY <1>2, <1>3

\* Then the loop returns what it can return.
LEMMA LoopStepTyped ==
  ASSUME NEW loop \in Loops, NEW f, \A y \in Loops : f[y] \in Returned(y)
  PROVE  LoopStep(loop, f) \in Returned(loop)
<1> USE NULLAssumption
<1> DEFINE below == ChildCopied(loop, f)
<1>1. /\ loop.copy \in Calls /\ loop.newitem \in Item /\ loop.copy.heap \in Heap
      /\ loop.next \in Link /\ loop.depth \in Nat /\ Len(loop.copy.addresses) \in Nat
  BY LoopParts
<1>2. CASE loop.child = NULL
  <2>1. CloseCopies(loop.copy.heap, loop.newitem, loop.next) \in Heap
    BY <1>1, CloseCopiesTyped
  <2>2. LoopStep(loop, f) = [loop.copy EXCEPT
          !.heap = CloseCopies(loop.copy.heap, loop.newitem, loop.next),
          !.ret = loop.newitem]
    BY <1>2 DEF LoopStep
  <2>3. loop.newitem \in Link
    BY <1>1 DEF Link
  <2>4. /\ LoopStep(loop, f) \in Calls
        /\ LoopStep(loop, f).addresses = loop.copy.addresses
    BY <1>1, <2>1, <2>2, <2>3 DEF Calls
  <2> QED
    BY <1>1, <2>4 DEF Returned
<1>3. CASE loop.child # NULL /\ loop.depth >= CircularLimit
  <2>1. LoopStep(loop, f) = Gone(loop.copy, loop.copy.heap, loop.newitem)
    BY <1>3 DEF LoopStep
  <2> QED
    BY <1>1, <2>1, GoneFields DEF Returned
<1>4. CASE loop.child # NULL /\ ~(loop.depth >= CircularLimit)
  <2>1. below \in Returned(loop)
    BY <1>4, ChildCopiedTyped
  <2>2. CASE below.ret = NULL
    <3>1. LoopStep(loop, f) = Gone(below, below.heap, loop.newitem)
      BY <1>4, <2>2 DEF LoopStep
    <3>2. below \in Calls /\ below.heap \in Heap
      BY <2>1 DEF Returned, Calls
    <3> HIDE DEF below
    <3> QED
      BY <1>1, <2>1, <3>1, <3>2, GoneFields DEF Returned
  <2>3. CASE below.ret # NULL
    <3>1. LoopStep(loop, f) = f[Outer(loop, below)]
      BY <1>4, <2>3 DEF LoopStep
    <3>2. /\ Outer(loop, below) \in Loops
          /\ Len(Outer(loop, below).copy.addresses) < Len(loop.copy.addresses)
      BY <1>4, <2>3, ChildCopiedTyped
    <3>3. Len(Outer(loop, below).copy.addresses) \in Nat
      BY <3>2, LoopParts
    <3>4. f[Outer(loop, below)] \in Returned(Outer(loop, below))
      BY <3>2
    <3> DEFINE v == f[Outer(loop, below)]
               o == Outer(loop, below)
    <3>5. v \in Calls /\ Len(v.addresses) \in Nat /\ Len(v.addresses) <= Len(o.copy.addresses)
      BY <3>4 DEF Returned, Calls
    <3> HIDE DEF v, o
    <3>6. Len(v.addresses) <= Len(loop.copy.addresses)
      BY <1>1, <3>2, <3>3, <3>5 DEF o
    <3> QED
      BY <3>1, <3>5, <3>6 DEF Returned, v
  <2> QED
    BY <2>2, <2>3
<1> QED
  BY <1>2, <1>3, <1>4

\* What is clipped can be returned.
LEMMA ClippedReturned == \A f : \A y \in Loops : Clipped(f)[y] \in Returned(y)
<1>1. \A y \in Loops : y.copy \in Returned(y)
  BY LoopParts DEF Returned
<1> QED
  BY <1>1 DEF Clipped

\* The loop looks at its own calls with fewer addresses only.
LEMMA LoopAgrees ==
  ASSUME NEW x \in Loops, NEW f, NEW g, \A y \in Loops : g[y] \in Returned(y),
         \A y \in Loops :
           Len(y.copy.addresses) < Len(x.copy.addresses) => f[y] = g[y]
  PROVE  LoopStep(x, f) = LoopStep(x, g)
<1>1. CASE x.child = NULL
  BY <1>1 DEF LoopStep
<1>2. CASE x.child # NULL
  <2>1. ChildCopied(x, f) = ChildCopied(x, g)
    BY <1>2, InnerSmaller DEF ChildCopied
  <2> DEFINE below == ChildCopied(x, g)
  <2>2. below.ret # NULL => f[Outer(x, below)] = g[Outer(x, below)]
    <3>1. below.ret # NULL =>
            /\ Outer(x, below) \in Loops
            /\ Len(Outer(x, below).copy.addresses) < Len(x.copy.addresses)
      BY <1>2, ChildCopiedTyped
    <3> QED
      BY <3>1
  <2> QED
    BY <2>1, <2>2 DEF LoopStep
<1> QED
  BY <1>1, <1>2

\* So its definition is by recursion along the number of addresses.
LEMMA LoopDescends ==
  DescendsAlong([loop \in Loops |-> Len(loop.copy.addresses)],
                [pair \in Loops \X [Loops -> Calls] |-> LoopStep(pair[1], Clipped(pair[2]))],
                Loops, Calls)
<1> DEFINE m == [loop \in Loops |-> Len(loop.copy.addresses)]
           G == [pair \in Loops \X [Loops -> Calls] |->
                   LoopStep(pair[1], Clipped(pair[2]))]
<1>1. m \in [Loops -> Nat]
  BY LoopParts
<1>2. G \in [Loops \X [Loops -> Calls] -> Calls]
  <2>1. ASSUME NEW pair \in Loops \X [Loops -> Calls]
        PROVE  LoopStep(pair[1], Clipped(pair[2])) \in Calls
    <3>1. pair[1] \in Loops
      OBVIOUS
    <3>2. LoopStep(pair[1], Clipped(pair[2])) \in Returned(pair[1])
      BY <3>1, ClippedReturned, LoopStepTyped
    <3> QED
      BY <3>2 DEF Returned
  <2> QED
    BY <2>1
<1>3. Calls # {}
  <2>1. EmptyHeap \in Heap
    BY NoItems
  <2>2. [heap |-> EmptyHeap, ret |-> NULL, addresses |-> << >>, blocks |-> 0] \in Calls
    BY <2>1 DEF Calls, Link
  <2> QED
    BY <2>2
<1>4. ASSUME NEW x \in Loops, NEW f \in [Loops -> Calls], NEW g \in [Loops -> Calls],
             \A y \in Loops : m[y] < m[x] => f[y] = g[y]
      PROVE  G[<<x, f>>] = G[<<x, g>>]
  <2> DEFINE cf == Clipped(f)
             cg == Clipped(g)
  <2>1. \A y \in Loops : Len(y.copy.addresses) < Len(x.copy.addresses) => cf[y] = cg[y]
    BY <1>4 DEF Clipped
  <2>2. \A y \in Loops : cg[y] \in Returned(y)
    BY ClippedReturned
  <2>3. G[<<x, f>>] = LoopStep(x, cf) /\ G[<<x, g>>] = LoopStep(x, cg)
    OBVIOUS
  <2> HIDE DEF cf, cg, m, G
  <2> QED
    BY <2>1, <2>2, <2>3, LoopAgrees
<1> HIDE DEF m, G
<1>5. DescendsAlong(m, G, Loops, Calls)
  BY <1>1, <1>2, <1>3, <1>4 DEF DescendsAlong
<1> QED
  BY <1>5 DEF m, G

\* CopyChildren is defined: it is the function that its definition says.
LEMMA CopyChildrenSteps ==
  \A loop \in Loops :
    /\ CopyChildren[loop] = LoopStep(loop, CopyChildren)
    /\ CopyChildren[loop] \in Returned(loop)
<1> DEFINE m == [loop \in Loops |-> Len(loop.copy.addresses)]
           G == [pair \in Loops \X [Loops -> Calls] |->
                   LoopStep(pair[1], Clipped(pair[2]))]
           Is(f) == f = [loop \in Loops |-> LoopStep(loop, f)]
<1>1. PICK F \in [Loops -> Calls] : \A x \in Loops : F[x] = G[<<x, F>>]
  <2> HIDE DEF m, G
  <2>1. DescendsAlong(m, G, Loops, Calls)
    BY LoopDescends DEF m, G
  <2> QED
    BY <2>1, Recursion
<1>2. \A x \in Loops : F[x] = LoopStep(x, Clipped(F))
  BY <1>1
<1> HIDE DEF m, G
<1>3. \A y \in Loops : Clipped(F)[y] \in Returned(y)
  <2>1. \A y \in Loops : y.copy \in Returned(y)
    BY LoopParts DEF Returned
  <2> QED
    BY <2>1 DEF Clipped
<1>4. \A x \in Loops : F[x] \in Returned(x)
  BY <1>2, <1>3, LoopStepTyped
<1>5. Clipped(F) = F
  BY <1>4 DEF Clipped
<1>6. Is(F)
  BY <1>2, <1>5
<1>7. CopyChildren = CHOOSE f : Is(f)
  BY Zenon DEF CopyChildren, LoopStep, ChildCopied, ChildFields, Inner, Outer, ChildLinked
<1>8. Is(CopyChildren)
  <2> HIDE DEF Is
  <2> QED
    BY <1>6, <1>7
<1>9. \A x \in Loops : CopyChildren[x] = LoopStep(x, CopyChildren)
  BY <1>8
<1> DEFINE Bad == {n \in Nat : \E x \in Loops : /\ Len(x.copy.addresses) = n
                                               /\ CopyChildren[x] \notin Returned(x)}
<1>10. Bad = {}
  <2> SUFFICES ASSUME Bad # {} PROVE FALSE
    OBVIOUS
  <2>1. PICK n \in Bad : \A k \in Bad : n <= k
    <3>1. Bad \in SUBSET Nat
      OBVIOUS
    <3> HIDE DEF Bad
    <3> QED
      BY <3>1, LeastNat
  <2>2. PICK x \in Loops : Len(x.copy.addresses) = n /\ CopyChildren[x] \notin Returned(x)
    BY <2>1
  <2>3. ASSUME NEW y \in Loops, Len(y.copy.addresses) < n
        PROVE  CopyChildren[y] = Clipped(CopyChildren)[y]
    <3>1. Len(y.copy.addresses) \in Nat /\ n \in Nat
      BY LoopParts, <2>1
    <3>2. Len(y.copy.addresses) \notin Bad
      <4> HIDE DEF Bad
      <4> QED
        BY <2>1, <2>3, <3>1
    <3>3. CopyChildren[y] \in Returned(y)
      BY <3>1, <3>2
    <3> QED
      BY <3>3 DEF Clipped
  <2>4. LoopStep(x, CopyChildren) = LoopStep(x, Clipped(CopyChildren))
    BY <2>2, <2>3, ClippedReturned, LoopAgrees
  <2>5. LoopStep(x, Clipped(CopyChildren)) \in Returned(x)
    BY ClippedReturned, LoopStepTyped
  <2> QED
    BY <1>9, <2>2, <2>4, <2>5
<1>11. \A x \in Loops : CopyChildren[x] \in Returned(x)
  BY <1>10, LoopParts
<1> QED
  BY <1>9, <1>11

-----------------------------------------------------------------------------
(* Linking and closing.                                                    *)

\* A heap with another prev.
LEMMA WithPrevFields ==
  ASSUME NEW h \in Heap, NEW p \in [Item -> Link]
  PROVE  LET g == WithPrev(h, p)
         IN  /\ g \in Heap /\ g.prev = p /\ g.next = h.next /\ g.child = h.child
             /\ g.type = h.type /\ g.string = h.string /\ g.live = h.live
             /\ g.strings = h.strings
BY DEF WithPrev, Heap

\* Over is a prev.
LEMMA OverTyped ==
  ASSUME NEW g \in Heap, NEW h, NEW p \in [Item -> Link]
  PROVE  Over(g, h, p) \in [Item -> Link]
BY DEF Over, Heap

\* What can be said of the copy k of a child, made from the heap g in which
\* the copy n of its parent has begun, and of the heap l in which k is linked.
LEMMA LinkedFields ==
  ASSUME NEW h, Sound(h), NEW g, NEW n, NEW last, CopyBegun(h, g, n, last),
         NEW k, NEW c, CopyOf(g, k, c)
  PROVE  LET l == LinkCopy(k, n, last, c)
         IN  /\ g \in Heap /\ k \in Heap /\ l \in Heap /\ Zeroed(g) /\ Zeroed(l)
             /\ n \in New(h, g) /\ n \in Item /\ c \in New(g, k) /\ c \in Item /\ c # n
             /\ last \in Link /\ (last # NULL => last \in New(h, g) /\ last # n)
             /\ New(h, l) = New(h, g) \cup New(g, k)
             /\ New(h, g) \in SUBSET Item /\ New(g, k) \in SUBSET Item
             /\ l.live = k.live /\ h.live \subseteq g.live /\ g.live \subseteq k.live
             /\ \A x \in Item \ New(g, k) :
                  /\ k.next[x] = g.next[x] /\ k.prev[x] = g.prev[x]
                  /\ k.child[x] = g.child[x]
                  /\ k.type[x] = g.type[x] /\ k.string[x] = g.string[x]
             /\ l.type = k.type /\ l.string = k.string /\ l.strings = k.strings
             /\ \A x \in Item :
                  /\ l.next[x] = IF x = last THEN c ELSE k.next[x]
                  /\ l.child[x] = IF last = NULL /\ x = n THEN c ELSE k.child[x]
                  /\ l.prev[x] = IF last # NULL /\ x = c THEN last ELSE k.prev[x]
             /\ last = NULL => g.child[n] = NULL
             /\ last # NULL => /\ g.next[last] = NULL
                               /\ g.child[n] \in New(h, g)
<1> USE NULLAssumption
<1> DEFINE l == LinkCopy(k, n, last, c)
<1>1. /\ g \in Heap /\ k \in Heap /\ Zeroed(g) /\ Zeroed(k)
      /\ h.live \subseteq g.live /\ g.live \subseteq k.live
  BY DEF CopyBegun, CopyOf, Adds
<1>2. /\ h.live \in SUBSET Item /\ g.live \in SUBSET Item /\ k.live \in SUBSET Item
      /\ n \in New(h, g) /\ c \in New(g, k)
      /\ New(h, g) \in SUBSET Item /\ New(g, k) \in SUBSET Item
  BY <1>1 DEF CopyBegun, CopyOf, HangBelow, New, Heap, Sound
<1>3. n \in Item /\ c \in Item /\ c # n
  BY <1>2 DEF New
<1>4. last \in Link /\ (last # NULL => last \in New(h, g) /\ last # n)
  BY <1>2 DEF CopyBegun, Link
<1>5. /\ l \in Heap /\ l.live = k.live /\ l.type = k.type
      /\ l.string = k.string /\ l.strings = k.strings
      /\ l.child = IF last = NULL THEN [k.child EXCEPT ![n] = c] ELSE k.child
      /\ l.next = IF last = NULL THEN k.next ELSE [k.next EXCEPT ![last] = c]
      /\ l.prev = IF last = NULL THEN k.prev ELSE [k.prev EXCEPT ![c] = last]
  <2>1. k \in Heap /\ n \in Item /\ c \in Item /\ last \in Link
    BY <1>1, <1>3, <1>4
  <2> QED
    BY <2>1, LinkCopyTyped
<1> HIDE DEF l
<1>6. New(h, l) = New(h, g) \cup New(g, k)
  BY <1>1, <1>5 DEF New
<1>7. \A x \in Item :
        /\ l.next[x] = IF x = last THEN c ELSE k.next[x]
        /\ l.child[x] = IF last = NULL /\ x = n THEN c ELSE k.child[x]
        /\ l.prev[x] = IF last # NULL /\ x = c THEN last ELSE k.prev[x]
  <2>1. CASE last = NULL
    BY <1>1, <1>5, <2>1 DEF Heap
  <2>2. CASE last # NULL
    BY <1>1, <1>4, <1>5, <2>2 DEF Heap
  <2> QED
    BY <2>1, <2>2
<1>8. \A x \in Item \ New(g, k) :
        /\ k.next[x] = g.next[x] /\ k.prev[x] = g.prev[x]
        /\ k.child[x] = g.child[x]
        /\ k.type[x] = g.type[x] /\ k.string[x] = g.string[x]
  BY DEF CopyOf, Adds
<1>9. Zeroed(l)
  <2>1. ASSUME NEW x \in Item \ l.live
        PROVE  x # n /\ x # c /\ x # last /\ x \in Item \ k.live
    BY <1>1, <1>2, <1>4, <1>5 DEF New
  <2> QED
    BY <1>1, <1>5, <1>7, <2>1 DEF Zeroed
<1>10. /\ last = NULL => g.child[n] = NULL
       /\ last # NULL => /\ g.next[last] = NULL
                         /\ g.child[n] \in New(h, g)
  BY <1>2 DEF CopyBegun, Adds
<1> QED
  BY <1>1, <1>2, <1>3, <1>4, <1>5, <1>6, <1>7, <1>8, <1>9, <1>10 DEF l

\* Linking a copy adds its items to what has been added.
LEMMA LinkAdds ==
  ASSUME NEW h, Sound(h), NEW g, NEW n, NEW last, CopyBegun(h, g, n, last),
         NEW k, NEW c, CopyOf(g, k, c)
  PROVE  Adds(h, LinkCopy(k, n, last, c))
<1> USE NULLAssumption
<1> DEFINE l == LinkCopy(k, n, last, c)
<1>1. /\ l \in Heap /\ Zeroed(l) /\ l.live = k.live
      /\ h.live \subseteq g.live /\ g.live \subseteq k.live
      /\ n \in New(h, g) /\ c \in New(g, k) /\ last \in Link
      /\ last # NULL => last \in New(h, g)
      /\ New(h, l) = New(h, g) \cup New(g, k)
      /\ New(h, g) \in SUBSET Item /\ New(g, k) \in SUBSET Item
      /\ \A x \in Item \ New(g, k) :
           /\ k.next[x] = g.next[x] /\ k.prev[x] = g.prev[x] /\ k.child[x] = g.child[x]
           /\ k.type[x] = g.type[x] /\ k.string[x] = g.string[x]
      /\ l.type = k.type /\ l.string = k.string /\ l.strings = k.strings
      /\ \A x \in Item :
           /\ l.next[x] = IF x = last THEN c ELSE k.next[x]
           /\ l.child[x] = IF last = NULL /\ x = n THEN c ELSE k.child[x]
           /\ l.prev[x] = IF last # NULL /\ x = c THEN last ELSE k.prev[x]
  BY LinkedFields
<1> HIDE DEF l
<1>2. /\ \A x \in Item \ New(h, g) :
           /\ g.next[x] = h.next[x] /\ g.prev[x] = h.prev[x] /\ g.child[x] = h.child[x]
           /\ g.type[x] = h.type[x] /\ g.string[x] = h.string[x]
      /\ \A x \in New(h, g) :
           /\ ~IsReference(g, x)
           /\ g.next[x] \in New(h, g) \cup {NULL}
           /\ g.child[x] \in New(h, g) \cup {NULL}
      /\ Ledger(h) => Ledger(g)
  BY DEF CopyBegun, Adds
<1>3. /\ \A x \in New(g, k) :
           /\ ~IsReference(k, x)
           /\ k.next[x] \in New(g, k) \cup {NULL}
           /\ k.child[x] \in New(g, k) \cup {NULL}
      /\ Ledger(g) => Ledger(k)
  BY DEF CopyOf, Adds
<1>4. ASSUME NEW x \in Item \ New(h, l)
      PROVE  /\ l.next[x] = h.next[x] /\ l.prev[x] = h.prev[x] /\ l.child[x] = h.child[x]
             /\ l.type[x] = h.type[x] /\ l.string[x] = h.string[x]
  <2>1. /\ x \in Item /\ x \in Item \ New(h, g) /\ x \in Item \ New(g, k)
        /\ x # c /\ x # n /\ x # last
    BY <1>1
  <2> QED
    BY <1>1, <1>2, <2>1
<1>5. ASSUME NEW x \in New(h, l)
      PROVE  /\ ~IsReference(l, x)
             /\ l.next[x] \in New(h, l) \cup {NULL}
             /\ l.child[x] \in New(h, l) \cup {NULL}
  <2>1. x \in Item
    BY <1>1
  <2>2. CASE x \in New(g, k)
    BY <1>1, <1>3, <2>1, <2>2 DEF IsReference
  <2>3. CASE x \notin New(g, k)
    <3>1. x \in New(h, g) /\ x \in Item \ New(g, k)
      BY <1>1, <2>1, <2>3
    <3>2. /\ k.next[x] \in New(h, g) \cup {NULL} /\ k.child[x] \in New(h, g) \cup {NULL}
          /\ ~IsReference(k, x)
      BY <1>1, <1>2, <3>1 DEF IsReference
    <3> QED
      BY <1>1, <2>1, <3>1, <3>2 DEF IsReference
  <2> QED
    BY <2>2, <2>3
<1>6. Ledger(h) => Ledger(l)
  <2>1. Keyed(l) = Keyed(k) /\ Texted(l) = Texted(k)
    BY <1>1 DEF Keyed, Texted, OwnsKey, OwnsText
  <2> QED
    BY <1>1, <1>2, <1>3, <2>1 DEF Ledger
<1> QED
  BY <1>1, <1>4, <1>5, <1>6 DEF Adds, l

\* They all hang below the copy of the parent.
LEMMA LinkBelow ==
  ASSUME NEW h, Sound(h), NEW g, NEW n, NEW last, CopyBegun(h, g, n, last),
         NEW k, NEW c, CopyOf(g, k, c)
  PROVE  HangBelow(h, LinkCopy(k, n, last, c), n)
<1> USE NULLAssumption
<1> DEFINE l == LinkCopy(k, n, last, c)
           S == Deleted(l, n)
<1>1. /\ l \in Heap /\ Zeroed(g)
      /\ n \in New(h, g) /\ n \in Item /\ c \in New(g, k) /\ last \in Link
      /\ last # NULL => last \in New(h, g) /\ last # n
      /\ New(h, l) = New(h, g) \cup New(g, k)
      /\ New(h, g) \in SUBSET Item /\ New(g, k) \in SUBSET Item
      /\ \A x \in Item \ New(g, k) :
           /\ k.next[x] = g.next[x] /\ k.child[x] = g.child[x] /\ k.type[x] = g.type[x]
      /\ l.type = k.type
      /\ \A x \in Item :
           /\ l.next[x] = IF x = last THEN c ELSE k.next[x]
           /\ l.child[x] = IF last = NULL /\ x = n THEN c ELSE k.child[x]
      /\ last = NULL => g.child[n] = NULL
      /\ last # NULL => g.next[last] = NULL
  BY LinkedFields
<1> HIDE DEF l
<1>2. /\ S \in SUBSET Item /\ n \in S
      /\ \A x \in S : /\ l.next[x] # NULL => l.next[x] \in S
                      /\ ~IsReference(l, x) /\ l.child[x] # NULL => l.child[x] \in S
  BY <1>1, DeletedClosed
<1>3. \A x \in New(g, k) : x \in Item /\ g.next[x] = NULL /\ g.child[x] = NULL
  BY <1>1 DEF New, Zeroed
<1>4. \A x \in Item \ New(g, k) : IsReference(l, x) <=> IsReference(g, x)
  BY <1>1 DEF IsReference
<1> HIDE DEF S
<1>5. Deleted(g, n) \subseteq S
  <2>1. ASSUME NEW x \in S
        PROVE  /\ g.next[x] = NULL \/ g.next[x] \in S
               /\ IsReference(g, x) \/ g.child[x] = NULL \/ g.child[x] \in S
    <3>1. CASE x \in New(g, k)
      BY <1>3, <3>1
    <3>2. CASE x \notin New(g, k)
      <4>1. x \in Item \ New(g, k) /\ x \in Item
        BY <1>2, <3>2
      <4>2. g.next[x] = NULL \/ g.next[x] \in S
        <5>1. CASE x = last
          BY <1>1, <4>1, <5>1
        <5>2. CASE x # last
          BY <1>1, <1>2, <4>1, <5>2
        <5> QED
          BY <5>1, <5>2
      <4>3. IsReference(g, x) \/ g.child[x] = NULL \/ g.child[x] \in S
        <5>1. CASE last = NULL /\ x = n
          BY <1>1, <5>1
        <5>2. CASE ~(last = NULL /\ x = n)
          BY <1>1, <1>2, <1>4, <4>1, <5>2
        <5> QED
          BY <5>1, <5>2
      <4> QED
        BY <4>2, <4>3
    <3> QED
      BY <3>1, <3>2
  <2> QED
    BY <1>2, <2>1, DeletedLeast
<1>6. New(h, g) \subseteq S
  BY <1>5 DEF CopyBegun, HangBelow
<1>7. c \in S
  <2>1. ~IsReference(l, n)
    BY <1>1, <1>4 DEF New, CopyBegun, Adds
  <2>2. c # NULL
    BY <1>1
  <2> QED
    BY <1>1, <1>2, <1>6, <2>1, <2>2 DEF Link
<1>8. Deleted(k, c) \subseteq S
  <2>1. ASSUME NEW x \in S
        PROVE  /\ k.next[x] = NULL \/ k.next[x] \in S
               /\ IsReference(k, x) \/ k.child[x] = NULL \/ k.child[x] \in S
    <3>0. x \in Item
      BY <1>2
    <3>1. k.next[x] = NULL \/ k.next[x] \in S
      <4>1. CASE x = last
        <5>1. x \in Item \ New(g, k)
          BY <1>1, <3>0, <4>1 DEF New, Link
        <5> QED
          BY <1>1, <4>1, <5>1
      <4>2. CASE x # last
        BY <1>1, <1>2, <3>0, <4>2
      <4> QED
        BY <4>1, <4>2
    <3>2. IsReference(k, x) \/ k.child[x] = NULL \/ k.child[x] \in S
      <4>1. CASE last = NULL /\ x = n
        <5>1. n \in Item \ New(g, k)
          BY <1>1 DEF New
        <5> QED
          BY <1>1, <4>1, <5>1
      <4>2. CASE ~(last = NULL /\ x = n)
        BY <1>1, <1>2, <3>0, <4>2 DEF IsReference
      <4> QED
        BY <4>1, <4>2
    <3> QED
      BY <3>1, <3>2
  <2> QED
    BY <1>2, <1>7, <2>1, DeletedLeast
<1>9. New(g, k) \subseteq S
  BY <1>8 DEF CopyOf, HangBelow
<1>10. l.next[n] = NULL
  <2>1. n \in Item \ New(g, k) /\ g.next[n] = NULL /\ n # last
    BY <1>1 DEF New, CopyBegun, HangBelow
  <2> QED
    BY <1>1, <2>1
<1> QED
  BY <1>1, <1>6, <1>9, <1>10 DEF HangBelow, S, l

\* Linking a copy behind the last one, and letting the first one show it, is
\* what add_item_to_array does.
LEMMA LinkHangs ==
  ASSUME NEW h, Sound(h), NEW g, NEW n, NEW last, CopyBegun(h, g, n, last),
         NEW k, NEW c, CopyOf(g, k, c)
  PROVE  Hangs(h, CloseCopies(LinkCopy(k, n, last, c), n, c), n)
<1> USE NULLAssumption
<1> DEFINE l == LinkCopy(k, n, last, c)
           lc == CloseCopies(l, n, c)
           gc == CloseCopies(g, n, last)
           first == k.child[n]
<1>1. /\ g \in Heap /\ k \in Heap /\ l \in Heap
      /\ n \in New(h, g) /\ n \in Item /\ c \in New(g, k) /\ c \in Item /\ c # n
      /\ last \in Link
      /\ last # NULL => last \in New(h, g) /\ last # n
      /\ New(h, l) = New(h, g) \cup New(g, k)
      /\ New(h, g) \in SUBSET Item /\ New(g, k) \in SUBSET Item
      /\ l.live = k.live /\ h.live \subseteq g.live /\ g.live \subseteq k.live
      /\ \A x \in Item \ New(g, k) :
           /\ k.next[x] = g.next[x] /\ k.prev[x] = g.prev[x] /\ k.child[x] = g.child[x]
           /\ k.type[x] = g.type[x]
      /\ l.type = k.type /\ l.string = k.string /\ l.strings = k.strings
      /\ \A x \in Item :
           /\ l.next[x] = IF x = last THEN c ELSE k.next[x]
           /\ l.child[x] = IF last = NULL /\ x = n THEN c ELSE k.child[x]
           /\ l.prev[x] = IF last # NULL /\ x = c THEN last ELSE k.prev[x]
      /\ last = NULL => g.child[n] = NULL
      /\ last # NULL => g.child[n] \in New(h, g)
  BY LinkedFields
<1> HIDE DEF l
<1>2. /\ n \in Item \ New(g, k) /\ n \in g.live /\ n \in k.live /\ n \notin h.live
      /\ c \notin g.live /\ c \notin h.live /\ c \in k.live /\ c # NULL /\ n # NULL
  BY <1>1 DEF New
<1>3. /\ first = g.child[n]
      /\ last = NULL => first = NULL
      /\ last # NULL => /\ first \in New(h, g) /\ first \in Item /\ first # NULL
                        /\ first \in g.live /\ first \notin h.live /\ first # c
  BY <1>1, <1>2 DEF New
<1>4. /\ lc \in Heap /\ lc.live = l.live /\ lc.type = l.type
      /\ lc.string = l.string /\ lc.strings = l.strings
      /\ lc.child = l.child /\ lc.next = l.next
      /\ lc.prev = [l.prev EXCEPT ![l.child[n]] = c]
  BY <1>1, <1>2, CloseCopiesTyped DEF Link
<1>5. /\ gc \in Heap /\ gc.live = g.live /\ gc.type = g.type
      /\ gc.string = g.string /\ gc.strings = g.strings
      /\ gc.child = g.child /\ gc.next = g.next
      /\ gc.prev = IF last = NULL THEN g.prev ELSE [g.prev EXCEPT ![g.child[n]] = last]
  BY <1>1, CloseCopiesTyped
<1> HIDE DEF lc, gc, first
<1> SUFFICES ASSUME NEW p \in [Item -> Link], NEW H, WellLinked(WithPrev(h, p), H)
             PROVE  WellLinked(WithPrev(lc, Over(lc, h, p)), H \cup {n})
  BY DEF Hangs, lc, l
<1> DEFINE P == Over(gc, h, p)
           Q == Over(k, g, P)
           K == WithPrev(k, Q)
           R == Over(lc, h, p)
           L == WithPrev(lc, R)
           r == add_item_to_array(K, n, c)
<1>6. P \in [Item -> Link] /\ Q \in [Item -> Link] /\ R \in [Item -> Link]
  <2>1. P \in [Item -> Link]
    BY <1>5, OverTyped
  <2>2. R \in [Item -> Link]
    BY <1>4, OverTyped
  <2> HIDE DEF P
  <2>3. Q \in [Item -> Link]
    BY <1>1, <2>1, OverTyped
  <2> QED
    BY <2>1, <2>2, <2>3
<1>7. WellLinked(K, H \cup {n} \cup {c})
  <2>1. WellLinked(WithPrev(gc, P), H \cup {n})
    BY DEF CopyBegun, Hangs, gc
  <2>2. WithPrev(gc, P) = WithPrev(g, P)
    <3> DEFINE a == WithPrev(gc, P)
               b == WithPrev(g, P)
    <3>1. /\ a \in Heap /\ a.prev = P /\ a.next = gc.next /\ a.child = gc.child
          /\ a.type = gc.type /\ a.string = gc.string /\ a.live = gc.live
          /\ a.strings = gc.strings
      BY <1>5, <1>6, WithPrevFields
    <3>2. /\ b \in Heap /\ b.prev = P /\ b.next = g.next /\ b.child = g.child
          /\ b.type = g.type /\ b.string = g.string /\ b.live = g.live
          /\ b.strings = g.strings
      BY <1>1, <1>6, WithPrevFields
    <3> HIDE DEF a, b, P
    <3>3. a = b
      BY <1>5, <3>1, <3>2, SameFields
    <3> QED
      BY <3>3 DEF a, b
  <2>3. WellLinked(WithPrev(g, P), H \cup {n})
    BY <2>1, <2>2
  <2> HIDE DEF P
  <2> QED
    BY <1>6, <2>3 DEF CopyOf, Hangs
<1>8. /\ K \in Heap /\ K.prev = Q /\ K.next = k.next /\ K.child = k.child
      /\ K.type = k.type /\ K.string = k.string /\ K.live = k.live
      /\ K.strings = k.strings
  BY <1>1, <1>6, WithPrevFields
<1>9. \A x \in Item :
        K.prev[x] = IF x \in h.live THEN p[x]
                    ELSE IF last # NULL /\ x = first THEN last ELSE k.prev[x]
  <2> SUFFICES ASSUME NEW x \in Item
               PROVE  Q[x] = IF x \in h.live THEN p[x]
                             ELSE IF last # NULL /\ x = first THEN last ELSE k.prev[x]
    BY <1>8
  <2>1. CASE x \notin g.live
    <3>1. Q[x] = k.prev[x] /\ x \notin h.live /\ (last # NULL => x # first)
      BY <1>1, <1>3, <2>1 DEF Over
    <3> QED
      BY <3>1
  <2>2. CASE x \in g.live
    <3>1. Q[x] = P[x]
      BY <2>2 DEF Over
    <3>2. P[x] = IF x \in h.live THEN p[x] ELSE gc.prev[x]
      BY DEF Over
    <3>3. gc.prev[x] = IF last # NULL /\ x = first THEN last ELSE g.prev[x]
      BY <1>1, <1>3, <1>5 DEF Heap
    <3>4. g.prev[x] = k.prev[x]
      BY <1>1, <2>2 DEF New
    <3> HIDE DEF P, Q
    <3> QED
      BY <3>1, <3>2, <3>3, <3>4
  <2> QED
    BY <2>1, <2>2
<1>10. /\ L \in Heap /\ L.prev = R /\ L.next = l.next /\ L.child = l.child
       /\ L.type = l.type /\ L.string = l.string /\ L.live = l.live
       /\ L.strings = l.strings
  BY <1>4, <1>6, WithPrevFields
<1>11. \A x \in Item :
         L.prev[x] = IF x \in h.live THEN p[x]
                     ELSE IF last = NULL THEN IF x = c THEN c ELSE k.prev[x]
                     ELSE IF x = first THEN c
                     ELSE IF x = c THEN last ELSE k.prev[x]
  <2> SUFFICES ASSUME NEW x \in Item
               PROVE  R[x] = IF x \in h.live THEN p[x]
                             ELSE IF last = NULL THEN IF x = c THEN c ELSE k.prev[x]
                             ELSE IF x = first THEN c
                             ELSE IF x = c THEN last ELSE k.prev[x]
    BY <1>10
  <2>1. R[x] = IF x \in h.live THEN p[x] ELSE lc.prev[x]
    BY DEF Over
  <2>2. lc.prev[x] = IF x = l.child[n] THEN c ELSE l.prev[x]
    BY <1>1, <1>4 DEF Heap
  <2>3. l.child[n] = IF last = NULL THEN c ELSE first
    BY <1>1 DEF first
  <2> HIDE DEF R
  <2> QED
    BY <1>1, <2>1, <2>2, <2>3
<1> HIDE DEF K, L
<1>12. /\ r.ret /\ WellLinked(r.heap, (H \cup {n} \cup {c}) \ {c})
  <2>1. Deleted(k, c) \subseteq New(g, k)
    <3>1. \A x \in New(g, k) : /\ k.next[x] \in New(g, k) \cup {NULL}
                               /\ k.child[x] \in New(g, k) \cup {NULL}
      BY DEF CopyOf, Adds
    <3> QED
      BY <1>1, <3>1, DeletedLeast
  <2>2. Deleted(K, c) = Deleted(k, c)
    BY <1>8, SameDeleted DEF IsReference
  <2>3. n \notin Deleted(K, c)
    BY <1>2, <2>1, <2>2
  <2>4. IsOwner(K, n)
    <3>1. ~IsReference(g, n)
      BY <1>1 DEF CopyBegun, Adds
    <3> QED
      BY <1>1, <1>2, <1>8, <3>1 DEF IsOwner, IsReference
  <2> DEFINE G == H \cup {n} \cup {c}
  <2>5. c \in G \cup {NULL} /\ WellLinked(K, G)
    BY <1>7
  <2> HIDE DEF G
  <2>6. n \in Item /\ c # NULL /\ c # n
    BY <1>1, <1>2
  <2>7. /\ r.ret <=> c # NULL /\ c # n
        /\ r.ret => WellLinked(r.heap, G \ {c})
    BY <2>3, <2>4, <2>5, <2>6, AddLinks
  <2> QED
    BY <2>6, <2>7 DEF G
<1>13. (H \cup {n} \cup {c}) \ {c} = H \cup {n}
  <2>1. c \notin H
    <3>1. \A i \in H : i \in WithPrev(h, p).live
      BY DEF WellLinked, Links, IsRoot
    <3>2. WithPrev(h, p).live = h.live
      BY WithPrevFields DEF Sound
    <3> QED
      BY <1>2, <3>1, <3>2
  <2> QED
    BY <1>1, <2>1
<1>14. k.next[c] = NULL
  BY DEF CopyOf, HangBelow
<1>15. r.heap = L
  <2>1. CASE last = NULL
    <3>1. K.child[n] = NULL
      BY <1>3, <1>8, <2>1 DEF first
    <3> DEFINE a == [K EXCEPT !.child[n] = c, !.prev[c] = c, !.next[c] = NULL]
    <3>2. r.heap = a
      BY <1>1, <1>2, <3>1 DEF add_item_to_array, Returns
    <3>3. /\ a \in Heap /\ a.child = [K.child EXCEPT ![n] = c]
          /\ a.prev = [K.prev EXCEPT ![c] = c] /\ a.next = [K.next EXCEPT ![c] = NULL]
          /\ a.type = K.type /\ a.string = K.string /\ a.live = K.live
          /\ a.strings = K.strings
      BY <1>1, <1>8 DEF Heap, Link
    <3> HIDE DEF a
    <3>4. ASSUME NEW x \in Item
          PROVE  a.next[x] = L.next[x] /\ a.prev[x] = L.prev[x] /\ a.child[x] = L.child[x]
      <4>1. a.next[x] = L.next[x]
        BY <1>1, <1>8, <1>10, <1>14, <2>1, <3>3 DEF Heap
      <4>2. a.child[x] = L.child[x]
        BY <1>1, <1>8, <1>10, <2>1, <3>3 DEF Heap
      <4>3. a.prev[x] = L.prev[x]
        <5>1. a.prev[x] = IF x = c THEN c ELSE K.prev[x]
          BY <1>1, <1>8, <3>3 DEF Heap
        <5> QED
          BY <1>2, <1>9, <1>11, <2>1, <5>1
      <4> QED
        BY <4>1, <4>2, <4>3
    <3>5. /\ a.type = L.type /\ a.string = L.string /\ a.live = L.live
          /\ a.strings = L.strings /\ L \in Heap
      BY <1>1, <1>8, <1>10, <3>3
    <3>6. a = L
      BY <3>3, <3>4, <3>5, SameFields
    <3> QED
      BY <3>2, <3>6
  <2>2. CASE last # NULL
    <3>1. /\ K.child[n] = first /\ first # NULL /\ K.prev[first] = last /\ last \in Item
      BY <1>1, <1>3, <1>8, <1>9, <2>2 DEF first, Link
    <3> DEFINE b == suffix_object(K, last, c)
               a == [b EXCEPT !.prev[first] = c]
    <3>2. r.heap = a
      BY <1>1, <1>2, <2>2, <3>1 DEF add_item_to_array, Returns
    <3>3. /\ b \in Heap /\ b.next = [K.next EXCEPT ![last] = c]
          /\ b.prev = [K.prev EXCEPT ![c] = last] /\ b.child = K.child
          /\ b.type = K.type /\ b.string = K.string /\ b.live = K.live
          /\ b.strings = K.strings
      BY <1>1, <1>8, <3>1 DEF Heap, Link, suffix_object
    <3> HIDE DEF b
    <3>4. /\ a \in Heap /\ a.next = b.next /\ a.prev = [b.prev EXCEPT ![first] = c]
          /\ a.child = b.child
          /\ a.type = b.type /\ a.string = b.string /\ a.live = b.live
          /\ a.strings = b.strings
      BY <1>1, <1>3, <2>2, <3>3 DEF Heap, Link
    <3> HIDE DEF a
    <3>5. ASSUME NEW x \in Item
          PROVE  a.next[x] = L.next[x] /\ a.prev[x] = L.prev[x] /\ a.child[x] = L.child[x]
      <4>1. a.next[x] = L.next[x]
        BY <1>1, <1>8, <1>10, <2>2, <3>1, <3>3, <3>4 DEF Heap
      <4>2. a.child[x] = L.child[x]
        BY <1>1, <1>8, <1>10, <2>2, <3>3, <3>4 DEF Heap
      <4>3. a.prev[x] = L.prev[x]
        <5>1. b.prev[x] = IF x = c THEN last ELSE K.prev[x]
          BY <1>1, <1>8, <3>3 DEF Heap
        <5>2. a.prev[x] = IF x = first THEN c ELSE b.prev[x]
          BY <3>3, <3>4 DEF Heap
        <5> QED
          BY <1>2, <1>3, <1>9, <1>11, <2>2, <5>1, <5>2
      <4> QED
        BY <4>1, <4>2, <4>3
    <3>6. /\ a.type = L.type /\ a.string = L.string /\ a.live = L.live
          /\ a.strings = L.strings /\ L \in Heap
      BY <1>1, <1>8, <1>10, <3>3, <3>4
    <3>7. a = L
      BY <3>4, <3>5, <3>6, SameFields
    <3> QED
      BY <3>2, <3>7
  <2> QED
    BY <2>1, <2>2
<1> HIDE DEF r
<1>16. WellLinked(L, H \cup {n})
  BY <1>12, <1>13, <1>15
<1> QED
  BY <1>16 DEF L

\* So the copy of the parent has begun, with the copy of the child as the last.
LEMMA LinkBegun ==
  ASSUME NEW h, Sound(h), NEW g, NEW n, NEW last, CopyBegun(h, g, n, last),
         NEW k, NEW c, CopyOf(g, k, c)
  PROVE  CopyBegun(h, LinkCopy(k, n, last, c), n, c)
<1> USE NULLAssumption
<1> DEFINE l == LinkCopy(k, n, last, c)
<1>1. /\ n \in Item /\ c \in New(g, k) /\ c \in Item /\ c # n /\ n \in New(h, g)
      /\ last \in Link
      /\ last # NULL => last \in New(h, g)
      /\ New(h, l) = New(h, g) \cup New(g, k)
      /\ \A x \in Item \ New(g, k) : k.child[x] = g.child[x]
      /\ \A x \in Item :
           /\ l.next[x] = IF x = last THEN c ELSE k.next[x]
           /\ l.child[x] = IF last = NULL /\ x = n THEN c ELSE k.child[x]
      /\ last # NULL => g.child[n] \in New(h, g)
      /\ New(h, g) \in SUBSET Item
  BY LinkedFields
<1>2. Adds(h, l) /\ HangBelow(h, l, n)
  BY LinkAdds, LinkBelow
<1>3. Hangs(h, CloseCopies(l, n, c), n)
  BY LinkHangs
<1> HIDE DEF l
<1>4. c \in New(h, l) \ {n} /\ c # NULL
  BY <1>1
<1>5. l.next[c] = NULL
  <2>1. c # last /\ k.next[c] = NULL
    BY <1>1 DEF New, CopyOf, HangBelow
  <2> QED
    BY <1>1, <2>1
<1>6. l.child[n] # NULL
  <2>1. CASE last = NULL
    BY <1>1, <2>1
  <2>2. CASE last # NULL
    <3>1. n \in Item \ New(g, k)
      BY <1>1 DEF New
    <3>2. l.child[n] = g.child[n] /\ g.child[n] \in Item
      BY <1>1, <2>2, <3>1
    <3> QED
      BY <3>2
  <2> QED
    BY <2>1, <2>2
<1>7. CopyBegun(h, l, n, c)
  BY <1>2, <1>3, <1>4, <1>5, <1>6, Zenon DEF CopyBegun
<1> QED
  BY <1>7 DEF l

\* When no child is left, the first copy shows the last one, and the copy is
\* done.
LEMMA CopyDone ==
  ASSUME NEW h, Sound(h), NEW g, NEW n, NEW last, CopyBegun(h, g, n, last)
  PROVE  CopyOf(h, CloseCopies(g, n, last), n)
<1> USE NULLAssumption
<1> DEFINE c == CloseCopies(g, n, last)
<1>1. /\ g \in Heap /\ Zeroed(g) /\ h.live \subseteq g.live
      /\ n \in New(h, g) /\ last \in Link /\ g.live \in SUBSET Item
      /\ New(h, g) \subseteq Item /\ n \in Item
      /\ last # NULL => g.child[n] \in New(h, g)
  BY DEF CopyBegun, Adds, HangBelow, New, Heap, Link
<1>2. /\ c \in Heap /\ c.live = g.live /\ c.type = g.type
      /\ c.string = g.string /\ c.strings = g.strings
      /\ c.child = g.child /\ c.next = g.next
      /\ c.prev = IF last = NULL THEN g.prev ELSE [g.prev EXCEPT ![g.child[n]] = last]
  BY <1>1, CloseCopiesTyped
<1>3. Hangs(h, c, n)
  BY DEF CopyBegun
<1> HIDE DEF c
<1>4. New(h, c) = New(h, g)
  BY <1>2 DEF New
<1>5. \A x \in Item \ New(h, g) : c.prev[x] = g.prev[x]
  BY <1>1, <1>2 DEF Heap
<1>6. \A x \in Item : IsReference(c, x) <=> IsReference(g, x)
  BY <1>2 DEF IsReference
<1>7. Zeroed(c)
  <2>1. \A x \in Item \ c.live : x \in Item \ New(h, g) /\ x \in Item \ g.live
    BY <1>2 DEF New
  <2> QED
    BY <1>1, <1>2, <1>5, <2>1 DEF Zeroed
<1>8. Ledger(h) => Ledger(c)
  <2>1. Keyed(c) = Keyed(g) /\ Texted(c) = Texted(g)
    BY <1>2 DEF Keyed, Texted, OwnsKey, OwnsText
  <2> QED
    BY <1>2, <2>1 DEF Ledger, CopyBegun, Adds
<1>9. Adds(h, c)
  <2>1. /\ \A x \in Item \ New(h, g) :
             /\ g.next[x] = h.next[x] /\ g.prev[x] = h.prev[x]
             /\ g.child[x] = h.child[x]
             /\ g.type[x] = h.type[x] /\ g.string[x] = h.string[x]
        /\ \A x \in New(h, g) :
             /\ ~IsReference(g, x)
             /\ g.next[x] \in New(h, g) \cup {NULL}
             /\ g.child[x] \in New(h, g) \cup {NULL}
    BY DEF CopyBegun, Adds
  <2> QED
    BY <1>1, <1>2, <1>4, <1>5, <1>6, <1>7, <1>8, <2>1 DEF Adds
<1>10. HangBelow(h, c, n)
  <2>1. Deleted(c, n) = Deleted(g, n)
    BY <1>2, <1>6, SameDeleted
  <2> QED
    BY <1>2, <1>4, <2>1 DEF CopyBegun, HangBelow
<1>11. CopyOf(h, c, n)
  BY <1>3, <1>9, <1>10, Zenon DEF CopyOf
<1> QED
  BY <1>11 DEF c

\* What has been added to a sound heap is sound.
LEMMA AddedSound ==
  ASSUME NEW h, Sound(h), NEW g, Adds(h, g)
  PROVE  Sound(g)
BY DEF Sound, Adds

\* What the loop returns: a copy of the parent, or the heap as it was.
LEMMA CopyChildrenCopies ==
  \A loop \in Loops : \A h :
    /\ Sound(h) /\ CopyBegun(h, loop.copy.heap, loop.newitem, loop.next)
    /\ Spare(loop.copy.addresses, loop.copy.heap)
    => Copied(h, CopyChildren[loop])
<1> USE NULLAssumption
<1> DEFINE Begun(h, loop) ==
             /\ Sound(h) /\ CopyBegun(h, loop.copy.heap, loop.newitem, loop.next)
             /\ Spare(loop.copy.addresses, loop.copy.heap)
           Good(loop) == \A h : Begun(h, loop) => Copied(h, CopyChildren[loop])
           Bad == {m \in Nat : \E loop \in Loops : /\ Len(loop.copy.addresses) = m
                                                   /\ ~Good(loop)}
<1>1. ASSUME NEW loop \in Loops,
             \A y \in Loops :
               Len(y.copy.addresses) < Len(loop.copy.addresses) => Good(y)
      PROVE  Good(loop)
  <2> SUFFICES ASSUME NEW h, Begun(h, loop) PROVE Copied(h, CopyChildren[loop])
    BY DEF Good
  <2> DEFINE g == loop.copy.heap
             n == loop.newitem
             last == loop.next
             r == CopyChildren[loop]
             fields == ChildFields(loop)
             below == ChildCopied(loop, CopyChildren)
  <2>1. /\ loop.copy \in Calls /\ n \in Item /\ last \in Link /\ loop.child \in Link
        /\ g \in Heap
    BY LoopParts
  <2>2. /\ r = LoopStep(loop, CopyChildren) /\ r \in Calls
        /\ \A y \in Loops : CopyChildren[y] \in Returned(y)
    BY CopyChildrenSteps DEF Returned
  <2>3. /\ Sound(h) /\ CopyBegun(h, g, n, last) /\ Spare(loop.copy.addresses, g)
        /\ Adds(h, g) /\ HangBelow(h, g, n) /\ Sound(g)
    BY AddedSound DEF CopyBegun
  <2> HIDE DEF Good, Begun, r
  <2>4. CASE loop.child = NULL
    <3> DEFINE c == CloseCopies(g, n, last)
    <3>1. r = [loop.copy EXCEPT !.heap = c, !.ret = n]
      BY <2>2, <2>4 DEF LoopStep
    <3>2. CopyOf(h, c, n)
      BY <2>3, CopyDone
    <3>3. c.live = g.live
      BY <2>1, CloseCopiesTyped
    <3>4. r.heap = c /\ r.ret = n /\ r.addresses = loop.copy.addresses /\ n # NULL
      BY <2>1, <3>1 DEF Calls
    <3> HIDE DEF c
    <3>5. Spare(r.addresses, r.heap)
      BY <2>3, <3>3, <3>4 DEF Spare
    <3> QED
      BY <2>2, <3>2, <3>4, <3>5 DEF Copied, r
  <2>5. CASE loop.child # NULL /\ loop.depth >= CircularLimit
    <3>1. r = Gone(loop.copy, g, n)
      BY <2>2, <2>5 DEF LoopStep
    <3>2. r.ret = NULL /\ r.heap = cJSON_Delete(g, n)
      BY <2>1, <3>1, GoneFields
    <3>3. r.heap = h
      BY <2>3, <3>2, AddedRemoved
    <3> QED
      BY <2>2, <3>2, <3>3 DEF Copied, r
  <2>6. CASE loop.child # NULL /\ ~(loop.depth >= CircularLimit)
    <3>1. loop.child \in Item /\ NULL \in Link
      BY <2>1, <2>6 DEF Link
    <3>2. /\ Copied(g, fields)
          /\ fields.ret # NULL => CopyBegun(g, fields.heap, fields.ret, NULL)
      BY <2>1, <2>3, <3>1, NewCopyMade DEF ChildFields
    <3>3. Copied(g, below)
      <4>1. CASE fields.ret = NULL
        BY <3>2, <4>1 DEF ChildCopied
      <4>2. CASE fields.ret # NULL
        <5>1. /\ Inner(loop) \in Loops /\ Inner(loop).copy = fields
              /\ Len(Inner(loop).copy.addresses) < Len(loop.copy.addresses)
          BY <2>6, <4>2, InnerSmaller
        <5>2. Inner(loop).newitem = fields.ret /\ Inner(loop).next = NULL
          BY DEF Inner, LoopAt
        <5>3. Spare(fields.addresses, fields.heap)
          BY <3>2, <4>2 DEF Copied
        <5>4. Begun(g, Inner(loop))
          BY <2>3, <3>2, <4>2, <5>1, <5>2, <5>3 DEF Begun
        <5>5. Good(Inner(loop))
          BY <1>1, <5>1
        <5>6. Copied(g, CopyChildren[Inner(loop)])
          BY <5>4, <5>5 DEF Good
        <5> QED
          BY <4>2, <5>6 DEF ChildCopied
      <4> QED
        BY <4>1, <4>2
    <3>4. CASE below.ret = NULL
      <4>1. r = Gone(below, below.heap, n)
        BY <2>2, <2>6, <3>4 DEF LoopStep
      <4>2. below.heap = g /\ below \in Calls
        BY <3>3, <3>4 DEF Copied
      <4> HIDE DEF below
      <4>3. r.ret = NULL /\ r.heap = cJSON_Delete(g, n)
        BY <2>1, <4>1, <4>2, GoneFields
      <4>4. r.heap = h
        BY <2>3, <4>3, AddedRemoved
      <4> QED
        BY <2>2, <4>3, <4>4 DEF Copied, r
    <3>5. CASE below.ret # NULL
      <4>1. r = CopyChildren[Outer(loop, below)]
        BY <2>2, <2>6, <3>5 DEF LoopStep
      <4>2. /\ Outer(loop, below) \in Loops
            /\ Outer(loop, below).copy = ChildLinked(loop, below)
            /\ Len(Outer(loop, below).copy.addresses) < Len(loop.copy.addresses)
        BY <2>2, <2>6, <3>5, ChildCopiedTyped
      <4>3. Outer(loop, below).newitem = n /\ Outer(loop, below).next = below.ret
        BY DEF Outer, LoopAt
      <4>4. /\ below \in Calls /\ CopyOf(g, below.heap, below.ret)
            /\ Spare(below.addresses, below.heap)
        BY <3>3, <3>5 DEF Copied
      <4> DEFINE l == LinkCopy(below.heap, n, last, below.ret)
      <4>5. CopyBegun(h, l, n, below.ret)
        BY <2>3, <4>4, LinkBegun
      <4>6. ChildLinked(loop, below) = [below EXCEPT !.heap = l]
        BY DEF ChildLinked
      <4> HIDE DEF below
      <4>7. l.live = below.heap.live
        <5>1. below.heap \in Heap /\ below.ret \in Item
          BY <3>5, <4>4 DEF Calls, Link
        <5>2. loop.newitem \in Item /\ loop.next \in Link
          BY <2>1
        <5>3. LinkCopy(below.heap, n, last, below.ret).live = below.heap.live
          <6> HIDE DEF n, last
          <6> QED
            BY <5>1 DEF LinkCopy, suffix_object, Heap
        <5> QED
          BY <5>3
      <4> HIDE DEF l
      <4>8. /\ ChildLinked(loop, below).heap = l
            /\ ChildLinked(loop, below).addresses = below.addresses
        BY <4>4, <4>6 DEF Calls
      <4>9. Spare(below.addresses, l)
        BY <4>4, <4>7 DEF Spare
      <4>10. Begun(h, Outer(loop, below))
        BY <2>3, <4>2, <4>3, <4>5, <4>8, <4>9 DEF Begun
      <4>11. Good(Outer(loop, below))
        BY <1>1, <4>2
      <4> QED
        BY <4>1, <4>10, <4>11 DEF Good, r
    <3> QED
      BY <3>4, <3>5
  <2> QED
    BY <2>4, <2>5, <2>6
<1> HIDE DEF Good
<1>2. Bad = {}
  <2> SUFFICES ASSUME Bad # {} PROVE FALSE
    OBVIOUS
  <2>1. PICK m \in Bad : \A i \in Bad : m <= i
    <3>1. Bad \in SUBSET Nat
      OBVIOUS
    <3> HIDE DEF Bad
    <3> QED
      BY <3>1, LeastNat
  <2>2. PICK loop \in Loops : Len(loop.copy.addresses) = m /\ ~Good(loop)
    BY <2>1
  <2>3. ASSUME NEW y \in Loops, Len(y.copy.addresses) < m PROVE Good(y)
    <3>1. Len(y.copy.addresses) \in Nat /\ m \in Nat
      BY LoopParts, <2>1
    <3>2. Len(y.copy.addresses) \notin Bad
      <4> HIDE DEF Bad
      <4> QED
        BY <2>1, <2>3, <3>1
    <3> QED
      BY <3>1, <3>2
  <2> QED
    BY <1>1, <2>2, <2>3
<1>3. \A loop \in Loops : Good(loop)
  BY <1>2, LoopParts
<1> QED
  BY <1>3 DEF Good

\* cJSON_Duplicate makes a copy, or leaves the heap as it was.
LEMMA DuplicateCopies ==
  ASSUME NEW h, Sound(h), NEW addresses, Spare(addresses, h), NEW blocks \in Nat,
         NEW item \in Item, NEW recurse \in BOOLEAN
  PROVE  Copied(h, cJSON_Duplicate(Granted(h, addresses, blocks), item, recurse))
<1> USE NULLAssumption
<1> DEFINE copy == Granted(h, addresses, blocks)
           fields == NewCopy(copy, item)
           r == cJSON_Duplicate(copy, item, recurse)
           loop == LoopAt(fields, fields.ret, NULL, fields.heap.child[item], 0)
<1>1. copy \in Calls /\ copy.heap = h /\ copy.addresses = addresses
  BY DEF Granted, Calls, Sound, Spare, Link
<1> HIDE DEF copy
<1>2. Copied(h, fields) /\ (fields.ret # NULL => CopyBegun(h, fields.heap, fields.ret, NULL))
  BY <1>1, NewCopyMade
<1>3. r = IF fields.ret = NULL \/ ~recurse THEN fields ELSE CopyChildren[loop]
  BY DEF cJSON_Duplicate
<1> HIDE DEF fields, r
<1>4. CASE fields.ret # NULL
  <2>1. fields \in Calls /\ Spare(fields.addresses, fields.heap)
    BY <1>2, <1>4 DEF Copied
  <2>2. /\ fields.ret \in Item /\ NULL \in Link
        /\ fields.heap.child[item] \in Link
    BY <1>4, <2>1 DEF Calls, Heap, Link
  <2>3. /\ loop \in Loops /\ loop.copy = fields /\ loop.newitem = fields.ret
        /\ loop.next = NULL
    BY <2>1, <2>2, LoopTyped
  <2> HIDE DEF loop
  <2>4. Copied(h, CopyChildren[loop])
    BY <1>2, <1>4, <2>1, <2>3, CopyChildrenCopies
  <2> QED
    BY <1>2, <1>3, <2>4 DEF r, copy
<1>5. CASE fields.ret = NULL
  BY <1>2, <1>3, <1>5 DEF r, copy
<1> QED
  BY <1>4, <1>5

\* A call of cJSON_Duplicate: the client gets one more root, or nothing.
LEMMA DuplicateCall ==
  ASSUME IInv, Duplicate
  PROVE  \E call : Give(call) /\ Sound(heap) /\ Copied(heap, call)
<1>1. PICK roots : WellLinked(heap, roots)
  BY DEF IInv, Linked
<1>2. Sound(heap)
  BY <1>1 DEF WellLinked, Links, Sound, IInv, Accounts
<1>3. PICK item \in heap.live, recurse \in BOOLEAN :
        \E blocks \in 0 .. 2 * Cardinality(heap.live), granted \in 0 .. Cardinality(Item) :
          \E addresses \in [1 .. granted -> Item \ heap.live] :
            /\ \A m, n \in 1 .. granted : addresses[m] = addresses[n] => m = n
            /\ Give(cJSON_Duplicate(Granted(heap, addresses, blocks), item, recurse))
  BY DEF Duplicate
<1>4. PICK blocks \in 0 .. 2 * Cardinality(heap.live), granted \in 0 .. Cardinality(Item) :
        \E addresses \in [1 .. granted -> Item \ heap.live] :
          /\ \A m, n \in 1 .. granted : addresses[m] = addresses[n] => m = n
          /\ Give(cJSON_Duplicate(Granted(heap, addresses, blocks), item, recurse))
  BY <1>3
<1>5. PICK addresses \in [1 .. granted -> Item \ heap.live] :
        /\ \A m, n \in 1 .. granted : addresses[m] = addresses[n] => m = n
        /\ Give(cJSON_Duplicate(Granted(heap, addresses, blocks), item, recurse))
  BY <1>4
<1>6. Cardinality(heap.live) \in Nat /\ Cardinality(Item) \in Nat /\ item \in Item
  <2>1. heap.live \in SUBSET Item
    BY <1>2 DEF Sound, Heap
  <2>2. IsFiniteSet(heap.live)
    BY <2>1, ItemAssumption, FS_Subset
  <2> QED
    BY <2>1, <2>2, ItemAssumption, FS_CardinalityType
<1>7. blocks \in Nat /\ granted \in Nat
  <2> HIDE DEF Granted
  <2> QED
    BY <1>6
<1>8. Spare(addresses, heap)
  <2>1. addresses \in Seq(Item) /\ Len(addresses) = granted
    BY <1>7
  <2>2. \A n \in 1 .. granted : addresses[n] \notin heap.live
    OBVIOUS
  <2> QED
    BY <1>5, <2>1, <2>2 DEF Spare
<1>9. Copied(heap, cJSON_Duplicate(Granted(heap, addresses, blocks), item, recurse))
  BY <1>2, <1>6, <1>7, <1>8, DuplicateCopies
<1> QED
  BY <1>2, <1>5, <1>9

\* A copy of some heap keeps its references, and its strings accounted for.
LEMMA CopyKeeps ==
  ASSUME NEW h \in Heap, NEW g, Adds(h, g)
  PROVE  Keeps(h, g) /\ h.live \subseteq g.live
<1>1. ASSUME NEW r \in g.live, IsReference(g, r)
      PROVE  r \in h.live /\ IsReference(h, r) /\ g.child[r] = h.child[r]
  <2>1. r \in Item /\ r \notin New(h, g)
    BY <1>1 DEF Adds, Heap
  <2> QED
    BY <1>1, <2>1 DEF Adds, New, IsReference
<1> QED
  BY <1>1 DEF Keeps, KeepsReferences, Adds

\* A copy of a well linked heap is well linked, and the copy is a root.
LEMMA CopyLinks ==
  ASSUME NEW h, NEW g, NEW n, CopyOf(h, g, n), NEW H, WellLinked(h, H)
  PROVE  WellLinked(g, H \cup {n})
<1>1. h \in Heap /\ g \in Heap /\ h.prev \in [Item -> Link]
  BY DEF WellLinked, Links, CopyOf, Adds, Heap
<1>2. WithPrev(h, h.prev) = h
  BY <1>1 DEF WithPrev, Heap
<1>3. Over(g, h, h.prev) = g.prev
  <2>1. \A x \in h.live : x \in Item /\ g.prev[x] = h.prev[x]
    BY <1>1 DEF CopyOf, Adds, New, Heap
  <2>2. g.prev = [x \in Item |-> g.prev[x]]
    BY <1>1 DEF Heap
  <2> QED
    BY <2>1, <2>2 DEF Over
<1>4. WithPrev(g, g.prev) = g
  BY <1>1 DEF WithPrev, Heap
<1> QED
  BY <1>1, <1>2, <1>3, <1>4 DEF CopyOf, Hangs

\* cJSON_Duplicate keeps the invariant.
LEMMA DuplicateIInv == IInv /\ Duplicate => IInv'
<1> SUFFICES ASSUME IInv, Duplicate PROVE IInv'
  OBVIOUS
<1>1. PICK call : Give(call) /\ Sound(heap) /\ Copied(heap, call)
  BY DuplicateCall
<1>2. PICK roots : Claims(roots) /\ WellLinked(heap, roots)
  BY DEF IInv, Linked
<1>3. heap' = call.heap /\ Accounts
  BY <1>1 DEF Give, IInv
<1>4. CASE call.ret = NULL
  <2>1. call.heap = heap /\ roots \cup ({call.ret} \ {NULL}) = roots
    BY <1>1, <1>4 DEF Copied
  <2>2. Linked'
    BY <1>1, <1>2, <2>1, GiveLinked
  <2>3. Accounts'
    BY <1>3, <2>1 DEF Accounts
  <2> QED
    BY <2>2, <2>3 DEF IInv
<1>5. CASE call.ret # NULL
  <2>1. CopyOf(heap, call.heap, call.ret) /\ heap \in Heap
    BY <1>1, <1>5 DEF Copied, Sound
  <2>2. WellLinked(call.heap, roots \cup {call.ret})
    BY <1>2, <2>1, CopyLinks
  <2>3. roots \cup ({call.ret} \ {NULL}) = roots \cup {call.ret}
    BY <1>5
  <2>4. Linked'
    BY <1>1, <1>2, <2>2, <2>3, GiveLinked
  <2>5. Keeps(heap, call.heap) /\ heap.live \subseteq call.heap.live
    BY <2>1, CopyKeeps DEF CopyOf
  <2>6. Accounts'
    BY <1>3, <2>5, GrowAccounts
  <2> QED
    BY <2>4, <2>6 DEF IInv
<1> QED
  BY <1>4, <1>5

-----------------------------------------------------------------------------
(* Every reachable state.                                                  *)

\* A client that copies nothing is a client.
LEMMA SpecCopies == Spec => CopySpec
<1>1. [Next]_vars => [Next \/ Duplicate]_vars
  OBVIOUS
<1> QED
  BY <1>1, PTL DEF Spec, CopySpec

\* The invariant holds in every reachable state, for a client that makes copies
\* as well.
LEMMA Invariance == CopySpec => []IInv
<1>1. IInv /\ [Next \/ Duplicate]_vars => IInv'
  BY NextIInv, DuplicateIInv
<1> QED
  BY <1>1, InitIInv, PTL DEF CopySpec

-----------------------------------------------------------------------------
(* What the invariant says in the words of ItemTree.                       *)

\* Every reachable heap is typed, and memory that is free has no fields.
THEOREM Typing == CopySpec => []TypeOK
<1>1. IInv => TypeOK
  BY DEF IInv, Linked, Claims, WellLinked, Links, IsRoot, Zeroed, TypeOK
<1> QED
  BY <1>1, Invariance, PTL

\* No item is met twice on the way along a list.
LEMMA WalkInjective ==
  ASSUME NEW h, NEW owner, NEW H, Links(h, owner, H),
         NEW c \in Item, IsOwner(h, c)
  PROVE  \A m, n \in Nat :
           m < n /\ get_array_item(h, c, m) # NULL
             => get_array_item(h, c, m) # get_array_item(h, c, n)
<1> USE NULLAssumption
<1> DEFINE g(n) == get_array_item(h, c, n)
           Bad == {m \in Nat : \E n \in Nat : m < n /\ g(m) # NULL /\ g(m) = g(n)}
<1> SUFFICES ASSUME Bad # {} PROVE FALSE
  OBVIOUS
<1>1. PICK m \in Bad : \A k \in Bad : m <= k
  <2> HIDE DEF Bad
  <2>1. Bad \in SUBSET Nat
    BY DEF Bad
  <2> QED
    BY <2>1, LeastNat
<1>2. PICK n \in Nat : m < n /\ g(m) # NULL /\ g(m) = g(n)
  BY <1>1
<1>3. h \in Heap
  BY DEF Links
<1>4. n - 1 \in Nat /\ (n - 1) + 1 = n /\ m \in Nat
  BY <1>1, <1>2
<1>5. g(n - 1) \in Link /\ g(n) = After(h, g(n - 1))
  BY <1>3, <1>4, GetArrayItemNext
<1>6. /\ g(n - 1) \in Item /\ g(n) = h.next[g(n - 1)] /\ g(n) # NULL
      /\ owner[g(n - 1)] = c
  <2>1. g(n - 1) # NULL /\ g(n) = h.next[g(n - 1)] /\ g(n) # NULL
    BY <1>2, <1>5 DEF After
  <2>2. g(n - 1) \in Item /\ owner[g(n - 1)] = c
    BY <1>4, <2>1, GetArrayItemOwned
  <2> QED
    BY <2>1, <2>2
<1>7. h.prev[g(n)] = g(n - 1) /\ h.child[c] # g(n)
  BY <1>6 DEF Links, Forwards
<1>8. CASE m = 0
  BY <1>2, <1>3, <1>7, <1>8, GetArrayItemFirst
<1>9. CASE m # 0
  <2>1. m - 1 \in Nat /\ (m - 1) + 1 = m /\ m - 1 < n - 1
    BY <1>2, <1>4, <1>9
  <2>2. g(m - 1) \in Link /\ g(m) = After(h, g(m - 1))
    BY <1>3, <2>1, GetArrayItemNext
  <2>3. g(m - 1) # NULL /\ g(m) = h.next[g(m - 1)] /\ g(m - 1) \in Item
    BY <1>2, <2>2 DEF After, Link
  <2>4. h.prev[g(m)] = g(m - 1)
    BY <1>2, <2>3 DEF Links, Forwards
  <2>5. m - 1 \in Bad
    BY <1>2, <1>4, <1>7, <2>1, <2>3, <2>4
  <2> QED
    BY <1>1, <1>4, <2>1, <2>5
<1> QED
  BY <1>8, <1>9

\* The positions of a list are those below its length, which is at most the
\* number of items.
LEMMA WalkEnds ==
  ASSUME NEW h, NEW owner, NEW H, Links(h, owner, H),
         NEW c \in Item, IsOwner(h, c)
  PROVE  \E len \in 0 .. Cardinality(Item) :
           \A n \in Nat : get_array_item(h, c, n) # NULL <=> n < len
<1> USE NULLAssumption
<1> DEFINE g(n) == get_array_item(h, c, n)
           N == Cardinality(Item)
           Past == {n \in 0 .. N : g(n) = NULL}
<1>1. N \in Nat
  BY ItemAssumption, FS_CardinalityType
<1>2. h \in Heap
  BY DEF Links
<1>3. Past # {}
  <2> SUFFICES ASSUME \A n \in 0 .. N : g(n) # NULL PROVE FALSE
    OBVIOUS
  <2> DEFINE f == [n \in 0 .. N |-> g(n)]
  <2>1. \A n \in 0 .. N : n \in Nat
    BY <1>1
  <2>2. \A n \in 0 .. N : g(n) \in Item
    BY <2>1, GetArrayItemOwned
  <2>3. f \in [0 .. N -> Item]
    BY <2>2
  <2>4. IsFiniteSet(0 .. N) /\ Cardinality(0 .. N) = N + 1
    BY <1>1, FS_Interval
  <2>5. \E m, n \in 0 .. N : m # n /\ f[m] = f[n]
    <3> HIDE DEF f, N
    <3>1. N < N + 1
      BY <1>1
    <3> QED
      BY <2>3, <2>4, <3>1, ItemAssumption, FS_PigeonHole DEF N
  <2>6. PICK m \in 0 .. N, n \in 0 .. N : m # n /\ g(m) = g(n)
    BY <2>5
  <2>7. m \in Nat /\ n \in Nat /\ (m < n \/ n < m)
    BY <1>1, <2>6
  <2> QED
    BY <2>6, <2>7, WalkInjective
<1>4. PICK len \in Past : \A k \in Past : len <= k
  <2>1. Past \in SUBSET Nat
    BY <1>1
  <2> HIDE DEF Past
  <2> QED
    BY <1>3, <2>1, LeastNat
<1>5. len \in Nat /\ len \in 0 .. N /\ g(len) = NULL
  BY <1>1, <1>4
<1>6. ASSUME NEW n \in Nat, n < len PROVE g(n) # NULL
  <2>1. n \in 0 .. N /\ ~(len <= n)
    BY <1>1, <1>5, <1>6
  <2> QED
    BY <1>4, <2>1
<1>7. ASSUME NEW n \in Nat, ~(n < len) PROVE g(n) = NULL
  <2> DEFINE Bad == {k \in Nat : len <= k /\ g(k) # NULL}
  <2> SUFFICES ASSUME Bad # {} PROVE FALSE
    BY <1>5, <1>7
  <2>1. PICK k \in Bad : \A j \in Bad : k <= j
    <3> HIDE DEF Bad
    <3>1. Bad \in SUBSET Nat
      BY DEF Bad
    <3> QED
      BY <3>1, LeastNat
  <2>2. k \in Nat /\ k # len /\ len <= k
    BY <1>5, <2>1
  <2>3. k - 1 \in Nat /\ len <= k - 1 /\ (k - 1) + 1 = k
    BY <1>5, <2>2
  <2>4. g(k - 1) = NULL
    BY <2>1, <2>2, <2>3
  <2>5. g(k) = After(h, g(k - 1))
    BY <1>2, <2>3, GetArrayItemNext
  <2> QED
    BY <2>1, <2>4, <2>5 DEF After
<1> QED
  BY <1>5, <1>6, <1>7

\* Children reads the walk up to its end.
LEMMA ChildrenWalk ==
  ASSUME NEW h, NEW owner, NEW H, Links(h, owner, H),
         NEW c \in Item, IsOwner(h, c)
  PROVE  \E len \in Nat :
           /\ Children(h, c) = [n \in 1 .. len |-> get_array_item(h, c, n - 1)]
           /\ \A n \in Nat : get_array_item(h, c, n) # NULL <=> n < len
<1>1. PICK len \in 0 .. Cardinality(Item) :
        \A n \in Nat : get_array_item(h, c, n) # NULL <=> n < len
  BY WalkEnds
<1>2. Cardinality(Item) \in Nat
  BY ItemAssumption, FS_CardinalityType
<1> DEFINE there == {n \in 0 .. Cardinality(Item) : get_array_item(h, c, n) # NULL}
<1>3. len \in Nat
  BY <1>1, <1>2
<1>4. there = 0 .. len - 1
  <2>1. \A n \in 0 .. Cardinality(Item) : n \in Nat
    BY <1>2
  <2>2. \A n \in 0 .. Cardinality(Item) :
          get_array_item(h, c, n) # NULL <=> n < len
    BY <1>1, <2>1
  <2>3. there = {n \in 0 .. Cardinality(Item) : n < len}
    BY <2>2
  <2> QED
    BY <1>1, <1>2, <2>3
<1>5. Cardinality(there) = len
  <2>1. Cardinality(0 .. len - 1) = IF 0 > len - 1 THEN 0 ELSE (len - 1) - 0 + 1
    BY <1>3, FS_Interval
  <2>2. (IF 0 > len - 1 THEN 0 ELSE (len - 1) - 0 + 1) = len
    BY <1>3
  <2> HIDE DEF there
  <2> QED
    BY <1>4, <2>1, <2>2
<1>6. Owner(h, c)
  BY DEF Owner, IsOwner
<1>7. Children(h, c) = [n \in 1 .. len |-> get_array_item(h, c, n - 1)]
  BY <1>5, <1>6 DEF Children
<1> QED
  BY <1>1, <1>3, <1>7

\* s is what following next from the first child of c meets.
IsList(h, c, s) ==
  /\ s \in Seq(Item)
  /\ h.child[c] = IF Len(s) = 0 THEN NULL ELSE s[1]
  /\ \A n \in 1 .. Len(s) :
       h.next[s[n]] = IF n < Len(s) THEN s[n + 1] ELSE NULL

\* Children reads the list.
LEMMA ChildrenList ==
  ASSUME NEW h, NEW owner, NEW H, Links(h, owner, H),
         NEW c \in Item, IsOwner(h, c)
  PROVE  LET s == Children(h, c)
         IN  /\ IsList(h, c, s)
             /\ \A m, n \in 1 .. Len(s) : s[m] = s[n] => m = n
             /\ \A n \in 1 .. Len(s) : /\ s[n] = get_array_item(h, c, n - 1)
                                       /\ owner[s[n]] = c
             /\ Len(s) > 0 => h.prev[s[1]] = s[Len(s)]
             /\ \A n \in 2 .. Len(s) : h.prev[s[n]] = s[n - 1]
<1> USE NULLAssumption
<1> DEFINE g(n) == get_array_item(h, c, n)
           s == Children(h, c)
<1>1. PICK last \in Nat :
         /\ s = [n \in 1 .. last |-> g(n - 1)]
         /\ \A n \in Nat : g(n) # NULL <=> n < last
  BY ChildrenWalk
<1>2. Len(s) = last
  BY <1>1
<1>3. h \in Heap
  BY DEF Links
<1> HIDE DEF s
\* A position of the list and the item there.
<1>4. \A n \in 1 .. last : /\ n - 1 \in Nat /\ s[n] = g(n - 1)
                           /\ s[n] \in Item /\ owner[s[n]] = c
  <2> SUFFICES ASSUME NEW n \in 1 .. last
               PROVE  /\ n - 1 \in Nat /\ s[n] = g(n - 1)
                      /\ s[n] \in Item /\ owner[s[n]] = c
    OBVIOUS
  <2>1. n - 1 \in Nat /\ n - 1 < last /\ s[n] = g(n - 1)
    BY <1>1
  <2>2. g(n - 1) # NULL
    BY <1>1, <2>1
  <2> QED
    BY <2>1, <2>2, GetArrayItemOwned
<1>5. s \in Seq(Item)
  BY <1>1, <1>4
<1>6. h.child[c] = IF last = 0 THEN NULL ELSE s[1]
  <2>1. g(0) = h.child[c]
    BY <1>3, GetArrayItemFirst
  <2>2. last > 0 => s[1] = g(0)
    BY <1>1
  <2>3. last = 0 => g(0) = NULL
    BY <1>1
  <2> QED
    BY <2>1, <2>2, <2>3
<1>7. ASSUME NEW n \in 1 .. last
      PROVE  h.next[s[n]] = IF n < last THEN s[n + 1] ELSE NULL
  <2>1. s[n] = g(n - 1) /\ n - 1 \in Nat /\ (n - 1) + 1 = n /\ s[n] # NULL
    BY <1>4
  <2>2. g(n) = h.next[s[n]]
    BY <1>3, <2>1, GetArrayItemNext DEF After
  <2>3. CASE n < last
    <3>1. n + 1 \in 1 .. last /\ (n + 1) - 1 = n
      BY <2>3
    <3> QED
      BY <1>4, <2>2, <2>3, <3>1
  <2>4. CASE ~(n < last)
    BY <1>1, <2>2, <2>4
  <2> QED
    BY <2>3, <2>4
<1>8. IsList(h, c, s)
  BY <1>2, <1>5, <1>6, <1>7 DEF IsList
<1>9. ASSUME NEW m \in 1 .. last, NEW n \in 1 .. last, s[m] = s[n]
      PROVE  m = n
  <2>1. /\ m - 1 \in Nat /\ n - 1 \in Nat
        /\ g(m - 1) = g(n - 1) /\ g(m - 1) # NULL
    BY <1>4, <1>9
  <2>2. ~(m - 1 < n - 1) /\ ~(n - 1 < m - 1)
    BY <2>1, WalkInjective
  <2> QED
    BY <2>1, <2>2
<1>10. ASSUME last > 0 PROVE h.prev[s[1]] = s[last]
  <2>1. 1 \in 1 .. last /\ last \in 1 .. last
    BY <1>10
  <2>2. s[1] = h.child[c]
    BY <1>6, <1>10
  <2>3. h.next[s[last]] = NULL
    BY <1>7, <2>1
  <2>4. s[last] = h.prev[h.child[c]]
    BY <1>4, <2>1, <2>3 DEF Links, Backwards
  <2> QED
    BY <2>2, <2>4
<1>11. ASSUME NEW n \in 2 .. last PROVE h.prev[s[n]] = s[n - 1]
  <2>1. n \in 1 .. last /\ n - 1 \in 1 .. last /\ n - 1 < last /\ (n - 1) + 1 = n
    OBVIOUS
  <2>2. s[n] = h.next[s[n - 1]]
    BY <1>7, <2>1
  <2>3. s[n] \in Item /\ s[n - 1] \in Item
    BY <1>4, <2>1
  <2> QED
    BY <2>2, <2>3 DEF Links, Forwards
<1> QED
  BY <1>2, <1>4, <1>8, <1>9, <1>10, <1>11 DEF s

\* README.md, cJSON_Array: every list is linked forwards and backwards, closed
\* by the prev of its first item, and meets no item twice, after any calls.
THEOREM Lists == CopySpec => []ListShape
<1>1. ASSUME IInv PROVE ListShape
  <2>1. PICK roots, owner : Links(heap, owner, roots)
    BY <1>1 DEF IInv, Linked, WellLinked
  <2> SUFFICES ASSUME NEW c \in heap.live
               PROVE  LET list == Children(heap, c)
                          last == Len(list)
                      IN  /\ \A m, n \in 1 .. last : list[m] = list[n] => m = n
                          /\ last > 0 => /\ heap.prev[list[1]] = list[last]
                                         /\ heap.next[list[last]] = NULL
                          /\ \A n \in 2 .. last : heap.prev[list[n]] = list[n - 1]
    BY DEF ListShape
  <2>2. c \in Item
    BY <2>1 DEF Links, Heap
  <2> DEFINE list == Children(heap, c)
             last == Len(list)
  <2>3. CASE ~IsOwner(heap, c)
    <3>1. list = << >>
      BY <2>3 DEF Children, Owner, IsOwner
    <3>2. last = 0
      BY <3>1
    <3> HIDE DEF list
    <3> QED
      BY <3>2 DEF list
  <2>4. CASE IsOwner(heap, c)
    <3>1. /\ IsList(heap, c, list)
          /\ \A m, n \in 1 .. last : list[m] = list[n] => m = n
          /\ last > 0 => heap.prev[list[1]] = list[last]
          /\ \A n \in 2 .. last : heap.prev[list[n]] = list[n - 1]
      BY <2>1, <2>2, <2>4, ChildrenList
    <3> HIDE DEF list
    <3>2. last > 0 => heap.next[list[last]] = NULL
      <4>1. last \in Nat /\ (last > 0 => last \in 1 .. last)
        BY <3>1 DEF IsList
      <4> QED
        BY <3>1, <4>1 DEF IsList
    <3> QED
      BY <3>1, <3>2 DEF list
  <2> QED
    BY <2>3, <2>4
<1> QED
  BY <1>1, Invariance, PTL

\* After any calls no item points to memory that was freed, and no reference
\* shows an item that is gone.
THEOREM NoDanglingPointers == CopySpec => []NoDangling
<1>1. ASSUME IInv PROVE NoDangling
  <2>1. PICK roots, owner : Links(heap, owner, roots)
    BY <1>1 DEF IInv, Linked, WellLinked
  <2>2. Referents(heap)
    BY <1>1 DEF IInv, Accounts
  <2>3. \A i \in heap.live :
          /\ heap.next[i] \in heap.live \cup {NULL}
          /\ heap.prev[i] \in heap.live \cup {NULL}
          /\ heap.child[i] \in heap.live \cup {NULL}
    BY <2>1, <2>2, PointsToLive
  <2> QED
    BY <2>3 DEF NoDangling
<1> QED
  BY <1>1, Invariance, PTL

-----------------------------------------------------------------------------
(* Owners.                                                                 *)

\* The list of an item holds exactly the items whose owner it is.
LEMMA ChildOwned ==
  ASSUME NEW h, NEW owner, NEW H, Links(h, owner, H),
         NEW c \in h.live, NEW i \in h.live
  PROVE  (\E n \in DOMAIN Children(h, c) : Children(h, c)[n] = i) <=> owner[i] = c
<1> USE NULLAssumption
<1> DEFINE g(n) == get_array_item(h, c, n)
<1>1. h \in Heap /\ c \in Item /\ i \in Item
  BY DEF Links, Heap
<1>2. CASE ~IsOwner(h, c)
  <2>1. Children(h, c) = << >>
    BY <1>2 DEF Children, Owner, IsOwner
  <2>2. DOMAIN Children(h, c) = {}
    BY <2>1
  <2>3. owner[i] # c
    BY <1>1, <1>2 DEF Links, Backwards
  <2> QED
    BY <2>2, <2>3
<1>3. CASE IsOwner(h, c)
  <2>1. PICK len \in Nat :
           /\ Children(h, c) = [n \in 1 .. len |-> g(n - 1)]
           /\ \A n \in Nat : g(n) # NULL <=> n < len
    BY <1>1, <1>3, ChildrenWalk
  <2> DEFINE S == {g(n) : n \in {m \in Nat : m < len}}
  <2>2. (\E n \in DOMAIN Children(h, c) : Children(h, c)[n] = i) <=> i \in S
    <3>1. \A n \in 1 .. len : n - 1 \in Nat /\ n - 1 < len
      OBVIOUS
    <3>2. \A n \in Nat : n < len => n + 1 \in 1 .. len /\ (n + 1) - 1 = n
      OBVIOUS
    <3> HIDE DEF g
    <3>3. \A n \in 1 .. len : g(n - 1) \in S
      BY <3>1
    <3>4. \A n \in Nat : n < len => \E m \in 1 .. len : g(m - 1) = g(n)
      BY <3>2
    <3>5. \A x \in S : \E m \in 1 .. len : g(m - 1) = x
      BY <3>4
    <3> HIDE DEF S
    <3> QED
      BY <2>1, <3>3, <3>5
  <2>3. ASSUME i \in S PROVE owner[i] = c
    <3>1. PICK n \in Nat : i = g(n)
      BY <2>3
    <3> QED
      BY <1>1, <1>3, <3>1, GetArrayItemOwned
  <2>4. ASSUME owner[i] = c PROVE i \in S
    <3>1. S \in SUBSET Item
      <4> SUFFICES ASSUME NEW n \in Nat, n < len PROVE g(n) \in Item
        OBVIOUS
      <4>1. g(n) # NULL
        BY <2>1
      <4> QED
        BY <1>1, <1>3, <4>1, GetArrayItemOwned
    <3>2. h.child[c] \in S
      <4>1. h.child[c] # NULL
        BY <1>1, <2>4 DEF Links, Backwards
      <4>2. g(0) = h.child[c]
        BY <1>1, GetArrayItemFirst
      <4>3. 0 \in Nat /\ 0 < len
        BY <2>1, <4>1, <4>2
      <4> QED
        BY <4>2, <4>3
    <3>3. ASSUME NEW y \in S, h.next[y] # NULL PROVE h.next[y] \in S
      <4>1. PICK n \in Nat : n < len /\ y = g(n)
        BY <3>3
      <4>2. g(n) # NULL
        BY <2>1, <4>1
      <4>3. g(n + 1) = h.next[y]
        BY <1>1, <4>1, <4>2, GetArrayItemNext DEF After
      <4>4. n + 1 \in Nat /\ n + 1 < len
        BY <2>1, <3>3, <4>3
      <4> QED
        BY <4>3, <4>4
    <3> HIDE DEF S
    <3> QED
      BY <1>1, <2>4, <3>1, <3>2, <3>3 DEF Links, Reached
  <2> QED
    BY <2>2, <2>3, <2>4
<1> QED
  BY <1>2, <1>3

\* Unless a reference is lost because its key could not be copied, the items
\* that hang in no list are those the client owns, and any other item hangs in
\* exactly one list.
THEOREM OneOwner ==
  ASSUME FALSE \notin ReferenceKeyMemory
  PROVE  CopySpec => []Ownership
<1>1. ASSUME IInv PROVE Ownership
  <2> USE NULLAssumption
  <2>1. PICK owner : Links(heap, owner, held)
    BY <1>1 DEF IInv, Linked, Claims, WellLinked
  <2>2. heap \in Heap /\ heap.live \subseteq Item
    BY <2>1 DEF Links, Heap
  <2>3. ASSUME NEW i \in heap.live
        PROVE  LET parents == {c \in heap.live :
                                 \E n \in DOMAIN Children(heap, c) :
                                   Children(heap, c)[n] = i}
               IN  Cardinality(parents) = IF i \in held THEN 0 ELSE 1
    <3> DEFINE parents == {c \in heap.live :
                             \E n \in DOMAIN Children(heap, c) :
                               Children(heap, c)[n] = i}
    <3>1. parents = {c \in heap.live : owner[i] = c}
      BY <2>1, ChildOwned
    <3> HIDE DEF parents
    <3>2. CASE i \in held
      <4>1. owner[i] = NULL
        BY <2>1, <3>2 DEF Links, IsRoot
      <4>2. parents = {}
        BY <2>2, <3>1, <4>1
      <4> QED
        BY <3>2, <4>2, FS_EmptySet DEF parents
    <3>3. CASE i \notin held
      <4>1. owner[i] # NULL
        BY <2>1, <3>3, UnownedIsRoot
      <4>2. owner[i] \in heap.live
        BY <2>1, <2>2, <4>1 DEF Links, Backwards, IsOwner
      <4>3. parents = {owner[i]}
        BY <3>1, <4>2
      <4>4. Cardinality(parents) = 1
        BY <4>3, FS_Singleton
      <4> QED
        BY <3>3, <4>4 DEF parents
    <3> QED
      BY <3>2, <3>3
  <2>4. \A i \in held : heap.next[i] = NULL /\ heap.prev[i] = NULL
    BY <2>1 DEF Links, IsRoot
  <2> QED
    BY <2>3, <2>4 DEF Ownership
<1> QED
  BY <1>1, Invariance, PTL

-----------------------------------------------------------------------------
(* Deleting all that the client owns.                                      *)

\* The heaps that are left after the items of s, from those that f says are
\* left after all of them but the one that is deleted last.
Onward(f, s) == UNION {{cJSON_Delete(g, i) : g \in f[s \ {i}]} : i \in s}

\* f says which heaps are left after the items of each subset of T.
IsLeft(h, T, f) ==
  f = [s \in SUBSET T |-> IF s = {} THEN {h} ELSE Onward(f, s)]

\* What is left after the items of s depends on their subsets only.
LEMMA LeftUnique ==
  ASSUME NEW h, NEW T, IsFiniteSet(T), NEW f, IsLeft(h, T, f),
         NEW U, NEW g, IsLeft(h, U, g),
         NEW s \in SUBSET T, s \in SUBSET U
  PROVE  f[s] = g[s]
<1> DEFINE Bad == {n \in Nat : \E t \in SUBSET T : /\ t \in SUBSET U
                                                 /\ Cardinality(t) = n
                                                 /\ f[t] # g[t]}
<1>1. \A t \in SUBSET T : IsFiniteSet(t) /\ Cardinality(t) \in Nat
  BY FS_Subset, FS_CardinalityType
<1> SUFFICES ASSUME Bad # {} PROVE FALSE
  BY <1>1
<1>2. PICK n \in Bad : \A m \in Bad : n <= m
  <2> HIDE DEF Bad
  <2>1. Bad \in SUBSET Nat
    BY DEF Bad
  <2> QED
    BY <2>1, LeastNat
<1>3. PICK t \in SUBSET T : t \in SUBSET U /\ Cardinality(t) = n /\ f[t] # g[t]
  BY <1>2
<1>4. /\ f[t] = IF t = {} THEN {h} ELSE Onward(f, t)
      /\ g[t] = IF t = {} THEN {h} ELSE Onward(g, t)
  <2>1. t \in SUBSET T /\ t \in SUBSET U
    BY <1>3
  <2> QED
    BY <2>1 DEF IsLeft
<1>5. ASSUME NEW i \in t PROVE f[t \ {i}] = g[t \ {i}]
  <2>1. t \ {i} \in SUBSET T /\ t \ {i} \in SUBSET U
    BY <1>3
  <2>2. ~(n <= Cardinality(t \ {i})) /\ Cardinality(t \ {i}) \in Nat
    <3>1. Cardinality(t \ {i}) = n - 1 /\ n \in Nat
      BY <1>1, <1>3, <2>1, FS_RemoveElement
    <3> QED
      BY <1>1, <2>1, <3>1
  <2>3. Cardinality(t \ {i}) \notin Bad
    <3> HIDE DEF Bad
    <3> QED
      BY <1>2, <2>2
  <2> QED
    BY <2>1, <2>2, <2>3
<1>6. Onward(f, t) = Onward(g, t)
  <2> DEFINE Freeing(left, i) == {cJSON_Delete(x, i) : x \in left[t \ {i}]}
  <2>1. \A i \in t : Freeing(f, i) = Freeing(g, i)
    BY <1>5
  <2>2. /\ Onward(f, t) = UNION {Freeing(f, i) : i \in t}
        /\ Onward(g, t) = UNION {Freeing(g, i) : i \in t}
    BY DEF Onward
  <2> HIDE DEF Freeing
  <2> QED
    BY <2>1, <2>2
<1> QED
  BY <1>3, <1>4, <1>6

\* The recursion of NothingLeaks has a value.
LEMMA LeftExists ==
  ASSUME NEW h, NEW T, IsFiniteSet(T)
  PROVE  \E f : IsLeft(h, T, f)
<1> DEFINE Known(t) == \E f : IsLeft(h, t, f)
           Missing == {n \in Nat : \E t \in SUBSET T : Cardinality(t) = n /\ ~Known(t)}
<1>1. \A t \in SUBSET T : IsFiniteSet(t) /\ Cardinality(t) \in Nat
  BY FS_Subset, FS_CardinalityType
<1> SUFFICES ASSUME Missing # {} PROVE FALSE
  BY <1>1
<1>2. PICK n \in Missing : \A m \in Missing : n <= m
  <2> HIDE DEF Missing
  <2>1. Missing \in SUBSET Nat
    BY DEF Missing
  <2> QED
    BY <2>1, LeastNat
<1>3. PICK t \in SUBSET T : Cardinality(t) = n /\ ~Known(t)
  BY <1>2
<1>4. ASSUME NEW s \in SUBSET t, s # t PROVE Known(s)
  <2>1. s \in SUBSET T
    BY <1>3, <1>4
  <2>2. Cardinality(s) < n /\ Cardinality(s) \in Nat
    <3>1. Cardinality(s) <= Cardinality(t) /\ Cardinality(s) # Cardinality(t)
      BY <1>1, <1>3, <1>4, FS_Subset
    <3> QED
      BY <1>1, <1>3, <2>1, <3>1
  <2>3. Cardinality(s) \notin Missing
    BY <1>2, <2>2
  <2> QED
    BY <2>1, <2>2, <2>3
<1> HIDE DEF Missing
\* What each smaller set says of itself, put together.
<1> DEFINE at(s) == CHOOSE f : IsLeft(h, s, f)
           below == [s \in SUBSET t |-> at(s)[s]]
           f == [s \in SUBSET t |-> IF s = {} THEN {h} ELSE Onward(below, s)]
<1>5. ASSUME NEW s \in SUBSET t, s # t PROVE below[s] = f[s]
  <2>1. IsLeft(h, s, at(s))
    BY <1>4, <1>5
  <2>2. at(s)[s] = IF s = {} THEN {h} ELSE Onward(at(s), s)
    <3> HIDE DEF at
    <3>1. s \in SUBSET s
      OBVIOUS
    <3> QED
      BY <2>1, <3>1 DEF IsLeft
  <2>3. ASSUME NEW i \in s PROVE at(s)[s \ {i}] = below[s \ {i}]
    <3>1. /\ s \ {i} \in SUBSET t /\ s \ {i} # t
          /\ s \ {i} \in SUBSET s /\ s \ {i} \in SUBSET (s \ {i})
      BY <1>5
    <3>2. IsLeft(h, s \ {i}, at(s \ {i}))
      BY <1>4, <3>1
    <3>3. IsFiniteSet(s)
      BY <1>1, <1>3
    <3> HIDE DEF at
    <3>4. at(s)[s \ {i}] = at(s \ {i})[s \ {i}]
      BY <2>1, <3>1, <3>2, <3>3, LeftUnique
    <3> QED
      BY <3>1, <3>4
  <2> HIDE DEF at
  <2>4. below[s] = at(s)[s]
    OBVIOUS
  <2> HIDE DEF below
  <2>5. Onward(at(s), s) = Onward(below, s)
    BY <2>3 DEF Onward
  <2> QED
    BY <2>2, <2>4, <2>5
<1> HIDE DEF below
<1>6. ASSUME NEW s \in SUBSET t PROVE Onward(below, s) = Onward(f, s)
  <2>1. \A i \in s : s \ {i} \in SUBSET t /\ s \ {i} # t
    OBVIOUS
  <2>2. \A i \in s : below[s \ {i}] = f[s \ {i}]
    BY <1>5, <2>1
  <2> HIDE DEF f
  <2> QED
    BY <2>2 DEF Onward
<1>7. f = [s \in SUBSET t |-> IF s = {} THEN {h} ELSE Onward(f, s)]
  <2>1. \A s \in SUBSET t : (IF s = {} THEN {h} ELSE Onward(below, s))
                             = (IF s = {} THEN {h} ELSE Onward(f, s))
    BY <1>6
  <2> QED
    BY <2>1
<1>8. IsLeft(h, t, f)
  <2> HIDE DEF f
  <2> QED
    BY <1>7 DEF IsLeft
<1> QED
  BY <1>3, <1>8

\* A heap without roots is empty.
LEMMA NoRootsNoItems ==
  ASSUME NEW h, WellLinked(h, {}), Ledger(h)
  PROVE  h = EmptyHeap
<1>1. PICK owner : Links(h, owner, {})
  BY DEF WellLinked
<1>2. h \in Heap
  BY <1>1 DEF Links
<1>3. h.live = {}
  <2>1. {} \in SUBSET Item
    OBVIOUS
  <2>2. \A x \in h.live : owner[x] \notin {}
    OBVIOUS
  <2> QED
    BY <1>1, <2>1, <2>2 DEF Links, Rooted
<1>4. \A i \in Item : /\ h.next[i] = NULL /\ h.prev[i] = NULL /\ h.child[i] = NULL
                      /\ h.type[i] = {} /\ h.string[i] = NULL
  BY <1>1, <1>3 DEF Links, Zeroed
<1>5. Keyed(h) = {} /\ Texted(h) = {}
  BY <1>4 DEF Keyed, Texted, OwnsKey, OwnsText
<1>6. h.strings = 0
  BY <1>5, FS_EmptySet DEF Ledger
<1>7. EmptyHeap \in Heap
  BY NoItems
<1>8. /\ h.next = EmptyHeap.next /\ h.prev = EmptyHeap.prev
      /\ h.child = EmptyHeap.child /\ h.type = EmptyHeap.type
      /\ h.string = EmptyHeap.string
  BY <1>2, <1>4 DEF Heap, EmptyHeap
<1>9. h.live = EmptyHeap.live /\ h.strings = EmptyHeap.strings
  BY <1>3, <1>6 DEF EmptyHeap
<1> QED
  BY <1>2, <1>7, <1>8, <1>9, SameFields

\* Deleting roots of T one after the other leaves a heap whose roots are the
\* others.
LEMMA LeftLinks ==
  ASSUME NEW h, NEW T, WellLinked(h, T), Ledger(h), IsFiniteSet(T),
         NEW f, IsLeft(h, T, f), NEW s \in SUBSET T
  PROVE  /\ f[s] # {}
         /\ \A g \in f[s] : WellLinked(g, T \ s) /\ Ledger(g)
<1> DEFINE Good(t) == /\ f[t] # {}
                      /\ \A g \in f[t] : WellLinked(g, T \ t) /\ Ledger(g)
           Bad == {n \in Nat : \E t \in SUBSET T : Cardinality(t) = n /\ ~Good(t)}
<1>1. \A t \in SUBSET T : IsFiniteSet(t) /\ Cardinality(t) \in Nat
  BY FS_Subset, FS_CardinalityType
<1> SUFFICES ASSUME Bad # {} PROVE FALSE
  <2> HIDE DEF Good
  <2>1. Good(s)
    BY <1>1
  <2> QED
    BY <2>1 DEF Good
<1>2. PICK n \in Bad : \A m \in Bad : n <= m
  <2> HIDE DEF Bad
  <2>1. Bad \in SUBSET Nat
    BY DEF Bad
  <2> QED
    BY <2>1, LeastNat
<1> HIDE DEF Good
<1>3. PICK t \in SUBSET T : Cardinality(t) = n /\ ~Good(t)
  BY <1>2
<1>4. f[t] = IF t = {} THEN {h} ELSE Onward(f, t)
  BY <1>3 DEF IsLeft
<1>5. t # {}
  <2>1. Good({})
    <3>1. f[{}] = {h} /\ T \ {} = T
      BY DEF IsLeft
    <3> QED
      BY <3>1 DEF Good
  <2> QED
    BY <1>3, <2>1
<1>6. ASSUME NEW i \in t PROVE Good(t \ {i})
  <2>1. t \ {i} \in SUBSET T
    BY <1>3
  <2>2. ~(n <= Cardinality(t \ {i})) /\ Cardinality(t \ {i}) \in Nat
    <3>1. Cardinality(t \ {i}) = n - 1 /\ n \in Nat
      BY <1>1, <1>3, <2>1, FS_RemoveElement
    <3> QED
      BY <1>1, <2>1, <3>1
  <2>3. Cardinality(t \ {i}) \notin Bad
    <3> HIDE DEF Bad
    <3> QED
      BY <1>2, <2>2
  <2> QED
    BY <2>1, <2>2, <2>3
<1>7. f[t] # {}
  <2>1. PICK i \in t : TRUE
    BY <1>5
  <2>2. PICK g \in f[t \ {i}] : TRUE
    BY <1>6, <2>1 DEF Good
  <2>3. cJSON_Delete(g, i) \in Onward(f, t)
    BY <2>1, <2>2 DEF Onward
  <2> QED
    BY <1>4, <1>5, <2>3
<1>8. ASSUME NEW g \in f[t] PROVE WellLinked(g, T \ t) /\ Ledger(g)
  <2>1. g \in Onward(f, t)
    BY <1>4, <1>5
  <2>2. PICK i \in t : g \in {cJSON_Delete(k, i) : k \in f[t \ {i}]}
    BY <2>1 DEF Onward
  <2>3. PICK k \in f[t \ {i}] : g = cJSON_Delete(k, i)
    BY <2>2
  <2>4. WellLinked(k, T \ (t \ {i})) /\ Ledger(k)
    BY <1>6 DEF Good
  <2>5. i \in T \ (t \ {i}) /\ (T \ (t \ {i})) \ {i} = T \ t
    BY <1>3
  <2>6. WellLinked(cJSON_Delete(k, i), T \ t)
    <3> DEFINE R == T \ (t \ {i})
    <3>1. i \in R /\ R \ {i} = T \ t /\ WellLinked(k, R)
      BY <2>4, <2>5
    <3> HIDE DEF R
    <3>2. WellLinked(cJSON_Delete(k, i), R \ {i})
      BY <3>1, DeleteLinks
    <3> QED
      BY <3>1, <3>2
  <2>7. k \in Heap /\ i \in Item
    BY <2>4, <2>5 DEF WellLinked, Links
  <2>8. Ledger(cJSON_Delete(k, i))
    BY <2>4, <2>7, DeleteKeeps DEF Keeps
  <2> QED
    BY <2>3, <2>6, <2>8
<1>9. Good(t)
  BY <1>7, <1>8 DEF Good
<1> QED
  BY <1>3, <1>9

\* Unless a reference is lost because its key could not be copied, a client that
\* deletes the trees it owns, in any order, leaves no item and no string, after
\* any calls, those that ran out of memory included.
THEOREM NoLeaks ==
  ASSUME FALSE \notin ReferenceKeyMemory
  PROVE  CopySpec => []NothingLeaks
<1>1. ASSUME IInv PROVE NothingLeaks
  <2>1. WellLinked(heap, held)
    BY <1>1 DEF IInv, Linked, Claims
  <2>2. Ledger(heap)
    BY <1>1 DEF IInv, Accounts
  <2>3. IsFiniteSet(held)
    <3>1. held \in SUBSET Item
      BY <2>1 DEF WellLinked, Links
    <3> QED
      BY <3>1, ItemAssumption, FS_Subset
  <2> DEFINE left == CHOOSE f : IsLeft(heap, held, f)
  <2>4. IsLeft(heap, held, left)
    BY <2>3, LeftExists
  <2>5. NothingLeaks <=> left[held] = {EmptyHeap}
    BY DEF NothingLeaks, IsLeft, Onward
  <2> HIDE DEF left
  <2>6. /\ left[held] # {}
        /\ \A g \in left[held] : WellLinked(g, held \ held) /\ Ledger(g)
    BY <2>1, <2>2, <2>3, <2>4, LeftLinks
  <2>7. held \ held = {}
    OBVIOUS
  <2>8. \A g \in left[held] : g = EmptyHeap
    BY <2>6, <2>7, NoRootsNoItems
  <2> QED
    BY <2>5, <2>6, <2>8
<1> QED
  BY <1>1, Invariance, PTL
=============================================================================

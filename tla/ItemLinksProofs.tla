-------------------------- MODULE ItemLinksProofs --------------------------
(***************************************************************************)
(* What the list functions of ItemLinks keep true, for every number of     *)
(* items.  A heap is described without following its pointers: a function  *)
(* owner gives every item the container it hangs in, or NULL, and local    *)
(* conditions relate next, prev and child to it.                           *)
(***************************************************************************)
EXTENDS ItemLinks, LeastNumber, TLAPS

\* An item whose child points to a list of its own.
IsOwner(h, c) == c \in h.live /\ ~IsReference(h, c)

\* What has not been allocated has no fields.
Zeroed(h) ==
  \A i \in Item \ h.live :
    /\ h.next[i] = NULL /\ h.prev[i] = NULL /\ h.child[i] = NULL
    /\ h.type[i] = {} /\ h.string[i] = NULL

\* A list: its first item and the last one, which the first one shows.
Ends(h, owner) ==
  \A c \in Item : IsOwner(h, c) /\ h.child[c] # NULL =>
    /\ owner[h.child[c]] = c
    /\ h.prev[h.child[c]] \in Item
    /\ owner[h.prev[h.child[c]]] = c
    /\ h.next[h.prev[h.child[c]]] = NULL

\* A step along next stays in the list, can be undone with prev and never
\* leads to the first item.
Forwards(h, owner) ==
  \A x \in Item : h.next[x] # NULL =>
    /\ owner[x] # NULL
    /\ owner[h.next[x]] = owner[x]
    /\ h.prev[h.next[x]] = x
    /\ h.child[owner[x]] # h.next[x]

\* A listed item is the first one or comes after its prev, and the only item
\* without a next is the one that the first one shows.
Backwards(h, owner) ==
  \A x \in Item : owner[x] # NULL =>
    /\ x \in h.live
    /\ IsOwner(h, owner[x])
    /\ h.child[owner[x]] # NULL
    /\ x # h.child[owner[x]] => h.prev[x] \in Item /\ h.next[h.prev[x]] = x
    /\ h.next[x] = NULL => x = h.prev[h.child[owner[x]]]

\* A listed item is reached along next from the first one.
Reached(h, owner) ==
  \A x \in Item : owner[x] # NULL =>
    \A S \in SUBSET Item :
      /\ h.child[owner[x]] \in S
      /\ \A y \in S : h.next[y] # NULL => h.next[y] \in S
      => x \in S

\* Whatever exists hangs below a root of H: every set that holds H and all that
\* hangs in the lists of its members holds it.
Rooted(h, owner, H) ==
  \A S \in SUBSET Item :
    H \subseteq S /\ (\A x \in h.live : owner[x] \in S => x \in S)
      => h.live \subseteq S

\* A root: it exists and hangs in no list.
IsRoot(h, owner, i) ==
  i \in h.live /\ owner[i] = NULL /\ h.next[i] = NULL /\ h.prev[i] = NULL

Links(h, owner, H) ==
  /\ h \in Heap
  /\ Zeroed(h)
  /\ owner \in [Item -> Link]
  /\ Ends(h, owner)
  /\ Forwards(h, owner)
  /\ Backwards(h, owner)
  /\ Reached(h, owner)
  /\ \A i \in H : i \in Item /\ IsRoot(h, owner, i)
  /\ Rooted(h, owner, H)

\* The lists are well formed, the items of H hang in none of them, and all that
\* exists hangs below one of H.
WellLinked(h, H) == \E owner : Links(h, owner, H)

-----------------------------------------------------------------------------
(* Items that come and go outside the lists.                               *)

\* Only what next, prev, child, live and the reference bit say matters.
LEMMA SameLinks ==
  ASSUME NEW h, NEW g \in Heap, NEW H, WellLinked(h, H), Zeroed(g),
         g.next = h.next, g.prev = h.prev, g.child = h.child, g.live = h.live,
         \A i \in Item : IsReference(g, i) <=> IsReference(h, i)
  PROVE  WellLinked(g, H)
<1>1. PICK owner : Links(h, owner, H)
  BY DEF WellLinked
<1>2. \A i \in Item : IsOwner(g, i) <=> IsOwner(h, i)
  BY DEF IsOwner
<1>3. Ends(g, owner) /\ Forwards(g, owner)
  BY <1>1, <1>2 DEF Links, Ends, Forwards
<1>4. Backwards(g, owner)
  BY <1>1, <1>2 DEF Links, Backwards, Link
<1>5. Reached(g, owner)
  BY <1>1 DEF Links, Reached
<1>6. \A i \in H : i \in Item /\ IsRoot(g, owner, i)
  BY <1>1 DEF Links, IsRoot
<1>7. Rooted(g, owner, H)
  BY <1>1 DEF Links, Rooted
<1> QED
  BY <1>1, <1>3, <1>4, <1>5, <1>6, <1>7 DEF WellLinked, Links

\* What exists and hangs in no list is a root of H.
LEMMA UnownedIsRoot ==
  ASSUME NEW h, NEW owner, NEW H, Links(h, owner, H),
         NEW i \in h.live, owner[i] = NULL
  PROVE  i \in H
<1> DEFINE S == Item \ {i}
<1>1. ASSUME i \notin H PROVE H \subseteq S
  BY <1>1 DEF Links
<1>2. \A x \in h.live : owner[x] \in S => x \in S
  BY NULLAssumption DEF Links, Heap
<1>3. S \in SUBSET Item /\ i \notin S
  OBVIOUS
<1> HIDE DEF S
<1> QED
  BY <1>1, <1>2, <1>3 DEF Links, Rooted

\* The heap without items is well linked.
LEMMA NoItems ==
  EmptyHeap \in Heap /\ WellLinked(EmptyHeap, {})
<1> DEFINE owner == [i \in Item |-> NULL]
<1>1. EmptyHeap \in Heap /\ Zeroed(EmptyHeap)
  BY DEF EmptyHeap, Heap, Zeroed, Link
<1>2. Links(EmptyHeap, owner, {})
  BY <1>1 DEF Links, EmptyHeap, Ends, Forwards, Backwards, Reached, Rooted,
              IsOwner, IsReference, Link
<1> QED
  BY <1>1, <1>2 DEF WellLinked

\* A new item is a root, whatever a reference shows.
LEMMA NewItemLinks ==
  ASSUME NEW h, NEW H, WellLinked(h, H), NEW a \in Item \ h.live,
         NEW g \in Heap, g.live = h.live \cup {a},
         g.next = h.next, g.prev = h.prev,
         \A i \in Item \ {a} : /\ g.child[i] = h.child[i]
                               /\ g.type[i] = h.type[i]
                               /\ g.string[i] = h.string[i],
         g.child[a] # NULL => IsReference(g, a)
  PROVE  WellLinked(g, H \cup {a})
<1>1. PICK owner : Links(h, owner, H)
  BY DEF WellLinked
<1>2. owner[a] = NULL /\ h.next[a] = NULL /\ h.prev[a] = NULL
  BY <1>1 DEF Links, Backwards, Zeroed
<1>3. \A x \in Item : owner[x] # a
  BY <1>1, NULLAssumption DEF Links, Backwards, IsOwner
<1>4. \A c \in Item \ {a} : IsOwner(g, c) <=> IsOwner(h, c)
  BY DEF IsOwner, IsReference
<1>5. Zeroed(g)
  BY <1>1 DEF Links, Zeroed
<1>6. Ends(g, owner)
  BY <1>1, <1>4 DEF Links, Ends, IsOwner
<1>7. Forwards(g, owner)
  BY <1>1, <1>2, <1>3 DEF Links, Forwards, Link
<1>8. Backwards(g, owner)
  BY <1>1, <1>3, <1>4 DEF Links, Backwards, Link
<1>9. Reached(g, owner)
  BY <1>1, <1>3 DEF Links, Reached, Link
<1>10. \A i \in H \cup {a} : i \in Item /\ IsRoot(g, owner, i)
  BY <1>1, <1>2 DEF Links, IsRoot
<1>11. Rooted(g, owner, H \cup {a})
  BY <1>1 DEF Links, Rooted
<1> QED
  BY <1>1, <1>5, <1>6, <1>7, <1>8, <1>9, <1>10, <1>11 DEF WellLinked, Links

-----------------------------------------------------------------------------
(* Walking a list.                                                         *)

\* What comes after a position of a walk.
After(h, x) == IF x = NULL THEN NULL ELSE h.next[x]

\* f is the walk along next from the first child of c, up to n.
IsWalk(h, c, f, n) ==
  /\ f \in [0 .. n -> Link]
  /\ f[0] = h.child[c]
  /\ \A k \in 1 .. n : f[k] = After(h, f[k - 1])

\* The walk along a list can be taken for any number of steps.
LEMMA WalkExists ==
  ASSUME NEW h \in Heap, NEW c \in Item, NEW n \in Nat
  PROVE  \E f : IsWalk(h, c, f, n)
<1> DEFINE Missing == {m \in Nat : ~\E f : IsWalk(h, c, f, m)}
<1> SUFFICES ASSUME Missing # {} PROVE FALSE
  OBVIOUS
<1>1. PICK m \in Missing : \A k \in Missing : m <= k
  <2> HIDE DEF Missing
  <2>1. Missing \in SUBSET Nat
    BY DEF Missing
  <2> QED
    BY <2>1, LeastNat
<1>2. m # 0
  <2>1. IsWalk(h, c, [k \in 0 .. 0 |-> h.child[c]], 0)
    BY DEF IsWalk, Heap
  <2> QED
    BY <1>1, <2>1
<1>3. m - 1 \in Nat /\ m - 1 \notin Missing
  BY <1>1, <1>2
<1>4. PICK f : IsWalk(h, c, f, m - 1)
  BY <1>3
<1> DEFINE g == [k \in 0 .. m |-> IF k = m THEN After(h, f[m - 1]) ELSE f[k]]
<1>5. f[m - 1] \in Link /\ After(h, f[m - 1]) \in Link
  BY <1>3, <1>4 DEF IsWalk, After, Heap, Link
<1>6. g \in [0 .. m -> Link]
  BY <1>3, <1>4, <1>5 DEF IsWalk
<1>7. g[0] = h.child[c]
  BY <1>2, <1>3, <1>4 DEF IsWalk
<1>8. ASSUME NEW k \in 1 .. m PROVE g[k] = After(h, g[k - 1])
  BY <1>3, <1>4 DEF IsWalk
<1>9. IsWalk(h, c, g, m)
  BY <1>6, <1>7, <1>8 DEF IsWalk
<1> QED
  BY <1>1, <1>9

\* A walk is a function of where it starts.
LEMMA WalkUnique ==
  ASSUME NEW h \in Heap, NEW c \in Item, NEW n \in Nat, NEW m \in Nat, n <= m,
         NEW f, IsWalk(h, c, f, n), NEW g, IsWalk(h, c, g, m)
  PROVE  f[n] = g[n]
<1> DEFINE Bad == {k \in 0 .. n : f[k] # g[k]}
<1> SUFFICES ASSUME Bad # {} PROVE FALSE
  OBVIOUS
<1>1. PICK k \in Bad : \A j \in Bad : k <= j
  <2> HIDE DEF Bad
  <2>1. Bad \in SUBSET Nat
    BY DEF Bad
  <2> QED
    BY <2>1, LeastNat
<1>2. k # 0
  BY <1>1 DEF IsWalk
<1>3. f[k - 1] = g[k - 1]
  BY <1>1, <1>2
<1>4. f[k] = After(h, f[k - 1]) /\ g[k] = After(h, g[k - 1])
  BY <1>1, <1>2 DEF IsWalk
<1> QED
  BY <1>1, <1>3, <1>4

\* get_array_item is the walk at the index.
LEMMA GetArrayItemWalks ==
  ASSUME NEW h \in Heap, NEW c \in Item, NEW n \in Nat
  PROVE  \E f : IsWalk(h, c, f, n) /\ get_array_item(h, c, n) = f[n]
<1> DEFINE Step(f) == [k \in 0 .. n |->
                         IF k = 0 THEN h.child[c]
                         ELSE IF f[k - 1] = NULL THEN NULL
                         ELSE h.next[f[k - 1]]]
           at == CHOOSE f : f = Step(f)
<1>1. PICK g : IsWalk(h, c, g, n)
  BY WalkExists
<1>2. g = Step(g)
  <2>1. ASSUME NEW k \in 0 .. n PROVE g[k] = Step(g)[k]
    BY <1>1 DEF IsWalk, After
  <2>2. g = [k \in 0 .. n |-> g[k]]
    BY <1>1 DEF IsWalk
  <2>3. Step(g) = [k \in 0 .. n |-> Step(g)[k]]
    BY Zenon
  <2> HIDE DEF Step
  <2> QED
    BY <2>1, <2>2, <2>3
<1>3. at = Step(at)
  BY <1>2
<1>4. get_array_item(h, c, n) = at[n]
  BY Zenon DEF get_array_item
<1>5. at[0] = h.child[c] /\ \A k \in 1 .. n : at[k] = After(h, at[k - 1])
  <2> HIDE DEF at
  <2> QED
    BY <1>3 DEF After
<1>6. \A k \in 0 .. n : at[k] \in Link
  <2> DEFINE Bad == {k \in 0 .. n : at[k] \notin Link}
  <2> SUFFICES ASSUME Bad # {} PROVE FALSE
    OBVIOUS
  <2>1. PICK k \in Bad : \A j \in Bad : k <= j
    <3> HIDE DEF Bad
    <3>1. Bad \in SUBSET Nat
      BY DEF Bad
    <3> QED
      BY <3>1, LeastNat
  <2> HIDE DEF at
  <2>2. k # 0
    BY <1>5, <2>1 DEF Heap
  <2>3. at[k - 1] \in Link
    BY <2>1, <2>2
  <2> QED
    BY <1>5, <2>1, <2>2, <2>3 DEF After, Heap, Link
<1>7. at \in [0 .. n -> Link]
  <2> HIDE DEF at
  <2> QED
    BY <1>3, <1>6
<1> HIDE DEF at
<1> QED
  BY <1>4, <1>5, <1>7 DEF IsWalk

\* get_array_item starts at the child.
LEMMA GetArrayItemFirst ==
  ASSUME NEW h \in Heap, NEW c \in Item
  PROVE  get_array_item(h, c, 0) = h.child[c]
BY GetArrayItemWalks DEF IsWalk

\* get_array_item goes on to next.
LEMMA GetArrayItemNext ==
  ASSUME NEW h \in Heap, NEW c \in Item, NEW n \in Nat
  PROVE  /\ get_array_item(h, c, n) \in Link
         /\ get_array_item(h, c, n + 1) = After(h, get_array_item(h, c, n))
<1>1. PICK f : IsWalk(h, c, f, n) /\ get_array_item(h, c, n) = f[n]
  BY GetArrayItemWalks
<1>2. PICK g : IsWalk(h, c, g, n + 1) /\ get_array_item(h, c, n + 1) = g[n + 1]
  BY GetArrayItemWalks
<1>3. f[n] = g[n]
  BY <1>1, <1>2, WalkUnique
<1> QED
  BY <1>1, <1>2, <1>3 DEF IsWalk

\* Whatever an index finds hangs in the list.
LEMMA GetArrayItemOwned ==
  ASSUME NEW h, NEW owner, NEW H, Links(h, owner, H),
         NEW c \in Item, IsOwner(h, c), NEW n \in Nat
  PROVE  LET x == get_array_item(h, c, n)
         IN  x \in Link /\ (x # NULL => x \in Item /\ owner[x] = c)
<1> DEFINE x(k) == get_array_item(h, c, k)
           Bad == {k \in Nat : ~(x(k) # NULL => owner[x(k)] = c)}
<1>1. h \in Heap
  BY DEF Links
<1>2. Bad = {}
  <2> SUFFICES ASSUME Bad # {} PROVE FALSE
    OBVIOUS
  <2>1. PICK k \in Bad : \A j \in Bad : k <= j
    <3> HIDE DEF Bad
    <3>1. Bad \in SUBSET Nat
      BY DEF Bad
    <3> QED
      BY <3>1, LeastNat
  <2>2. k # 0
    BY <1>1, <2>1, GetArrayItemFirst DEF Links, Ends
  <2>3. k - 1 \in Nat /\ k - 1 \notin Bad
    BY <2>1, <2>2
  <2>4. x(k) = After(h, x(k - 1)) /\ x(k - 1) \in Link
    BY <1>1, <2>3, GetArrayItemNext
  <2>5. x(k - 1) # NULL /\ x(k) = h.next[x(k - 1)] /\ x(k) # NULL
    BY <2>1, <2>4 DEF After
  <2>6. owner[x(k)] = owner[x(k - 1)]
    BY <2>4, <2>5 DEF Links, Forwards, Link
  <2> QED
    BY <2>1, <2>3, <2>5, <2>6
<1>3. x(n) \in Link
  BY <1>1, GetArrayItemNext
<1> QED
  BY <1>2, <1>3 DEF Link

\* An item that is found by its key hangs in the list.
LEMMA GetObjectItemOwned ==
  ASSUME NEW h, NEW owner, NEW H, Links(h, owner, H),
         NEW c \in Item, IsOwner(h, c), NEW k, NEW case_sensitive
  PROVE  LET x == get_object_item(h, c, k, case_sensitive)
         IN  x \in Link /\ (x # NULL => x \in Item /\ owner[x] = c)
<1>1. \/ get_object_item(h, c, k, case_sensitive) = NULL
      \/ \E n \in 0 .. Cardinality(Item) :
           get_object_item(h, c, k, case_sensitive) = get_array_item(h, c, n)
  BY DEF get_object_item
<1>2. Cardinality(Item) \in Nat
  BY ItemAssumption, FS_CardinalityType
<1>3. CASE get_object_item(h, c, k, case_sensitive) = NULL
  BY <1>3 DEF Link
<1>4. CASE \E n \in 0 .. Cardinality(Item) :
             get_object_item(h, c, k, case_sensitive) = get_array_item(h, c, n)
  <2>1. PICK n \in Nat :
           get_object_item(h, c, k, case_sensitive) = get_array_item(h, c, n)
    BY <1>2, <1>4
  <2> QED
    BY <2>1, GetArrayItemOwned
<1> QED
  BY <1>1, <1>3, <1>4

-----------------------------------------------------------------------------
(* What cJSON_Delete frees.                                                *)

\* It frees the item itself and all that a freed item leads to.
LEMMA DeletedClosed ==
  ASSUME NEW h \in Heap, NEW i \in Item
  PROVE  /\ Deleted(h, i) \in SUBSET Item
         /\ i \in Deleted(h, i)
         /\ \A x \in Deleted(h, i) :
              /\ h.next[x] # NULL => h.next[x] \in Deleted(h, i)
              /\ ~IsReference(h, x) /\ h.child[x] # NULL
                   => h.child[x] \in Deleted(h, i)
<1> USE NULLAssumption
<1> DEFINE gone == Deleted(h, i)
           Closed(S) == /\ i \in S
                        /\ \A x \in S :
                             /\ h.next[x] = NULL \/ h.next[x] \in S
                             /\ \/ IsReference(h, x)
                                \/ h.child[x] = NULL
                                \/ h.child[x] \in S
<1>1. gone = {x \in Item : \A S \in SUBSET Item : Closed(S) => x \in S}
  BY DEF Deleted
<1> HIDE DEF gone
<1>2. gone \in SUBSET Item /\ i \in gone
  BY <1>1
<1>3. ASSUME NEW x \in gone, h.next[x] # NULL PROVE h.next[x] \in gone
  <2>1. h.next[x] \in Item
    BY <1>2, <1>3 DEF Heap, Link
  <2> QED
    BY <1>1, <1>3, <2>1
<1>4. ASSUME NEW x \in gone, ~IsReference(h, x), h.child[x] # NULL
      PROVE  h.child[x] \in gone
  <2>1. h.child[x] \in Item
    BY <1>2, <1>4 DEF Heap, Link
  <2> QED
    BY <1>1, <1>4, <2>1
<1> QED
  BY <1>2, <1>3, <1>4 DEF gone

\* Whatever hangs in a list that is freed is freed.
LEMMA DeletedFamily ==
  ASSUME NEW h, NEW owner, NEW H, Links(h, owner, H), NEW i \in Item,
         NEW x \in Item, owner[x] \in Deleted(h, i)
  PROVE  x \in Deleted(h, i)
<1> DEFINE gone == Deleted(h, i)
<1>1. /\ gone \in SUBSET Item
      /\ \A y \in gone : h.next[y] # NULL => h.next[y] \in gone
      /\ \A y \in gone : ~IsReference(h, y) /\ h.child[y] # NULL
                             => h.child[y] \in gone
  BY DeletedClosed DEF Links
<1> HIDE DEF gone
<1>2. owner[x] \in gone
  BY DEF gone
<1>3. owner[x] # NULL
  BY <1>1, <1>2, NULLAssumption
<1>4. ~IsReference(h, owner[x]) /\ h.child[owner[x]] # NULL
  BY <1>3 DEF Links, Backwards, IsOwner
<1>5. h.child[owner[x]] \in gone
  BY <1>1, <1>2, <1>4
<1>6. x \in gone
  BY <1>1, <1>3, <1>5 DEF Links, Reached
<1> QED
  BY <1>6 DEF gone

\* An item with nothing below it and nothing after it.
Lone(h, i) == h.next[i] = NULL /\ (IsReference(h, i) \/ h.child[i] = NULL)

\* Of such an item cJSON_Delete frees nothing but itself.
LEMMA LoneDeleted ==
  ASSUME NEW h, NEW i \in Item, Lone(h, i)
  PROVE  Deleted(h, i) = {i}
<1> DEFINE Closed(S) == /\ i \in S
                        /\ \A x \in S :
                             /\ h.next[x] = NULL \/ h.next[x] \in S
                             /\ \/ IsReference(h, x)
                                \/ h.child[x] = NULL
                                \/ h.child[x] \in S
<1>1. Deleted(h, i) = {x \in Item : \A S \in SUBSET Item : Closed(S) => x \in S}
  BY DEF Deleted
<1>2. Closed({i}) /\ {i} \in SUBSET Item
  BY DEF Lone
<1>3. \A S : Closed(S) => i \in S
  OBVIOUS
<1> HIDE DEF Closed
<1> QED
  BY <1>1, <1>2, <1>3

\* Only next, child and the reference bit say what is freed.
LEMMA SameDeleted ==
  ASSUME NEW h, NEW g, NEW i, g.next = h.next, g.child = h.child,
         \A x \in Item : IsReference(g, x) <=> IsReference(h, x)
  PROVE  Deleted(g, i) = Deleted(h, i)
BY DEF Deleted

-----------------------------------------------------------------------------
(* Changing a list.                                                        *)

\* A root that is put into a list takes along what hangs below it, as long as
\* the list does not hang there itself.
LEMMA AdoptRooted ==
  ASSUME NEW h, NEW owner, NEW H, Links(h, owner, H),
         NEW c \in h.live, NEW i \in H, c \notin Deleted(h, i)
  PROVE  Rooted(h, [owner EXCEPT ![i] = c], H \ {i})
<1> DEFINE o == [owner EXCEPT ![i] = c]
<1>1. i \in Item /\ i \in h.live /\ h \in Heap /\ h.live \in SUBSET Item
  BY DEF Links, IsRoot, Heap
<1>2. o[i] = c /\ \A x \in Item : x # i => o[x] = owner[x]
  BY <1>1 DEF Links
<1> SUFFICES ASSUME NEW S \in SUBSET Item, H \ {i} \subseteq S,
                    \A x \in h.live : o[x] \in S => x \in S
             PROVE  h.live \subseteq S
  BY DEF Rooted
<1> HIDE DEF o
<1> DEFINE gone == Deleted(h, i)
           T == S \cup gone
<1>3. gone \in SUBSET Item /\ i \in gone
  BY <1>1, DeletedClosed
<1>4. T \in SUBSET Item /\ H \subseteq T
  BY <1>3
<1>5. ASSUME NEW x \in h.live, owner[x] \in T PROVE x \in T
  <2>1. CASE owner[x] \in gone
    BY <1>1, <2>1, DeletedFamily
  <2>2. CASE owner[x] \notin gone
    BY <1>1, <1>2, <1>3, <1>5, <2>2
  <2> QED
    BY <2>1, <2>2
<1>6. h.live \subseteq T
  <2> HIDE DEF T
  <2> QED
    BY <1>4, <1>5 DEF Links, Rooted
<1>7. c \in S
  BY <1>6
<1>8. i \in S
  BY <1>1, <1>2, <1>7
<1>9. H \subseteq S
  BY <1>8
<1>10. \A x \in h.live : owner[x] \in S => x \in S
  BY <1>1, <1>2, <1>8
<1> QED
  BY <1>9, <1>10 DEF Links, Rooted

\* A root is appended: suffix_object through the prev of the first child.
LEMMA AddLinks ==
  ASSUME NEW h, NEW H, WellLinked(h, H),
         NEW c \in Item, IsOwner(h, c), NEW i \in H \cup {NULL},
         i # NULL /\ c \in Deleted(h, i) => c = i
  PROVE  LET r == add_item_to_array(h, c, i)
         IN  /\ r.ret \in BOOLEAN
             /\ r.ret <=> i # NULL /\ i # c
             /\ r.ret => WellLinked(r.heap, H \ {i})
             /\ ~r.ret => r.heap = h
<1>1. CASE i = NULL \/ i = c
  BY <1>1 DEF add_item_to_array, Returns
<1>2. CASE i # NULL /\ i # c
  <2>1. PICK owner : Links(h, owner, H)
    BY DEF WellLinked
  <2>2. i \in Item /\ i \in H /\ IsRoot(h, owner, i) /\ h \in Heap
    BY <1>2, <2>1 DEF Links
  <2> DEFINE o == [owner EXCEPT ![i] = c]
             first == h.child[c]
             last == h.prev[first]
  <2>a. Rooted(h, o, H \ {i})
    BY <1>2, <2>1, <2>2, AdoptRooted DEF IsOwner
  <2>3. CASE first = NULL
    <3> DEFINE g == [h EXCEPT !.child[c] = i, !.prev[i] = i, !.next[i] = NULL]
    <3>1. add_item_to_array(h, c, i) = Returns(TRUE, g)
      BY <1>2, <2>3 DEF add_item_to_array
    <3>2. g \in Heap
      BY <2>2 DEF Heap, Link
    <3>3. /\ g.child = [h.child EXCEPT ![c] = i]
          /\ g.prev = [h.prev EXCEPT ![i] = i]
          /\ g.next = [h.next EXCEPT ![i] = NULL]
          /\ g.live = h.live /\ g.type = h.type /\ g.string = h.string
      BY <2>2 DEF Heap
    <3> HIDE DEF g
    <3>4. \A x \in Item : IsOwner(g, x) <=> IsOwner(h, x)
      BY <3>3 DEF IsOwner, IsReference
    <3>5. \A x \in Item : owner[x] # c
      BY <2>1, <2>3, NULLAssumption DEF Links, Backwards
    <3>6. \A x \in Item : h.next[x] # i
      BY <2>1, <2>2, NULLAssumption DEF Links, Forwards, IsRoot
    <3>7. \A x \in Item : h.child[x] = i => ~IsOwner(h, x)
      BY <2>1, <2>2, NULLAssumption DEF Links, Ends, IsRoot
    <3>8. Zeroed(g)
      BY <2>1, <2>2, <3>3 DEF Links, Zeroed, IsRoot, IsOwner
    <3>9. o \in [Item -> Link]
      BY <2>1 DEF Links, Link
    <3>10. Ends(g, o)
      BY <2>1, <2>2, <3>3, <3>4, <3>7, NULLAssumption
      DEF Links, Ends, IsRoot, Heap, Link
    <3>11. Forwards(g, o)
      BY <2>1, <2>2, <3>3, <3>5, <3>6, NULLAssumption
      DEF Links, Forwards, IsRoot, Heap, Link
    <3>12. Backwards(g, o)
      BY <2>1, <2>2, <3>3, <3>4, <3>5, <3>6, NULLAssumption
      DEF Links, Backwards, IsRoot, Heap, Link
    <3>13. Reached(g, o)
      BY <2>1, <2>2, <3>3, <3>5, <3>6, NULLAssumption
      DEF Links, Reached, IsRoot, Heap, Link
    <3>14. \A j \in H \ {i} : j \in Item /\ IsRoot(g, o, j)
      BY <2>1, <3>3 DEF Links, IsRoot
    <3>a. Rooted(g, o, H \ {i})
      BY <2>a, <3>3 DEF Rooted
    <3>15. WellLinked(g, H \ {i})
      BY <3>2, <3>8, <3>9, <3>10, <3>11, <3>12, <3>13, <3>14, <3>a
      DEF WellLinked, Links
    <3> QED
      BY <1>2, <3>1, <3>15 DEF Returns
  <2>4. CASE first # NULL
    <3>1. first \in Item /\ last \in Item /\ owner[first] = c /\ owner[last] = c
          /\ h.next[last] = NULL /\ last # i /\ first # i
      BY <2>1, <2>2, <2>4, NULLAssumption DEF Links, Ends, Heap, Link, IsRoot
    <3> DEFINE g == [suffix_object(h, last, i) EXCEPT !.prev[first] = i]
    <3>2. add_item_to_array(h, c, i) = Returns(TRUE, g)
      BY <1>2, <2>4, <3>1, NULLAssumption DEF add_item_to_array
    <3>3. g \in Heap
      BY <2>2, <3>1 DEF Heap, Link, suffix_object
    <3>4. /\ g.child = h.child
          /\ g.prev = [h.prev EXCEPT ![i] = last, ![first] = i]
          /\ g.next = [h.next EXCEPT ![last] = i]
          /\ g.live = h.live /\ g.type = h.type /\ g.string = h.string
      BY <2>2 DEF Heap, suffix_object
    <3> HIDE DEF g
    <3>5. \A x \in Item : IsOwner(g, x) <=> IsOwner(h, x)
      BY <3>4 DEF IsOwner, IsReference
    <3>6. \A x \in Item : h.next[x] # i /\ h.next[x] # first
      BY <2>1, <2>2, <2>4, <3>1, NULLAssumption DEF Links, Forwards, IsRoot
    <3>7. \A x \in Item : h.child[x] = i => ~IsOwner(h, x)
      BY <2>1, <2>2, NULLAssumption DEF Links, Ends, IsRoot
    <3>8. \A x \in Item : owner[x] = c /\ h.next[x] = NULL => x = last
      BY <2>1, NULLAssumption DEF Links, Backwards
    <3>9. \A x \in Item : IsOwner(h, x) /\ h.child[x] = first => x = c
      BY <2>1, <2>4, <3>1 DEF Links, Ends
    <3>10. Zeroed(g)
      <4>1. first \in h.live /\ last \in h.live /\ i \in h.live
        BY <2>1, <2>2, <3>1, NULLAssumption DEF Links, Backwards, IsRoot
      <4> QED
        BY <2>1, <3>4, <4>1 DEF Links, Zeroed, Heap
    <3>11. o \in [Item -> Link]
      BY <2>1 DEF Links, Link
    <3>12. Ends(g, o)
      BY <2>1, <2>2, <3>1, <3>4, <3>5, <3>7, <3>9, NULLAssumption
      DEF Links, Ends, IsRoot, Heap, Link
    <3>13. Forwards(g, o)
      BY <2>1, <2>2, <3>1, <3>4, <3>6, <3>7, NULLAssumption
      DEF Links, Forwards, Backwards, IsRoot, Heap, Link
    <3>14. Backwards(g, o)
      <4> SUFFICES ASSUME NEW x \in Item, o[x] # NULL
          PROVE  /\ x \in g.live
                 /\ IsOwner(g, o[x])
                 /\ g.child[o[x]] # NULL
                 /\ x # g.child[o[x]] => g.prev[x] \in Item /\ g.next[g.prev[x]] = x
                 /\ g.next[x] = NULL => x = g.prev[g.child[o[x]]]
        BY DEF Backwards
      <4>1. CASE x = i
        BY <2>1, <2>2, <2>4, <3>1, <3>4, <3>5, <4>1, NULLAssumption
        DEF IsRoot, Heap, Links
      <4>2. CASE x # i
        <5>1. owner[x] # NULL /\ o[x] = owner[x]
          BY <2>1, <4>2 DEF Links
        <5>2. owner[x] \in Item /\ h.child[owner[x]] \in Item
          BY <2>1, <2>2, <5>1 DEF Links, Link, Heap, Backwards
        <5>3. x # g.child[o[x]] => g.prev[x] \in Item /\ g.next[g.prev[x]] = x
          BY <2>1, <2>2, <3>1, <3>4, <4>2, <5>1, <5>2, NULLAssumption
          DEF Links, Backwards, Heap, Link
        <5>4. g.next[x] = NULL => x = g.prev[g.child[o[x]]]
          <6> SUFFICES ASSUME g.next[x] = NULL PROVE x = g.prev[g.child[o[x]]]
            OBVIOUS
          <6>1. h.next[x] = NULL /\ x # last
            BY <2>2, <3>1, <3>4, NULLAssumption DEF Heap
          <6>2. owner[x] # c
            BY <3>8, <6>1
          <6>3. h.child[owner[x]] # first /\ h.child[owner[x]] # i
            BY <2>1, <3>7, <3>9, <5>1, <5>2, <6>2 DEF Links, Backwards
          <6>4. x = h.prev[h.child[owner[x]]]
            BY <2>1, <5>1, <6>1 DEF Links, Backwards
          <6> QED
            BY <2>2, <3>4, <5>1, <5>2, <6>3, <6>4 DEF Heap
        <5> QED
          BY <2>1, <3>4, <3>5, <5>1, <5>2, <5>3, <5>4 DEF Links, Backwards
      <4> QED
        BY <4>1, <4>2
    <3>15. Reached(g, o)
      <4> SUFFICES ASSUME NEW x \in Item, o[x] # NULL, NEW S \in SUBSET Item,
                          g.child[o[x]] \in S,
                          \A y \in S : g.next[y] # NULL => g.next[y] \in S
                   PROVE  x \in S
        BY DEF Reached
      <4>1. \A y \in S : h.next[y] # NULL => h.next[y] \in S
        BY <2>2, <3>1, <3>4 DEF Heap
      <4>2. CASE x # i
        BY <2>1, <3>4, <4>1, <4>2 DEF Links, Reached
      <4>3. CASE x = i
        <5>1. o[x] = c
          BY <2>1, <4>3 DEF Links
        <5>2. last \in S
          BY <2>1, <3>1, <3>4, <4>1, <5>1, NULLAssumption DEF Links, Reached
        <5> QED
          BY <1>2, <2>2, <3>1, <3>4, <4>3, <5>2 DEF Heap
      <4> QED
        BY <4>2, <4>3
    <3>16. \A j \in H \ {i} : j \in Item /\ IsRoot(g, o, j)
      BY <2>1, <2>2, <3>1, <3>4, NULLAssumption DEF Links, IsRoot, Heap
    <3>a. Rooted(g, o, H \ {i})
      BY <2>a, <3>4 DEF Rooted
    <3>17. WellLinked(g, H \ {i})
      BY <3>3, <3>10, <3>11, <3>12, <3>13, <3>14, <3>15, <3>16, <3>a
      DEF WellLinked, Links
    <3> QED
      BY <1>2, <3>2, <3>17 DEF Returns
  <2> QED
    BY <2>3, <2>4
<1> QED
  BY <1>1, <1>2

\* Neighbours of a listed item, as far as every change of a list needs them.
LEMMA ListedItem ==
  ASSUME NEW h, NEW owner, NEW H, Links(h, owner, H),
         NEW c \in Item, IsOwner(h, c), NEW x \in Item, owner[x] = c
  PROVE  /\ x \in h.live
         /\ h.child[c] \in Item /\ owner[h.child[c]] = c
         /\ h.prev[h.child[c]] \in Item /\ owner[h.prev[h.child[c]]] = c
         /\ h.next[h.prev[h.child[c]]] = NULL
         /\ h.prev[x] \in Item /\ owner[h.prev[x]] = c
         /\ h.next[x] # x
         /\ h.next[x] # NULL => /\ h.next[x] \in Item /\ owner[h.next[x]] = c
                                /\ h.prev[h.next[x]] = x
                                /\ h.next[x] # h.child[c]
         /\ x # h.child[c] => h.next[h.prev[x]] = x /\ h.prev[x] # x
         /\ h.next[x] = NULL => x = h.prev[h.child[c]]
         /\ \A y \in Item : h.next[y] = x => x # h.child[c] /\ y = h.prev[x]
         /\ \A d \in Item : IsOwner(h, d) /\ h.child[d] = x => d = c
<1> USE NULLAssumption
<1>1. x \in h.live /\ h.child[c] \in Item /\ owner[h.child[c]] = c
  BY DEF Links, Backwards, Ends, Heap, Link
<1>2. /\ h.prev[h.child[c]] \in Item /\ owner[h.prev[h.child[c]]] = c
      /\ h.next[h.prev[h.child[c]]] = NULL
  BY <1>1 DEF Links, Ends
<1>3. h.next[x] # NULL => /\ h.next[x] \in Item /\ owner[h.next[x]] = c
                          /\ h.prev[h.next[x]] = x
                          /\ h.next[x] # h.child[c]
  BY DEF Links, Forwards, Heap, Link
<1>4. x # h.child[c] => h.prev[x] \in Item /\ h.next[h.prev[x]] = x
  BY DEF Links, Backwards
<1>5. h.prev[x] \in Item /\ owner[h.prev[x]] = c
  BY <1>1, <1>2, <1>4 DEF Links, Forwards
<1>6. h.next[x] = NULL => x = h.prev[h.child[c]]
  BY DEF Links, Backwards
<1>7. \A y \in Item : h.next[y] = x => x # h.child[c] /\ y = h.prev[x]
  BY DEF Links, Forwards
<1>8. \A d \in Item : IsOwner(h, d) /\ h.child[d] = x => d = c
  BY DEF Links, Ends
<1>9. h.next[x] # x
  <2> SUFFICES ASSUME h.next[x] = x PROVE FALSE
    OBVIOUS
  <2>1. x # h.child[c]
    BY <1>3
  <2> DEFINE S == Item \ {x}
  <2>2. ASSUME NEW y \in S, h.next[y] # NULL PROVE h.next[y] \in S
    <3>1. h.next[y] \in Item
      BY <2>2 DEF Links, Heap, Link
    <3>2. CASE h.next[y] = x
      BY <1>3, <1>7, <3>2
    <3> QED
      BY <3>1, <3>2
  <2>3. h.child[c] \in S
    BY <1>1, <2>1
  <2>4. x \in S
    BY <2>2, <2>3 DEF Links, Reached
  <2> QED
    BY <2>4
<1> QED
  BY <1>1, <1>2, <1>3, <1>4, <1>5, <1>6, <1>7, <1>8, <1>9

\* The fields after an item that hangs in the list of c has been detached.
LEMMA DetachFields ==
  ASSUME NEW h, NEW owner, NEW H, Links(h, owner, H),
         NEW c \in Item, IsOwner(h, c), NEW item \in Item, owner[item] = c
  PROVE  LET next == h.next[item]
             prev == h.prev[item]
             first == item = h.child[c]
             g == cJSON_DetachItemViaPointer(h, c, item).heap
         IN  /\ cJSON_DetachItemViaPointer(h, c, item).ret = item
             /\ g \in Heap
             /\ g.live = h.live /\ g.type = h.type /\ g.string = h.string
             /\ g.strings = h.strings
             /\ g.child = IF first THEN [h.child EXCEPT ![c] = next] ELSE h.child
             /\ \A x \in Item :
                  g.next[x] = IF x = item THEN NULL
                              ELSE IF ~first /\ x = prev THEN next ELSE h.next[x]
             /\ \A x \in Item :
                  g.prev[x] = IF x = item THEN NULL
                              ELSE IF \/ x = next
                                      \/ ~first /\ next = NULL /\ x = h.child[c]
                              THEN prev ELSE h.prev[x]
<1> USE NULLAssumption
<1> DEFINE next == h.next[item]
           prev == h.prev[item]
           first == item = h.child[c]
           g == cJSON_DetachItemViaPointer(h, c, item).heap
<1>a. item # NULL /\ h \in Heap
  BY DEF Links
<1>b. /\ h.child[c] \in Item /\ prev \in Item
      /\ next # NULL => next \in Item
  BY ListedItem
<1> DEFINE skipped == IF first THEN h ELSE [h EXCEPT !.next[prev] = next]
           joined == IF next = NULL THEN skipped
                     ELSE [skipped EXCEPT !.prev[next] = prev]
           closed == IF first THEN [joined EXCEPT !.child[c] = next]
                     ELSE IF next = NULL
                     THEN [joined EXCEPT !.prev[joined.child[c]] = prev]
                     ELSE joined
<1>1. cJSON_DetachItemViaPointer(h, c, item) = Returns(item, Unlinked(closed, item))
  BY <1>a, <1>b DEF cJSON_DetachItemViaPointer
<1>2. /\ skipped \in Heap
      /\ skipped.live = h.live /\ skipped.type = h.type
      /\ skipped.string = h.string /\ skipped.strings = h.strings /\ skipped.child = h.child
      /\ skipped.prev = h.prev
      /\ skipped.next = IF first THEN h.next ELSE [h.next EXCEPT ![prev] = next]
  BY <1>a, <1>b DEF Heap, Link
<1> HIDE DEF skipped
<1>3. /\ joined \in Heap
      /\ joined.live = h.live /\ joined.type = h.type
      /\ joined.string = h.string /\ joined.strings = h.strings /\ joined.child = h.child
      /\ joined.next = skipped.next
      /\ joined.prev = IF next = NULL THEN h.prev
                       ELSE [h.prev EXCEPT ![next] = prev]
  BY <1>a, <1>b, <1>2 DEF Heap, Link
<1> HIDE DEF joined
<1>4. /\ closed \in Heap
      /\ closed.live = h.live /\ closed.type = h.type
      /\ closed.string = h.string /\ closed.strings = h.strings
      /\ closed.child = IF first THEN [h.child EXCEPT ![c] = next] ELSE h.child
      /\ closed.next = skipped.next
      /\ closed.prev = IF ~first /\ next = NULL
                       THEN [joined.prev EXCEPT ![h.child[c]] = prev]
                       ELSE joined.prev
  BY <1>a, <1>b, <1>3 DEF Heap, Link
<1> HIDE DEF closed
<1>5. /\ g \in Heap
      /\ g.live = h.live /\ g.type = h.type /\ g.string = h.string /\ g.strings = h.strings
      /\ g.child = closed.child
      /\ g.next = [closed.next EXCEPT ![item] = NULL]
      /\ g.prev = [closed.prev EXCEPT ![item] = NULL]
  <2>1. g = Unlinked(closed, item)
    BY <1>1 DEF Returns
  <2> HIDE DEF g
  <2> QED
    BY <1>a, <1>4, <2>1 DEF Heap, Link, Unlinked
<1> HIDE DEF g
<1>6. \A x \in Item :
         g.next[x] = IF x = item THEN NULL
                     ELSE IF ~first /\ x = prev THEN next ELSE h.next[x]
  BY <1>a, <1>b, <1>2, <1>4, <1>5 DEF Heap
<1>7. \A x \in Item :
         g.prev[x] = IF x = item THEN NULL
                     ELSE IF x = next \/ (~first /\ next = NULL /\ x = h.child[c])
                     THEN prev ELSE h.prev[x]
  BY <1>a, <1>b, <1>3, <1>4, <1>5 DEF Heap
<1>8. cJSON_DetachItemViaPointer(h, c, item).ret = item
  BY <1>1 DEF Returns
<1> QED
  BY <1>4, <1>5, <1>6, <1>7, <1>8 DEF g

\* An item is detached and becomes a root; a root is left alone.
LEMMA DetachLinks ==
  ASSUME NEW h, NEW owner, NEW H, Links(h, owner, H),
         NEW c \in Item, IsOwner(h, c), NEW item \in Link,
         item = NULL \/ item \in H \/ owner[item] = c
  PROVE  LET r == cJSON_DetachItemViaPointer(h, c, item)
         IN  /\ r.ret \in Link
             /\ item # NULL /\ owner[item] = c => r.ret = item
             /\ WellLinked(r.heap, H \cup ({r.ret} \ {NULL}))
<1> USE NULLAssumption
<1>1. CASE item = NULL
  <2>1. cJSON_DetachItemViaPointer(h, c, item) = Returns(NULL, h)
    BY <1>1 DEF cJSON_DetachItemViaPointer
  <2>2. H \cup ({NULL} \ {NULL}) = H /\ WellLinked(h, H)
    BY DEF WellLinked
  <2> QED
    BY <1>1, <2>1, <2>2 DEF Returns, Link
<1>2. CASE item # NULL /\ item \in H
  <2>1. item # h.child[c] /\ h.prev[item] = NULL /\ owner[item] # c
    BY <1>2 DEF Links, Ends, IsRoot
  <2>2. cJSON_DetachItemViaPointer(h, c, item) = Returns(NULL, h)
    BY <1>2, <2>1 DEF cJSON_DetachItemViaPointer
  <2>3. H \cup ({NULL} \ {NULL}) = H /\ WellLinked(h, H)
    BY DEF WellLinked
  <2>4. /\ cJSON_DetachItemViaPointer(h, c, item).ret = NULL
        /\ cJSON_DetachItemViaPointer(h, c, item).heap = h
    BY <2>2 DEF Returns
  <2> QED
    BY <2>1, <2>3, <2>4 DEF Link
<1>3. CASE item # NULL /\ owner[item] = c
  <2> DEFINE next == h.next[item]
             prev == h.prev[item]
             first == item = h.child[c]
             g == cJSON_DetachItemViaPointer(h, c, item).heap
             o == [owner EXCEPT ![item] = NULL]
  <2>1. item \in Item /\ h \in Heap
    BY <1>3 DEF Link, Links
  <2>2. /\ item \in h.live
        /\ h.child[c] \in Item /\ owner[h.child[c]] = c
        /\ prev \in Item /\ owner[prev] = c
        /\ next # item
        /\ next # NULL => /\ next \in Item /\ owner[next] = c
                          /\ h.prev[next] = item /\ next # h.child[c]
        /\ ~first => h.next[prev] = item /\ prev # item
        /\ next = NULL => item = h.prev[h.child[c]]
    BY <1>3, <2>1, ListedItem
  <2>3. /\ cJSON_DetachItemViaPointer(h, c, item).ret = item
        /\ g \in Heap
        /\ g.live = h.live /\ g.type = h.type /\ g.string = h.string
        /\ g.child = IF first THEN [h.child EXCEPT ![c] = next] ELSE h.child
        /\ \A x \in Item :
             g.next[x] = IF x = item THEN NULL
                         ELSE IF ~first /\ x = prev THEN next ELSE h.next[x]
        /\ \A x \in Item :
             g.prev[x] = IF x = item THEN NULL
                         ELSE IF x = next \/ (~first /\ next = NULL /\ x = h.child[c])
                         THEN prev ELSE h.prev[x]
    BY <1>3, <2>1, DetachFields
  <2> HIDE DEF g
  <2>4. \A x \in Item : IsOwner(g, x) <=> IsOwner(h, x)
    BY <2>3 DEF IsOwner, IsReference
  <2>5. Zeroed(g)
    <3>1. /\ c \in h.live /\ prev \in h.live
          /\ h.child[c] \in h.live /\ (next # NULL => next \in h.live)
      BY <2>1, <2>2 DEF Links, Backwards, IsOwner
    <3> QED
      BY <2>1, <2>2, <2>3, <3>1 DEF Links, Zeroed, Heap
  <2>6. /\ o \in [Item -> Link]
        /\ \A x \in Item : o[x] = IF x = item THEN NULL ELSE owner[x]
    BY <2>1 DEF Links, Link
  <2> HIDE DEF o
  <2>7. \A d \in Item : g.child[d] = IF first /\ d = c THEN next ELSE h.child[d]
    BY <2>1, <2>3 DEF Heap
  <2>8. Ends(g, o)
    <3> SUFFICES ASSUME NEW d \in Item, IsOwner(g, d), g.child[d] # NULL
                 PROVE  /\ o[g.child[d]] = d
                        /\ g.prev[g.child[d]] \in Item
                        /\ o[g.prev[g.child[d]]] = d
                        /\ g.next[g.prev[g.child[d]]] = NULL
      BY DEF Ends
    <3>1. CASE d # c
      <4>1. g.child[d] = h.child[d] /\ IsOwner(h, d)
        BY <2>4, <2>7, <3>1
      <4>2. /\ h.child[d] \in Item /\ owner[h.child[d]] = d
            /\ h.prev[h.child[d]] \in Item /\ owner[h.prev[h.child[d]]] = d
            /\ h.next[h.prev[h.child[d]]] = NULL
        BY <2>1, <4>1 DEF Links, Ends, Heap, Link
      <4>3. g.prev[h.child[d]] = h.prev[h.child[d]]
        BY <1>3, <2>2, <2>3, <3>1, <4>2
      <4> QED
        BY <1>3, <2>2, <2>3, <2>6, <3>1, <4>1, <4>2, <4>3
    <3>2. CASE d = c
      <4>1. /\ h.prev[h.child[c]] \in Item /\ owner[h.prev[h.child[c]]] = c
            /\ h.next[h.prev[h.child[c]]] = NULL
        BY <2>2 DEF Links, Ends
      <4>2. CASE first
        <5>1. g.child[c] = next /\ next # NULL
          BY <2>7, <3>2, <4>2
        <5>2. g.prev[next] = h.prev[h.child[c]] /\ h.prev[h.child[c]] # item
          BY <2>2, <2>3, <4>1, <4>2, <5>1
        <5> QED
          BY <2>2, <2>3, <2>6, <3>2, <4>1, <4>2, <5>1, <5>2
      <4>3. CASE ~first /\ next = NULL
        <5>1. g.prev[h.child[c]] = prev
          BY <2>2, <2>3, <4>3
        <5> QED
          BY <2>2, <2>3, <2>6, <2>7, <3>2, <4>3, <5>1
      <4>4. CASE ~first /\ next # NULL
        <5>1. g.prev[h.child[c]] = h.prev[h.child[c]]
          BY <2>2, <2>3, <4>4
        <5>2. h.prev[h.child[c]] # item /\ h.prev[h.child[c]] # prev
          BY <2>1, <2>2, <4>1, <4>4
        <5> QED
          BY <2>2, <2>3, <2>6, <2>7, <3>2, <4>1, <4>4, <5>1, <5>2
      <4> QED
        BY <4>2, <4>3, <4>4
    <3> QED
      BY <3>1, <3>2
  <2>9. Forwards(g, o)
    <3> SUFFICES ASSUME NEW x \in Item, g.next[x] # NULL
                 PROVE  /\ o[x] # NULL
                        /\ o[g.next[x]] = o[x]
                        /\ g.prev[g.next[x]] = x
                        /\ g.child[o[x]] # g.next[x]
      BY DEF Forwards
    <3>1. x # item
      BY <2>3
    <3>2. CASE ~first /\ x = prev
      BY <2>2, <2>3, <2>6, <2>7, <3>1, <3>2
    <3>3. CASE first \/ x # prev
      <4>1. g.next[x] = h.next[x] /\ h.next[x] \in Item
        BY <2>1, <2>3, <3>1, <3>3 DEF Heap, Link
      <4>2. /\ owner[x] \in Item /\ owner[h.next[x]] = owner[x]
            /\ h.prev[h.next[x]] = x
            /\ h.child[owner[x]] # h.next[x]
        BY <4>1 DEF Links, Forwards, Link
      <4>3. h.next[x] # item
        BY <1>3, <2>1, <2>2, <3>3, <4>2
      <4>4. h.next[x] # next
        BY <2>2, <3>1, <4>1, <4>2
      <4>5. owner[x] = c => h.next[x] # h.child[c]
        BY <4>2
      <4>6. h.next[x] # h.child[c]
        BY <2>2, <4>2, <4>5
      <4> QED
        BY <2>3, <2>6, <2>7, <3>1, <4>1, <4>2, <4>3, <4>4, <4>6
    <3> QED
      BY <3>2, <3>3
  <2>10. Backwards(g, o)
    <3> SUFFICES ASSUME NEW x \in Item, o[x] # NULL
          PROVE  /\ x \in g.live
                 /\ IsOwner(g, o[x])
                 /\ g.child[o[x]] # NULL
                 /\ x # g.child[o[x]] => g.prev[x] \in Item /\ g.next[g.prev[x]] = x
                 /\ g.next[x] = NULL => x = g.prev[g.child[o[x]]]
      BY DEF Backwards
    <3>1. x # item /\ o[x] = owner[x] /\ owner[x] \in Item
      BY <2>6 DEF Links, Link
    <3>2. /\ x \in h.live /\ IsOwner(h, owner[x])
          /\ h.child[owner[x]] \in Item /\ owner[h.child[owner[x]]] = owner[x]
          /\ x # h.child[owner[x]] => h.prev[x] \in Item /\ h.next[h.prev[x]] = x
          /\ h.next[x] = NULL => x = h.prev[h.child[owner[x]]]
      BY <2>1, <3>1 DEF Links, Backwards, Ends, Heap, Link
    <3>3. CASE owner[x] # c
      <4>1. g.next[x] = h.next[x] /\ g.child[owner[x]] = h.child[owner[x]]
        BY <2>2, <2>3, <2>7, <3>1, <3>3
      <4>2. g.prev[x] = h.prev[x] /\ g.prev[h.child[owner[x]]] = h.prev[h.child[owner[x]]]
        BY <1>3, <2>2, <2>3, <3>1, <3>2, <3>3
      <4>3. x # h.child[owner[x]] => owner[h.prev[x]] = owner[x]
        BY <3>1, <3>2 DEF Links, Forwards
      <4>4. x # h.child[owner[x]] => g.next[h.prev[x]] = x
        BY <1>3, <2>2, <2>3, <3>2, <3>3, <4>3
      <4> QED
        BY <2>3, <2>4, <3>1, <3>2, <4>1, <4>2, <4>4
    <3>4. CASE owner[x] = c
      <4>1. x # h.child[c] => h.prev[x] \in Item /\ h.next[h.prev[x]] = x
                              /\ h.prev[x] # x
        BY <3>1, <3>4, ListedItem
      <4>2. h.next[x] = NULL => x = h.prev[h.child[c]]
        BY <3>2, <3>4
      <4>3. g.child[c] # NULL
        <5>1. CASE first /\ next = NULL
          <6>1. {item} \in SUBSET Item /\ h.child[owner[x]] \in {item}
            BY <2>1, <3>4, <5>1
          <6>2. \A y \in {item} : h.next[y] = NULL
            BY <5>1
          <6>3. x \in {item}
            <7> DEFINE S == {item}
            <7>1. /\ S \in SUBSET Item /\ h.child[owner[x]] \in S
                  /\ \A y \in S : h.next[y] # NULL => h.next[y] \in S
              BY <6>1, <6>2
            <7> HIDE DEF S
            <7>2. x \in S
              BY <3>1, <7>1 DEF Links, Reached
            <7> QED
              BY <7>2 DEF S
          <6> QED
            BY <3>1, <6>3
        <5> QED
          BY <2>2, <2>7, <5>1
      <4>4. x # g.child[c] => g.prev[x] \in Item /\ g.next[g.prev[x]] = x
        <5> SUFFICES ASSUME x # g.child[c]
                     PROVE  g.prev[x] \in Item /\ g.next[g.prev[x]] = x
          OBVIOUS
        <5>1. x # h.child[c]
          BY <2>7, <3>1
        <5>2. CASE x = next
          BY <2>2, <2>3, <2>7, <3>1, <5>1, <5>2
        <5>3. CASE x # next
          BY <2>1, <2>2, <2>3, <3>1, <4>1, <5>1, <5>3
        <5> QED
          BY <5>2, <5>3
      <4>5. g.next[x] = NULL => x = g.prev[g.child[c]]
        <5> SUFFICES ASSUME g.next[x] = NULL PROVE x = g.prev[g.child[c]]
          OBVIOUS
        <5>1. CASE ~first /\ x = prev
          BY <2>2, <2>3, <2>7, <5>1
        <5>2. CASE first \/ x # prev
          <6>1. h.next[x] = NULL /\ x = h.prev[h.child[c]]
            BY <2>3, <3>1, <4>2, <5>2
          <6>2. next # NULL
            BY <2>2, <3>1, <6>1
          <6> QED
            BY <2>2, <2>3, <2>7, <5>2, <6>1, <6>2
        <5> QED
          BY <5>1, <5>2
      <4> QED
        BY <2>3, <2>4, <3>1, <3>2, <3>4, <4>3, <4>4, <4>5
    <3> QED
      BY <3>3, <3>4
  <2>11. Reached(g, o)
    <3> SUFFICES ASSUME NEW x \in Item, o[x] # NULL, NEW S \in SUBSET Item,
                        g.child[o[x]] \in S,
                        \A y \in S : g.next[y] # NULL => g.next[y] \in S
                 PROVE  x \in S
      BY DEF Reached
    <3>1. x # item /\ o[x] = owner[x] /\ owner[x] \in Item
      BY <2>6 DEF Links, Link
    <3> DEFINE through == IF first THEN owner[x] = c ELSE prev \in S
               T == IF through THEN S \cup {item} ELSE S \ {item}
    <3>2. h.child[owner[x]] \in T
      <4>1. h.child[owner[x]] = item => first /\ owner[x] = c
        BY <1>3, <2>2, <3>1 DEF Links, Backwards, Ends
      <4> QED
        BY <2>7, <3>1, <4>1
    <3>3. ASSUME NEW y \in T, h.next[y] # NULL PROVE h.next[y] \in T
      <4>1. y \in Item /\ h.next[y] \in Item
        BY <2>1, <3>3 DEF Heap, Link
      <4>2. CASE y = item
        <5>1. through
          BY <4>2
        <5>2. next \in S
          BY <2>2, <2>3, <2>7, <3>1, <3>3, <4>2, <5>1
        <5> QED
          BY <4>2, <5>1, <5>2
      <4>3. CASE y # item /\ h.next[y] = item
        <5>1. ~first /\ y = prev
          BY <2>1, <2>2, <4>1, <4>3 DEF Links, Forwards
        <5> QED
          BY <4>3, <5>1
      <4>4. CASE y # item /\ h.next[y] # item
        <5>1. y \in S /\ g.next[y] = h.next[y]
          BY <2>2, <2>3, <4>1, <4>4
        <5> QED
          BY <3>3, <4>4, <5>1
      <4> QED
        BY <4>2, <4>3, <4>4
    <3>4. T \in SUBSET Item
      BY <2>1
    <3> HIDE DEF T
    <3>5. x \in T
      BY <3>1, <3>2, <3>3, <3>4 DEF Links, Reached
    <3> QED
      BY <3>1, <3>5 DEF T
  <2>12. \A i \in H \cup {item} : i \in Item /\ IsRoot(g, o, i)
    <3>1. ASSUME NEW i \in H, i # item PROVE i \in Item /\ IsRoot(g, o, i)
      <4>1. i \in Item /\ IsRoot(h, owner, i)
        BY <3>1 DEF Links
      <4>2. i # prev /\ i # next /\ i # h.child[c]
        BY <2>2, <4>1 DEF IsRoot
      <4> QED
        BY <2>3, <2>6, <3>1, <4>1, <4>2 DEF IsRoot
    <3>2. item \in Item /\ IsRoot(g, o, item)
      BY <2>1, <2>2, <2>3, <2>6 DEF IsRoot
    <3> QED
      BY <3>1, <3>2
  <2>a. Rooted(g, o, H \cup {item})
    BY <2>3, <2>6 DEF Links, Rooted, Heap
  <2>13. WellLinked(g, H \cup {item})
    BY <2>3, <2>5, <2>6, <2>8, <2>9, <2>10, <2>11, <2>12, <2>a
    DEF WellLinked, Links
  <2>14. H \cup ({item} \ {NULL}) = H \cup {item}
    BY <1>3
  <2> QED
    BY <2>1, <2>3, <2>13, <2>14 DEF Link, g
<1> QED
  BY <1>1, <1>2, <1>3

\* A root is put before an item of a list: what cJSON_InsertItemInArray does
\* when the index is within the list.
InsertedBefore(h, c, x, i) ==
  LET prev == h.prev[x]
      placed == [h EXCEPT !.next[i] = x, !.prev[i] = prev, !.prev[x] = i]
  IN  IF x = h.child[c] THEN [placed EXCEPT !.child[c] = i]
                        ELSE [placed EXCEPT !.next[prev] = i]

InsertedBeforeFields(g, h, c, x, i) ==
  LET prev == h.prev[x]
      first == x = h.child[c]
  IN  /\ g.live = h.live /\ g.type = h.type /\ g.string = h.string
      /\ g.strings = h.strings
      /\ g.child = IF first THEN [h.child EXCEPT ![c] = i] ELSE h.child
      /\ \A y \in Item :
           g.next[y] = IF y = i THEN x
                       ELSE IF ~first /\ y = prev THEN i ELSE h.next[y]
      /\ \A y \in Item :
           g.prev[y] = IF y = i THEN prev ELSE IF y = x THEN i ELSE h.prev[y]

\* An item that is put in front of another one joins its list.
LEMMA InsertedBeforeLinks ==
  ASSUME NEW h, NEW owner, NEW H, Links(h, owner, H),
         NEW c \in Item, IsOwner(h, c), NEW x \in Item, owner[x] = c,
         NEW i \in H, i # c, c \notin Deleted(h, i)
  PROVE  /\ \E o : Links(InsertedBefore(h, c, x, i), o, H \ {i}) /\ o[x] = c
         /\ InsertedBeforeFields(InsertedBefore(h, c, x, i), h, c, x, i)
<1> USE NULLAssumption
<1> DEFINE g == InsertedBefore(h, c, x, i)
           prev == h.prev[x]
           first == x = h.child[c]
           o == [owner EXCEPT ![i] = c]
<1>1. h \in Heap /\ i \in Item /\ IsRoot(h, owner, i) /\ i # x /\ x # NULL
  BY DEF Links, IsRoot
<1>2. /\ x \in h.live
      /\ h.child[c] \in Item /\ owner[h.child[c]] = c
      /\ prev \in Item /\ owner[prev] = c
      /\ h.prev[h.child[c]] \in Item /\ owner[h.prev[h.child[c]]] = c
      /\ h.next[h.prev[h.child[c]]] = NULL
      /\ ~first => h.next[prev] = x /\ prev # x
      /\ \A y \in Item : h.next[y] = x => ~first /\ y = prev
      /\ \A d \in Item : IsOwner(h, d) /\ h.child[d] = x => d = c
  BY ListedItem
<1>3. prev # i /\ h.child[c] # i
  BY <1>1, <1>2 DEF IsRoot
<1>4. /\ g \in Heap
      /\ g.live = h.live /\ g.type = h.type /\ g.string = h.string
      /\ g.strings = h.strings
      /\ g.child = IF first THEN [h.child EXCEPT ![c] = i] ELSE h.child
      /\ g.prev = [h.prev EXCEPT ![i] = prev, ![x] = i]
      /\ g.next = IF first THEN [h.next EXCEPT ![i] = x]
                           ELSE [h.next EXCEPT ![i] = x, ![prev] = i]
  <2> DEFINE placed == [h EXCEPT !.next[i] = x, !.prev[i] = prev, !.prev[x] = i]
  <2>1. /\ placed \in Heap
        /\ placed.live = h.live /\ placed.type = h.type
        /\ placed.string = h.string /\ placed.strings = h.strings
        /\ placed.child = h.child
        /\ placed.prev = [h.prev EXCEPT ![i] = prev, ![x] = i]
        /\ placed.next = [h.next EXCEPT ![i] = x]
    BY <1>1, <1>2 DEF Heap, Link
  <2>2. g = IF first THEN [placed EXCEPT !.child[c] = i]
                     ELSE [placed EXCEPT !.next[prev] = i]
    BY DEF InsertedBefore
  <2> HIDE DEF placed, g
  <2> QED
    BY <1>1, <1>2, <2>1, <2>2 DEF Heap, Link
<1> HIDE DEF g
<1>5. \A y \in Item :
        g.next[y] = IF y = i THEN x
                    ELSE IF ~first /\ y = prev THEN i ELSE h.next[y]
  BY <1>1, <1>2, <1>3, <1>4 DEF Heap
<1>6. \A y \in Item :
        g.prev[y] = IF y = i THEN prev ELSE IF y = x THEN i ELSE h.prev[y]
  BY <1>1, <1>2, <1>4 DEF Heap
<1>7. \A d \in Item : g.child[d] = IF first /\ d = c THEN i ELSE h.child[d]
  BY <1>1, <1>4 DEF Heap
<1>8. /\ o \in [Item -> Link]
      /\ \A y \in Item : o[y] = IF y = i THEN c ELSE owner[y]
  BY <1>1 DEF Links, Link
<1> HIDE DEF o
<1>9. \A y \in Item : IsOwner(g, y) <=> IsOwner(h, y)
  BY <1>4 DEF IsOwner, IsReference
<1>10. \A y \in Item : h.next[y] # i
  BY <1>1 DEF Links, Forwards, IsRoot
<1>11. \A d \in Item : IsOwner(h, d) => h.child[d] # i
  BY <1>1 DEF Links, Ends, IsRoot
<1>12. Zeroed(g)
  <2>1. c \in h.live /\ prev \in h.live /\ i \in h.live
    BY <1>1, <1>2 DEF Links, Backwards, IsOwner, IsRoot
  <2> QED
    BY <1>1, <1>2, <1>4, <1>5, <1>6, <1>7, <2>1 DEF Links, Zeroed
<1>13. Ends(g, o)
  <2> SUFFICES ASSUME NEW d \in Item, IsOwner(g, d), g.child[d] # NULL
               PROVE  /\ o[g.child[d]] = d
                      /\ g.prev[g.child[d]] \in Item
                      /\ o[g.prev[g.child[d]]] = d
                      /\ g.next[g.prev[g.child[d]]] = NULL
    BY DEF Ends
  <2>1. CASE d = c /\ first
    BY <1>1, <1>2, <1>3, <1>5, <1>6, <1>7, <1>8, <2>1
  <2>2. CASE ~(d = c /\ first)
    <3>1. g.child[d] = h.child[d] /\ IsOwner(h, d) /\ h.child[d] \in Item
      BY <1>1, <1>7, <1>9, <2>2 DEF Heap, Link
    <3>2. /\ owner[h.child[d]] = d /\ h.prev[h.child[d]] \in Item
          /\ owner[h.prev[h.child[d]]] = d /\ h.next[h.prev[h.child[d]]] = NULL
      BY <3>1 DEF Links, Ends
    <3>3. h.child[d] # x /\ h.child[d] # i
      BY <1>2, <1>11, <2>2, <3>1
    <3>4. g.prev[h.child[d]] = h.prev[h.child[d]]
      BY <1>6, <3>1, <3>3
    <3>5. h.prev[h.child[d]] # i
      BY <1>1, <3>1, <3>2 DEF IsRoot
    <3>6. ~first => h.prev[h.child[d]] # prev
      BY <1>1, <1>2, <3>2
    <3> QED
      BY <1>5, <1>8, <3>1, <3>2, <3>3, <3>4, <3>5, <3>6
  <2> QED
    BY <2>1, <2>2
<1>14. Forwards(g, o)
  <2> SUFFICES ASSUME NEW y \in Item, g.next[y] # NULL
               PROVE  /\ o[y] # NULL
                      /\ o[g.next[y]] = o[y]
                      /\ g.prev[g.next[y]] = y
                      /\ g.child[o[y]] # g.next[y]
    BY DEF Forwards
  <2>1. CASE y = i
    BY <1>1, <1>2, <1>5, <1>6, <1>7, <1>8, <2>1
  <2>2. CASE y # i /\ ~first /\ y = prev
    BY <1>1, <1>2, <1>3, <1>5, <1>6, <1>7, <1>8, <2>2
  <2>3. CASE y # i /\ (first \/ y # prev)
    <3>1. g.next[y] = h.next[y] /\ h.next[y] \in Item
      BY <1>1, <1>5, <2>3 DEF Heap, Link
    <3>2. /\ owner[y] \in Item /\ owner[h.next[y]] = owner[y]
          /\ h.prev[h.next[y]] = y /\ h.child[owner[y]] # h.next[y]
      BY <3>1 DEF Links, Forwards, Link
    <3>3. h.next[y] # x /\ h.next[y] # i
      BY <1>2, <1>10, <2>3
    <3> QED
      BY <1>6, <1>7, <1>8, <2>3, <3>1, <3>2, <3>3
  <2> QED
    BY <2>1, <2>2, <2>3
<1>15. Backwards(g, o)
  <2> SUFFICES ASSUME NEW y \in Item, o[y] # NULL
        PROVE  /\ y \in g.live
               /\ IsOwner(g, o[y])
               /\ g.child[o[y]] # NULL
               /\ y # g.child[o[y]] => g.prev[y] \in Item /\ g.next[g.prev[y]] = y
               /\ g.next[y] = NULL => y = g.prev[g.child[o[y]]]
    BY DEF Backwards
  <2>1. CASE y = i
    BY <1>1, <1>2, <1>3, <1>4, <1>5, <1>6, <1>7, <1>8, <1>9, <2>1 DEF IsRoot
  <2>2. CASE y # i
    <3>1. o[y] = owner[y] /\ owner[y] \in Item
      BY <1>8, <2>2 DEF Links, Link
    <3>2. /\ y \in h.live /\ IsOwner(h, owner[y])
          /\ h.child[owner[y]] \in Item
          /\ y # h.child[owner[y]] => h.prev[y] \in Item /\ h.next[h.prev[y]] = y
          /\ h.next[y] = NULL => y = h.prev[h.child[owner[y]]]
      BY <1>1, <3>1 DEF Links, Backwards, Heap, Link
    <3>3. g.child[owner[y]] # NULL
      BY <1>1, <1>7, <3>1, <3>2
    <3>4. y # g.child[o[y]] => g.prev[y] \in Item /\ g.next[g.prev[y]] = y
      <4> SUFFICES ASSUME y # g.child[owner[y]]
                   PROVE  g.prev[y] \in Item /\ g.next[g.prev[y]] = y
        BY <3>1
      <4>1. CASE y = x
        BY <1>1, <1>5, <1>6, <2>2, <4>1
      <4>2. CASE y # x
        <5>1. y # h.child[owner[y]]
          BY <1>2, <1>7, <3>1, <4>2
        <5>2. h.prev[y] # i /\ (~first => h.prev[y] # prev)
          BY <1>1, <1>2, <3>2, <4>2, <5>1 DEF IsRoot
        <5> QED
          BY <1>5, <1>6, <2>2, <3>2, <4>2, <5>1, <5>2
      <4> QED
        BY <4>1, <4>2
    <3>5. g.next[y] = NULL => y = g.prev[g.child[o[y]]]
      <4> SUFFICES ASSUME g.next[y] = NULL PROVE y = g.prev[g.child[owner[y]]]
        BY <3>1
      <4>1. h.next[y] = NULL
        BY <1>1, <1>5, <2>2
      <4>2. y = h.prev[h.child[owner[y]]]
        BY <3>2, <4>1
      <4>3. CASE owner[y] = c /\ first
        BY <1>6, <1>7, <4>2, <4>3, <1>1
      <4>4. CASE ~(owner[y] = c /\ first)
        <5>1. g.child[owner[y]] = h.child[owner[y]]
          BY <1>7, <3>1, <4>4
        <5>2. h.child[owner[y]] # i /\ h.child[owner[y]] # x
          BY <1>2, <1>11, <3>1, <3>2, <4>4
        <5> QED
          BY <1>6, <3>2, <4>2, <5>1, <5>2
      <4> QED
        BY <4>3, <4>4
    <3> QED
      BY <1>4, <1>9, <3>1, <3>2, <3>3, <3>4, <3>5
  <2> QED
    BY <2>1, <2>2
<1>16. Reached(g, o)
  <2> SUFFICES ASSUME NEW y \in Item, o[y] # NULL, NEW S \in SUBSET Item,
                      g.child[o[y]] \in S,
                      \A z \in S : g.next[z] # NULL => g.next[z] \in S
               PROVE  y \in S
    BY DEF Reached
  <2> DEFINE T == S \ {i}
  <2>1. \A z \in T : h.next[z] # NULL => h.next[z] \in T
    <3> SUFFICES ASSUME NEW z \in T, h.next[z] # NULL PROVE h.next[z] \in T
      OBVIOUS
    <3>1. CASE ~first /\ z = prev
      <4>1. g.next[z] = i /\ g.next[i] = x /\ h.next[z] = x
        BY <1>1, <1>2, <1>5, <3>1
      <4> QED
        BY <1>1, <4>1
    <3>2. CASE first \/ z # prev
      BY <1>5, <1>10, <3>2
    <3> QED
      BY <3>1, <3>2
  <2>2. o[y] \in Item /\ IsOwner(h, o[y])
    <3>1. o[y] \in Item
      BY <1>8 DEF Link
    <3>2. IsOwner(h, o[y])
      BY <1>8 DEF Links, Backwards
    <3> QED
      BY <3>1, <3>2
  <2>3. h.child[o[y]] \in T
    <3>1. CASE first /\ o[y] = c
      <4>1. i \in S /\ g.next[i] = x
        BY <1>1, <1>5, <1>7, <2>2, <3>1
      <4> QED
        BY <1>1, <3>1, <4>1
    <3>2. CASE ~(first /\ o[y] = c)
      BY <1>7, <1>11, <2>2, <3>2
    <3> QED
      BY <3>1, <3>2
  <2>4. T \in SUBSET Item
    OBVIOUS
  <2>5. \A z \in Item : owner[z] = o[y] => z \in T
    <3> HIDE DEF T
    <3> QED
      BY <2>1, <2>2, <2>3, <2>4 DEF Links, Reached
  <2>6. CASE y # i
    BY <1>8, <2>5, <2>6
  <2>7. CASE y = i
    <3>1. CASE first
      BY <1>1, <1>7, <1>8, <2>7, <3>1
    <3>2. CASE ~first
      <4>1. prev \in S /\ g.next[prev] = i
        BY <1>1, <1>2, <1>3, <1>5, <1>8, <2>5, <2>7, <3>2
      <4> QED
        BY <1>1, <2>7, <4>1
    <3> QED
      BY <3>1, <3>2
  <2> QED
    BY <2>6, <2>7
<1>17. \A j \in H \ {i} : j \in Item /\ IsRoot(g, o, j)
  <2> SUFFICES ASSUME NEW j \in H \ {i} PROVE j \in Item /\ IsRoot(g, o, j)
    OBVIOUS
  <2>1. j \in Item /\ IsRoot(h, owner, j)
    BY DEF Links
  <2>2. j # x /\ j # prev
    BY <1>1, <1>2, <2>1 DEF IsRoot
  <2> QED
    BY <1>4, <1>5, <1>6, <1>8, <2>1, <2>2 DEF IsRoot
<1>a. Rooted(g, o, H \ {i})
  <2>1. Rooted(h, [owner EXCEPT ![i] = c], H \ {i})
    BY AdoptRooted DEF IsOwner
  <2> QED
    BY <1>4, <2>1 DEF Rooted, o
<1>18. Links(g, o, H \ {i}) /\ o[x] = c
  BY <1>1, <1>4, <1>8, <1>12, <1>13, <1>14, <1>15, <1>16, <1>17, <1>a DEF Links
<1>19. InsertedBeforeFields(g, h, c, x, i)
  BY <1>4, <1>5, <1>6 DEF InsertedBeforeFields
<1> QED
  BY <1>18, <1>19 DEF g

\* cJSON_InsertItemInArray: before the item at the index, or at the end.
LEMMA InsertLinks ==
  ASSUME NEW h, NEW H, WellLinked(h, H), NEW c \in Item, IsOwner(h, c),
         NEW i \in H, i # c, c \notin Deleted(h, i), NEW which \in Nat
  PROVE  LET r == cJSON_InsertItemInArray(h, c, which, i)
         IN  /\ r.ret \in BOOLEAN
             /\ r.ret => WellLinked(r.heap, H \ {i})
             /\ ~r.ret => r.heap = h
<1> USE NULLAssumption
<1>1. PICK owner : Links(h, owner, H)
  BY DEF WellLinked
<1> DEFINE x == get_array_item(h, c, which)
           prev == h.prev[x]
           placed == [h EXCEPT !.next[i] = x, !.prev[i] = prev, !.prev[x] = i]
           r == cJSON_InsertItemInArray(h, c, which, i)
<1>2. x \in Link /\ (x # NULL => x \in Item /\ owner[x] = c)
  BY <1>1, GetArrayItemOwned
<1>3. r = IF x = NULL THEN add_item_to_array(h, c, i)
          ELSE IF x = h.child[c]
          THEN Returns(TRUE, [placed EXCEPT !.child[c] = i])
          ELSE IF prev = NULL THEN Returns(FALSE, h)
          ELSE Returns(TRUE, [placed EXCEPT !.next[prev] = i])
  BY DEF cJSON_InsertItemInArray
<1>4. CASE x = NULL
  <2> HIDE DEF r, x
  <2> QED
    BY <1>3, <1>4, AddLinks DEF r, x
<1>5. CASE x # NULL
  <2>1. x # h.child[c] => prev # NULL
    BY <1>1, <1>2, <1>5, ListedItem
  <2>2. r = Returns(TRUE, InsertedBefore(h, c, x, i))
    <3> HIDE DEF x, r
    <3> QED
      BY <1>3, <1>5, <2>1 DEF InsertedBefore
  <2>3. \E o : Links(InsertedBefore(h, c, x, i), o, H \ {i})
    <3> HIDE DEF x, r
    <3>1. x \in Item /\ owner[x] = c
      BY <1>2, <1>5
    <3>2. \E o : Links(InsertedBefore(h, c, x, i), o, H \ {i}) /\ o[x] = c
      BY <1>1, <3>1, InsertedBeforeLinks
    <3> QED
      BY <3>2
  <2> QED
    BY <2>2, <2>3 DEF Returns, WellLinked
<1> QED
  BY <1>4, <1>5

-----------------------------------------------------------------------------
(* Deleting.                                                               *)

\* What is freed besides a root hangs in a list that is freed.
LEMMA DeletedOwned ==
  ASSUME NEW h, NEW owner, NEW H, Links(h, owner, H), NEW i \in H,
         NEW x \in Deleted(h, i), x # i
  PROVE  owner[x] # NULL /\ owner[x] \in Deleted(h, i)
<1> USE NULLAssumption
<1> DEFINE gone == Deleted(h, i)
           Closed(S) == /\ i \in S
                        /\ \A y \in S :
                             /\ h.next[y] = NULL \/ h.next[y] \in S
                             /\ \/ IsReference(h, y)
                                \/ h.child[y] = NULL
                                \/ h.child[y] \in S
<1>1. i \in Item /\ IsRoot(h, owner, i) /\ h \in Heap
  BY DEF Links
<1>2. gone = {y \in Item : \A S \in SUBSET Item : Closed(S) => y \in S}
  BY DEF Deleted
<1>3. /\ gone \in SUBSET Item
      /\ i \in gone
      /\ \A y \in gone :
           /\ h.next[y] # NULL => h.next[y] \in gone
           /\ ~IsReference(h, y) /\ h.child[y] # NULL => h.child[y] \in gone
  BY <1>1, DeletedClosed
<1>4. \A S \in SUBSET Item : Closed(S) => gone \subseteq S
  BY <1>2
<1> HIDE DEF gone
<1> DEFINE S == {y \in gone : y = i \/ (owner[y] # NULL /\ owner[y] \in gone)}
<1>5. i \in S /\ S \in SUBSET Item
  BY <1>3
<1>6. ASSUME NEW y \in S, h.next[y] # NULL PROVE h.next[y] \in S
  <2>1. h.next[y] \in gone /\ owner[h.next[y]] = owner[y] /\ owner[y] # NULL
    BY <1>3, <1>6 DEF Links, Forwards
  <2>2. y # i
    BY <1>1, <2>1 DEF IsRoot
  <2> QED
    BY <2>1, <2>2
<1>7. ASSUME NEW y \in S, ~IsReference(h, y), h.child[y] # NULL
      PROVE  h.child[y] \in S
  <2>1. h.child[y] \in gone
    BY <1>3, <1>7
  <2>2. y \in h.live
    BY <1>3, <1>7 DEF Links, Zeroed
  <2>3. owner[h.child[y]] = y
    BY <1>3, <1>7, <2>2 DEF Links, Ends, IsOwner
  <2> QED
    BY <1>3, <2>1, <2>3
<1>8. Closed(S)
  BY <1>5, <1>6, <1>7
<1> HIDE DEF S
<1>9. gone \subseteq S
  BY <1>4, <1>5, <1>8
<1>10. x \in gone
  BY DEF gone
<1> QED
  BY <1>9, <1>10 DEF S, gone

\* cJSON_Delete clears the fields of what it frees.
LEMMA DeleteFields ==
  ASSUME NEW h \in Heap, NEW i \in Item
  PROVE  LET g == cJSON_Delete(h, i)
             gone == Deleted(h, i)
         IN  /\ g \in Heap
             /\ g.live = h.live \ gone
             /\ \A x \in Item :
                  /\ g.next[x] = IF x \in gone THEN NULL ELSE h.next[x]
                  /\ g.prev[x] = IF x \in gone THEN NULL ELSE h.prev[x]
                  /\ g.child[x] = IF x \in gone THEN NULL ELSE h.child[x]
                  /\ g.type[x] = IF x \in gone THEN {} ELSE h.type[x]
                  /\ g.string[x] = IF x \in gone THEN NULL ELSE h.string[x]
<1> USE NULLAssumption
<1> DEFINE g == cJSON_Delete(h, i)
           gone == Deleted(h, i)
           keys == Cardinality({x \in gone : OwnsKey(h, x)})
           texts == Cardinality({x \in gone : OwnsText(h, x)})
           Wiped(field, nothing) ==
             [x \in Item |-> IF x \in gone THEN nothing ELSE field[x]]
<1>1. gone \in SUBSET Item
  BY DeletedClosed
<1>2. i # NULL
  OBVIOUS
<1>3. g = [next    |-> Wiped(h.next, NULL),
           prev    |-> Wiped(h.prev, NULL),
           child   |-> Wiped(h.child, NULL),
           type    |-> Wiped(h.type, {}),
           string  |-> Wiped(h.string, NULL),
           live    |-> h.live \ gone,
           strings |-> h.strings - keys - texts]
  BY <1>2 DEF cJSON_Delete
<1> HIDE DEF gone
<1>4. keys \in Nat /\ texts \in Nat
  <2>1. IsFiniteSet({x \in gone : OwnsKey(h, x)})
    BY <1>1, ItemAssumption, FS_Subset
  <2>2. IsFiniteSet({x \in gone : OwnsText(h, x)})
    BY <1>1, ItemAssumption, FS_Subset
  <2> QED
    BY <2>1, <2>2, FS_CardinalityType
<1> HIDE DEF keys, texts, g
<1>5. h.strings - keys - texts \in Int
  BY <1>4 DEF Heap
<1>6. /\ Wiped(h.next, NULL) \in [Item -> Link]
      /\ Wiped(h.prev, NULL) \in [Item -> Link]
      /\ Wiped(h.child, NULL) \in [Item -> Link]
      /\ Wiped(h.type, {}) \in [Item -> SUBSET Bit]
      /\ Wiped(h.string, NULL) \in [Item -> Key \cup {NULL}]
      /\ h.live \ gone \in SUBSET Item
  BY DEF Heap, Link
<1>7. g \in Heap
  BY <1>3, <1>5, <1>6 DEF Heap
<1>8. /\ g.live = h.live \ gone
      /\ \A x \in Item :
           /\ g.next[x] = IF x \in gone THEN NULL ELSE h.next[x]
           /\ g.prev[x] = IF x \in gone THEN NULL ELSE h.prev[x]
           /\ g.child[x] = IF x \in gone THEN NULL ELSE h.child[x]
           /\ g.type[x] = IF x \in gone THEN {} ELSE h.type[x]
           /\ g.string[x] = IF x \in gone THEN NULL ELSE h.string[x]
  BY <1>3
<1> QED
  BY <1>7, <1>8 DEF g, gone

\* cJSON_Delete of a root frees exactly what hangs below it.
LEMMA DeleteLinks ==
  ASSUME NEW h, NEW H, WellLinked(h, H), NEW i \in H \cup {NULL}
  PROVE  WellLinked(cJSON_Delete(h, i), H \ {i})
<1> USE NULLAssumption
<1>1. PICK owner : Links(h, owner, H)
  BY DEF WellLinked
<1>2. CASE i = NULL
  BY <1>1, <1>2 DEF cJSON_Delete, WellLinked, Links
<1>3. CASE i # NULL
  <2>1. i \in Item /\ i \in H /\ IsRoot(h, owner, i) /\ h \in Heap
    BY <1>1, <1>3 DEF Links
  <2> DEFINE gone == Deleted(h, i)
             g == cJSON_Delete(h, i)
             o == [x \in Item |-> IF x \in gone THEN NULL ELSE owner[x]]
  <2>3. gone \in SUBSET Item /\ i \in gone
        /\ \A x \in gone :
             /\ h.next[x] # NULL => h.next[x] \in gone
             /\ ~IsReference(h, x) /\ h.child[x] # NULL => h.child[x] \in gone
    BY <2>1, DeletedClosed
  \* Whatever is freed besides the root hangs in a list that is freed.
  <2>5. ASSUME NEW x \in gone, x # i
        PROVE  owner[x] # NULL /\ owner[x] \in gone
    BY <1>1, <2>1, <2>5, DeletedOwned
  \* Whatever hangs in a list that is freed is freed.
  <2>6. ASSUME NEW x \in Item, owner[x] # NULL, owner[x] \in gone
        PROVE  x \in gone
    BY <1>1, <2>1, <2>6, DeletedFamily
  <2>7. /\ g \in Heap
        /\ g.live = h.live \ gone
        /\ \A x \in Item :
             /\ g.next[x] = IF x \in gone THEN NULL ELSE h.next[x]
             /\ g.prev[x] = IF x \in gone THEN NULL ELSE h.prev[x]
             /\ g.child[x] = IF x \in gone THEN NULL ELSE h.child[x]
             /\ g.type[x] = IF x \in gone THEN {} ELSE h.type[x]
             /\ g.string[x] = IF x \in gone THEN NULL ELSE h.string[x]
    BY <2>1, DeleteFields
  <2> HIDE DEF gone
  <2> HIDE DEF g
  <2>8. o \in [Item -> Link] /\ \A x \in Item : o[x] = IF x \in gone THEN NULL
                                                       ELSE owner[x]
    BY <1>1 DEF Links, Link
  <2> HIDE DEF o
  <2>9. \A x \in Item : IsOwner(g, x) => IsOwner(h, x) /\ x \notin gone
    BY <2>7 DEF IsOwner, IsReference
  <2>10. \A x \in Item \ gone : IsOwner(h, x) => IsOwner(g, x)
    BY <2>7 DEF IsOwner, IsReference
  <2>11. Zeroed(g)
    BY <1>1, <2>7 DEF Links, Zeroed
  <2>12. Ends(g, o)
    <3> SUFFICES ASSUME NEW d \in Item, IsOwner(g, d), g.child[d] # NULL
                 PROVE  /\ o[g.child[d]] = d
                        /\ g.prev[g.child[d]] \in Item
                        /\ o[g.prev[g.child[d]]] = d
                        /\ g.next[g.prev[g.child[d]]] = NULL
      BY DEF Ends
    <3>1. /\ d \notin gone /\ g.child[d] = h.child[d] /\ h.child[d] \in Item
          /\ owner[h.child[d]] = d /\ h.prev[h.child[d]] \in Item
          /\ owner[h.prev[h.child[d]]] = d /\ h.next[h.prev[h.child[d]]] = NULL
      BY <1>1, <2>1, <2>7, <2>9 DEF Links, Ends, Heap, Link
    <3>2. h.child[d] \notin gone /\ h.prev[h.child[d]] \notin gone
      BY <2>1, <2>5, <3>1 DEF IsRoot
    <3> QED
      BY <2>7, <2>8, <3>1, <3>2
  <2>13. Forwards(g, o)
    <3> SUFFICES ASSUME NEW x \in Item, g.next[x] # NULL
                 PROVE  /\ o[x] # NULL
                        /\ o[g.next[x]] = o[x]
                        /\ g.prev[g.next[x]] = x
                        /\ g.child[o[x]] # g.next[x]
      BY DEF Forwards
    <3>1. x \notin gone /\ g.next[x] = h.next[x] /\ h.next[x] \in Item
      BY <2>1, <2>7 DEF Heap, Link
    <3>2. /\ owner[x] \in Item /\ owner[h.next[x]] = owner[x]
          /\ h.prev[h.next[x]] = x /\ h.child[owner[x]] # h.next[x]
      BY <1>1, <3>1 DEF Links, Forwards, Link
    <3>3. owner[x] \notin gone /\ h.next[x] \notin gone
      BY <2>1, <2>5, <2>6, <3>1, <3>2 DEF IsRoot
    <3> QED
      BY <2>7, <2>8, <3>1, <3>2, <3>3
  <2>14. Backwards(g, o)
    <3> SUFFICES ASSUME NEW x \in Item, o[x] # NULL
          PROVE  /\ x \in g.live
                 /\ IsOwner(g, o[x])
                 /\ g.child[o[x]] # NULL
                 /\ x # g.child[o[x]] => g.prev[x] \in Item /\ g.next[g.prev[x]] = x
                 /\ g.next[x] = NULL => x = g.prev[g.child[o[x]]]
      BY DEF Backwards
    <3>1. x \notin gone /\ o[x] = owner[x] /\ owner[x] \in Item
      BY <1>1, <2>8 DEF Links, Link
    <3>2. owner[x] \notin gone
      BY <2>6, <3>1
    <3>3. /\ x \in h.live /\ IsOwner(h, owner[x])
          /\ h.child[owner[x]] \in Item /\ owner[h.child[owner[x]]] = owner[x]
          /\ x # h.child[owner[x]] => h.prev[x] \in Item /\ h.next[h.prev[x]] = x
          /\ h.next[x] = NULL => x = h.prev[h.child[owner[x]]]
      BY <1>1, <2>1, <3>1 DEF Links, Backwards, Ends, Heap, Link
    <3>4. h.child[owner[x]] \notin gone
      BY <2>1, <2>5, <3>1, <3>2, <3>3 DEF IsRoot
    <3>5. x # h.child[owner[x]] => h.prev[x] \notin gone
      <4> SUFFICES ASSUME x # h.child[owner[x]] PROVE h.prev[x] \notin gone
        OBVIOUS
      <4>1. owner[h.prev[x]] = owner[x]
        BY <1>1, <3>1, <3>3 DEF Links, Forwards
      <4> QED
        BY <2>1, <2>5, <3>1, <3>2, <4>1 DEF IsRoot
    <3> QED
      BY <2>7, <2>10, <3>1, <3>2, <3>3, <3>4, <3>5
  <2>15. Reached(g, o)
    <3> SUFFICES ASSUME NEW x \in Item, o[x] # NULL, NEW S \in SUBSET Item,
                        g.child[o[x]] \in S,
                        \A y \in S : g.next[y] # NULL => g.next[y] \in S
                 PROVE  x \in S
      BY DEF Reached
    <3>1. x \notin gone /\ o[x] = owner[x] /\ owner[x] \in Item /\ owner[x] \notin gone
      BY <1>1, <2>6, <2>8 DEF Links, Link
    <3> DEFINE T == S \cup gone
    <3>2. T \in SUBSET Item /\ h.child[owner[x]] \in T
      BY <2>3, <2>7, <3>1
    <3>3. \A y \in T : h.next[y] # NULL => h.next[y] \in T
      BY <2>3, <2>7
    <3> HIDE DEF T
    <3>4. x \in T
      BY <1>1, <3>1, <3>2, <3>3 DEF Links, Reached
    <3> QED
      BY <3>1, <3>4 DEF T
  <2>16. \A j \in H \ {i} : j \in Item /\ IsRoot(g, o, j)
    <3> SUFFICES ASSUME NEW j \in H \ {i} PROVE j \in Item /\ IsRoot(g, o, j)
      OBVIOUS
    <3>1. j \in Item /\ IsRoot(h, owner, j)
      BY <1>1 DEF Links
    <3>2. j \notin gone
      BY <2>5, <3>1 DEF IsRoot
    <3> QED
      BY <2>7, <2>8, <3>1, <3>2 DEF IsRoot
  <2>a. Rooted(g, o, H \ {i})
    <3> SUFFICES ASSUME NEW S \in SUBSET Item, H \ {i} \subseteq S,
                        \A x \in g.live : o[x] \in S => x \in S
                 PROVE  g.live \subseteq S
      BY DEF Rooted
    <3> DEFINE T == S \cup gone
    <3>1. T \in SUBSET Item /\ H \subseteq T
      BY <2>3
    <3>2. ASSUME NEW x \in h.live, owner[x] \in T PROVE x \in T
      <4>1. x \in Item /\ owner[x] # NULL
        BY <2>1, <3>1, <3>2 DEF Heap
      <4>2. CASE owner[x] \in gone
        BY <2>6, <4>1, <4>2
      <4>3. CASE owner[x] \notin gone /\ x \notin gone
        BY <2>7, <2>8, <3>2, <4>1, <4>3
      <4> QED
        BY <4>2, <4>3
    <3>3. h.live \subseteq T
      <4> HIDE DEF T
      <4> QED
        BY <1>1, <3>1, <3>2 DEF Links, Rooted
    <3> QED
      BY <2>7, <3>3
  <2>17. Links(g, o, H \ {i})
    BY <2>7, <2>8, <2>11, <2>12, <2>13, <2>14, <2>15, <2>16, <2>a DEF Links
  <2> QED
    BY <2>17 DEF WellLinked, g
<1> QED
  BY <1>2, <1>3

-----------------------------------------------------------------------------
(* Replacing.                                                              *)

\* Two heaps with the same fields are the same heap.
LEMMA SameFields ==
  ASSUME NEW g \in Heap, NEW h \in Heap,
         \A x \in Item : /\ g.next[x] = h.next[x]
                         /\ g.prev[x] = h.prev[x]
                         /\ g.child[x] = h.child[x],
         g.type = h.type, g.string = h.string,
         g.live = h.live, g.strings = h.strings
  PROVE  g = h
<1>1. g.next = h.next /\ g.prev = h.prev /\ g.child = h.child
  BY DEF Heap
<1> QED
  BY <1>1 DEF Heap

\* The item after cJSON_ReplaceItemViaPointer has put the replacement in its
\* place and before it deletes it.
Replaced(h, c, item, i) ==
  LET next == h.next[item]
      prev == h.prev[item]
      taken == [h EXCEPT !.next[i] = next, !.prev[i] = prev]
      joined == IF next = NULL THEN taken ELSE [taken EXCEPT !.prev[next] = i]
      first == h.child[c]
      placed ==
        IF first = item
        THEN [joined EXCEPT
                !.prev[i] = IF joined.prev[first] = first THEN i ELSE @,
                !.child[c] = i]
        ELSE LET linked == IF prev = NULL THEN joined
                           ELSE [joined EXCEPT !.next[prev] = i]
             IN  IF next = NULL THEN [linked EXCEPT !.prev[first] = i]
                                ELSE linked
  IN  Unlinked(placed, item)

\* To replace an item is to insert the replacement before it and to detach it.
LEMMA ReplacedIsInsertedAndDetached ==
  ASSUME NEW h, NEW owner, NEW H, Links(h, owner, H),
         NEW c \in Item, IsOwner(h, c), NEW item \in Item, owner[item] = c,
         NEW i \in H, i # c, c \notin Deleted(h, i)
  PROVE  Replaced(h, c, item, i) =
           cJSON_DetachItemViaPointer(InsertedBefore(h, c, item, i), c, item).heap
<1> USE NULLAssumption
<1> DEFINE next == h.next[item]
           prev == h.prev[item]
           first == item = h.child[c]
           g == InsertedBefore(h, c, item, i)
           d == cJSON_DetachItemViaPointer(g, c, item).heap
<1>1. h \in Heap /\ i \in Item /\ IsRoot(h, owner, i) /\ i # item /\ item # NULL
  BY DEF Links, IsRoot
<1>2. /\ h.child[c] \in Item /\ owner[h.child[c]] = c
      /\ prev \in Item /\ owner[prev] = c
      /\ next # item
      /\ next # NULL => /\ next \in Item /\ owner[next] = c
                        /\ next # h.child[c]
      /\ ~first => prev # item
      /\ next = NULL => item = h.prev[h.child[c]]
      /\ h.next[h.prev[h.child[c]]] = NULL
  BY ListedItem
<1>3. i # prev /\ i # next /\ i # h.child[c]
  BY <1>1, <1>2 DEF IsRoot
<1>4. first => (prev = item <=> next = NULL)
  BY <1>2
<1>b. /\ \E o : Links(g, o, H \ {i}) /\ o[item] = c
      /\ InsertedBeforeFields(g, h, c, item, i)
  BY InsertedBeforeLinks
<1> HIDE DEF g
<1>5. /\ g.live = h.live /\ g.type = h.type /\ g.string = h.string
      /\ g.strings = h.strings
      /\ g.child = IF first THEN [h.child EXCEPT ![c] = i] ELSE h.child
      /\ \A y \in Item :
           g.next[y] = IF y = i THEN item
                       ELSE IF ~first /\ y = prev THEN i ELSE h.next[y]
      /\ \A y \in Item :
           g.prev[y] = IF y = i THEN prev ELSE IF y = item THEN i ELSE h.prev[y]
  BY <1>b DEF InsertedBeforeFields
<1>a. PICK o : Links(g, o, H \ {i}) /\ o[item] = c
  BY <1>b
<1>6. IsOwner(g, c)
  BY <1>5 DEF IsOwner, IsReference
<1>7. g.next[item] = next /\ g.prev[item] = i /\ item # g.child[c]
  BY <1>1, <1>2, <1>3, <1>5 DEF Heap
<1>8. /\ d \in Heap
      /\ d.live = g.live /\ d.type = g.type /\ d.string = g.string
      /\ d.strings = g.strings
      /\ d.child = g.child
      /\ \A x \in Item :
           d.next[x] = IF x = item THEN NULL
                       ELSE IF x = i THEN next ELSE g.next[x]
      /\ \A x \in Item :
           d.prev[x] = IF x = item THEN NULL
                       ELSE IF x = next \/ (next = NULL /\ x = g.child[c])
                       THEN i ELSE g.prev[x]
  <2>1. LET first2 == item = g.child[c]
        IN  /\ d \in Heap
            /\ d.live = g.live /\ d.type = g.type /\ d.string = g.string
            /\ d.strings = g.strings
            /\ d.child = IF first2 THEN [g.child EXCEPT ![c] = g.next[item]]
                                   ELSE g.child
            /\ \A x \in Item :
                 d.next[x] = IF x = item THEN NULL
                             ELSE IF ~first2 /\ x = g.prev[item]
                             THEN g.next[item] ELSE g.next[x]
            /\ \A x \in Item :
                 d.prev[x] = IF x = item THEN NULL
                             ELSE IF \/ x = g.next[item]
                                     \/ ~first2 /\ g.next[item] = NULL
                                        /\ x = g.child[c]
                             THEN g.prev[item] ELSE g.prev[x]
    BY <1>a, <1>6, DetachFields
  <2> HIDE DEF d
  <2> QED
    BY <1>7, <2>1
<1> HIDE DEF d
<1> DEFINE taken == [h EXCEPT !.next[i] = next, !.prev[i] = prev]
           joined == IF next = NULL THEN taken ELSE [taken EXCEPT !.prev[next] = i]
           linked == IF prev = NULL THEN joined ELSE [joined EXCEPT !.next[prev] = i]
           placed ==
             IF h.child[c] = item
             THEN [joined EXCEPT
                     !.prev[i] = IF joined.prev[h.child[c]] = h.child[c]
                                 THEN i ELSE @,
                     !.child[c] = i]
             ELSE IF next = NULL THEN [linked EXCEPT !.prev[h.child[c]] = i]
                                 ELSE linked
           r == Replaced(h, c, item, i)
<1>9. r = Unlinked(placed, item)
  BY DEF Replaced
<1>10. /\ joined \in Heap
       /\ joined.live = h.live /\ joined.type = h.type
       /\ joined.string = h.string /\ joined.strings = h.strings
       /\ joined.child = h.child
       /\ joined.next = [h.next EXCEPT ![i] = next]
       /\ joined.prev = IF next = NULL THEN [h.prev EXCEPT ![i] = prev]
                        ELSE [h.prev EXCEPT ![i] = prev, ![next] = i]
  BY <1>1, <1>2 DEF Heap, Link
<1> HIDE DEF joined
<1>11. CASE first
  <2>1. joined.prev[h.child[c]] = prev
    BY <1>1, <1>2, <1>3, <1>10, <1>11 DEF Heap
  <2>2. /\ placed \in Heap
        /\ placed.live = h.live /\ placed.type = h.type
        /\ placed.string = h.string /\ placed.strings = h.strings
        /\ placed.child = [h.child EXCEPT ![c] = i]
        /\ placed.next = joined.next
        /\ placed.prev = [joined.prev EXCEPT ![i] = IF prev = item THEN i ELSE prev]
    <3> DEFINE v == IF joined.prev[h.child[c]] = h.child[c] THEN i
                    ELSE joined.prev[i]
               turned == [joined EXCEPT !.prev[i] = v]
    <3>1. v = IF prev = item THEN i ELSE prev
      BY <1>1, <1>2, <1>3, <1>10, <1>11, <2>1 DEF Heap
    <3>2. placed = [joined EXCEPT !.prev[i] = v, !.child[c] = i]
      BY <1>11
    <3> HIDE DEF v, placed
    <3>3. v \in Link
      BY <1>1, <1>2, <3>1 DEF Link
    <3>4. /\ turned \in Heap
          /\ turned.live = h.live /\ turned.type = h.type
          /\ turned.string = h.string /\ turned.strings = h.strings
          /\ turned.child = h.child
          /\ turned.next = joined.next
          /\ turned.prev = [joined.prev EXCEPT ![i] = v]
      BY <1>1, <1>10, <3>3 DEF Heap
    <3>5. placed = [turned EXCEPT !.child[c] = i]
      BY <3>2
    <3> HIDE DEF turned
    <3> QED
      BY <1>1, <3>1, <3>4, <3>5 DEF Heap, Link
  <2> HIDE DEF placed, r
  <2>3. /\ r \in Heap
        /\ r.live = h.live /\ r.type = h.type
        /\ r.string = h.string /\ r.strings = h.strings
        /\ r.child = [h.child EXCEPT ![c] = i]
        /\ r.next = [joined.next EXCEPT ![item] = NULL]
        /\ r.prev = [placed.prev EXCEPT ![item] = NULL]
    BY <1>1, <1>9, <2>2 DEF Unlinked, Heap, Link
  <2>4. ASSUME NEW x \in Item PROVE r.next[x] = d.next[x]
    BY <1>1, <1>2, <1>3, <1>5, <1>8, <1>10, <1>11, <2>3 DEF Heap
  <2>5. ASSUME NEW x \in Item PROVE r.prev[x] = d.prev[x]
    BY <1>1, <1>2, <1>3, <1>4, <1>5, <1>8, <1>10, <1>11, <2>2, <2>3 DEF Heap
  <2>6. /\ r \in Heap /\ d \in Heap
        /\ r.child = d.child /\ r.type = d.type /\ r.string = d.string
        /\ r.live = d.live /\ r.strings = d.strings
    BY <1>5, <1>8, <1>11, <2>3
  <2>7. r = d
    BY <2>4, <2>5, <2>6, SameFields
  <2> QED
    BY <2>7 DEF r, d, g
<1>12. CASE ~first
  <2>1. /\ linked \in Heap
        /\ linked.live = h.live /\ linked.type = h.type
        /\ linked.string = h.string /\ linked.strings = h.strings
        /\ linked.child = h.child
        /\ linked.next = [joined.next EXCEPT ![prev] = i]
        /\ linked.prev = joined.prev
    BY <1>1, <1>2, <1>10 DEF Heap, Link
  <2> HIDE DEF linked
  <2>2. /\ placed \in Heap
        /\ placed.live = h.live /\ placed.type = h.type
        /\ placed.string = h.string /\ placed.strings = h.strings
        /\ placed.child = h.child
        /\ placed.next = linked.next
        /\ placed.prev = IF next = NULL THEN [joined.prev EXCEPT ![h.child[c]] = i]
                                        ELSE joined.prev
    BY <1>1, <1>2, <1>12, <2>1 DEF Heap, Link
  <2> HIDE DEF placed, r
  <2>3. /\ r \in Heap
        /\ r.live = h.live /\ r.type = h.type
        /\ r.string = h.string /\ r.strings = h.strings
        /\ r.child = h.child
        /\ r.next = [linked.next EXCEPT ![item] = NULL]
        /\ r.prev = [placed.prev EXCEPT ![item] = NULL]
    BY <1>1, <1>9, <2>2 DEF Unlinked, Heap, Link
  <2>4. \A x \in Item : r.next[x] = d.next[x]
    BY <1>1, <1>2, <1>3, <1>5, <1>8, <1>10, <1>12, <2>1, <2>3 DEF Heap
  <2>5. \A x \in Item : r.prev[x] = d.prev[x]
    BY <1>1, <1>2, <1>3, <1>5, <1>8, <1>10, <1>12, <2>2, <2>3 DEF Heap
  <2>6. /\ r \in Heap /\ d \in Heap
        /\ r.child = d.child /\ r.type = d.type /\ r.string = d.string
        /\ r.live = d.live /\ r.strings = d.strings
    BY <1>5, <1>8, <1>12, <2>3
  <2>7. r = d
    BY <2>4, <2>5, <2>6, SameFields
  <2> QED
    BY <2>7 DEF r, d, g
<1> QED
  BY <1>11, <1>12

\* cJSON_ReplaceItemViaPointer: an item of the list, or none.
LEMMA ReplaceLinks ==
  ASSUME NEW h, NEW owner, NEW H, Links(h, owner, H),
         NEW c \in Item, IsOwner(h, c), NEW item \in Link,
         item # NULL => owner[item] = c,
         NEW i \in Item,
         (i \in H \ {c} /\ c \notin Deleted(h, i)) \/ i = item
  PROVE  LET r == cJSON_ReplaceItemViaPointer(h, c, item, i)
         IN  /\ r.ret \in BOOLEAN
             /\ r.ret => WellLinked(r.heap, H \ {i})
             /\ ~r.ret => r.heap = h
<1> USE NULLAssumption
<1> DEFINE r == cJSON_ReplaceItemViaPointer(h, c, item, i)
<1>1. CASE h.child[c] = NULL \/ item = NULL
  BY <1>1 DEF cJSON_ReplaceItemViaPointer, Returns
<1>2. CASE ~(h.child[c] = NULL \/ item = NULL) /\ i = item
  <2>1. r = Returns(TRUE, h)
    BY <1>2 DEF cJSON_ReplaceItemViaPointer
  <2>2. WellLinked(h, H \ {i})
    <3>1. i \notin H
      BY <1>2 DEF Links, IsRoot
    <3>2. H \ {i} = H
      BY <3>1
    <3> QED
      BY <3>2 DEF WellLinked
  <2> QED
    BY <2>1, <2>2 DEF Returns
<1>3. CASE ~(h.child[c] = NULL \/ item = NULL) /\ i # item
  <2> DEFINE g == InsertedBefore(h, c, item, i)
             d == cJSON_DetachItemViaPointer(g, c, item)
  <2>1. r = Returns(TRUE, cJSON_Delete(Replaced(h, c, item, i), item))
    BY <1>3 DEF cJSON_ReplaceItemViaPointer, Replaced
  <2>2. /\ item \in Item /\ owner[item] = c
        /\ i \in H /\ i # c /\ c \notin Deleted(h, i)
    BY <1>3 DEF Link
  <2>3. Replaced(h, c, item, i) = d.heap
    <3> HIDE DEF d, g
    <3> QED
      BY <2>2, ReplacedIsInsertedAndDetached DEF d, g
  <2>4. /\ \E o : Links(g, o, H \ {i}) /\ o[item] = c
        /\ InsertedBeforeFields(g, h, c, item, i)
    BY <2>2, InsertedBeforeLinks
  <2> HIDE DEF g
  <2>5. PICK o : Links(g, o, H \ {i}) /\ o[item] = c
    BY <2>4
  <2>6. d.ret = item /\ WellLinked(d.heap, (H \ {i}) \cup {item})
    <3>1. IsOwner(g, c)
      BY <2>4 DEF IsOwner, IsReference, InsertedBeforeFields
    <3>2. item # NULL /\ item \in Link
      BY <2>2
    <3>3. d.ret = item /\ WellLinked(d.heap, (H \ {i}) \cup ({d.ret} \ {NULL}))
      BY <2>2, <2>5, <3>1, <3>2, DetachLinks
    <3>4. {item} \ {NULL} = {item}
      BY <2>2
    <3> QED
      BY <3>3, <3>4
  <2>7. item \notin H
    BY <2>2 DEF Links, IsRoot
  <2>8. WellLinked(cJSON_Delete(d.heap, item), ((H \ {i}) \cup {item}) \ {item})
    <3> HIDE DEF d
    <3> QED
      BY <2>6, DeleteLinks
  <2>9. ((H \ {i}) \cup {item}) \ {item} = H \ {i}
    BY <2>7
  <2>10. WellLinked(cJSON_Delete(Replaced(h, c, item, i), item), H \ {i})
    BY <2>3, <2>8, <2>9
  <2> HIDE DEF d, g, r
  <2> QED
    BY <2>1, <2>10 DEF Returns, r
<1> QED
  BY <1>1, <1>2, <1>3

-----------------------------------------------------------------------------
(* Keys.                                                                   *)

\* What owns a list is a matter of the reference bit.
LEMMA OwnersSame ==
  ASSUME NEW h, NEW g, g.live = h.live,
         \A i \in Item : IsReference(g, i) <=> IsReference(h, i)
  PROVE  \A c \in Item : IsOwner(h, c) <=> IsOwner(g, c)
BY DEF IsOwner

\* A heap in which one existing item has another key is as well linked.
LEMMA RenameLinks ==
  ASSUME NEW h, NEW H, WellLinked(h, H), NEW i \in h.live, NEW g \in Heap,
         g.next = h.next, g.prev = h.prev, g.child = h.child, g.live = h.live,
         \A x \in Item \ {i} : g.string[x] = h.string[x] /\ g.type[x] = h.type[x],
         IsReference(g, i) <=> IsReference(h, i)
  PROVE  /\ WellLinked(g, H)
         /\ \A c \in Item : IsOwner(h, c) <=> IsOwner(g, c)
         /\ \A x : Deleted(g, x) = Deleted(h, x)
<1>1. Zeroed(h) /\ i \in Item
  BY DEF WellLinked, Links, Heap
<1>2. \A x \in Item : IsReference(g, x) <=> IsReference(h, x)
  BY <1>1 DEF IsReference
<1>3. Zeroed(g)
  BY <1>1 DEF Zeroed
<1>4. WellLinked(g, H)
  BY <1>2, <1>3, SameLinks
<1>5. \A x : Deleted(g, x) = Deleted(h, x)
  BY <1>2, SameDeleted
<1> QED
  BY <1>2, <1>4, <1>5, OwnersSame

\* A string that is allocated changes no link.
LEMMA StrdupLinks ==
  ASSUME NEW h, NEW H, WellLinked(h, H)
  PROVE  /\ WellLinked(cJSON_strdup(h), H)
         /\ cJSON_strdup(h).live = h.live
         /\ \A c \in Item : IsReference(cJSON_strdup(h), c) <=> IsReference(h, c)
         /\ \A x : Deleted(cJSON_strdup(h), x) = Deleted(h, x)
<1> DEFINE g == cJSON_strdup(h)
<1>1. h \in Heap /\ Zeroed(h)
  BY DEF WellLinked, Links
<1>2. /\ g \in Heap
      /\ g.next = h.next /\ g.prev = h.prev /\ g.child = h.child
      /\ g.live = h.live /\ g.string = h.string /\ g.type = h.type
  BY <1>1 DEF Heap, cJSON_strdup
<1> HIDE DEF g
<1>3. Zeroed(g) /\ \A x \in Item : IsReference(g, x) <=> IsReference(h, x)
  BY <1>1, <1>2 DEF Zeroed, IsReference
<1>4. WellLinked(g, H)
  BY <1>2, <1>3, SameLinks
<1>5. \A x : Deleted(g, x) = Deleted(h, x)
  BY <1>2, <1>3, SameDeleted
<1> QED
  BY <1>2, <1>3, <1>4, <1>5 DEF g

\* Rename, as both callers use it.
LEMMA RenamedLinks ==
  ASSUME NEW h, NEW H, WellLinked(h, H), NEW i \in h.live, NEW k \in Key,
         NEW constant_key \in BOOLEAN
  PROVE  LET g == Rename(h, i, k, constant_key)
         IN  /\ WellLinked(g, H)
             /\ \A c \in Item : IsOwner(h, c) <=> IsOwner(g, c)
             /\ \A x : Deleted(g, x) = Deleted(h, x)
<1> DEFINE n == IF OwnsKey(h, i) THEN h.strings - 1 ELSE h.strings
           t == IF constant_key THEN h.type[i] \cup {"StringIsConst"}
                                ELSE h.type[i] \ {"StringIsConst"}
           g == Rename(h, i, k, constant_key)
<1>1. h \in Heap /\ i \in Item
  BY DEF WellLinked, Links, Heap
<1>2. n \in Int /\ t \in SUBSET Bit
  BY <1>1 DEF Heap, Bit
<1>3. "IsReference" \in t <=> IsReference(h, i)
  BY DEF IsReference
<1>4. g = [h EXCEPT !.strings = n, !.string[i] = k, !.type[i] = t]
  BY <1>1 DEF Rename, Heap
<1> HIDE DEF n, t, g
<1>5. /\ g \in Heap
      /\ g.next = h.next /\ g.prev = h.prev /\ g.child = h.child
      /\ g.live = h.live
  BY <1>1, <1>2, <1>4 DEF Heap
<1>a. /\ g.string = [h.string EXCEPT ![i] = k]
      /\ g.type = [h.type EXCEPT ![i] = t]
  BY <1>1, <1>2, <1>4 DEF Heap
<1>6. /\ \A x \in Item \ {i} : g.string[x] = h.string[x] /\ g.type[x] = h.type[x]
      /\ IsReference(g, i) <=> IsReference(h, i)
  BY <1>1, <1>3, <1>a DEF Heap, IsReference
<1>7. /\ WellLinked(g, H)
      /\ \A c \in Item : IsOwner(h, c) <=> IsOwner(g, c)
      /\ \A x : Deleted(g, x) = Deleted(h, x)
  BY <1>5, <1>6, RenameLinks
<1> QED
  BY <1>7 DEF g

\* add_item_to_object takes a root, or refuses it.
LEMMA AddToObjectLinks ==
  ASSUME NEW h, NEW H, WellLinked(h, H), NEW c \in Item, IsOwner(h, c),
         NEW i \in H \cup {NULL}, i # NULL /\ c \in Deleted(h, i) => c = i,
         NEW k \in Key, NEW constant_key \in BOOLEAN, NEW memory \in BOOLEAN
  PROVE  LET r == add_item_to_object(h, c, k, i, constant_key, memory)
         IN  /\ r.ret \in BOOLEAN
             /\ r.ret <=> i # NULL /\ i # c /\ (constant_key \/ memory)
             /\ r.ret => WellLinked(r.heap, H \ {i})
             /\ ~r.ret => WellLinked(r.heap, H)
<1> DEFINE copied == IF constant_key THEN h ELSE cJSON_strdup(h)
           renamed == Rename(copied, i, k, constant_key)
           r == add_item_to_object(h, c, k, i, constant_key, memory)
<1>1. CASE i = NULL \/ c = i \/ (~constant_key /\ ~memory)
  BY <1>1 DEF add_item_to_object, Returns
<1>2. CASE ~(i = NULL \/ c = i \/ (~constant_key /\ ~memory))
  <2>1. r = add_item_to_array(renamed, c, i)
    BY <1>2 DEF add_item_to_object
  <2>2. /\ WellLinked(copied, H) /\ copied.live = h.live
        /\ \A x \in Item : IsReference(copied, x) <=> IsReference(h, x)
        /\ Deleted(copied, i) = Deleted(h, i)
    BY StrdupLinks
  <2>3. IsOwner(copied, c) /\ i \in copied.live
    BY <1>2, <2>2 DEF IsOwner, WellLinked, Links, IsRoot
  <2> HIDE DEF copied
  <2>4. /\ WellLinked(renamed, H) /\ IsOwner(renamed, c)
        /\ i # NULL /\ c \in Deleted(renamed, i) => c = i
    <3>1. WellLinked(renamed, H)
      BY <2>2, <2>3, RenamedLinks
    <3>2. IsOwner(renamed, c)
      BY <2>2, <2>3, RenamedLinks
    <3>3. Deleted(renamed, i) = Deleted(copied, i)
      BY <2>2, <2>3, RenamedLinks
    <3> QED
      BY <2>2, <3>1, <3>2, <3>3
  <2> HIDE DEF renamed, r
  <2>5. /\ r.ret \in BOOLEAN
        /\ r.ret <=> i # NULL /\ i # c
        /\ r.ret => WellLinked(r.heap, H \ {i})
        /\ ~r.ret => r.heap = renamed
    BY <2>1, <2>4, AddLinks
  <2> QED
    BY <1>2, <2>4, <2>5 DEF r
<1> QED
  BY <1>1, <1>2

\* replace_item_in_object takes the replacement, or only takes its key away.
LEMMA ReplaceInObjectLinks ==
  ASSUME NEW h, NEW H, WellLinked(h, H), NEW c \in Item, IsOwner(h, c),
         NEW i \in H, i # c, c \notin Deleted(h, i), NEW k \in Key,
         NEW case_sensitive \in BOOLEAN, NEW memory \in BOOLEAN
  PROVE  LET r == replace_item_in_object(h, c, k, i, case_sensitive, memory)
         IN  /\ r.ret \in BOOLEAN
             /\ r.ret => WellLinked(r.heap, H \ {i})
             /\ ~r.ret => WellLinked(r.heap, H)
<1> USE NULLAssumption
<1> DEFINE renamed == Rename(h, i, k, FALSE)
           copied == cJSON_strdup(renamed)
           found == get_object_item(copied, c, k, case_sensitive)
           r == replace_item_in_object(h, c, k, i, case_sensitive, memory)
<1>1. h \in Heap /\ i \in Item /\ i \in h.live
  BY DEF WellLinked, Links, IsRoot
<1>2. CASE ~memory
  <2> DEFINE n == IF OwnsKey(h, i) THEN h.strings - 1 ELSE h.strings
             g == [h EXCEPT !.string[i] = NULL, !.strings = n]
  <2>1. r = Returns(FALSE, g)
    BY <1>2 DEF replace_item_in_object
  <2>2. n \in Int
    BY <1>1 DEF Heap
  <2> HIDE DEF n
  <2>3. /\ g \in Heap
        /\ g.next = h.next /\ g.prev = h.prev /\ g.child = h.child
        /\ g.live = h.live /\ g.type = h.type
        /\ g.string = [h.string EXCEPT ![i] = NULL]
    BY <1>1, <2>2 DEF Heap
  <2> HIDE DEF g
  <2>4. /\ \A x \in Item \ {i} : g.string[x] = h.string[x] /\ g.type[x] = h.type[x]
        /\ IsReference(g, i) <=> IsReference(h, i)
    BY <1>1, <2>3 DEF Heap, IsReference
  <2>5. WellLinked(g, H)
    BY <1>1, <2>3, <2>4, RenameLinks
  <2> QED
    BY <2>1, <2>5 DEF Returns
<1>3. CASE memory
  <2>1. r = cJSON_ReplaceItemViaPointer(copied, c, found, i)
    BY <1>3 DEF replace_item_in_object
  <2>2. /\ WellLinked(renamed, H) /\ IsOwner(renamed, c)
        /\ Deleted(renamed, i) = Deleted(h, i)
    <3>1. WellLinked(renamed, H)
      BY <1>1, RenamedLinks
    <3>2. IsOwner(renamed, c)
      BY <1>1, RenamedLinks
    <3>3. \A e \in BOOLEAN : Deleted(Rename(h, i, k, e), i) = Deleted(h, i)
      BY <1>1, RenamedLinks
    <3>4. Deleted(renamed, i) = Deleted(h, i)
      BY <3>3
    <3> QED
      BY <3>1, <3>2, <3>4
  <2> HIDE DEF renamed
  <2>3. /\ WellLinked(copied, H) /\ IsOwner(copied, c)
        /\ c \notin Deleted(copied, i)
    BY <2>2, StrdupLinks DEF IsOwner
  <2> HIDE DEF copied
  <2>4. PICK owner : Links(copied, owner, H)
    BY <2>3 DEF WellLinked
  <2>5. found \in Link /\ (found # NULL => found \in Item /\ owner[found] = c)
    BY <2>3, <2>4, GetObjectItemOwned
  <2> HIDE DEF found, r
  <2>6. /\ r.ret \in BOOLEAN
        /\ r.ret => WellLinked(r.heap, H \ {i})
        /\ ~r.ret => r.heap = copied
    BY <1>1, <2>1, <2>3, <2>4, <2>5, ReplaceLinks
  <2> QED
    BY <2>3, <2>6 DEF r
<1> QED
  BY <1>2, <1>3

-----------------------------------------------------------------------------
(* Making items.                                                           *)

\* A call that may have made a root: it existed not before, and containers
\* stay containers.
Made(r, h, H) ==
  /\ r.ret \in Link /\ r.ret \notin h.live
  /\ WellLinked(r.heap, H \cup ({r.ret} \ {NULL}))
  /\ r.ret # NULL => \A c \in Item : IsOwner(h, c) => IsOwner(r.heap, c)

\* The same, nothing hangs below what was made, and nothing else has changed.
MadeAlone(r, h, H) ==
  /\ Made(r, h, H) /\ (r.ret # NULL => Lone(r.heap, r.ret))
  /\ r.heap.live = h.live \cup ({r.ret} \ {NULL}) /\ r.heap.next = h.next
  /\ \A x \in Item \ {r.ret} : /\ r.heap.child[x] = h.child[x]
                              /\ r.heap.type[x] = h.type[x]

\* A call that made nothing.
LEMMA NothingMade ==
  ASSUME NEW h, NEW H, WellLinked(h, H)
  PROVE  MadeAlone(Returns(NULL, h), h, H)
<1>1. H \cup ({NULL} \ {NULL}) = H
  OBVIOUS
<1>2. NULL \notin h.live
  BY NULLAssumption DEF WellLinked, Links, Heap
<1> QED
  BY <1>1, <1>2 DEF MadeAlone, Made, Returns, Link

\* A call that made the item a.
LEMMA ItemMade ==
  ASSUME NEW h, NEW H, WellLinked(h, H), NEW a \in Item \ h.live,
         NEW g \in Heap, g.live = h.live \cup {a},
         g.next = h.next, g.prev = h.prev,
         \A i \in Item \ {a} : /\ g.child[i] = h.child[i]
                               /\ g.type[i] = h.type[i]
                               /\ g.string[i] = h.string[i],
         g.child[a] # NULL => IsReference(g, a)
  PROVE  MadeAlone(Returns(a, g), h, H)
<1>1. WellLinked(g, H \cup {a})
  BY NewItemLinks
<1>2. \A c \in Item : IsOwner(h, c) => IsOwner(g, c)
  BY DEF IsOwner, IsReference
<1>3. H \cup ({a} \ {NULL}) = H \cup {a}
  BY NULLAssumption
<1>4. Lone(g, a)
  BY DEF Lone, WellLinked, Links, Zeroed
<1>5. Made(Returns(a, g), h, H)
  BY <1>1, <1>2, <1>3 DEF Made, Returns, Link
<1>6. g.live = h.live \cup ({a} \ {NULL})
  BY NULLAssumption
<1> QED
  BY <1>4, <1>5, <1>6 DEF MadeAlone, Returns

\* The fields of a zeroed new item, and of the other items.
LEMMA NewItemFields ==
  ASSUME NEW h \in Heap, Zeroed(h), NEW a \in Item \ h.live
  PROVE  /\ cJSON_New_Item(h, a) \in Heap
         /\ cJSON_New_Item(h, a).live = h.live \cup {a}
         /\ cJSON_New_Item(h, a).next = h.next
         /\ cJSON_New_Item(h, a).prev = h.prev
         /\ cJSON_New_Item(h, a).child = h.child
         /\ cJSON_New_Item(h, a).type = h.type
         /\ cJSON_New_Item(h, a).string = h.string
         /\ cJSON_New_Item(h, a).strings = h.strings
         /\ h.child[a] = NULL /\ h.type[a] = {}
<1> DEFINE new == cJSON_New_Item(h, a)
<1>1. /\ new \in Heap /\ new.live = h.live \cup {a}
      /\ new.next = [h.next EXCEPT ![a] = NULL]
      /\ new.prev = [h.prev EXCEPT ![a] = NULL]
      /\ new.child = [h.child EXCEPT ![a] = NULL]
      /\ new.type = [h.type EXCEPT ![a] = {}]
      /\ new.string = [h.string EXCEPT ![a] = NULL]
      /\ new.strings = h.strings
  <2>1. NULL \in Link
    BY DEF Link
  <2> QED
    BY <2>1 DEF cJSON_New_Item, Heap
<1> HIDE DEF new
<1>2. /\ new.next = h.next /\ new.prev = h.prev /\ new.child = h.child
      /\ new.type = h.type /\ new.string = h.string
      /\ h.child[a] = NULL /\ h.type[a] = {}
  BY <1>1 DEF Zeroed, Heap
<1> QED
  BY <1>1, <1>2 DEF new

\* The cJSON_Create functions make one item.
LEMMA CreateLinks ==
  ASSUME NEW h, NEW H, WellLinked(h, H),
         NEW a \in (Item \ h.live) \cup {NULL},
         NEW text \in BOOLEAN, NEW memory \in BOOLEAN
  PROVE  MadeAlone(Create(h, a, text, memory), h, H)
<1> USE NULLAssumption
<1> DEFINE item == cJSON_New_Item(h, a)
           g == [cJSON_strdup(item) EXCEPT !.type[a] = {"HasText"}]
<1>1. h \in Heap /\ Zeroed(h)
  BY DEF WellLinked, Links
<1>2. CASE a = NULL
  BY <1>2, NothingMade DEF Create
<1>3. CASE a # NULL
  <2>1. a \in Item \ h.live /\ NULL \in Link
    BY <1>3 DEF Link
  <2>2. /\ item \in Heap /\ item.live = h.live \cup {a}
        /\ item.next = h.next /\ item.prev = h.prev /\ item.string = h.string
        /\ item.child = h.child /\ item.type = h.type
        /\ h.child[a] = NULL /\ h.type[a] = {}
    BY <1>1, <2>1, NewItemFields
  <2> HIDE DEF item
  <2>3. MadeAlone(Returns(a, item), h, H)
    <3>1. /\ h.child = [h.child EXCEPT ![a] = NULL]
          /\ h.type = [h.type EXCEPT ![a] = {}]
      BY <1>1, <2>1, <2>2 DEF Heap
    <3>2. item.child[a] # NULL => IsReference(item, a)
      BY <2>2
    <3> QED
      BY <2>1, <2>2, <3>2, ItemMade
  <2>4. MadeAlone(Returns(a, g), h, H)
    <3>1. /\ g \in Heap /\ g.live = h.live \cup {a}
          /\ g.next = h.next /\ g.prev = h.prev /\ g.string = h.string
          /\ g.child = h.child
          /\ g.type = [h.type EXCEPT ![a] = {"HasText"}]
      <4> DEFINE copied == cJSON_strdup(item)
      <4>1. /\ copied \in Heap /\ copied.live = item.live
            /\ copied.next = item.next /\ copied.prev = item.prev
            /\ copied.string = item.string /\ copied.child = item.child
            /\ copied.type = item.type
        BY <2>2 DEF Heap, cJSON_strdup
      <4>2. g = [copied EXCEPT !.type[a] = {"HasText"}]
        OBVIOUS
      <4> HIDE DEF copied, g
      <4>3. {"HasText"} \in SUBSET Bit
        BY DEF Bit
      <4> QED
        BY <2>1, <2>2, <4>1, <4>2, <4>3 DEF Heap
    <3> HIDE DEF g
    <3>2. \A i \in Item \ {a} : /\ g.child[i] = h.child[i]
                                /\ g.type[i] = h.type[i]
                                /\ g.string[i] = h.string[i]
      BY <1>1, <2>1, <3>1 DEF Heap
    <3>3. g.child[a] # NULL => IsReference(g, a)
      BY <2>2, <3>1
    <3> QED
      BY <2>1, <3>1, <3>2, <3>3, ItemMade
  <2>5. MadeAlone(Returns(NULL, cJSON_Delete(item, a)), h, H)
    <3>1. WellLinked(item, H \cup {a})
      <4>1. H \cup ({a} \ {NULL}) = H \cup {a}
        BY <2>1
      <4> QED
        BY <2>3, <4>1 DEF MadeAlone, Made, Returns
    <3>2. WellLinked(cJSON_Delete(item, a), (H \cup {a}) \ {a})
      BY <3>1, DeleteLinks
    <3>3. (H \cup {a}) \ {a} = H \cup ({NULL} \ {NULL})
      BY <2>1 DEF WellLinked, Links, IsRoot
    <3>4. NULL \notin h.live
      BY <1>1 DEF Heap
    <3>5. /\ cJSON_Delete(item, a).live = h.live
          /\ cJSON_Delete(item, a).next = h.next
          /\ \A x \in Item : /\ cJSON_Delete(item, a).child[x] = h.child[x]
                             /\ cJSON_Delete(item, a).type[x] = h.type[x]
      <4>1. h.next[a] = NULL
        BY <1>1, <2>1 DEF Zeroed
      <4>2. Deleted(item, a) = {a}
        BY <2>1, <2>2, <4>1, LoneDeleted DEF Lone
      <4> DEFINE f == cJSON_Delete(item, a)
      <4>3. /\ f \in Heap /\ f.live = item.live \ {a}
            /\ \A x \in Item :
                 /\ f.next[x] = IF x \in {a} THEN NULL ELSE item.next[x]
                 /\ f.child[x] = IF x \in {a} THEN NULL ELSE item.child[x]
                 /\ f.type[x] = IF x \in {a} THEN {} ELSE item.type[x]
        BY <2>1, <2>2, <4>2, DeleteFields
      <4> HIDE DEF f
      <4>4. \A x \in Item : f.next[x] = h.next[x] /\ f.child[x] = h.child[x]
                           /\ f.type[x] = h.type[x]
        <5> HIDE DEF g
        <5> QED
          BY <2>2, <4>1, <4>3
      <4>5. f.live = h.live
        BY <2>1, <2>2, <4>3
      <4>6. f.next = h.next
        BY <1>1, <4>3, <4>4 DEF Heap
      <4> QED
        BY <4>4, <4>5, <4>6 DEF f
    <3> QED
      BY <3>2, <3>3, <3>4, <3>5 DEF MadeAlone, Made, Returns, Link
  <2> HIDE DEF g
  <2>6. \/ Create(h, a, text, memory) = Returns(a, item)
        \/ Create(h, a, text, memory) = Returns(a, g)
        \/ Create(h, a, text, memory) = Returns(NULL, cJSON_Delete(item, a))
    BY <1>3 DEF Create, item, g
  <2> QED
    BY <2>3, <2>4, <2>5, <2>6
<1> QED
  BY <1>2, <1>3

\* The calls that make a reference make one item.
LEMMA ReferenceLinks ==
  ASSUME NEW h, NEW H, WellLinked(h, H),
         NEW a \in (Item \ h.live) \cup {NULL}, NEW i \in h.live
  PROVE  /\ MadeAlone(CreateReferenceTo(h, a, i), h, H)
         /\ MadeAlone(create_reference(h, i, a), h, H)
<1> USE NULLAssumption
<1>1. h \in Heap /\ Zeroed(h) /\ i \in Item
  BY DEF WellLinked, Links, Heap
<1>2. CASE a = NULL
  BY <1>2, NothingMade DEF CreateReferenceTo, create_reference
<1>3. CASE a # NULL
  <2> DEFINE item == cJSON_New_Item(h, a)
             t == h.type[i] \cup {"IsReference"}
             f == [item EXCEPT !.type[a] = {"IsReference"}, !.child[a] = i]
             g == [item EXCEPT !.type[a] = t, !.child[a] = h.child[i]]
  <2>1. a \in Item \ h.live
    BY <1>3
  <2>2. /\ item \in Heap /\ item.live = h.live \cup {a}
        /\ item.next = h.next /\ item.prev = h.prev /\ item.string = h.string
        /\ item.child = h.child /\ item.type = h.type
    BY <1>1, <2>1, NewItemFields
  <2> HIDE DEF item
  <2>3. /\ i \in Link /\ h.child[i] \in Link
        /\ t \in SUBSET Bit /\ "IsReference" \in t
        /\ {"IsReference"} \in SUBSET Bit /\ "IsReference" \in {"IsReference"}
    BY <1>1 DEF Heap, Link, Bit
  <2> HIDE DEF t
  <2>4. MadeAlone(Returns(a, f), h, H)
    <3>1. /\ f \in Heap /\ f.live = h.live \cup {a}
          /\ f.next = h.next /\ f.prev = h.prev /\ f.string = h.string
          /\ f.child = [h.child EXCEPT ![a] = i]
          /\ f.type = [h.type EXCEPT ![a] = {"IsReference"}]
      BY <2>1, <2>2, <2>3 DEF Heap
    <3> HIDE DEF f
    <3>2. \A x \in Item \ {a} : /\ f.child[x] = h.child[x]
                                /\ f.type[x] = h.type[x]
                                /\ f.string[x] = h.string[x]
      BY <1>1, <2>1, <3>1 DEF Heap
    <3>3. f.child[a] # NULL => IsReference(f, a)
      BY <1>1, <2>1, <3>1 DEF IsReference, Heap
    <3> QED
      BY <2>1, <3>1, <3>2, <3>3, ItemMade
  <2>5. MadeAlone(Returns(a, g), h, H)
    <3>1. /\ g \in Heap /\ g.live = h.live \cup {a}
          /\ g.next = h.next /\ g.prev = h.prev /\ g.string = h.string
          /\ g.child = [h.child EXCEPT ![a] = h.child[i]]
          /\ g.type = [h.type EXCEPT ![a] = t]
      BY <2>1, <2>2, <2>3 DEF Heap
    <3> HIDE DEF g
    <3>2. \A x \in Item \ {a} : /\ g.child[x] = h.child[x]
                                /\ g.type[x] = h.type[x]
                                /\ g.string[x] = h.string[x]
      BY <1>1, <2>1, <3>1 DEF Heap
    <3>3. g.child[a] # NULL => IsReference(g, a)
      BY <1>1, <2>1, <2>3, <3>1 DEF IsReference, Heap
    <3> QED
      BY <2>1, <3>1, <3>2, <3>3, ItemMade
  <2> HIDE DEF f, g
  <2>6. CreateReferenceTo(h, a, i) = Returns(a, f)
    BY <1>3 DEF CreateReferenceTo, item, f
  <2>7. create_reference(h, i, a) = Returns(a, g)
    BY <1>3 DEF create_reference, item, g, t
  <2> QED
    BY <2>4, <2>5, <2>6, <2>7
<1> QED
  BY <1>2, <1>3

-----------------------------------------------------------------------------
(* Arrays with elements: cJSON_CreateIntArray and its siblings.            *)

\* Distinct free addresses, at least one of them.
Free(h, s) ==
  /\ s \in Seq(Item \ h.live) /\ Len(s) > 0
  /\ \A m, n \in 1 .. Len(s) : s[m] = s[n] => m = n

Elements(s) == {s[n] : n \in 2 .. Len(s)}

\* The array and its elements before the first element learns the last one.
Chained(h, s) ==
  LET built == Len(s)
      a == s[1]
      elements == 2 .. built
      at(i) == CHOOSE n \in elements : s[n] = i
      IsElement(i) == \E n \in elements : s[n] = i
  IN  [h EXCEPT
         !.live  = @ \cup {s[n] : n \in 1 .. built},
         !.child[a] = IF built > 1 THEN s[2] ELSE NULL,
         !.next  = [i \in Item |-> IF IsElement(i) /\ at(i) < built
                                   THEN s[at(i) + 1] ELSE h.next[i]],
         !.prev  = [i \in Item |-> IF IsElement(i) /\ at(i) > 2
                                   THEN s[at(i) - 1] ELSE h.prev[i]]]

\* The fields of the chain g, for a first element that shows the item last.
IsChain(g, h, s, last) ==
  /\ g \in Heap
  /\ g.live = h.live \cup {s[1]} \cup Elements(s)
  /\ g.type = h.type /\ g.string = h.string
  /\ \A x \in Item :
       g.child[x] = IF x = s[1] /\ Len(s) > 1 THEN s[2] ELSE h.child[x]
  /\ \A x \in Item \ Elements(s) :
       g.next[x] = h.next[x] /\ g.prev[x] = h.prev[x]
  /\ \A n \in 2 .. Len(s) :
       /\ g.next[s[n]] = IF n < Len(s) THEN s[n + 1] ELSE NULL
       /\ g.prev[s[n]] = IF n > 2 THEN s[n - 1] ELSE last

\* The elements of an array that is created are chained.
LEMMA ChainedFields ==
  ASSUME NEW h \in Heap, Zeroed(h), NEW s, Free(h, s)
  PROVE  IsChain(Chained(h, s), h, s, NULL) /\ Chained(h, s).strings = h.strings
<1> USE NULLAssumption
<1> DEFINE built == Len(s)
           at(i) == CHOOSE n \in 2 .. built : s[n] = i
           next == [i \in Item |-> IF i \in Elements(s) /\ at(i) < built
                                   THEN s[at(i) + 1] ELSE h.next[i]]
           prev == [i \in Item |-> IF i \in Elements(s) /\ at(i) > 2
                                   THEN s[at(i) - 1] ELSE h.prev[i]]
           A == {s[n] : n \in 1 .. built}
           x == IF built > 1 THEN s[2] ELSE NULL
           g == Chained(h, s)
<1>1. /\ built \in Nat /\ built > 0
      /\ \A n \in 1 .. built : s[n] \in Item /\ s[n] \notin h.live
      /\ \A m, n \in 1 .. built : s[m] = s[n] => m = n
  BY DEF Free
<1>2. A \in SUBSET Item /\ A = {s[1]} \cup Elements(s)
  BY <1>1 DEF Elements
<1>3. \A n \in 2 .. built : s[n] \in Elements(s) /\ at(s[n]) = n
  BY <1>1 DEF Elements
<1>4. \A i \in Elements(s) : \E n \in 2 .. built : i = s[n]
  BY DEF Elements
<1>5. g = [h EXCEPT !.live = h.live \cup A, !.child[s[1]] = x,
                    !.next = next, !.prev = prev]
  <2>1. \A i : i \in Elements(s) <=> \E n \in 2 .. built : s[n] = i
    BY DEF Elements
  <2> QED
    BY <2>1 DEF Chained
<1> HIDE DEF g
<1>6. /\ \A i \in Elements(s) : at(i) \in 2 .. built
      /\ \A i \in Elements(s) : at(i) < built => s[at(i) + 1] \in Item
      /\ \A i \in Elements(s) : at(i) > 2 => s[at(i) - 1] \in Item
  <2> SUFFICES ASSUME NEW i \in Elements(s)
               PROVE  /\ at(i) \in 2 .. built
                      /\ at(i) < built => s[at(i) + 1] \in Item
                      /\ at(i) > 2 => s[at(i) - 1] \in Item
    OBVIOUS
  <2>1. PICK n \in 2 .. built : i = s[n]
    BY <1>4
  <2>2. at(i) = n
    BY <1>3, <2>1
  <2> HIDE DEF at
  <2> QED
    BY <1>1, <2>2
<1>7. next \in [Item -> Link] /\ prev \in [Item -> Link]
  <2> HIDE DEF at
  <2> QED
    BY <1>6 DEF Heap, Link
<1>8. \A n \in 2 .. built :
        /\ next[s[n]] = IF n < built THEN s[n + 1] ELSE NULL
        /\ prev[s[n]] = IF n > 2 THEN s[n - 1] ELSE NULL
  <2> SUFFICES ASSUME NEW n \in 2 .. built
               PROVE  /\ next[s[n]] = IF n < built THEN s[n + 1] ELSE NULL
                      /\ prev[s[n]] = IF n > 2 THEN s[n - 1] ELSE NULL
    OBVIOUS
  <2>1. s[n] \in Item /\ h.next[s[n]] = NULL /\ h.prev[s[n]] = NULL
    BY <1>1 DEF Zeroed
  <2>2. s[n] \in Elements(s) /\ at(s[n]) = n
    BY <1>3
  <2> HIDE DEF at
  <2> QED
    BY <2>1, <2>2
<1>9. \A i \in Item \ Elements(s) : next[i] = h.next[i] /\ prev[i] = h.prev[i]
  OBVIOUS
<1>10. x \in Link /\ s[1] \in Item
  BY <1>1 DEF Link
<1> HIDE DEF next, prev, A
<1>11. /\ g \in Heap /\ g.live = h.live \cup A /\ g.next = next /\ g.prev = prev
       /\ g.type = h.type /\ g.string = h.string /\ g.strings = h.strings
       /\ g.child = [h.child EXCEPT ![s[1]] = x]
  <2> HIDE DEF x
  <2> QED
    BY <1>2, <1>5, <1>7, <1>10 DEF Heap
<1>12. h.child[s[1]] = NULL
  BY <1>1, <1>10 DEF Zeroed
<1>13. \A i \in Item :
         g.child[i] = IF i = s[1] /\ built > 1 THEN s[2] ELSE h.child[i]
  BY <1>10, <1>11, <1>12 DEF Heap
<1>14. g.live = h.live \cup {s[1]} \cup Elements(s)
  BY <1>2, <1>11
<1>15. IsChain(g, h, s, NULL)
  BY <1>8, <1>9, <1>11, <1>13, <1>14 DEF IsChain
<1> QED
  BY <1>11, <1>15 DEF g

\* When the allocator runs out, exactly what was built is freed again.
LEMMA UnbuiltLinks ==
  ASSUME NEW h, NEW H, WellLinked(h, H), NEW s, Free(h, s)
  PROVE  cJSON_Delete(Chained(h, s), s[1]) = h
<1> USE NULLAssumption
<1> DEFINE g == Chained(h, s)
           a == s[1]
           A == {a} \cup Elements(s)
           gone == Deleted(g, a)
           Closed(S) == /\ a \in S
                        /\ \A x \in S :
                             /\ g.next[x] = NULL \/ g.next[x] \in S
                             /\ \/ IsReference(g, x)
                                \/ g.child[x] = NULL
                                \/ g.child[x] \in S
           d == cJSON_Delete(g, a)
<1>1. h \in Heap /\ Zeroed(h)
  BY DEF WellLinked, Links
<1>2. /\ Len(s) \in Nat /\ Len(s) > 0
      /\ \A n \in 1 .. Len(s) : s[n] \in Item /\ s[n] \notin h.live
  BY DEF Free
<1>3. IsChain(g, h, s, NULL) /\ g.strings = h.strings
  BY <1>1, ChainedFields
<1> HIDE DEF g
<1>4. A \in SUBSET Item /\ a \in Item /\ a # NULL
  BY <1>2 DEF Elements
<1>5. \A x \in A : /\ h.next[x] = NULL /\ h.prev[x] = NULL /\ h.child[x] = NULL
                   /\ h.type[x] = {} /\ h.string[x] = NULL
  BY <1>1, <1>2 DEF Zeroed, Elements
<1>6. gone = {x \in Item : \A S \in SUBSET Item : Closed(S) => x \in S}
  BY DEF Deleted
<1>7. Closed(A)
  <2>1. ASSUME NEW x \in A, g.next[x] # NULL PROVE g.next[x] \in A
    <3>1. CASE x \in Elements(s)
      <4>1. PICK n \in 2 .. Len(s) : x = s[n]
        BY <3>1 DEF Elements
      <4>2. n < Len(s) /\ g.next[x] = s[n + 1]
        BY <1>3, <2>1, <4>1 DEF IsChain
      <4> QED
        BY <1>2, <4>1, <4>2 DEF Elements
    <3>2. CASE x \notin Elements(s)
      BY <1>3, <1>4, <1>5, <2>1, <3>2 DEF IsChain
    <3> QED
      BY <3>1, <3>2
  <2>2. ASSUME NEW x \in A, g.child[x] # NULL PROVE g.child[x] \in A
    <3>1. g.child[x] = s[2] /\ Len(s) > 1
      BY <1>3, <1>4, <1>5, <2>2 DEF IsChain
    <3> QED
      BY <1>2, <3>1 DEF Elements
  <2> QED
    BY <2>1, <2>2
<1>8. gone \subseteq A
  <2> HIDE DEF Closed, A
  <2> QED
    BY <1>4, <1>6, <1>7
<1>9. A \subseteq gone
  <2> SUFFICES ASSUME NEW S \in SUBSET Item, Closed(S) PROVE A \subseteq S
    <3> HIDE DEF Closed, A
    <3> QED
      BY <1>4, <1>6
  <2> DEFINE Bad == {n \in 1 .. Len(s) : s[n] \notin S}
  <2>1. Bad = {}
    <3> SUFFICES ASSUME Bad # {} PROVE FALSE
      OBVIOUS
    <3>1. PICK n \in Bad : \A m \in Bad : n <= m
      <4>1. Bad \in SUBSET Nat
        BY <1>2
      <4> HIDE DEF Bad
      <4> QED
        BY <4>1, LeastNat
    <3>2. n # 1
      BY <3>1
    <3>3. CASE n = 2
      <4>1. g.child[a] = s[2] /\ s[2] # NULL
        BY <1>2, <1>3, <1>4, <3>1, <3>3 DEF IsChain
      <4>2. ~IsReference(g, a)
        BY <1>3, <1>5 DEF IsChain, IsReference
      <4> QED
        BY <3>1, <3>3, <4>1, <4>2
    <3>4. CASE n > 2
      <4>1. n - 1 \in 2 .. Len(s) /\ s[n - 1] \in S
        BY <1>2, <3>1, <3>4
      <4>2. g.next[s[n - 1]] = s[n] /\ s[n] # NULL
        BY <1>2, <1>3, <3>1, <4>1 DEF IsChain
      <4> QED
        BY <3>1, <4>1, <4>2
    <3> QED
      BY <1>2, <3>1, <3>2, <3>3, <3>4
  <2> QED
    BY <1>2, <2>1 DEF Elements
<1>10. gone = A
  BY <1>8, <1>9
<1> HIDE DEF gone, A
<1>11. /\ {x \in gone : OwnsKey(g, x)} = {}
       /\ {x \in gone : OwnsText(g, x)} = {}
  BY <1>3, <1>5, <1>10 DEF OwnsKey, OwnsText, IsChain
<1>12. d = [next    |-> [x \in Item |-> IF x \in gone THEN NULL ELSE g.next[x]],
            prev    |-> [x \in Item |-> IF x \in gone THEN NULL ELSE g.prev[x]],
            child   |-> [x \in Item |-> IF x \in gone THEN NULL ELSE g.child[x]],
            type    |-> [x \in Item |-> IF x \in gone THEN {} ELSE g.type[x]],
            string  |-> [x \in Item |-> IF x \in gone THEN NULL ELSE g.string[x]],
            live    |-> g.live \ gone,
            strings |-> g.strings - 0 - 0]
  BY <1>4, <1>11, FS_EmptySet DEF cJSON_Delete, gone
<1> HIDE DEF d
<1>13. \A x \in Item \ gone :
         g.next[x] = h.next[x] /\ g.prev[x] = h.prev[x] /\ g.child[x] = h.child[x]
  BY <1>3, <1>10 DEF IsChain, A
<1>14. \A x \in Item : /\ d.next[x] = h.next[x]
                       /\ d.prev[x] = h.prev[x]
                       /\ d.child[x] = h.child[x]
                       /\ d.type[x] = h.type[x]
                       /\ d.string[x] = h.string[x]
  <2>1. g.type = h.type /\ g.string = h.string
    BY <1>3 DEF IsChain
  <2> QED
    BY <1>5, <1>10, <1>12, <1>13, <2>1
<1>15. d.live = h.live
  <2>1. g.live = h.live \cup A
    BY <1>3 DEF IsChain, A
  <2>2. \A x \in A : x \notin h.live
    BY <1>2 DEF A, Elements
  <2> QED
    BY <1>10, <1>12, <2>1, <2>2
<1>16. d = h
  <2>1. /\ DOMAIN d.next = Item /\ DOMAIN d.prev = Item /\ DOMAIN d.child = Item
        /\ DOMAIN d.type = Item /\ DOMAIN d.string = Item
        /\ d.next = [x \in Item |-> d.next[x]] /\ d.prev = [x \in Item |-> d.prev[x]]
        /\ d.child = [x \in Item |-> d.child[x]]
        /\ d.type = [x \in Item |-> d.type[x]]
        /\ d.string = [x \in Item |-> d.string[x]]
    BY <1>12
  <2>2. /\ d.next = h.next /\ d.prev = h.prev /\ d.child = h.child
        /\ d.type = h.type /\ d.string = h.string
    BY <1>1, <1>14, <2>1 DEF Heap
  <2>3. d.strings = h.strings
    BY <1>1, <1>3, <1>12 DEF Heap
  <2> QED
    BY <1>1, <1>12, <1>15, <2>2, <2>3 DEF Heap
<1> QED
  BY <1>16 DEF d, g

\* A chain whose first element shows the last one is a list.
LEMMA ChainLinks ==
  ASSUME NEW h, NEW H, WellLinked(h, H), NEW s, Free(h, s),
         NEW g, IsChain(g, h, s, s[Len(s)])
  PROVE  Made(Returns(s[1], g), h, H)
<1> USE NULLAssumption
<1>1. PICK owner : Links(h, owner, H)
  BY DEF WellLinked
<1> DEFINE a == s[1]
           built == Len(s)
           E == Elements(s)
           o == [x \in Item |-> IF x \in E THEN a ELSE owner[x]]
<1>2. /\ built \in Nat /\ built > 0
      /\ \A n \in 1 .. built : s[n] \in Item /\ s[n] \notin h.live
      /\ \A m, n \in 1 .. built : s[m] = s[n] => m = n
  BY DEF Free
<1>3. /\ E \in SUBSET Item /\ a \in Item /\ a \notin E
      /\ \A x \in E : \E n \in 2 .. built : x = s[n]
      /\ \A n \in 2 .. built : s[n] \in E
  BY <1>2 DEF Elements
<1>4. /\ \A x \in E : x \notin h.live /\ owner[x] = NULL
      /\ a \notin h.live /\ owner[a] = NULL
  BY <1>1, <1>2, <1>3 DEF Links, Backwards
<1>5. \A x \in E \cup {a} :
        /\ h.next[x] = NULL /\ h.prev[x] = NULL /\ h.child[x] = NULL
        /\ h.type[x] = {} /\ h.string[x] = NULL
  BY <1>1, <1>3, <1>4 DEF Links, Zeroed
<1>6. /\ g \in Heap
      /\ g.live = h.live \cup {a} \cup E
      /\ g.type = h.type /\ g.string = h.string
      /\ \A x \in Item :
           g.child[x] = IF x = a /\ built > 1 THEN s[2] ELSE h.child[x]
      /\ \A x \in Item \ E : g.next[x] = h.next[x] /\ g.prev[x] = h.prev[x]
      /\ \A n \in 2 .. built :
           /\ g.next[s[n]] = IF n < built THEN s[n + 1] ELSE NULL
           /\ g.prev[s[n]] = IF n > 2 THEN s[n - 1] ELSE s[built]
  BY DEF IsChain
<1>7. /\ o \in [Item -> Link]
      /\ \A x \in Item : o[x] = IF x \in E THEN a ELSE owner[x]
  BY <1>1, <1>3 DEF Links, Link
<1> HIDE DEF o, E
<1>8. \A c \in Item : IsOwner(h, c) => IsOwner(g, c) /\ c # a /\ c \notin E
  BY <1>4, <1>6 DEF IsOwner, IsReference
<1>9. IsOwner(g, a)
  BY <1>5, <1>6 DEF IsOwner, IsReference
<1>10. Zeroed(g)
  BY <1>1, <1>6 DEF Links, Zeroed
<1>11. h \in Heap
  BY <1>1 DEF Links
<1>12. Ends(g, o)
  <2> SUFFICES ASSUME NEW c \in Item, IsOwner(g, c), g.child[c] # NULL
               PROVE  /\ o[g.child[c]] = c
                      /\ g.prev[g.child[c]] \in Item
                      /\ o[g.prev[g.child[c]]] = c
                      /\ g.next[g.prev[g.child[c]]] = NULL
    BY DEF Ends
  <2>1. CASE c = a
    <3>1. built > 1 /\ g.child[c] = s[2]
      BY <1>5, <1>6, <2>1
    <3>2. 2 \in 2 .. built /\ built \in 2 .. built
      BY <1>2, <3>1
    <3>3. g.prev[s[2]] = s[built] /\ g.next[s[built]] = NULL
      BY <1>6, <3>2
    <3>4. s[2] \in E /\ s[built] \in E
      BY <1>3, <3>2
    <3> QED
      BY <1>3, <1>7, <2>1, <3>1, <3>3, <3>4
  <2>2. CASE c # a
    <3>1. g.child[c] = h.child[c] /\ h.child[c] # NULL
      BY <1>6, <2>2
    <3>2. c \notin E /\ IsOwner(h, c)
      BY <1>5, <1>6, <2>2, <3>1 DEF IsOwner, IsReference
    <3>3. /\ h.child[c] \in Item /\ owner[h.child[c]] = c
          /\ h.prev[h.child[c]] \in Item /\ owner[h.prev[h.child[c]]] = c
          /\ h.next[h.prev[h.child[c]]] = NULL
      BY <1>1, <1>11, <3>1, <3>2 DEF Links, Ends, Heap, Link
    <3>4. h.child[c] \notin E /\ h.prev[h.child[c]] \notin E
      BY <1>4, <3>3
    <3> QED
      BY <1>6, <1>7, <3>1, <3>3, <3>4
  <2> QED
    BY <2>1, <2>2
<1>13. Forwards(g, o)
  <2> SUFFICES ASSUME NEW x \in Item, g.next[x] # NULL
               PROVE  /\ o[x] # NULL
                      /\ o[g.next[x]] = o[x]
                      /\ g.prev[g.next[x]] = x
                      /\ g.child[o[x]] # g.next[x]
    BY DEF Forwards
  <2>1. CASE x \in E
    <3>1. PICK n \in 2 .. built : x = s[n]
      BY <1>3, <2>1
    <3>2. n < built /\ g.next[x] = s[n + 1]
      BY <1>6, <3>1
    <3>3. n + 1 \in 2 .. built /\ n + 1 > 2 /\ (n + 1) - 1 = n
      BY <1>2, <3>1, <3>2
    <3>4. s[n + 1] \in E /\ g.prev[s[n + 1]] = s[n]
      <4>1. g.prev[s[n + 1]] = s[(n + 1) - 1]
        BY <1>6, <3>3
      <4> QED
        BY <1>3, <3>3, <4>1
    <3>5. g.child[a] = s[2] /\ s[2] # s[n + 1]
      BY <1>2, <1>3, <1>6, <3>1, <3>3
    <3> QED
      BY <1>3, <1>7, <2>1, <3>1, <3>2, <3>4, <3>5
  <2>2. CASE x \notin E
    <3>1. g.next[x] = h.next[x] /\ h.next[x] \in Item
      BY <1>6, <1>11, <2>2 DEF Heap, Link
    <3>2. /\ owner[x] # NULL /\ owner[h.next[x]] = owner[x]
          /\ h.prev[h.next[x]] = x /\ h.child[owner[x]] # h.next[x]
          /\ owner[x] \in Item
      BY <1>1, <3>1 DEF Links, Forwards, Link
    <3>3. h.next[x] \notin E /\ owner[x] # a
      BY <1>1, <1>4, <1>8, <3>1, <3>2 DEF Links, Backwards
    <3> QED
      BY <1>6, <1>7, <2>2, <3>1, <3>2, <3>3
  <2> QED
    BY <2>1, <2>2
<1>14. Backwards(g, o)
  <2> SUFFICES ASSUME NEW x \in Item, o[x] # NULL
        PROVE  /\ x \in g.live
               /\ IsOwner(g, o[x])
               /\ g.child[o[x]] # NULL
               /\ x # g.child[o[x]] => g.prev[x] \in Item /\ g.next[g.prev[x]] = x
               /\ g.next[x] = NULL => x = g.prev[g.child[o[x]]]
    BY DEF Backwards
  <2>1. CASE x \in E
    <3>1. PICK n \in 2 .. built : x = s[n]
      BY <1>3, <2>1
    <3>2. o[x] = a /\ g.child[a] = s[2] /\ s[2] # NULL /\ s[n] # NULL
      BY <1>2, <1>3, <1>6, <1>7, <2>1, <3>1
    <3>3. ASSUME x # s[2] PROVE g.prev[x] \in Item /\ g.next[g.prev[x]] = x
      <4>1. n > 2 /\ n - 1 \in 2 .. built /\ n - 1 < built /\ (n - 1) + 1 = n
        BY <1>2, <3>1, <3>3
      <4>2. g.prev[x] = s[n - 1] /\ g.next[s[n - 1]] = s[(n - 1) + 1]
        BY <1>6, <3>1, <4>1
      <4>3. s[n - 1] \in Item
        BY <1>2, <4>1
      <4> QED
        BY <3>1, <4>1, <4>2, <4>3
    <3>4. ASSUME g.next[x] = NULL PROVE x = g.prev[s[2]]
      <4>1. n = built
        <5> SUFFICES ASSUME n < built PROVE FALSE
          BY <1>2, <3>1
        <5>1. g.next[x] = s[n + 1] /\ n + 1 \in 1 .. built
          BY <1>2, <1>6, <3>1
        <5> QED
          BY <1>2, <3>4, <5>1
      <4>2. g.prev[s[2]] = s[built]
        BY <1>2, <1>6, <3>1
      <4> QED
        BY <3>1, <4>1, <4>2
    <3> QED
      BY <1>6, <1>9, <2>1, <3>2, <3>3, <3>4
  <2>2. CASE x \notin E
    <3>1. /\ o[x] = owner[x] /\ owner[x] \in Item /\ x \in h.live
          /\ IsOwner(h, owner[x]) /\ h.child[owner[x]] \in Item
          /\ x # h.child[owner[x]] => h.prev[x] \in Item /\ h.next[h.prev[x]] = x
          /\ h.next[x] = NULL => x = h.prev[h.child[owner[x]]]
      BY <1>1, <1>7, <1>11, <2>2 DEF Links, Backwards, Heap, Link
    <3>2. /\ owner[x] # a /\ owner[x] \notin E /\ IsOwner(g, owner[x])
          /\ h.child[owner[x]] \notin E
      BY <1>1, <1>4, <1>8, <3>1 DEF Links, Ends
    <3>3. x # h.child[owner[x]] => h.prev[x] \notin E
      BY <1>5, <2>2, <3>1
    <3> QED
      BY <1>6, <2>2, <3>1, <3>2, <3>3
  <2> QED
    BY <2>1, <2>2
<1>15. Reached(g, o)
  <2> SUFFICES ASSUME NEW x \in Item, o[x] # NULL, NEW S \in SUBSET Item,
                      g.child[o[x]] \in S,
                      \A y \in S : g.next[y] # NULL => g.next[y] \in S
               PROVE  x \in S
    BY DEF Reached
  <2>1. CASE x \in E
    <3>1. PICK n \in 2 .. built : x = s[n]
      BY <1>3, <2>1
    <3>2. s[2] \in S
      BY <1>2, <1>3, <1>6, <1>7, <2>1, <3>1
    <3> DEFINE Bad == {m \in 2 .. built : s[m] \notin S}
    <3> SUFFICES ASSUME Bad # {} PROVE FALSE
      BY <3>1
    <3>3. PICK m \in Bad : \A k \in Bad : m <= k
      <4>1. Bad \in SUBSET Nat
        BY <1>2
      <4> HIDE DEF Bad
      <4> QED
        BY <4>1, LeastNat
    <3>4. m # 2 /\ m - 1 \in 2 .. built /\ m - 1 < built /\ (m - 1) + 1 = m
      BY <1>2, <3>2, <3>3
    <3>5. s[m - 1] \in S
      BY <3>3, <3>4
    <3>6. g.next[s[m - 1]] = s[(m - 1) + 1]
      BY <1>6, <3>4
    <3>7. s[m] \in Item
      BY <1>2, <3>3
    <3> QED
      BY <3>3, <3>4, <3>5, <3>6, <3>7
  <2>2. CASE x \notin E
    <3>1. o[x] = owner[x] /\ owner[x] \in Item /\ IsOwner(h, owner[x])
      BY <1>1, <1>7, <2>2 DEF Links, Backwards, Link
    <3>2. h.child[owner[x]] \in S
      BY <1>6, <1>8, <3>1
    <3>3. \A y \in S : h.next[y] # NULL => h.next[y] \in S
      BY <1>5, <1>6
    <3> QED
      BY <1>1, <3>1, <3>2, <3>3 DEF Links, Reached
  <2> QED
    BY <2>1, <2>2
<1>16. \A j \in H \cup {a} : j \in Item /\ IsRoot(g, o, j)
  <2>1. IsRoot(g, o, a)
    BY <1>3, <1>4, <1>5, <1>6, <1>7 DEF IsRoot
  <2>2. \A j \in H : j \in Item /\ IsRoot(g, o, j)
    BY <1>1, <1>4, <1>6, <1>7 DEF Links, IsRoot
  <2> QED
    BY <1>3, <2>1, <2>2
<1>a. Rooted(g, o, H \cup {a})
  <2> SUFFICES ASSUME NEW S \in SUBSET Item, H \cup {a} \subseteq S,
                      \A x \in g.live : o[x] \in S => x \in S
               PROVE  g.live \subseteq S
    BY DEF Rooted
  <2>1. E \cup {a} \subseteq S
    BY <1>3, <1>6, <1>7
  <2>2. \A x \in h.live : owner[x] \in S => x \in S
    BY <1>4, <1>6, <1>7, <1>11 DEF Heap
  <2>3. h.live \subseteq S
    BY <1>1, <2>2 DEF Links, Rooted
  <2> QED
    BY <1>6, <2>1, <2>3
<1>17. WellLinked(g, H \cup {a})
  BY <1>6, <1>7, <1>10, <1>12, <1>13, <1>14, <1>15, <1>16, <1>a
  DEF WellLinked, Links
<1>18. H \cup ({a} \ {NULL}) = H \cup {a}
  BY <1>3
<1> QED
  BY <1>3, <1>4, <1>8, <1>17, <1>18 DEF Made, Returns, Link

\* The array that is made is such a chain; without memory for it, nothing is.
LEMMA NumberArrayChain ==
  ASSUME NEW h, NEW H, WellLinked(h, H), NEW s \in Seq(Item \ h.live),
         \A m, n \in 1 .. Len(s) : s[m] = s[n] => m = n, NEW count \in Nat
  PROVE  LET r == CreateNumberArray(h, s, count)
         IN  \/ r = Returns(NULL, h)
             \/ \E g : /\ r = Returns(s[1], g) /\ Free(h, s)
                      /\ IsChain(g, h, s, s[Len(s)])
<1> USE NULLAssumption
<1> DEFINE r == CreateNumberArray(h, s, count)
           g == Chained(h, s)
           f == [g EXCEPT !.prev[s[2]] = s[Len(s)]]
<1>1. CASE Len(s) = 0
  BY <1>1 DEF CreateNumberArray
<1>2. CASE Len(s) # 0
  <2>1. Free(h, s) /\ Len(s) \in Nat
    BY <1>2 DEF Free
  <2>2. h \in Heap /\ Zeroed(h)
    BY DEF WellLinked, Links
  <2>3. IsChain(g, h, s, NULL)
    BY <2>1, <2>2, ChainedFields
  <2>4. CASE Len(s) < count + 1
    <3>1. r = Returns(NULL, cJSON_Delete(g, s[1]))
      BY <1>2, <2>4 DEF CreateNumberArray, Chained
    <3>2. cJSON_Delete(g, s[1]) = h
      BY <2>1, UnbuiltLinks
    <3> QED
      BY <3>1, <3>2
  <2>5. CASE ~(Len(s) < count + 1) /\ Len(s) = 1
    <3>1. r = Returns(s[1], g)
      BY <1>2, <2>5 DEF CreateNumberArray, Chained
    <3> HIDE DEF r, g
    <3>2. IsChain(g, h, s, s[Len(s)])
      BY <2>3, <2>5 DEF IsChain
    <3> QED
      BY <2>1, <3>1, <3>2 DEF r
  <2>6. CASE ~(Len(s) < count + 1) /\ Len(s) # 1
    <3>1. r = Returns(s[1], f)
      BY <1>2, <2>6 DEF CreateNumberArray, Chained
    <3> HIDE DEF r, g
    <3>2. /\ s[2] \in Item /\ s[Len(s)] \in Item
          /\ \A n \in 2 .. Len(s) : s[n] = s[2] => n = 2
          /\ \A n \in 2 .. Len(s) : s[n] \in Item
          /\ s[2] \in Elements(s)
      <4>1. 2 \in 2 .. Len(s) /\ Len(s) \in 2 .. Len(s)
        <5>1. \A n \in Nat : n # 0 /\ n # 1 => 2 \in 2 .. n /\ n \in 2 .. n
          OBVIOUS
        <5>2. Len(s) \in Nat /\ Len(s) # 0 /\ Len(s) # 1
          BY <1>2, <2>1, <2>6
        <5> QED
          BY <5>1, <5>2
      <4>2. \A n \in 2 .. Len(s) : n \in 1 .. Len(s) /\ s[n] \in Item
        BY <2>1 DEF Free
      <4>3. \A m, n \in 1 .. Len(s) : s[m] = s[n] => m = n
        BY <2>1 DEF Free
      <4> QED
        BY <4>1, <4>2, <4>3 DEF Elements
    <3>3. /\ f \in Heap /\ f.live = g.live /\ f.type = g.type
          /\ f.string = g.string /\ f.child = g.child /\ f.next = g.next
          /\ f.prev = [g.prev EXCEPT ![s[2]] = s[Len(s)]]
          /\ g \in Heap
      BY <2>3, <3>2 DEF IsChain, Heap, Link
    <3> HIDE DEF f
    <3>4. /\ \A x \in Item \ Elements(s) : f.prev[x] = g.prev[x]
          /\ \A n \in 2 .. Len(s) :
               f.prev[s[n]] = IF n > 2 THEN g.prev[s[n]] ELSE s[Len(s)]
      BY <3>2, <3>3 DEF Heap
    <3>5. IsChain(f, h, s, s[Len(s)])
      BY <2>3, <3>3, <3>4 DEF IsChain
    <3> QED
      BY <2>1, <3>1, <3>5 DEF r
  <2> QED
    BY <2>4, <2>5, <2>6
<1> QED
  BY <1>1, <1>2

\* An array of numbers is made well linked, or not at all.
LEMMA CreateNumberArrayLinks ==
  ASSUME NEW h, NEW H, WellLinked(h, H), NEW s \in Seq(Item \ h.live),
         \A m, n \in 1 .. Len(s) : s[m] = s[n] => m = n, NEW count \in Nat
  PROVE  Made(CreateNumberArray(h, s, count), h, H)
<1> DEFINE r == CreateNumberArray(h, s, count)
<1>1. \/ r = Returns(NULL, h)
      \/ \E g : /\ r = Returns(s[1], g) /\ Free(h, s)
               /\ IsChain(g, h, s, s[Len(s)])
  BY NumberArrayChain
<1> HIDE DEF r
<1>2. CASE r = Returns(NULL, h)
  BY <1>2, NothingMade DEF MadeAlone, r
<1>3. ASSUME NEW g, r = Returns(s[1], g), Free(h, s), IsChain(g, h, s, s[Len(s)])
      PROVE  Made(r, h, H)
  BY <1>3, ChainLinks
<1> QED
  BY <1>1, <1>2, <1>3 DEF r

\* Texts in the elements change no list.
LEMMA CreateStringArrayLinks ==
  ASSUME NEW h, NEW H, WellLinked(h, H), NEW s \in Seq(Item \ h.live),
         \A m, n \in 1 .. Len(s) : s[m] = s[n] => m = n, NEW count \in Nat
  PROVE  Made(CreateStringArray(h, s, count), h, H)
<1> DEFINE array == CreateNumberArray(h, s, count)
           g == array.heap
           elements == g.live \ (h.live \cup {array.ret})
           type == [i \in Item |-> IF i \in elements THEN g.type[i] \cup {"HasText"}
                                                    ELSE g.type[i]]
           strings == g.strings + count
           f == [g EXCEPT !.strings = strings, !.type = type]
           roots == H \cup ({array.ret} \ {NULL})
<1>1. Made(array, h, H)
  BY CreateNumberArrayLinks
<1>2. CreateStringArray(h, s, count)
        = IF array.ret = NULL THEN array ELSE Returns(array.ret, f)
  BY DEF CreateStringArray
<1> HIDE DEF array
<1>3. WellLinked(g, roots) /\ g \in Heap /\ Zeroed(g)
  BY <1>1 DEF Made, WellLinked, Links
<1>4. type \in [Item -> SUBSET Bit]
  BY <1>3 DEF Heap, Bit
<1>5. \A i \in Item : i \notin g.live => type[i] = g.type[i]
  OBVIOUS
<1>6. \A i \in Item : "IsReference" \in type[i] <=> "IsReference" \in g.type[i]
  OBVIOUS
<1> HIDE DEF type
<1>7. /\ f \in Heap /\ f.next = g.next /\ f.prev = g.prev /\ f.child = g.child
      /\ f.live = g.live /\ f.string = g.string /\ f.type = type
  <2>1. strings \in Int
    BY <1>3 DEF Heap
  <2> HIDE DEF strings, g
  <2>2. g \in Heap
    BY <1>3
  <2> QED
    BY <1>4, <2>1, <2>2 DEF Heap
<1> HIDE DEF f, g
<1>8. Zeroed(f)
  BY <1>3, <1>5, <1>7 DEF Zeroed
<1>9. \A i \in Item : IsReference(f, i) <=> IsReference(g, i)
  BY <1>6, <1>7 DEF IsReference
<1>10. WellLinked(f, roots)
  BY <1>3, <1>7, <1>8, <1>9, SameLinks
<1>11. \A c \in Item : IsOwner(f, c) <=> IsOwner(g, c)
  BY <1>7, <1>9, OwnersSame
<1>12. Made(Returns(array.ret, f), h, H)
  <2>1. /\ array.ret \in Link /\ array.ret \notin h.live
        /\ array.ret # NULL => \A c \in Item : IsOwner(h, c) => IsOwner(g, c)
    BY <1>1 DEF Made, g
  <2> QED
    BY <1>1, <1>10, <1>11, <2>1 DEF Made, Returns
<1> QED
  BY <1>1, <1>2, <1>12

-----------------------------------------------------------------------------
(* Calls made of two.                                                      *)

\* An item of the list of c, or none, is detached, and may then be deleted.
LEMMA TakeLinks ==
  ASSUME NEW h, NEW owner, NEW H, Links(h, owner, H),
         NEW c \in Item, IsOwner(h, c),
         NEW x \in Link, x # NULL => owner[x] = c
  PROVE  LET r == cJSON_DetachItemViaPointer(h, c, x)
         IN  /\ WellLinked(r.heap, H \cup ({r.ret} \ {NULL}))
             /\ WellLinked(cJSON_Delete(r.heap, r.ret), H)
<1> USE NULLAssumption
<1> DEFINE r == cJSON_DetachItemViaPointer(h, c, x)
<1>1. CASE x = NULL
  <2>1. r = Returns(NULL, h)
    BY <1>1 DEF cJSON_DetachItemViaPointer
  <2>2. H \cup ({NULL} \ {NULL}) = H /\ WellLinked(h, H)
    BY DEF WellLinked
  <2>3. cJSON_Delete(h, NULL) = h
    BY DEF cJSON_Delete
  <2>4. r.ret = NULL /\ r.heap = h
    BY <2>1 DEF Returns
  <2> HIDE DEF r
  <2>5. WellLinked(cJSON_Delete(r.heap, r.ret), H)
    BY <2>2, <2>3, <2>4
  <2>6. WellLinked(r.heap, H \cup ({r.ret} \ {NULL}))
    BY <2>2, <2>4
  <2> QED
    BY <2>5, <2>6 DEF r
<1>2. CASE x # NULL
  <2>1. owner[x] = c /\ x \in Item
    BY <1>2 DEF Link
  <2>2. r.ret = x /\ WellLinked(r.heap, H \cup ({r.ret} \ {NULL}))
    BY <1>2, <2>1, DetachLinks
  <2> HIDE DEF r
  <2>3. x \notin H
    BY <2>1 DEF Links, IsRoot
  <2>4. H \cup ({x} \ {NULL}) = H \cup {x} /\ (H \cup {x}) \ {x} = H
    BY <1>2, <2>3
  <2>5. WellLinked(cJSON_Delete(r.heap, x), (H \cup {x}) \ {x})
    BY <2>2, <2>4, DeleteLinks
  <2> QED
    BY <2>2, <2>4, <2>5 DEF r
<1> QED
  BY <1>1, <1>2

\* What has been made is added to a list, or nothing has been made.
LEMMA MadeAndListed ==
  ASSUME NEW h, NEW H, WellLinked(h, H), NEW c \in Item, IsOwner(h, c),
         NEW r, MadeAlone(r, h, H)
  PROVE  WellLinked(add_item_to_array(r.heap, c, r.ret).heap, H)
<1> USE NULLAssumption
<1> DEFINE x == r.ret
           g == r.heap
           listed == add_item_to_array(g, c, x)
           G == H \cup ({x} \ {NULL})
<1>1. x \in Link /\ x \notin H /\ x # c /\ WellLinked(g, G)
  BY DEF MadeAlone, Made, WellLinked, Links, IsRoot, IsOwner
<1>2. x # NULL => IsOwner(g, c) /\ Lone(g, x)
  BY DEF MadeAlone, Made
<1> HIDE DEF x, g
<1>3. CASE x = NULL
  <2>1. listed = Returns(FALSE, g)
    BY <1>3 DEF add_item_to_array
  <2>2. G = H
    BY <1>3
  <2> QED
    BY <1>1, <2>1, <2>2 DEF Returns, x, g
<1>4. CASE x # NULL
  <2>1. G = H \cup {x} /\ G \ {x} = H /\ x \in G
    BY <1>1, <1>4
  <2>2. c \notin Deleted(g, x)
    <3>1. x \in Item
      BY <1>1, <1>4 DEF Link
    <3>2. Deleted(g, x) = {x}
      BY <1>2, <1>4, <3>1, LoneDeleted
    <3> QED
      BY <1>1, <3>2
  <2> HIDE DEF G, listed
  <2>3. listed.ret /\ WellLinked(listed.heap, G \ {x})
    <3>1. /\ listed.ret <=> x # NULL /\ x # c
          /\ listed.ret => WellLinked(listed.heap, G \ {x})
      BY <1>1, <1>2, <1>4, <2>1, <2>2, AddLinks DEF listed
    <3> QED
      BY <1>1, <1>4, <3>1
  <2> QED
    BY <2>1, <2>3 DEF listed, x, g
<1> QED
  BY <1>3, <1>4

\* What has been made is added to an object, or is deleted again, or is lost: a
\* root that nobody holds.
LEMMA MadeAndAdded ==
  ASSUME NEW h, NEW H, WellLinked(h, H), NEW c \in Item, IsOwner(h, c),
         NEW r, MadeAlone(r, h, H), NEW k \in Key, NEW memory \in BOOLEAN
  PROVE  LET added == add_item_to_object(r.heap, c, k, r.ret, FALSE, memory)
             lost == IF memory THEN {} ELSE {r.ret} \ {NULL}
         IN  /\ WellLinked(added.heap, H \cup lost)
             /\ WellLinked(IF added.ret THEN added.heap
                           ELSE cJSON_Delete(added.heap, r.ret), H)
<1> USE NULLAssumption
<1> DEFINE x == r.ret
           g == r.heap
           added == add_item_to_object(g, c, k, x, FALSE, memory)
           G == H \cup ({x} \ {NULL})
           lost == IF memory THEN {} ELSE {x} \ {NULL}
<1>1. x \in Link /\ x \notin H /\ x # c /\ WellLinked(g, G)
  BY DEF MadeAlone, Made, WellLinked, Links, IsRoot, IsOwner
<1>2. x # NULL => IsOwner(g, c) /\ Lone(g, x)
  BY DEF MadeAlone, Made
<1> HIDE DEF x, g
<1>3. CASE x = NULL
  <2>1. added = Returns(FALSE, g)
    BY <1>3 DEF add_item_to_object
  <2>2. cJSON_Delete(g, x) = g
    BY <1>3 DEF cJSON_Delete
  <2>3. WellLinked(g, H) /\ H \cup lost = H
    <3>1. G = H
      BY <1>3
    <3> QED
      BY <1>1, <1>3, <3>1
  <2> HIDE DEF added, lost
  <2>4. added.ret = FALSE /\ added.heap = g
    BY <2>1 DEF Returns
  <2>5. WellLinked(IF added.ret THEN added.heap
                   ELSE cJSON_Delete(added.heap, x), H)
    BY <2>2, <2>3, <2>4
  <2>6. WellLinked(added.heap, H \cup lost)
    BY <2>3, <2>4
  <2> QED
    BY <2>5, <2>6 DEF added, lost, x, g
<1>4. CASE x # NULL
  <2>1. G = H \cup {x} /\ G \ {x} = H /\ x \in G
    BY <1>1, <1>4
  <2>2. c \notin Deleted(g, x)
    <3>1. x \in Item
      BY <1>1, <1>4 DEF Link
    <3>2. Deleted(g, x) = {x}
      BY <1>2, <1>4, <3>1, LoneDeleted
    <3> QED
      BY <1>1, <3>2
  <2>3. H \cup lost = IF memory THEN H ELSE G
    BY <1>4
  <2> HIDE DEF G, added, lost
  <2>4. /\ added.ret <=> memory
        /\ added.ret => WellLinked(added.heap, G \ {x})
        /\ ~added.ret => WellLinked(added.heap, G)
    <3>1. /\ added.ret <=> x # NULL /\ x # c /\ (FALSE \/ memory)
          /\ added.ret => WellLinked(added.heap, G \ {x})
          /\ ~added.ret => WellLinked(added.heap, G)
      BY <1>1, <1>2, <1>4, <2>1, <2>2, AddToObjectLinks DEF added
    <3> QED
      BY <1>1, <1>4, <3>1
  <2>5. WellLinked(added.heap, H \cup lost)
    BY <2>1, <2>3, <2>4
  <2>6. ~added.ret => WellLinked(cJSON_Delete(added.heap, x), H)
    <3>1. x \in G \cup {NULL}
      BY <2>1
    <3>2. ~added.ret => WellLinked(cJSON_Delete(added.heap, x), G \ {x})
      BY <2>4, <3>1, DeleteLinks
    <3> QED
      BY <2>1, <3>2
  <2>7. WellLinked(IF added.ret THEN added.heap
                   ELSE cJSON_Delete(added.heap, x), H)
    BY <2>1, <2>4, <2>6
  <2> QED
    BY <2>5, <2>7 DEF added, lost, x, g
<1> QED
  BY <1>3, <1>4

-----------------------------------------------------------------------------
(* Strings and references.                                                 *)

\* The items with a key, and those with a text, that cJSON_Delete frees.
Keyed(h) == {i \in Item : OwnsKey(h, i)}
Texted(h) == {i \in Item : OwnsText(h, i)}

\* Every string block that is allocated is the key or the text of one item.
Ledger(h) == h.strings = Cardinality(Keyed(h)) + Cardinality(Texted(h))

\* A reference shows an item that exists, or nothing.
Referents(h) ==
  \A r \in h.live : IsReference(h, r) => h.child[r] \in h.live \cup {NULL}

\* The references of g were there in h and showed the same.
KeepsReferences(h, g) ==
  \A r \in g.live : IsReference(g, r) =>
    r \in h.live /\ IsReference(h, r) /\ g.child[r] = h.child[r]

\* What a call does to strings and references that leaves neither in disorder.
Keeps(h, g) == (Ledger(h) => Ledger(g)) /\ KeepsReferences(h, g)

\* A heap keeps what it has.
LEMMA KeepsItself == \A h : Keeps(h, h)
BY DEF Keeps, KeepsReferences

\* Keeping is transitive.
LEMMA KeepsTransitive ==
  \A h, g, f : Keeps(h, g) /\ Keeps(g, f) => Keeps(h, f)
BY DEF Keeps, KeepsReferences

\* References stay good as long as nothing is freed that one of them shows.
LEMMA ReferentsKept ==
  ASSUME NEW h, NEW g, Referents(h), KeepsReferences(h, g),
         \A r \in g.live : IsReference(g, r) => g.child[r] \notin h.live \ g.live
  PROVE  Referents(g)
BY DEF Referents, KeepsReferences

\* Neither keys nor texts nor references are touched.
LEMMA RelinkKeeps ==
  ASSUME NEW h \in Heap, NEW c, IsOwner(h, c), NEW g, g.live = h.live,
         g.type = h.type, g.string = h.string, g.strings = h.strings,
         \A x \in Item \ {c} : g.child[x] = h.child[x]
  PROVE  Keeps(h, g)
<1>1. Keyed(g) = Keyed(h) /\ Texted(g) = Texted(h)
  BY DEF Keyed, Texted, OwnsKey, OwnsText
<1>2. KeepsReferences(h, g)
  BY DEF KeepsReferences, IsReference, IsOwner, Heap
<1> QED
  BY <1>1, <1>2 DEF Keeps, Ledger

\* An item gets another key, or none, and the count follows.
LEMMA RekeyKeeps ==
  ASSUME NEW h \in Heap, NEW i \in Item, NEW g,
         g.live = h.live, g.child = h.child,
         \A x \in Item \ {i} : g.string[x] = h.string[x] /\ g.type[x] = h.type[x],
         "IsReference" \in g.type[i] <=> "IsReference" \in h.type[i],
         "HasText" \in g.type[i] <=> "HasText" \in h.type[i],
         g.strings = h.strings - (IF OwnsKey(h, i) THEN 1 ELSE 0)
                               + (IF OwnsKey(g, i) THEN 1 ELSE 0)
  PROVE  Keeps(h, g)
<1> DEFINE K == Keyed(h) \ {i}
<1>1. Texted(g) = Texted(h)
  BY DEF Texted, OwnsText
<1>2. KeepsReferences(h, g)
  BY DEF KeepsReferences, IsReference, Heap
<1>3. /\ Keyed(h) = IF OwnsKey(h, i) THEN K \cup {i} ELSE K
      /\ Keyed(g) = IF OwnsKey(g, i) THEN K \cup {i} ELSE K
  BY DEF Keyed, OwnsKey
<1>4. i \notin K /\ K \in SUBSET Item
  BY DEF Keyed
<1> HIDE DEF K
<1>5. IsFiniteSet(K) /\ Cardinality(K) \in Nat
  BY <1>4, ItemAssumption, FS_Subset, FS_CardinalityType
<1>6. Cardinality(K \cup {i}) = Cardinality(K) + 1
  BY <1>4, <1>5, FS_AddElement
<1>7. /\ Cardinality(Keyed(h))
           = Cardinality(K) + (IF OwnsKey(h, i) THEN 1 ELSE 0)
      /\ Cardinality(Keyed(g))
           = Cardinality(K) + (IF OwnsKey(g, i) THEN 1 ELSE 0)
  BY <1>3, <1>5, <1>6
<1>8. Texted(h) \in SUBSET Item
  BY DEF Texted
<1>9. Cardinality(Texted(h)) \in Nat
  BY <1>8, ItemAssumption, FS_Subset, FS_CardinalityType
<1>10. Ledger(h) => Ledger(g)
  BY <1>1, <1>5, <1>7, <1>9 DEF Ledger
<1> QED
  BY <1>2, <1>10 DEF Keeps

\* cJSON_Delete gives back the strings of what it frees.
LEMMA DeleteKeeps ==
  ASSUME NEW h \in Heap, NEW i \in Item \cup {NULL}
  PROVE  Keeps(h, cJSON_Delete(h, i)) /\ cJSON_Delete(h, i).live \subseteq h.live
<1> USE NULLAssumption
<1>1. CASE i = NULL
  BY <1>1, KeepsItself DEF cJSON_Delete
<1>2. CASE i # NULL
  <2> DEFINE gone == Deleted(h, i)
             g == cJSON_Delete(h, i)
  <2>1. gone \in SUBSET Item
    BY <1>2, DeletedClosed
  <2>2. /\ g.live = h.live \ gone
        /\ g.strings = h.strings - Cardinality({x \in gone : OwnsKey(h, x)})
                                 - Cardinality({x \in gone : OwnsText(h, x)})
        /\ \A x \in Item :
             /\ g.type[x] = IF x \in gone THEN {} ELSE h.type[x]
             /\ g.string[x] = IF x \in gone THEN NULL ELSE h.string[x]
             /\ g.child[x] = IF x \in gone THEN NULL ELSE h.child[x]
    BY <1>2 DEF cJSON_Delete
  <2> HIDE DEF gone, g
  <2>3. KeepsReferences(h, g)
    BY <2>1, <2>2 DEF KeepsReferences, IsReference, Heap
  <2>4. /\ Keyed(g) = Keyed(h) \ gone
        /\ Texted(g) = Texted(h) \ gone
        /\ {x \in gone : OwnsKey(h, x)} = Keyed(h) \cap gone
        /\ {x \in gone : OwnsText(h, x)} = Texted(h) \cap gone
    BY <2>1, <2>2 DEF Keyed, Texted, OwnsKey, OwnsText
  <2>5. Keyed(h) \in SUBSET Item /\ Texted(h) \in SUBSET Item
    BY DEF Keyed, Texted
  <2>6. IsFiniteSet(Keyed(h)) /\ IsFiniteSet(Texted(h))
    BY <2>5, ItemAssumption, FS_Subset
  <2>7. /\ Cardinality(Keyed(h)) \in Nat /\ Cardinality(Texted(h)) \in Nat
        /\ Cardinality(Keyed(h) \cap gone) \in Nat
        /\ Cardinality(Texted(h) \cap gone) \in Nat
    BY <2>6, FS_Intersection, FS_CardinalityType
  <2>8. /\ Cardinality(Keyed(g))
             = Cardinality(Keyed(h)) - Cardinality(Keyed(h) \cap gone)
        /\ Cardinality(Texted(g))
             = Cardinality(Texted(h)) - Cardinality(Texted(h) \cap gone)
    BY <2>4, <2>6, FS_Difference
  <2>9. Ledger(h) => Ledger(g)
    <3>1. g.strings = h.strings - Cardinality(Keyed(h) \cap gone)
                                - Cardinality(Texted(h) \cap gone)
      BY <2>2, <2>4
    <3> QED
      BY <2>7, <2>8, <3>1 DEF Ledger
  <2> QED
    BY <2>2, <2>3, <2>9 DEF Keeps, g
<1> QED
  BY <1>1, <1>2

\* Appending to a list.
LEMMA AddKeeps ==
  ASSUME NEW h \in Heap, NEW c \in Item, IsOwner(h, c), NEW i \in Link
  PROVE  LET g == add_item_to_array(h, c, i).heap
         IN  Keeps(h, g) /\ g.live = h.live
<1> USE NULLAssumption
<1> DEFINE first == h.child[c]
           only == [h EXCEPT !.child[c] = i, !.prev[i] = i, !.next[i] = NULL]
           last == [suffix_object(h, h.prev[first], i) EXCEPT !.prev[first] = i]
           g == add_item_to_array(h, c, i).heap
<1>1. g = h \/ g = only \/ g = last
  BY DEF add_item_to_array, Returns
<1>2. /\ only.live = h.live /\ only.type = h.type
      /\ only.string = h.string /\ only.strings = h.strings
      /\ \A x \in Item \ {c} : only.child[x] = h.child[x]
  BY DEF Heap
<1>3. /\ last.live = h.live /\ last.type = h.type
      /\ last.string = h.string /\ last.strings = h.strings
      /\ last.child = h.child
  BY DEF Heap, suffix_object
<1> HIDE DEF only, last, g
<1>4. Keeps(h, only)
  BY <1>2, RelinkKeeps
<1>5. Keeps(h, last)
  BY <1>3, RelinkKeeps
<1> QED
  BY <1>1, <1>2, <1>3, <1>4, <1>5, KeepsItself DEF g

\* Detaching from a list.
LEMMA DetachKeeps ==
  ASSUME NEW h, NEW owner, NEW H, Links(h, owner, H),
         NEW c \in Item, IsOwner(h, c), NEW item \in Link,
         item = NULL \/ item \in H \/ owner[item] = c
  PROVE  LET g == cJSON_DetachItemViaPointer(h, c, item).heap
         IN  g \in Heap /\ Keeps(h, g) /\ g.live = h.live
<1> USE NULLAssumption
<1> DEFINE g == cJSON_DetachItemViaPointer(h, c, item).heap
<1>1. h \in Heap
  BY DEF Links
<1>2. CASE item = NULL
  BY <1>1, <1>2, KeepsItself DEF cJSON_DetachItemViaPointer, Returns
<1>3. CASE item # NULL /\ item \in H
  <2>1. item # h.child[c] /\ h.prev[item] = NULL
    BY <1>3 DEF Links, Ends, IsRoot
  <2> QED
    BY <1>1, <1>3, <2>1, KeepsItself DEF cJSON_DetachItemViaPointer, Returns
<1>4. CASE item # NULL /\ owner[item] = c
  <2>1. item \in Item
    BY <1>4 DEF Link
  <2>2. /\ g \in Heap
        /\ g.live = h.live /\ g.type = h.type /\ g.string = h.string
        /\ g.strings = h.strings
        /\ g.child = IF item = h.child[c]
                     THEN [h.child EXCEPT ![c] = h.next[item]] ELSE h.child
    BY <1>4, <2>1, DetachFields
  <2> HIDE DEF g
  <2>3. \A x \in Item \ {c} : g.child[x] = h.child[x]
    BY <1>1, <2>2 DEF Heap
  <2>4. Keeps(h, g)
    BY <1>1, <2>2, <2>3, RelinkKeeps
  <2> QED
    BY <2>2, <2>4 DEF g
<1> QED
  BY <1>2, <1>3, <1>4

\* Inserting before an item of the list.
LEMMA InsertedBeforeKeeps ==
  ASSUME NEW h, NEW owner, NEW H, Links(h, owner, H),
         NEW c \in Item, IsOwner(h, c), NEW x \in Item, owner[x] = c,
         NEW i \in H, i # c, c \notin Deleted(h, i)
  PROVE  LET g == InsertedBefore(h, c, x, i)
         IN  Keeps(h, g) /\ g.live = h.live
<1> DEFINE g == InsertedBefore(h, c, x, i)
<1>1. h \in Heap
  BY DEF Links
<1>2. InsertedBeforeFields(g, h, c, x, i)
  BY InsertedBeforeLinks
<1> HIDE DEF g
<1>3. /\ g.live = h.live /\ g.type = h.type
      /\ g.string = h.string /\ g.strings = h.strings
      /\ \A y \in Item \ {c} : g.child[y] = h.child[y]
  BY <1>1, <1>2 DEF InsertedBeforeFields, Heap
<1>4. Keeps(h, g)
  BY <1>1, <1>3, RelinkKeeps
<1> QED
  BY <1>3, <1>4 DEF g

\* cJSON_InsertItemInArray.
LEMMA InsertKeeps ==
  ASSUME NEW h, NEW H, WellLinked(h, H), NEW c \in Item, IsOwner(h, c),
         NEW i \in H, i # c, c \notin Deleted(h, i), NEW which \in Nat
  PROVE  LET g == cJSON_InsertItemInArray(h, c, which, i).heap
         IN  Keeps(h, g) /\ g.live = h.live
<1> USE NULLAssumption
<1>1. PICK owner : Links(h, owner, H)
  BY DEF WellLinked
<1> DEFINE x == get_array_item(h, c, which)
           prev == h.prev[x]
           placed == [h EXCEPT !.next[i] = x, !.prev[i] = prev, !.prev[x] = i]
           r == cJSON_InsertItemInArray(h, c, which, i)
<1>2. /\ h \in Heap /\ i \in Link
      /\ x \in Link /\ (x # NULL => x \in Item /\ owner[x] = c)
  BY <1>1, GetArrayItemOwned DEF Links, Link
<1>3. r = IF x = NULL THEN add_item_to_array(h, c, i)
          ELSE IF x = h.child[c]
          THEN Returns(TRUE, [placed EXCEPT !.child[c] = i])
          ELSE IF prev = NULL THEN Returns(FALSE, h)
          ELSE Returns(TRUE, [placed EXCEPT !.next[prev] = i])
  BY DEF cJSON_InsertItemInArray
<1>4. CASE x = NULL
  <2>1. r = add_item_to_array(h, c, i)
    BY <1>3, <1>4
  <2> HIDE DEF r
  <2>2. Keeps(h, r.heap) /\ r.heap.live = h.live
    BY <1>2, <2>1, AddKeeps
  <2> QED
    BY <2>2 DEF r
<1>5. CASE x # NULL
  <2>1. r.heap = h \/ r.heap = InsertedBefore(h, c, x, i)
    <3> HIDE DEF x, r
    <3> QED
      BY <1>3, <1>5 DEF InsertedBefore, Returns
  <2> HIDE DEF x, r
  <2>2. /\ Keeps(h, InsertedBefore(h, c, x, i))
        /\ InsertedBefore(h, c, x, i).live = h.live
    BY <1>1, <1>2, <1>5, InsertedBeforeKeeps
  <2>3. Keeps(h, r.heap) /\ r.heap.live = h.live
    BY <2>1, <2>2, KeepsItself
  <2> QED
    BY <2>3 DEF r
<1> QED
  BY <1>4, <1>5

\* Replacing frees the item that was replaced.
LEMMA ReplaceKeeps ==
  ASSUME NEW h, NEW owner, NEW H, Links(h, owner, H),
         NEW c \in Item, IsOwner(h, c), NEW item \in Link,
         item # NULL => owner[item] = c,
         NEW i \in Item,
         (i \in H \ {c} /\ c \notin Deleted(h, i)) \/ i = item
  PROVE  Keeps(h, cJSON_ReplaceItemViaPointer(h, c, item, i).heap)
<1> USE NULLAssumption
<1> DEFINE r == cJSON_ReplaceItemViaPointer(h, c, item, i)
<1>1. CASE h.child[c] = NULL \/ item = NULL \/ i = item
  <2>1. r.heap = h
    BY <1>1 DEF cJSON_ReplaceItemViaPointer, Returns
  <2> QED
    BY <2>1, KeepsItself
<1>2. CASE ~(h.child[c] = NULL \/ item = NULL \/ i = item)
  <2> DEFINE g == InsertedBefore(h, c, item, i)
             d == cJSON_DetachItemViaPointer(g, c, item).heap
  <2>1. r.heap = cJSON_Delete(Replaced(h, c, item, i), item)
    BY <1>2 DEF cJSON_ReplaceItemViaPointer, Replaced, Returns
  <2>2. /\ item \in Item /\ owner[item] = c
        /\ i \in H /\ i # c /\ c \notin Deleted(h, i)
    BY <1>2 DEF Link
  <2>3. Replaced(h, c, item, i) = d
    <3> HIDE DEF d, g
    <3> QED
      BY <2>2, ReplacedIsInsertedAndDetached DEF d, g
  <2>4. /\ \E o : Links(g, o, H \ {i}) /\ o[item] = c
        /\ InsertedBeforeFields(g, h, c, item, i)
    BY <2>2, InsertedBeforeLinks
  <2>5. Keeps(h, g)
    BY <2>2, InsertedBeforeKeeps
  <2> HIDE DEF g
  <2>6. PICK o : Links(g, o, H \ {i}) /\ o[item] = c
    BY <2>4
  <2>7. IsOwner(g, c)
    BY <2>4 DEF IsOwner, IsReference, InsertedBeforeFields
  <2>8. d \in Heap /\ Keeps(g, d)
    BY <2>2, <2>6, <2>7, DetachKeeps
  <2> HIDE DEF d, r
  <2>9. Keeps(d, cJSON_Delete(d, item))
    BY <2>2, <2>8, DeleteKeeps
  <2>10. Keeps(h, r.heap)
    BY <2>1, <2>3, <2>5, <2>8, <2>9, KeepsTransitive
  <2> QED
    BY <2>10 DEF r
<1> QED
  BY <1>1, <1>2

\* The fields after Rename, and after cJSON_strdup.
LEMMA RenameFields ==
  ASSUME NEW h \in Heap, NEW i \in Item, NEW k \in Key,
         NEW constant_key \in BOOLEAN
  PROVE  LET g == Rename(h, i, k, constant_key)
         IN  /\ g \in Heap /\ g.live = h.live /\ g.child = h.child
             /\ g.next = h.next
             /\ \A x \in Item \ {i} : g.string[x] = h.string[x] /\ g.type[x] = h.type[x]
             /\ "IsReference" \in g.type[i] <=> "IsReference" \in h.type[i]
             /\ "HasText" \in g.type[i] <=> "HasText" \in h.type[i]
             /\ OwnsKey(g, i) <=> ~constant_key
             /\ g.strings = h.strings - (IF OwnsKey(h, i) THEN 1 ELSE 0)
<1> DEFINE n == IF OwnsKey(h, i) THEN h.strings - 1 ELSE h.strings
           t == IF constant_key THEN h.type[i] \cup {"StringIsConst"}
                                ELSE h.type[i] \ {"StringIsConst"}
           g == Rename(h, i, k, constant_key)
<1>1. n \in Int /\ t \in SUBSET Bit
  BY DEF Heap, Bit
<1>2. /\ "IsReference" \in t <=> "IsReference" \in h.type[i]
      /\ "HasText" \in t <=> "HasText" \in h.type[i]
      /\ "StringIsConst" \in t <=> constant_key
  OBVIOUS
<1>3. g = [h EXCEPT !.strings = n, !.string[i] = k, !.type[i] = t]
  BY DEF Rename, Heap
<1>4. n = h.strings - (IF OwnsKey(h, i) THEN 1 ELSE 0)
  BY DEF Heap
<1> HIDE DEF n, t, g
<1>5. /\ g \in Heap /\ g.live = h.live /\ g.child = h.child /\ g.strings = n
      /\ g.next = h.next
      /\ g.string = [h.string EXCEPT ![i] = k]
      /\ g.type = [h.type EXCEPT ![i] = t]
  BY <1>1, <1>3 DEF Heap
<1>6. /\ g.string[i] = k /\ g.type[i] = t
      /\ \A x \in Item \ {i} : g.string[x] = h.string[x] /\ g.type[x] = h.type[x]
  BY <1>5 DEF Heap
<1>7. OwnsKey(g, i) <=> ~constant_key
  BY <1>2, <1>6, NULLAssumption DEF OwnsKey
<1> QED
  BY <1>2, <1>4, <1>5, <1>6, <1>7 DEF g

\* A string that is allocated adds one to the strings.
LEMMA StrdupFields ==
  ASSUME NEW h \in Heap
  PROVE  LET g == cJSON_strdup(h)
         IN  /\ g \in Heap /\ g.live = h.live /\ g.child = h.child
             /\ g.next = h.next /\ g.prev = h.prev
             /\ g.string = h.string /\ g.type = h.type
             /\ g.strings = h.strings + 1
BY DEF cJSON_strdup, Heap

\* Adding to an object: the block of the new key is the one more, or the key
\* is the caller's.
LEMMA AddToObjectKeeps ==
  ASSUME NEW h \in Heap, NEW c \in Item, IsOwner(h, c), NEW i \in Link,
         NEW k \in Key, NEW constant_key \in BOOLEAN, NEW memory \in BOOLEAN
  PROVE  LET g == add_item_to_object(h, c, k, i, constant_key, memory).heap
         IN  Keeps(h, g) /\ g.live = h.live
<1> DEFINE copied == IF constant_key THEN h ELSE cJSON_strdup(h)
           renamed == Rename(copied, i, k, constant_key)
           r == add_item_to_object(h, c, k, i, constant_key, memory)
<1>1. CASE i = NULL \/ c = i \/ (~constant_key /\ ~memory)
  BY <1>1, KeepsItself DEF add_item_to_object, Returns
<1>2. CASE ~(i = NULL \/ c = i \/ (~constant_key /\ ~memory))
  <2>1. r = add_item_to_array(renamed, c, i)
    BY <1>2 DEF add_item_to_object
  <2>2. /\ copied \in Heap /\ copied.live = h.live /\ copied.child = h.child
        /\ copied.string = h.string /\ copied.type = h.type
        /\ copied.strings = h.strings + (IF constant_key THEN 0 ELSE 1)
    <3>1. h.strings \in Int
      BY DEF Heap
    <3> QED
      BY <3>1, StrdupFields
  <2>3. i \in Item
    BY <1>2 DEF Link
  <2> HIDE DEF copied
  <2>4. /\ renamed \in Heap /\ renamed.live = copied.live
        /\ renamed.child = copied.child
        /\ \A x \in Item \ {i} : /\ renamed.string[x] = copied.string[x]
                                 /\ renamed.type[x] = copied.type[x]
        /\ "IsReference" \in renamed.type[i] <=> "IsReference" \in copied.type[i]
        /\ "HasText" \in renamed.type[i] <=> "HasText" \in copied.type[i]
        /\ OwnsKey(renamed, i) <=> ~constant_key
        /\ renamed.strings = copied.strings - (IF OwnsKey(copied, i) THEN 1 ELSE 0)
    BY <2>2, <2>3, RenameFields
  <2> HIDE DEF renamed
  <2>5. OwnsKey(copied, i) <=> OwnsKey(h, i)
    BY <2>2 DEF OwnsKey
  <2>6. renamed.strings = h.strings - (IF OwnsKey(h, i) THEN 1 ELSE 0)
                                    + (IF OwnsKey(renamed, i) THEN 1 ELSE 0)
    <3>1. h.strings \in Int
      BY DEF Heap
    <3> QED
      BY <2>2, <2>4, <2>5, <3>1
  <2>7. Keeps(h, renamed)
    BY <2>2, <2>3, <2>4, <2>6, RekeyKeeps
  <2>8. IsOwner(renamed, c)
    <3>1. c \in Item \ {i}
      BY <1>2
    <3> QED
      BY <2>2, <2>4, <3>1 DEF IsOwner, IsReference
  <2> HIDE DEF r
  <2>9. Keeps(renamed, r.heap) /\ r.heap.live = renamed.live
    BY <2>1, <2>4, <2>8, AddKeeps
  <2>10. Keeps(h, r.heap) /\ r.heap.live = h.live
    BY <2>2, <2>4, <2>7, <2>9, KeepsTransitive
  <2> QED
    BY <2>10 DEF r
<1> QED
  BY <1>1, <1>2

\* Replacing in an object: the replacement has lost its key before anything
\* can fail, and the block of the old key is given back.
LEMMA ReplaceInObjectKeeps ==
  ASSUME NEW h, NEW H, WellLinked(h, H), NEW c \in Item, IsOwner(h, c),
         NEW i \in H, i # c, c \notin Deleted(h, i), NEW k \in Key,
         NEW case_sensitive \in BOOLEAN, NEW memory \in BOOLEAN
  PROVE  Keeps(h, replace_item_in_object(h, c, k, i, case_sensitive, memory).heap)
<1> USE NULLAssumption
<1> DEFINE renamed == Rename(h, i, k, FALSE)
           copied == cJSON_strdup(renamed)
           found == get_object_item(copied, c, k, case_sensitive)
           r == replace_item_in_object(h, c, k, i, case_sensitive, memory)
<1>1. h \in Heap /\ i \in Item /\ i \in h.live /\ h.strings \in Int
  BY DEF WellLinked, Links, IsRoot, Heap
<1>2. CASE ~memory
  <2> DEFINE n == IF OwnsKey(h, i) THEN h.strings - 1 ELSE h.strings
             g == [h EXCEPT !.string[i] = NULL, !.strings = n]
  <2>1. r.heap = g
    BY <1>2 DEF replace_item_in_object, Returns
  <2>2. n = h.strings - (IF OwnsKey(h, i) THEN 1 ELSE 0) + 0
    BY <1>1
  <2> HIDE DEF n
  <2>3. /\ g.live = h.live /\ g.child = h.child /\ g.type = h.type
        /\ g.strings = n /\ g.string = [h.string EXCEPT ![i] = NULL]
    BY <1>1 DEF Heap
  <2> HIDE DEF g
  <2>4. ~OwnsKey(g, i) /\ \A x \in Item \ {i} : g.string[x] = h.string[x]
    BY <1>1, <2>3 DEF Heap, OwnsKey
  <2>5. g.strings = h.strings - (IF OwnsKey(h, i) THEN 1 ELSE 0)
                              + (IF OwnsKey(g, i) THEN 1 ELSE 0)
    BY <2>2, <2>3, <2>4
  <2>6. /\ \A x \in Item \ {i} : g.string[x] = h.string[x] /\ g.type[x] = h.type[x]
        /\ "IsReference" \in g.type[i] <=> "IsReference" \in h.type[i]
        /\ "HasText" \in g.type[i] <=> "HasText" \in h.type[i]
    BY <2>3, <2>4
  <2>7. g.live = h.live /\ g.child = h.child
    BY <2>3
  <2>8. Keeps(h, g)
    BY <1>1, <2>5, <2>6, <2>7, RekeyKeeps
  <2> QED
    BY <2>1, <2>8
<1>3. CASE memory
  <2>1. r = cJSON_ReplaceItemViaPointer(copied, c, found, i)
    BY <1>3 DEF replace_item_in_object
  <2>2. /\ WellLinked(renamed, H) /\ IsOwner(renamed, c)
        /\ Deleted(renamed, i) = Deleted(h, i)
    <3>1. WellLinked(renamed, H)
      BY <1>1, RenamedLinks
    <3>2. IsOwner(renamed, c)
      BY <1>1, RenamedLinks
    <3>3. \A e \in BOOLEAN : Deleted(Rename(h, i, k, e), i) = Deleted(h, i)
      BY <1>1, RenamedLinks
    <3> QED
      BY <3>1, <3>2, <3>3
  <2>3. /\ renamed \in Heap /\ renamed.live = h.live /\ renamed.child = h.child
        /\ \A x \in Item \ {i} : /\ renamed.string[x] = h.string[x]
                                 /\ renamed.type[x] = h.type[x]
        /\ "IsReference" \in renamed.type[i] <=> "IsReference" \in h.type[i]
        /\ "HasText" \in renamed.type[i] <=> "HasText" \in h.type[i]
        /\ OwnsKey(renamed, i)
        /\ renamed.strings = h.strings - (IF OwnsKey(h, i) THEN 1 ELSE 0)
    <3>1. \A e \in BOOLEAN :
            LET g == Rename(h, i, k, e)
            IN  /\ g \in Heap /\ g.live = h.live /\ g.child = h.child
                /\ \A x \in Item \ {i} : /\ g.string[x] = h.string[x]
                                         /\ g.type[x] = h.type[x]
                /\ "IsReference" \in g.type[i] <=> "IsReference" \in h.type[i]
                /\ "HasText" \in g.type[i] <=> "HasText" \in h.type[i]
                /\ OwnsKey(g, i) <=> ~e
                /\ g.strings = h.strings - (IF OwnsKey(h, i) THEN 1 ELSE 0)
      BY <1>1, RenameFields
    <3> QED
      BY <3>1
  <2> HIDE DEF renamed
  <2>4. /\ copied.live = renamed.live /\ copied.child = renamed.child
        /\ copied.string = renamed.string /\ copied.type = renamed.type
        /\ copied.strings = renamed.strings + 1
    BY <2>3, StrdupFields
  <2>5. /\ WellLinked(copied, H) /\ IsOwner(copied, c)
        /\ c \notin Deleted(copied, i)
    BY <2>2, StrdupLinks DEF IsOwner
  <2> HIDE DEF copied
  <2>6. OwnsKey(copied, i)
    BY <2>3, <2>4 DEF OwnsKey
  <2>7. copied.strings = h.strings - (IF OwnsKey(h, i) THEN 1 ELSE 0)
                                   + (IF OwnsKey(copied, i) THEN 1 ELSE 0)
    BY <1>1, <2>3, <2>4, <2>6
  <2>8. Keeps(h, copied)
    BY <1>1, <2>3, <2>4, <2>7, RekeyKeeps
  <2>9. PICK owner : Links(copied, owner, H)
    BY <2>5 DEF WellLinked
  <2>10. found \in Link /\ (found # NULL => found \in Item /\ owner[found] = c)
    BY <2>5, <2>9, GetObjectItemOwned
  <2> HIDE DEF found, r
  <2>11. Keeps(copied, r.heap)
    BY <1>1, <2>1, <2>5, <2>9, <2>10, ReplaceKeeps
  <2>12. Keeps(h, r.heap)
    BY <2>8, <2>11, KeepsTransitive
  <2> QED
    BY <2>12 DEF r
<1> QED
  BY <1>2, <1>3

\* A new item has no key, and a text if a block was obtained for it.
LEMMA NewKeeps ==
  ASSUME NEW h \in Heap, Zeroed(h), NEW a \in Item \ h.live,
         NEW g, g.live = h.live \cup {a}, g.string = h.string,
         \A x \in Item \ {a} : g.type[x] = h.type[x] /\ g.child[x] = h.child[x],
         g.strings = h.strings + (IF OwnsText(g, a) THEN 1 ELSE 0)
  PROVE  /\ Ledger(h) => Ledger(g)
         /\ ~IsReference(g, a) => KeepsReferences(h, g)
<1> USE NULLAssumption
<1>1. /\ ~OwnsKey(h, a) /\ ~OwnsKey(g, a) /\ ~OwnsText(h, a)
      /\ h.strings \in Int
  BY DEF Zeroed, OwnsKey, OwnsText, Heap
<1>2. Keyed(g) = Keyed(h)
  BY <1>1 DEF Keyed, OwnsKey
<1>3. /\ Texted(g) = IF OwnsText(g, a) THEN Texted(h) \cup {a} ELSE Texted(h)
      /\ a \notin Texted(h)
  BY <1>1 DEF Texted, OwnsText
<1>4. Texted(h) \in SUBSET Item /\ Keyed(h) \in SUBSET Item
  BY DEF Texted, Keyed
<1>5. /\ IsFiniteSet(Texted(h))
      /\ Cardinality(Texted(h)) \in Nat /\ Cardinality(Keyed(h)) \in Nat
  BY <1>4, ItemAssumption, FS_Subset, FS_CardinalityType
<1>6. Cardinality(Texted(h) \cup {a}) = Cardinality(Texted(h)) + 1
  BY <1>3, <1>5, FS_AddElement
<1>7. Ledger(h) => Ledger(g)
  BY <1>1, <1>2, <1>3, <1>5, <1>6 DEF Ledger
<1>8. ~IsReference(g, a) => KeepsReferences(h, g)
  BY DEF KeepsReferences, IsReference, Heap
<1> QED
  BY <1>7, <1>8

\* cJSON_CreateNull and its siblings.
LEMMA CreateKeeps ==
  ASSUME NEW h, NEW H, WellLinked(h, H),
         NEW a \in (Item \ h.live) \cup {NULL},
         NEW text \in BOOLEAN, NEW memory \in BOOLEAN
  PROVE  LET g == Create(h, a, text, memory).heap
         IN  Keeps(h, g) /\ h.live \subseteq g.live
<1> USE NULLAssumption
<1> DEFINE item == cJSON_New_Item(h, a)
           copied == cJSON_strdup(item)
           g == [copied EXCEPT !.type[a] = {"HasText"}]
           d == cJSON_Delete(item, a)
           r == Create(h, a, text, memory)
<1>1. h \in Heap /\ Zeroed(h)
  BY DEF WellLinked, Links
<1>2. CASE a = NULL
  BY <1>2, KeepsItself DEF Create, Returns
<1>3. CASE a # NULL
  <2>1. a \in Item \ h.live /\ h.strings \in Int
    BY <1>1, <1>3 DEF Heap
  <2>2. /\ item \in Heap /\ item.live = h.live \cup {a}
        /\ item.next = h.next /\ item.string = h.string
        /\ item.child = h.child /\ item.type = h.type
        /\ item.strings = h.strings
        /\ h.child[a] = NULL /\ h.type[a] = {}
    BY <1>1, <2>1, NewItemFields
  <2>3. r.heap = item \/ r.heap = g \/ r.heap = d
    BY <1>3 DEF Create, Returns
  <2> HIDE DEF item
  <2>4. ~OwnsText(item, a) /\ ~IsReference(item, a)
    BY <2>2 DEF OwnsText, IsReference
  <2>5. Keeps(h, item) /\ h.live \subseteq item.live
    <3>1. item.strings = h.strings + (IF OwnsText(item, a) THEN 1 ELSE 0)
      BY <2>1, <2>2, <2>4
    <3>2. \A x \in Item \ {a} : /\ item.type[x] = h.type[x]
                                /\ item.child[x] = h.child[x]
      BY <2>2
    <3>3. /\ Ledger(h) => Ledger(item)
          /\ ~IsReference(item, a) => KeepsReferences(h, item)
      BY <1>1, <2>1, <2>2, <3>1, <3>2, NewKeeps
    <3> QED
      BY <2>2, <2>4, <3>3 DEF Keeps
  <2>6. Keeps(h, g) /\ h.live \subseteq g.live
    <3>1. /\ copied \in Heap /\ copied.live = item.live
          /\ copied.child = item.child /\ copied.string = item.string
          /\ copied.type = item.type /\ copied.strings = item.strings + 1
      BY <2>2, StrdupFields
    <3> HIDE DEF copied
    <3>2. /\ g.live = copied.live /\ g.child = copied.child
          /\ g.string = copied.string /\ g.strings = copied.strings
          /\ g.type = [copied.type EXCEPT ![a] = {"HasText"}]
      BY <2>1, <3>1 DEF Heap
    <3> HIDE DEF g
    <3>3. g.type[a] = {"HasText"}
      BY <2>1, <3>1, <3>2 DEF Heap
    <3>4. OwnsText(g, a) /\ ~IsReference(g, a)
      BY <3>3 DEF OwnsText, IsReference
    <3>5. \A x \in Item \ {a} : g.type[x] = h.type[x] /\ g.child[x] = h.child[x]
      BY <2>1, <2>2, <3>1, <3>2 DEF Heap
    <3>6. /\ g.live = h.live \cup {a} /\ g.string = h.string
          /\ g.strings = h.strings + (IF OwnsText(g, a) THEN 1 ELSE 0)
      BY <2>1, <2>2, <3>1, <3>2, <3>4
    <3>7. /\ Ledger(h) => Ledger(g)
          /\ ~IsReference(g, a) => KeepsReferences(h, g)
      BY <1>1, <2>1, <3>5, <3>6, NewKeeps
    <3> QED
      BY <3>4, <3>6, <3>7 DEF Keeps
  <2>7. Keeps(h, d) /\ h.live \subseteq d.live
    <3>1. Keeps(item, d)
      BY <2>1, <2>2, DeleteKeeps
    <3>2. Lone(item, a)
      BY <1>1, <2>1, <2>2 DEF Lone, Zeroed
    <3>3. Deleted(item, a) = {a}
      BY <2>1, <3>2, LoneDeleted
    <3>4. d.live = item.live \ {a}
      BY <1>3, <3>3 DEF cJSON_Delete
    <3> HIDE DEF d
    <3> QED
      BY <2>1, <2>2, <2>5, <3>1, <3>4, KeepsTransitive
  <2> HIDE DEF r, g, d
  <2> QED
    BY <2>3, <2>5, <2>6, <2>7 DEF r
<1> QED
  BY <1>2, <1>3

\* What an item that exists points to exists.
LEMMA PointsToLive ==
  ASSUME NEW h, NEW owner, NEW H, Links(h, owner, H), Referents(h),
         NEW i \in h.live
  PROVE  /\ h.next[i] \in h.live \cup {NULL}
         /\ h.prev[i] \in h.live \cup {NULL}
         /\ h.child[i] \in h.live \cup {NULL}
<1> USE NULLAssumption
<1>1. h \in Heap /\ i \in Item
  BY DEF Links, Heap
<1>2. \A x \in Item : owner[x] # NULL => x \in h.live
  BY DEF Links, Backwards
<1>3. h.next[i] \in h.live \cup {NULL}
  BY <1>1, <1>2 DEF Links, Forwards, Heap, Link
<1>4. h.prev[i] \in h.live \cup {NULL}
  <2>1. CASE owner[i] = NULL
    <3>1. i \in H
      BY <2>1, UnownedIsRoot
    <3> QED
      BY <3>1 DEF Links, IsRoot
  <2>2. CASE owner[i] # NULL
    <3>1. owner[i] \in Item /\ IsOwner(h, owner[i])
      BY <1>1, <2>2 DEF Links, Backwards, Link
    <3>2. h.prev[i] \in Item /\ owner[h.prev[i]] = owner[i]
      BY <1>1, <3>1, ListedItem
    <3> QED
      BY <1>2, <2>2, <3>2
  <2> QED
    BY <2>1, <2>2
<1>5. h.child[i] \in h.live \cup {NULL}
  <2>1. CASE IsReference(h, i)
    BY <2>1 DEF Referents
  <2>2. CASE ~IsReference(h, i) /\ h.child[i] # NULL
    <3>1. h.child[i] \in Item /\ owner[h.child[i]] = i
      BY <1>1, <2>2 DEF Links, Ends, IsOwner, Heap, Link
    <3> QED
      BY <1>1, <1>2, <3>1
  <2> QED
    BY <2>1, <2>2
<1> QED
  BY <1>3, <1>4, <1>5

\* A new reference shows what exists, and owns no string.
LEMMA ReferenceKeeps ==
  ASSUME NEW h, NEW H, WellLinked(h, H), Referents(h),
         NEW a \in (Item \ h.live) \cup {NULL}, NEW i \in h.live
  PROVE  /\ LET g == CreateReferenceTo(h, a, i).heap
            IN  (Ledger(h) => Ledger(g)) /\ Referents(g) /\ h.live \subseteq g.live
         /\ LET g == create_reference(h, i, a).heap
            IN  (Ledger(h) => Ledger(g)) /\ Referents(g) /\ h.live \subseteq g.live
<1> USE NULLAssumption
<1>1. /\ h \in Heap /\ Zeroed(h) /\ i \in Item
      /\ h.child[i] \in h.live \cup {NULL}
  BY PointsToLive DEF WellLinked, Links, Heap
<1>2. CASE a = NULL
  BY <1>2 DEF CreateReferenceTo, create_reference, Returns
<1>3. CASE a # NULL
  <2> DEFINE item == cJSON_New_Item(h, a)
             Shown(t, x) == [item EXCEPT !.type[a] = t, !.child[a] = x]
  <2>1. a \in Item \ h.live /\ h.strings \in Int
    BY <1>1, <1>3 DEF Heap
  <2>2. /\ item \in Heap /\ item.live = h.live \cup {a}
        /\ item.string = h.string /\ item.strings = h.strings
        /\ item.child = h.child /\ item.type = h.type
    BY <1>1, <2>1, NewItemFields
  <2>3. /\ CreateReferenceTo(h, a, i).heap = Shown({"IsReference"}, i)
        /\ create_reference(h, i, a).heap
             = Shown(h.type[i] \cup {"IsReference"}, h.child[i])
    BY <1>3 DEF CreateReferenceTo, create_reference, Returns
  <2> HIDE DEF item
  <2>4. ASSUME NEW t, "IsReference" \in t, NEW x \in h.live \cup {NULL}
        PROVE  LET g == Shown(t, x)
               IN  (Ledger(h) => Ledger(g)) /\ Referents(g) /\ h.live \subseteq g.live
    <3> DEFINE g == Shown(t, x)
    <3>1. /\ g.live = h.live \cup {a} /\ g.string = h.string
          /\ g.strings = h.strings
          /\ g.child = [h.child EXCEPT ![a] = x]
          /\ g.type = [h.type EXCEPT ![a] = t]
      BY <2>1, <2>2 DEF Heap
    <3> HIDE DEF g
    <3>2. /\ g.type[a] = t /\ g.child[a] = x
          /\ \A y \in Item \ {a} : g.type[y] = h.type[y] /\ g.child[y] = h.child[y]
      BY <1>1, <2>1, <3>1 DEF Heap
    <3>3. g.strings = h.strings + (IF OwnsText(g, a) THEN 1 ELSE 0)
      BY <2>1, <2>4, <3>1, <3>2 DEF OwnsText
    <3>4. Ledger(h) => Ledger(g)
      BY <1>1, <2>1, <3>1, <3>2, <3>3, NewKeeps
    <3>5. Referents(g)
      BY <1>1, <2>1, <2>4, <3>1, <3>2 DEF Referents, IsReference, Heap
    <3> QED
      BY <3>1, <3>4, <3>5 DEF g
  <2> HIDE DEF Shown
  <2>5. "IsReference" \in {"IsReference"} /\ "IsReference" \in h.type[i] \cup {"IsReference"}
    OBVIOUS
  <2> QED
    BY <1>1, <2>3, <2>4, <2>5
<1> QED
  BY <1>2, <1>3

\* A chain of new items has no keys and no texts.
LEMMA ChainKeeps ==
  ASSUME NEW h \in Heap, Zeroed(h), NEW s, Free(h, s), NEW last,
         NEW g, IsChain(g, h, s, last), g.strings = h.strings
  PROVE  Keeps(h, g) /\ h.live \subseteq g.live
<1>1. g.type = h.type /\ g.string = h.string /\ g.live = h.live \cup {s[1]} \cup Elements(s)
  BY DEF IsChain
<1>2. s[1] \in Item /\ s[1] \notin h.live /\ Elements(s) \subseteq Item
  BY DEF Free, Elements
<1>3. Keyed(g) = Keyed(h) /\ Texted(g) = Texted(h)
  BY <1>1 DEF Keyed, Texted, OwnsKey, OwnsText
<1>4. ASSUME NEW r \in g.live, IsReference(g, r)
      PROVE  r \in h.live /\ IsReference(h, r) /\ g.child[r] = h.child[r]
  <2>1. IsReference(h, r) /\ r \in Item
    BY <1>1, <1>2, <1>4 DEF IsReference, Heap
  <2>2. r \in h.live
    BY <2>1 DEF Zeroed, IsReference
  <2> QED
    BY <1>2, <2>1, <2>2 DEF IsChain
<1> QED
  BY <1>1, <1>3, <1>4 DEF Keeps, KeepsReferences, Ledger

\* cJSON_CreateIntArray and its siblings.
LEMMA CreateNumberArrayKeeps ==
  ASSUME NEW h, NEW H, WellLinked(h, H), NEW s \in Seq(Item \ h.live),
         \A m, n \in 1 .. Len(s) : s[m] = s[n] => m = n, NEW count \in Nat
  PROVE  LET r == CreateNumberArray(h, s, count)
         IN  /\ Keeps(h, r.heap) /\ h.live \subseteq r.heap.live
             /\ r.ret # NULL =>
                  /\ Free(h, s) /\ count + 1 <= Len(s) /\ r.ret = s[1]
                  /\ r.heap.live = h.live \cup {s[1]} \cup Elements(s)
                  /\ r.heap.type = h.type
<1> USE NULLAssumption
<1> DEFINE r == CreateNumberArray(h, s, count)
           g == Chained(h, s)
           f == [g EXCEPT !.prev[s[2]] = s[Len(s)]]
<1>1. CASE Len(s) = 0
  BY <1>1, KeepsItself DEF CreateNumberArray, Returns
<1>2. CASE Len(s) # 0
  <2>1. Free(h, s) /\ Len(s) \in Nat
    BY <1>2 DEF Free
  <2>2. h \in Heap /\ Zeroed(h)
    BY DEF WellLinked, Links
  <2>3. IsChain(g, h, s, NULL) /\ g.strings = h.strings
    BY <2>1, <2>2, ChainedFields
  <2>4. CASE Len(s) < count + 1
    <3>1. r = Returns(NULL, cJSON_Delete(g, s[1]))
      BY <1>2, <2>4 DEF CreateNumberArray, Chained
    <3>2. cJSON_Delete(g, s[1]) = h
      BY <2>1, UnbuiltLinks
    <3>3. r.ret = NULL /\ r.heap = h
      BY <3>1, <3>2 DEF Returns
    <3> QED
      BY <3>3, KeepsItself
  <2>5. CASE ~(Len(s) < count + 1)
    <3>1. r = Returns(s[1], g) \/ r = Returns(s[1], f)
      BY <1>2, <2>5 DEF CreateNumberArray, Chained
    <3>2. r.ret = s[1] /\ (r.heap = g \/ r.heap = f)
      BY <3>1 DEF Returns
    <3>3. /\ Keeps(h, g) /\ h.live \subseteq g.live
          /\ g.live = h.live \cup {s[1]} \cup Elements(s)
          /\ g.type = h.type /\ g \in Heap
      BY <2>1, <2>2, <2>3, ChainKeeps DEF IsChain
    <3> HIDE DEF g
    <3>4. /\ f.live = g.live /\ f.type = g.type /\ f.string = g.string
          /\ f.child = g.child /\ f.strings = g.strings
      BY <3>3 DEF Heap
    <3> HIDE DEF f
    <3>5. Keeps(g, f)
      <4>1. Keyed(f) = Keyed(g) /\ Texted(f) = Texted(g)
        BY <3>4 DEF Keyed, Texted, OwnsKey, OwnsText
      <4> QED
        BY <3>4, <4>1 DEF Keeps, Ledger, KeepsReferences, IsReference
    <3>6. Keeps(h, f)
      BY <3>3, <3>5, KeepsTransitive
    <3>7. count + 1 <= Len(s)
      BY <2>1, <2>5
    <3> HIDE DEF r
    <3> QED
      BY <2>1, <3>2, <3>3, <3>4, <3>6, <3>7 DEF r
  <2> QED
    BY <2>4, <2>5
<1> QED
  BY <1>1, <1>2

\* A chain has one element less than items.
LEMMA ElementsCount ==
  ASSUME NEW h, NEW s, Free(h, s)
  PROVE  IsFiniteSet(Elements(s)) /\ Cardinality(Elements(s)) = Len(s) - 1
<1> DEFINE f == [n \in 2 .. Len(s) |-> s[n]]
<1>1. Len(s) \in Nat /\ Len(s) > 0 /\ \A m, n \in 1 .. Len(s) : s[m] = s[n] => m = n
  BY DEF Free
<1>2. IsFiniteSet(2 .. Len(s)) /\ Cardinality(2 .. Len(s)) = Len(s) - 1
  <2>1. /\ IsFiniteSet(2 .. Len(s))
        /\ Cardinality(2 .. Len(s)) = IF 2 > Len(s) THEN 0 ELSE Len(s) - 2 + 1
    BY <1>1, FS_Interval
  <2>2. (IF 2 > Len(s) THEN 0 ELSE Len(s) - 2 + 1) = Len(s) - 1
    <3>1. \A n \in Nat : n > 0 => (IF 2 > n THEN 0 ELSE n - 2 + 1) = n - 1
      OBVIOUS
    <3> QED
      BY <1>1, <3>1
  <2> QED
    BY <2>1, <2>2
<1>3. f \in Bijection(2 .. Len(s), Elements(s))
  BY <1>1 DEF Bijection, Injection, Surjection, IsInjective, Elements
<1>4. ExistsBijection(2 .. Len(s), Elements(s))
  BY <1>3 DEF ExistsBijection
<1> QED
  BY <1>2, <1>4, FS_Bijection

\* cJSON_CreateStringArray obtains one block for each element.
LEMMA CreateStringArrayKeeps ==
  ASSUME NEW h, NEW H, WellLinked(h, H), NEW s \in Seq(Item \ h.live),
         \A m, n \in 1 .. Len(s) : s[m] = s[n] => m = n, NEW count \in Nat,
         Len(s) <= count + 1
  PROVE  LET g == CreateStringArray(h, s, count).heap
         IN  Keeps(h, g) /\ h.live \subseteq g.live
<1> USE NULLAssumption
<1> DEFINE array == CreateNumberArray(h, s, count)
           g == array.heap
           elements == g.live \ (h.live \cup {array.ret})
           type == [i \in Item |-> IF i \in elements THEN g.type[i] \cup {"HasText"}
                                                    ELSE g.type[i]]
           f == [g EXCEPT !.strings = g.strings + count, !.type = type]
           r == CreateStringArray(h, s, count)
<1>1. /\ Keeps(h, g) /\ h.live \subseteq g.live
      /\ array.ret # NULL =>
           /\ Free(h, s) /\ count + 1 <= Len(s) /\ array.ret = s[1]
           /\ g.live = h.live \cup {s[1]} \cup Elements(s)
           /\ g.type = h.type
  BY CreateNumberArrayKeeps
<1>2. r = IF array.ret = NULL THEN array ELSE Returns(array.ret, f)
  BY DEF CreateStringArray
<1>3. g \in Heap /\ h \in Heap /\ Zeroed(h)
  BY CreateNumberArrayLinks DEF Made, WellLinked, Links
<1> HIDE DEF array
<1>4. CASE array.ret = NULL
  BY <1>1, <1>2, <1>4
<1>5. CASE array.ret # NULL
  <2>1. r.heap = f
    BY <1>2, <1>5 DEF Returns
  <2>2. elements = Elements(s) /\ Elements(s) \subseteq Item \ h.live
    <3>1. \A x \in Elements(s) : x \in Item /\ x \notin h.live /\ x # s[1]
      BY <1>1, <1>5 DEF Free, Elements
    <3> QED
      BY <1>1, <1>5, <3>1
  <2>3. Len(s) = count + 1
    BY <1>1, <1>5
  <2>4. IsFiniteSet(elements) /\ Cardinality(elements) = count
    <3>1. IsFiniteSet(Elements(s)) /\ Cardinality(Elements(s)) = Len(s) - 1
      BY <1>1, <1>5, ElementsCount
    <3>2. Len(s) - 1 = count
      BY <2>3
    <3>3. elements = Elements(s)
      BY <2>2
    <3> HIDE DEF elements
    <3> QED
      BY <3>1, <3>2, <3>3
  <2>5. \A x \in elements : g.type[x] = {}
    BY <1>1, <1>3, <1>5, <2>2 DEF Zeroed
  <2>6. elements \subseteq Item
    BY <2>2
  <2> HIDE DEF g, elements
  <2>7. /\ f.live = g.live /\ f.child = g.child /\ f.string = g.string
        /\ f.strings = g.strings + count /\ f.type = type
    BY <1>3 DEF Heap
  <2> HIDE DEF f
  <2>8. /\ \A x \in Item : IsReference(f, x) <=> IsReference(g, x)
        /\ \A x \in Item : OwnsKey(f, x) <=> OwnsKey(g, x)
        /\ \A x \in Item : OwnsText(f, x) <=> OwnsText(g, x) \/ x \in elements
        /\ \A x \in elements : ~OwnsText(g, x)
    BY <2>5, <2>7 DEF IsReference, OwnsKey, OwnsText
  <2>9. /\ Keyed(f) = Keyed(g)
        /\ Texted(f) = Texted(g) \cup elements
        /\ Texted(g) \cap elements = {}
    BY <2>6, <2>8 DEF Keyed, Texted
  <2>10. Keyed(g) \in SUBSET Item /\ Texted(g) \in SUBSET Item
    BY DEF Keyed, Texted
  <2>11. /\ IsFiniteSet(Texted(g)) /\ Cardinality(Texted(g)) \in Nat
         /\ Cardinality(Keyed(g)) \in Nat
    BY <2>10, ItemAssumption, FS_Subset, FS_CardinalityType
  <2>12. Cardinality(Texted(f)) = Cardinality(Texted(g)) + count
    <3>1. Cardinality(Texted(f)) = Cardinality(Texted(g)) + Cardinality(elements)
                                     - Cardinality(Texted(g) \cap elements)
      BY <2>4, <2>9, <2>11, FS_Union
    <3>2. Cardinality(Texted(g) \cap elements) = 0
      BY <2>9, FS_EmptySet
    <3> QED
      BY <2>4, <2>11, <3>1, <3>2
  <2>13. Keeps(g, f)
    <3>1. Ledger(g) => Ledger(f)
      BY <2>7, <2>9, <2>11, <2>12 DEF Ledger
    <3>2. KeepsReferences(g, f)
      BY <1>3, <2>7, <2>8 DEF KeepsReferences, Heap
    <3> QED
      BY <3>1, <3>2 DEF Keeps
  <2>14. Keeps(h, f) /\ h.live \subseteq f.live
    <3>1. Keeps(h, g) /\ h.live \subseteq g.live
      BY <1>1 DEF g
    <3> QED
      BY <2>7, <2>13, <3>1, KeepsTransitive
  <2> QED
    BY <2>1, <2>14
<1> QED
  BY <1>4, <1>5

\* What has been made is added to a list, or nothing has been made.
LEMMA ListedKeeps ==
  ASSUME NEW h, NEW H, NEW c \in Item, IsOwner(h, c), NEW r, MadeAlone(r, h, H)
  PROVE  LET g == add_item_to_array(r.heap, c, r.ret).heap
         IN  Keeps(r.heap, g) /\ g.live = r.heap.live
<1>1. r.ret \in Link /\ r.heap \in Heap
  BY DEF MadeAlone, Made, WellLinked, Links
<1>2. CASE r.ret = NULL
  BY <1>2, KeepsItself DEF add_item_to_array, Returns
<1>3. CASE r.ret # NULL
  <2>1. IsOwner(r.heap, c)
    BY <1>3 DEF MadeAlone, Made
  <2> QED
    BY <1>1, <2>1, AddKeeps
<1> QED
  BY <1>2, <1>3

\* What has been made is added to an object, or refused.
LEMMA AddedKeeps ==
  ASSUME NEW h, NEW H, NEW c \in Item, IsOwner(h, c), NEW r, MadeAlone(r, h, H),
         NEW k \in Key, NEW constant_key \in BOOLEAN, NEW memory \in BOOLEAN
  PROVE  LET g == add_item_to_object(r.heap, c, k, r.ret, constant_key, memory).heap
         IN  Keeps(r.heap, g) /\ g.live = r.heap.live
<1> USE NULLAssumption
<1>1. r.ret \in Link /\ r.heap \in Heap
  BY DEF MadeAlone, Made, WellLinked, Links
<1>2. CASE r.ret = NULL
  BY <1>2, KeepsItself DEF add_item_to_object, Returns
<1>3. CASE r.ret # NULL
  <2>1. IsOwner(r.heap, c)
    BY <1>3 DEF MadeAlone, Made
  <2> QED
    BY <1>1, <2>1, AddToObjectKeeps
<1> QED
  BY <1>2, <1>3

\* What was refused is deleted again, and nothing else.
LEMMA AddedOrDeletedKeeps ==
  ASSUME NEW h, NEW H, NEW c \in Item, IsOwner(h, c), NEW r, MadeAlone(r, h, H),
         h.live \subseteq r.heap.live, NEW k \in Key, NEW memory \in BOOLEAN
  PROVE  LET added == add_item_to_object(r.heap, c, k, r.ret, FALSE, memory)
             g == IF added.ret THEN added.heap ELSE cJSON_Delete(added.heap, r.ret)
         IN  Keeps(r.heap, g) /\ h.live \subseteq g.live
<1> USE NULLAssumption
<1> DEFINE added == add_item_to_object(r.heap, c, k, r.ret, FALSE, memory)
           d == cJSON_Delete(added.heap, r.ret)
<1>1. r.ret \in Link /\ r.ret \notin h.live /\ r.heap \in Heap
  BY DEF MadeAlone, Made, WellLinked, Links
<1>2. Keeps(r.heap, added.heap) /\ added.heap.live = r.heap.live
  <2>1. \A e \in BOOLEAN :
          LET g == add_item_to_object(r.heap, c, k, r.ret, e, memory).heap
          IN  Keeps(r.heap, g) /\ g.live = r.heap.live
    BY AddedKeeps
  <2> QED
    BY <2>1
<1>3. CASE r.ret = NULL
  <2>1. d = added.heap
    BY <1>3 DEF cJSON_Delete
  <2> QED
    BY <1>2, <2>1
<1>4. CASE r.ret # NULL
  <2>1. Lone(r.heap, r.ret) /\ r.ret \in Item
    BY <1>1, <1>4 DEF MadeAlone, Link
  <2>2. ~added.ret => added.heap = r.heap
    BY DEF add_item_to_object, add_item_to_array, Returns
  <2> HIDE DEF added
  <2>3. ASSUME ~added.ret PROVE Keeps(r.heap, d) /\ h.live \subseteq d.live
    <3>1. Keeps(r.heap, d)
      BY <1>1, <2>1, <2>2, <2>3, DeleteKeeps
    <3>2. Deleted(r.heap, r.ret) = {r.ret}
      BY <2>1, LoneDeleted
    <3>3. d.live = r.heap.live \ {r.ret}
      BY <1>4, <2>2, <2>3, <3>2 DEF cJSON_Delete
    <3> QED
      BY <1>1, <3>1, <3>3
  <2> HIDE DEF d
  <2> QED
    BY <1>2, <2>3 DEF added, d
<1> QED
  BY <1>3, <1>4
=============================================================================

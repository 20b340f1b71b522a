---------------------------- MODULE ForestProofs ----------------------------
(***************************************************************************)
(* ItemTree implements JsonForest, for every number of items: what the     *)
(* list functions do to next, prev and child is what JsonForest says of    *)
(* sequences.                                                              *)
(***************************************************************************)
EXTENDS ItemForest, ItemTreeProofs, SequenceTheorems

-----------------------------------------------------------------------------
(* Sequences.                                                              *)

\* Appending is inserting behind the last position.
LEMMA AppendInserts ==
  ASSUME NEW s \in Seq(Item), NEW i \in Item
  PROVE  Forest!InsertAt(s, Len(s) + 1, i) = Append(s, i)
<1>1. SubSeq(s, 1, (Len(s) + 1) - 1) = s
  OBVIOUS
<1>2. SubSeq(s, Len(s) + 1, Len(s)) = << >>
  OBVIOUS
<1>3. s \o <<i>> \in Seq(Item)
  OBVIOUS
<1>4. Forest!InsertAt(s, Len(s) + 1, i) = (s \o <<i>>) \o << >>
  BY <1>1, <1>2 DEF Forest!InsertAt
<1> QED
  BY <1>3, <1>4, ConcatEmptySeq, AppendIsConcat

\* What InsertAt, RemoveAt and both together return.
LEMMA InsertAtElements ==
  ASSUME NEW s \in Seq(Item), NEW n \in 1 .. Len(s) + 1, NEW i \in Item
  PROVE  LET t == Forest!InsertAt(s, n, i)
         IN  /\ t \in Seq(Item) /\ Len(t) = Len(s) + 1
             /\ \A k \in 1 .. Len(s) + 1 :
                  t[k] = IF k < n THEN s[k] ELSE IF k = n THEN i ELSE s[k - 1]
<1> DEFINE front == SubSeq(s, 1, n - 1)
           back == SubSeq(s, n, Len(s))
<1>1. /\ front \in Seq(Item) /\ Len(front) = n - 1
      /\ \A k \in 1 .. n - 1 : front[k] = s[k]
  OBVIOUS
<1>2. /\ back \in Seq(Item) /\ Len(back) = Len(s) - n + 1
      /\ \A k \in 1 .. Len(s) - n + 1 : back[k] = s[n + k - 1]
  OBVIOUS
<1> HIDE DEF front, back
<1> DEFINE first == front \o <<i>>
<1>3. /\ first \in Seq(Item) /\ Len(first) = n
      /\ \A k \in 1 .. n : first[k] = IF k < n THEN s[k] ELSE i
  BY <1>1
<1> HIDE DEF first
<1> DEFINE t == first \o back
<1>4. /\ t \in Seq(Item) /\ Len(t) = Len(s) + 1
      /\ \A k \in 1 .. Len(s) + 1 :
           t[k] = IF k <= n THEN first[k] ELSE back[k - n]
  <2>1. /\ t \in Seq(Item) /\ Len(t) = Len(first) + Len(back)
        /\ \A k \in 1 .. Len(first) + Len(back) :
             t[k] = IF k <= Len(first) THEN first[k] ELSE back[k - Len(first)]
    BY <1>2, <1>3, ConcatProperties
  <2> HIDE DEF t
  <2> QED
    BY <1>2, <1>3, <2>1
<1> HIDE DEF t
<1>5. \A k \in 1 .. Len(s) + 1 :
        t[k] = IF k < n THEN s[k] ELSE IF k = n THEN i ELSE s[k - 1]
  <2> SUFFICES ASSUME NEW k \in 1 .. Len(s) + 1
               PROVE  t[k] = IF k < n THEN s[k] ELSE IF k = n THEN i ELSE s[k - 1]
    OBVIOUS
  <2>1. CASE k <= n
    BY <1>3, <1>4, <2>1
  <2>2. CASE k > n
    <3>1. k - n \in 1 .. Len(s) - n + 1 /\ n + (k - n) - 1 = k - 1
      BY <2>2
    <3> QED
      BY <1>2, <1>4, <2>2, <3>1
  <2> QED
    BY <2>1, <2>2
<1> QED
  BY <1>4, <1>5 DEF Forest!InsertAt, t, first, front, back

\* What RemoveAt leaves.
LEMMA RemoveAtElements ==
  ASSUME NEW s \in Seq(Item), NEW n \in 1 .. Len(s)
  PROVE  LET t == Forest!RemoveAt(s, n)
         IN  /\ t \in Seq(Item) /\ Len(t) = Len(s) - 1
             /\ \A k \in 1 .. Len(s) - 1 : t[k] = IF k < n THEN s[k] ELSE s[k + 1]
<1> DEFINE front == SubSeq(s, 1, n - 1)
           back == SubSeq(s, n + 1, Len(s))
<1>1. /\ front \in Seq(Item) /\ Len(front) = n - 1
      /\ \A k \in 1 .. n - 1 : front[k] = s[k]
  OBVIOUS
<1>2. /\ back \in Seq(Item) /\ Len(back) = Len(s) - n
      /\ \A k \in 1 .. Len(s) - n : back[k] = s[n + k]
  OBVIOUS
<1> HIDE DEF front, back
<1> DEFINE t == front \o back
<1>3. /\ t \in Seq(Item) /\ Len(t) = Len(s) - 1
      /\ \A k \in 1 .. Len(s) - 1 :
           t[k] = IF k <= n - 1 THEN front[k] ELSE back[k - (n - 1)]
  <2>1. /\ t \in Seq(Item) /\ Len(t) = Len(front) + Len(back)
        /\ \A k \in 1 .. Len(front) + Len(back) :
             t[k] = IF k <= Len(front) THEN front[k] ELSE back[k - Len(front)]
    BY <1>1, <1>2, ConcatProperties
  <2> HIDE DEF t
  <2> QED
    BY <1>1, <1>2, <2>1
<1> HIDE DEF t
<1>4. \A k \in 1 .. Len(s) - 1 : t[k] = IF k < n THEN s[k] ELSE s[k + 1]
  <2> SUFFICES ASSUME NEW k \in 1 .. Len(s) - 1
               PROVE  t[k] = IF k < n THEN s[k] ELSE s[k + 1]
    OBVIOUS
  <2>1. CASE k < n
    BY <1>1, <1>3, <2>1
  <2>2. CASE ~(k < n)
    <3>1. /\ k - (n - 1) \in 1 .. Len(s) - n /\ n + (k - (n - 1)) = k + 1
          /\ ~(k <= n - 1)
      BY <2>2
    <3>2. t[k] = back[k - (n - 1)]
      BY <1>3, <3>1
    <3>3. back[k - (n - 1)] = s[k + 1]
      BY <1>2, <3>1
    <3> QED
      BY <2>2, <3>2, <3>3
  <2> QED
    BY <2>1, <2>2
<1> QED
  BY <1>3, <1>4 DEF Forest!RemoveAt, t, front, back

\* Inserting before a position and taking out what was there is replacing it.
LEMMA InsertedAndRemoved ==
  ASSUME NEW s \in Seq(Item), NEW n \in 1 .. Len(s), NEW i \in Item
  PROVE  Forest!RemoveAt(Forest!InsertAt(s, n, i), n + 1) = [s EXCEPT ![n] = i]
<1> DEFINE t == Forest!InsertAt(s, n, i)
           u == Forest!RemoveAt(t, n + 1)
           v == [s EXCEPT ![n] = i]
<1>1. /\ t \in Seq(Item) /\ Len(t) = Len(s) + 1
      /\ \A k \in 1 .. Len(s) + 1 :
           t[k] = IF k < n THEN s[k] ELSE IF k = n THEN i ELSE s[k - 1]
  <2>1. n \in 1 .. Len(s) + 1
    OBVIOUS
  <2> QED
    BY <2>1, InsertAtElements
<1> HIDE DEF t
<1>2. n + 1 \in 1 .. Len(t) /\ Len(t) - 1 = Len(s)
  BY <1>1
<1>3. /\ u \in Seq(Item) /\ Len(u) = Len(s)
      /\ \A k \in 1 .. Len(s) : u[k] = IF k < n + 1 THEN t[k] ELSE t[k + 1]
  BY <1>1, <1>2, RemoveAtElements
<1> HIDE DEF u
<1>4. /\ v \in Seq(Item) /\ Len(v) = Len(s)
      /\ \A k \in 1 .. Len(s) : v[k] = IF k = n THEN i ELSE s[k]
  OBVIOUS
<1> HIDE DEF v
<1>5. ASSUME NEW k \in 1 .. Len(s) PROVE u[k] = v[k]
  <2>1. CASE k < n + 1
    BY <1>1, <1>3, <1>4, <2>1
  <2>2. CASE ~(k < n + 1)
    <3>1. k + 1 \in 1 .. Len(s) + 1 /\ (k + 1) - 1 = k
      OBVIOUS
    <3>2. t[k + 1] = s[k]
      BY <1>1, <2>2, <3>1
    <3> QED
      BY <1>3, <1>4, <2>2, <3>2
  <2> QED
    BY <2>1, <2>2
<1>6. u = v
  BY <1>3, <1>4, <1>5, SeqEqual
<1> QED
  BY <1>6 DEF t, u, v

-----------------------------------------------------------------------------
(* Reading lists.                                                          *)

\* There is one list to read.
LEMMA ListIsChildren ==
  ASSUME NEW h, NEW H, WellLinked(h, H), NEW c \in Item, IsOwner(h, c),
         NEW s, IsList(h, c, s)
  PROVE  Children(h, c) = s
<1> USE NULLAssumption
<1> DEFINE t == Children(h, c)
<1>1. PICK owner : Links(h, owner, H)
  BY DEF WellLinked
<1>2. IsList(h, c, t)
  BY <1>1, ChildrenList
<1> HIDE DEF t
<1>3. /\ s \in Seq(Item) /\ t \in Seq(Item)
      /\ \A n \in 1 .. Len(s) : s[n] \in Item
      /\ \A n \in 1 .. Len(t) : t[n] \in Item
  BY <1>2 DEF IsList
<1>4. ASSUME NEW n \in Nat, n > 0
      PROVE  /\ n <= Len(s) <=> n <= Len(t)
             /\ n <= Len(s) => s[n] = t[n]
  <2> DEFINE Same(m) == /\ m <= Len(s) <=> m <= Len(t)
                        /\ m <= Len(s) => s[m] = t[m]
             Bad == {m \in Nat : m > 0 /\ ~Same(m)}
  <2> SUFFICES ASSUME Bad # {} PROVE FALSE
    BY <1>4
  <2>1. PICK m \in Bad : \A k \in Bad : m <= k
    <3> HIDE DEF Bad
    <3>1. Bad \in SUBSET Nat
      BY DEF Bad
    <3> QED
      BY <3>1, LeastNat
  <2>2. m \in Nat /\ m > 0 /\ ~Same(m)
    BY <2>1
  <2>3. CASE m = 1
    <3>1. Len(s) = 0 <=> Len(t) = 0
      BY <1>2, <1>3 DEF IsList
    <3>2. Len(s) # 0 => s[1] = t[1]
      BY <1>2, <3>1 DEF IsList
    <3> QED
      BY <1>3, <2>2, <2>3, <3>1, <3>2
  <2>4. CASE m > 1
    <3>1. m - 1 \in Nat /\ m - 1 > 0 /\ ~(m <= m - 1) /\ (m - 1) + 1 = m
      BY <2>2, <2>4
    <3>2. Same(m - 1)
      BY <2>1, <3>1
    <3>3. CASE m - 1 <= Len(s)
      <4>1. /\ m - 1 \in 1 .. Len(s) /\ m - 1 \in 1 .. Len(t)
            /\ s[m - 1] = t[m - 1]
        BY <1>3, <3>1, <3>2, <3>3
      <4>2. h.next[s[m - 1]] = IF m - 1 < Len(s) THEN s[m] ELSE NULL
        BY <3>1, <4>1 DEF IsList
      <4>3. h.next[t[m - 1]] = IF m - 1 < Len(t) THEN t[m] ELSE NULL
        BY <1>2, <3>1, <4>1 DEF IsList
      <4>4. /\ m - 1 < Len(s) => m \in 1 .. Len(s)
            /\ m - 1 < Len(t) => m \in 1 .. Len(t)
            /\ m <= Len(s) <=> m - 1 < Len(s)
            /\ m <= Len(t) <=> m - 1 < Len(t)
        BY <1>3, <3>1
      <4> QED
        BY <1>3, <2>2, <4>1, <4>2, <4>3, <4>4
    <3>4. CASE ~(m - 1 <= Len(s))
      BY <1>3, <2>2, <3>1, <3>2, <3>4
    <3> QED
      BY <3>3, <3>4
  <2> QED
    BY <2>2, <2>3, <2>4
<1>5. Len(s) = Len(t)
  <2>1. Len(s) \in Nat /\ Len(t) \in Nat
    BY <1>3
  <2>2. CASE Len(s) > 0 /\ Len(t) > 0
    BY <1>4, <2>1, <2>2
  <2>3. CASE ~(Len(s) > 0 /\ Len(t) > 0)
    BY <1>4, <2>1, <2>3
  <2> QED
    BY <2>2, <2>3
<1>6. \A n \in 1 .. Len(s) : s[n] = t[n]
  BY <1>3, <1>4
<1> QED
  BY <1>3, <1>5, <1>6, SeqEqual DEF t

\* What has no list reads as the empty one.
LEMMA NoChildren ==
  ASSUME NEW h, NEW c, ~IsOwner(h, c)
  PROVE  Children(h, c) = << >>
BY DEF Children, Owner, IsOwner

\* A list stays what it was if no link along it changes.
LEMMA SameChildren ==
  ASSUME NEW h, NEW owner, NEW H, Links(h, owner, H),
         NEW g, NEW G, WellLinked(g, G), NEW c \in Item,
         IsOwner(g, c) <=> IsOwner(h, c), g.child[c] = h.child[c],
         \A x \in Item : owner[x] = c => g.next[x] = h.next[x]
  PROVE  Children(g, c) = Children(h, c)
<1>1. CASE ~IsOwner(h, c)
  BY <1>1, NoChildren
<1>2. CASE IsOwner(h, c)
  <2> DEFINE s == Children(h, c)
  <2>1. IsList(h, c, s) /\ \A n \in 1 .. Len(s) : owner[s[n]] = c
    BY <1>2, ChildrenList
  <2> HIDE DEF s
  <2>2. \A n \in 1 .. Len(s) : s[n] \in Item
    BY <2>1 DEF IsList
  <2>3. IsList(g, c, s)
    BY <2>1, <2>2 DEF IsList
  <2> QED
    BY <1>2, <2>3, ListIsChildren DEF s
<1> QED
  BY <1>1, <1>2

\* Children is a sequence of items.
LEMMA ChildrenType ==
  ASSUME NEW h, NEW H, WellLinked(h, H), NEW c \in Item
  PROVE  Children(h, c) \in Seq(Item)
<1>1. CASE ~IsOwner(h, c)
  <2>1. << >> \in Seq(Item)
    OBVIOUS
  <2> QED
    BY <1>1, <2>1, NoChildren
<1>2. CASE IsOwner(h, c)
  BY <1>2, ChildrenList DEF WellLinked, IsList
<1> QED
  BY <1>1, <1>2

\* A list is no longer than there are items.
LEMMA ListLength ==
  ASSUME NEW h, NEW H, WellLinked(h, H), NEW c \in Item
  PROVE  Len(Children(h, c)) <= Cardinality(Item)
<1> DEFINE s == Children(h, c)
<1>1. s \in Seq(Item)
  BY ChildrenType
<1>2. \A m, n \in 1 .. Len(s) : s[m] = s[n] => m = n
  <2>1. CASE IsOwner(h, c)
    BY <2>1, ChildrenList DEF WellLinked
  <2>2. CASE ~IsOwner(h, c)
    <3>1. s = << >>
      BY <2>2, NoChildren
    <3>2. Len(<< >>) = 0
      OBVIOUS
    <3> HIDE DEF s
    <3> QED
      BY <3>1, <3>2
  <2> QED
    BY <2>1, <2>2
<1> HIDE DEF s
<1>3. s \in [1 .. Len(s) -> Item] /\ Len(s) \in Nat
  BY <1>1
<1>4. s \in Injection(1 .. Len(s), Item)
  BY <1>2, <1>3 DEF Injection, IsInjective
<1>5. Cardinality(1 .. Len(s)) <= Cardinality(Item)
  BY <1>4, ItemAssumption, FS_Injection
<1>6. Cardinality(1 .. Len(s)) = Len(s)
  <2>1. 1 \in Int /\ Len(s) \in Int
    BY <1>3
  <2>2. Cardinality(1 .. Len(s)) = IF 1 > Len(s) THEN 0 ELSE Len(s) - 1 + 1
    BY <2>1, FS_Interval
  <2> QED
    BY <1>3, <2>2
<1> QED
  BY <1>5, <1>6 DEF s

\* The list of an item that had none is empty if it has no child; the others stay
\* what they were if no link along them changes.
LEMMA SameOrNoChildren ==
  ASSUME NEW h, NEW owner, NEW H, Links(h, owner, H),
         NEW g, NEW G, WellLinked(g, G), NEW c \in Item,
         IsOwner(h, c) => IsOwner(g, c) /\ g.child[c] = h.child[c],
         IsOwner(g, c) /\ ~IsOwner(h, c) => g.child[c] = NULL,
         \A x \in Item : owner[x] = c => g.next[x] = h.next[x]
  PROVE  Children(g, c) = Children(h, c)
<1>1. CASE IsOwner(h, c)
  BY <1>1, SameChildren
<1>2. CASE ~IsOwner(h, c) /\ IsOwner(g, c)
  <2>1. << >> \in Seq(Item) /\ Len(<< >>) = 0
    OBVIOUS
  <2>2. IsList(g, c, << >>)
    BY <1>2, <2>1 DEF IsList
  <2>3. Children(g, c) = << >>
    BY <1>2, <2>2, ListIsChildren
  <2> QED
    BY <1>2, <2>3, NoChildren
<1>3. CASE ~IsOwner(h, c) /\ ~IsOwner(g, c)
  BY <1>3, NoChildren
<1> QED
  BY <1>1, <1>2, <1>3

\* Calls that change no link and only make items without a list.
LEMMA SameKids ==
  ASSUME NEW h, NEW H, WellLinked(h, H), NEW g, NEW G, WellLinked(g, G),
         g.next = h.next,
         \A c \in Item : IsOwner(h, c) => IsOwner(g, c) /\ g.child[c] = h.child[c],
         \A c \in Item : IsOwner(g, c) /\ ~IsOwner(h, c) => g.child[c] = NULL
  PROVE  Kids(g) = Kids(h)
<1>1. PICK owner : Links(h, owner, H)
  BY DEF WellLinked
<1>2. \A c \in Item : Children(g, c) = Children(h, c)
  BY <1>1, SameOrNoChildren
<1> QED
  BY <1>2 DEF Kids

\* The list of c is now s; the other lists are what they were.
Relisted(g, h, c, s) ==
  /\ Children(g, c) = s
  /\ \A d \in Item \ {c} : Children(g, d) = Children(h, d)

\* Relisted, as JsonForest says it.
LEMMA RelistedKids ==
  ASSUME NEW g, NEW h, NEW c \in Item, NEW s, Relisted(g, h, c, s)
  PROVE  Kids(g) = [Kids(h) EXCEPT ![c] = s]
BY DEF Kids, Relisted

\* The links that add_item_to_array changes.
LEMMA AddFields ==
  ASSUME NEW h, NEW owner, NEW H, Links(h, owner, H),
         NEW c \in Item, IsOwner(h, c), NEW i \in H, i # c
  PROVE  LET g == add_item_to_array(h, c, i).heap
             first == h.child[c]
         IN  /\ g.live = h.live /\ g.type = h.type
             /\ first = NULL => /\ g.next = h.next
                                /\ g.child = [h.child EXCEPT ![c] = i]
             /\ first # NULL => /\ g.next = [h.next EXCEPT ![h.prev[first]] = i]
                                /\ g.child = h.child
<1> USE NULLAssumption
<1> DEFINE first == h.child[c]
           last == h.prev[first]
           g == add_item_to_array(h, c, i).heap
<1>1. h \in Heap /\ i \in Item /\ h.next[i] = NULL /\ i # NULL
  BY DEF Links, IsRoot
<1>2. CASE first = NULL
  <2> DEFINE f == [h EXCEPT !.child[c] = i, !.prev[i] = i, !.next[i] = NULL]
  <2>1. g = f
    BY <1>1, <1>2 DEF add_item_to_array, Returns
  <2>2. /\ f.live = h.live /\ f.type = h.type
        /\ f.next = [h.next EXCEPT ![i] = NULL]
        /\ f.child = [h.child EXCEPT ![c] = i]
    BY <1>1 DEF Heap
  <2> HIDE DEF f, g
  <2>3. f.next = h.next
    BY <1>1, <2>2 DEF Heap
  <2> QED
    BY <1>2, <2>1, <2>2, <2>3 DEF g
<1>3. CASE first # NULL
  <2> DEFINE f == [suffix_object(h, last, i) EXCEPT !.prev[first] = i]
  <2>1. last # NULL
    BY <1>3 DEF Links, Ends
  <2>2. g = f
    BY <1>1, <1>3, <2>1 DEF add_item_to_array, Returns
  <2>3. /\ f.live = h.live /\ f.type = h.type
        /\ f.next = [h.next EXCEPT ![last] = i]
        /\ f.child = h.child
    BY <1>1 DEF Heap, suffix_object
  <2> HIDE DEF f, g
  <2> QED
    BY <1>3, <2>2, <2>3 DEF g
<1> QED
  BY <1>2, <1>3

\* The last of a list is the one that the first one shows.
LEMMA AppendedKids ==
  ASSUME NEW h, NEW H, WellLinked(h, H), NEW c \in Item, IsOwner(h, c),
         NEW i \in H, i # c, c \notin Deleted(h, i)
  PROVE  LET g == add_item_to_array(h, c, i).heap
         IN  g.live = h.live /\ Relisted(g, h, c, Append(Children(h, c), i))
<1> USE NULLAssumption
<1> DEFINE g == add_item_to_array(h, c, i).heap
           s == Children(h, c)
           t == Append(s, i)
           first == h.child[c]
<1>1. PICK owner : Links(h, owner, H)
  BY DEF WellLinked
<1>2. i \in Item /\ owner[i] = NULL /\ h.next[i] = NULL /\ h \in Heap
  BY <1>1 DEF Links, IsRoot
<1>3. /\ g.live = h.live /\ g.type = h.type
      /\ first = NULL => g.next = h.next /\ g.child = [h.child EXCEPT ![c] = i]
      /\ first # NULL => /\ g.next = [h.next EXCEPT ![h.prev[first]] = i]
                         /\ g.child = h.child
  BY <1>1, AddFields
<1>4. WellLinked(g, H \ {i})
  <2> DEFINE r == add_item_to_array(h, c, i)
  <2>1. i \in H \cup {NULL} /\ i # NULL
    BY <1>2
  <2>2. /\ r.ret <=> i # NULL /\ i # c
        /\ r.ret => WellLinked(r.heap, H \ {i})
    BY <2>1, AddLinks
  <2> HIDE DEF r
  <2>3. WellLinked(r.heap, H \ {i})
    BY <2>1, <2>2
  <2> QED
    BY <2>3 DEF r
<1>5. /\ IsList(h, c, s)
      /\ \A m, n \in 1 .. Len(s) : s[m] = s[n] => m = n
      /\ \A n \in 1 .. Len(s) : owner[s[n]] = c
      /\ Len(s) > 0 => h.prev[s[1]] = s[Len(s)]
  <2> HIDE DEF g
  <2>1. /\ IsList(h, c, s)
        /\ \A m, n \in 1 .. Len(s) : s[m] = s[n] => m = n
        /\ \A n \in 1 .. Len(s) : /\ s[n] = get_array_item(h, c, n - 1)
                                  /\ owner[s[n]] = c
        /\ Len(s) > 0 => h.prev[s[1]] = s[Len(s)]
        /\ \A n \in 2 .. Len(s) : h.prev[s[n]] = s[n - 1]
    BY <1>1, ChildrenList
  <2> HIDE DEF s
  <2> QED
    BY <2>1
<1> HIDE DEF g, s
<1>6. \A d \in Item : IsOwner(g, d) <=> IsOwner(h, d)
  BY <1>3 DEF IsOwner, IsReference
<1>7. /\ s \in Seq(Item) /\ Len(s) \in Nat /\ \A n \in 1 .. Len(s) : s[n] \in Item
      /\ first = IF Len(s) = 0 THEN NULL ELSE s[1]
  BY <1>5 DEF IsList
<1>8. /\ t \in Seq(Item) /\ Len(t) = Len(s) + 1 /\ t[Len(s) + 1] = i
      /\ \A n \in 1 .. Len(s) : t[n] = s[n]
  BY <1>2, <1>7
<1> HIDE DEF t
<1>9. CASE Len(s) = 0
  <2>1. first = NULL /\ t[1] = i /\ Len(t) = 1
    BY <1>7, <1>8, <1>9
  <2>2. g.child[c] = i /\ g.next[i] = NULL
    BY <1>2, <1>3, <2>1 DEF Heap
  <2>3. IsList(g, c, t)
    <3>1. \A n \in 1 .. Len(t) : t[n] = i /\ ~(n < Len(t))
      BY <2>1
    <3> QED
      BY <1>8, <2>1, <2>2, <3>1 DEF IsList
  <2>4. \A d \in Item \ {c} : Children(g, d) = Children(h, d)
    <3>1. \A d \in Item \ {c} : g.child[d] = h.child[d]
      BY <1>2, <1>3, <2>1 DEF Heap
    <3> QED
      BY <1>1, <1>3, <1>4, <1>6, <2>1, <3>1, SameChildren
  <2> QED
    BY <1>3, <1>4, <1>6, <2>3, <2>4, ListIsChildren DEF Relisted, g, t, s
<1>10. CASE Len(s) # 0
  <2>1. /\ first # NULL /\ h.prev[first] = s[Len(s)]
        /\ Len(s) \in 1 .. Len(s) /\ s[Len(s)] \in Item /\ 1 \in 1 .. Len(s)
    <3>1. Len(s) > 0 /\ Len(s) \in 1 .. Len(s) /\ 1 \in 1 .. Len(s)
      BY <1>7, <1>10
    <3> QED
      BY <1>5, <1>7, <3>1
  <2>2. /\ g.child = h.child
        /\ \A x \in Item : g.next[x] = IF x = s[Len(s)] THEN i ELSE h.next[x]
    BY <1>2, <1>3, <2>1 DEF Heap
  <2>3. g.next[i] = NULL
    BY <1>2, <1>5, <2>1, <2>2
  <2>4. ASSUME NEW n \in 1 .. Len(s)
        PROVE  g.next[t[n]] = t[n + 1]
    <3>1. CASE n = Len(s)
      BY <1>7, <1>8, <2>2, <3>1
    <3>2. CASE n # Len(s)
      <4>1. n < Len(s) /\ n + 1 \in 1 .. Len(s)
        BY <1>7, <3>2
      <4>2. s[n] # s[Len(s)]
        BY <1>5, <2>1, <3>2
      <4>3. h.next[s[n]] = s[n + 1]
        BY <1>5, <4>1 DEF IsList
      <4> QED
        BY <1>7, <1>8, <2>2, <4>1, <4>2, <4>3
    <3> QED
      BY <3>1, <3>2
  <2>5. IsList(g, c, t)
    <3>1. g.child[c] = t[1] /\ Len(t) # 0
      BY <1>7, <1>8, <2>1, <2>2
    <3>2. ASSUME NEW n \in 1 .. Len(t)
          PROVE  g.next[t[n]] = IF n < Len(t) THEN t[n + 1] ELSE NULL
      <4>1. CASE n < Len(t)
        <5>1. n \in 1 .. Len(s)
          BY <1>7, <1>8, <4>1
        <5> QED
          BY <2>4, <4>1, <5>1
      <4>2. CASE ~(n < Len(t))
        <5>1. n = Len(s) + 1
          BY <1>7, <1>8, <4>2
        <5> QED
          BY <1>8, <2>3, <4>2, <5>1
      <4> QED
        BY <4>1, <4>2
    <3> QED
      BY <1>8, <3>1, <3>2 DEF IsList
  <2>6. \A d \in Item \ {c} : Children(g, d) = Children(h, d)
    <3>1. \A d \in Item \ {c}, x \in Item : owner[x] = d => g.next[x] = h.next[x]
      BY <1>5, <2>1, <2>2
    <3> QED
      BY <1>1, <1>4, <1>6, <2>2, <3>1, SameChildren
  <2> QED
    BY <1>3, <1>4, <1>6, <2>5, <2>6, ListIsChildren DEF Relisted, g, t, s
<1> QED
  BY <1>9, <1>10

\* An item at a position of a list and its neighbours there.
LEMMA ListPosition ==
  ASSUME NEW h, NEW owner, NEW H, Links(h, owner, H), NEW c \in Item, IsOwner(h, c),
         NEW n \in 1 .. Len(Children(h, c))
  PROVE  LET s == Children(h, c)
         IN  /\ s[n] \in Item /\ owner[s[n]] = c
             /\ s[n] = h.child[c] <=> n = 1
             /\ n > 1 => h.prev[s[n]] = s[n - 1]
             /\ \A m \in 1 .. Len(s) : s[m] = s[n] => m = n
<1> DEFINE s == Children(h, c)
<1>1. /\ IsList(h, c, s)
      /\ \A k, m \in 1 .. Len(s) : s[k] = s[m] => k = m
      /\ \A m \in 1 .. Len(s) : owner[s[m]] = c
      /\ \A m \in 2 .. Len(s) : h.prev[s[m]] = s[m - 1]
  BY ChildrenList
<1> HIDE DEF s
<1>2. n \in 1 .. Len(s) /\ Len(s) \in Nat /\ Len(s) # 0 /\ 1 \in 1 .. Len(s)
  BY <1>1 DEF IsList, s
<1>3. s[n] \in Item /\ owner[s[n]] = c
  BY <1>1, <1>2 DEF IsList
<1>4. s[n] = h.child[c] <=> n = 1
  <2>1. h.child[c] = s[1]
    BY <1>1, <1>2 DEF IsList
  <2> QED
    BY <1>1, <1>2, <2>1
<1>5. n > 1 => h.prev[s[n]] = s[n - 1]
  BY <1>1, <1>2
<1> QED
  BY <1>1, <1>2, <1>3, <1>4, <1>5 DEF s

\* An item that is inserted takes the position of the one it is put before.
LEMMA InsertedKids ==
  ASSUME NEW h, NEW H, WellLinked(h, H), NEW c \in Item, IsOwner(h, c),
         NEW n \in 1 .. Len(Children(h, c)),
         NEW i \in H, i # c, c \notin Deleted(h, i)
  PROVE  LET s == Children(h, c)
             g == InsertedBefore(h, c, s[n], i)
         IN  Relisted(g, h, c, Forest!InsertAt(s, n, i))
<1> USE NULLAssumption
<1> DEFINE s == Children(h, c)
           x == s[n]
           g == InsertedBefore(h, c, x, i)
           t == Forest!InsertAt(s, n, i)
<1>1. PICK owner : Links(h, owner, H)
  BY DEF WellLinked
<1>2. i \in Item /\ owner[i] = NULL
  BY <1>1 DEF Links, IsRoot
<1>3. /\ x \in Item /\ owner[x] = c
      /\ x = h.child[c] <=> n = 1
      /\ n > 1 => h.prev[x] = s[n - 1]
  BY <1>1, ListPosition
<1>4. /\ WellLinked(g, H \ {i})
      /\ InsertedBeforeFields(g, h, c, x, i)
  <2> HIDE DEF g, x, s, t
  <2>1. /\ \E o : Links(g, o, H \ {i}) /\ o[x] = c
        /\ InsertedBeforeFields(g, h, c, x, i)
    <3>1. \A y \in Item : owner[y] = c =>
            /\ \E o : Links(InsertedBefore(h, c, y, i), o, H \ {i}) /\ o[y] = c
            /\ InsertedBeforeFields(InsertedBefore(h, c, y, i), h, c, y, i)
      BY <1>1, InsertedBeforeLinks
    <3> QED
      BY <1>3, <3>1 DEF g
  <2> QED
    BY <2>1 DEF WellLinked
<1>5. /\ IsList(h, c, s)
      /\ \A k, m \in 1 .. Len(s) : s[k] = s[m] => k = m
      /\ \A m \in 1 .. Len(s) : owner[s[m]] = c
  BY <1>1, ChildrenList
<1>6. s \in Seq(Item)
  BY <1>5 DEF IsList
<1> HIDE DEF s, g
<1>7. /\ t \in Seq(Item) /\ Len(t) = Len(s) + 1
      /\ \A k \in 1 .. Len(s) + 1 :
           t[k] = IF k < n THEN s[k] ELSE IF k = n THEN i ELSE s[k - 1]
  <2>1. n \in 1 .. Len(s) + 1 /\ n \in 1 .. Len(s)
    BY <1>6 DEF s
  <2> HIDE DEF x
  <2>2. \A u \in Seq(Item) : \A m \in 1 .. Len(u) + 1 :
          LET v == Forest!InsertAt(u, m, i)
          IN  /\ v \in Seq(Item) /\ Len(v) = Len(u) + 1
              /\ \A k \in 1 .. Len(u) + 1 :
                   v[k] = IF k < m THEN u[k] ELSE IF k = m THEN i ELSE u[k - 1]
    BY <1>2, InsertAtElements
  <2> QED
    BY <1>6, <2>1, <2>2
<1>8. /\ n \in 1 .. Len(s) /\ Len(s) \in Nat
      /\ \A m \in 1 .. Len(s) : s[m] \in Item /\ s[m] # i
  BY <1>2, <1>5, <1>6 DEF s
<1> HIDE DEF t
<1>9. /\ g.child = IF n = 1 THEN [h.child EXCEPT ![c] = i] ELSE h.child
      /\ \A y \in Item :
           g.next[y] = IF y = i THEN x
                       ELSE IF n # 1 /\ y = s[n - 1] THEN i ELSE h.next[y]
  <2>1. n # 1 => n > 1
    BY <1>8
  <2> QED
    BY <1>3, <1>4, <2>1 DEF InsertedBeforeFields
<1>10. \A d \in Item : IsOwner(g, d) <=> IsOwner(h, d)
  BY <1>4 DEF IsOwner, IsReference, InsertedBeforeFields
<1>11. g.child[c] = t[1]
  <2>1. 1 \in 1 .. Len(s) + 1
    BY <1>8
  <2>2. CASE n = 1
    BY <1>1, <1>7, <1>9, <2>1, <2>2 DEF Links, Heap
  <2>3. CASE n # 1
    <3>1. 1 < n
      BY <1>8, <2>3
    <3>2. h.child[c] = s[1]
      BY <1>5, <1>8 DEF IsList
    <3> QED
      BY <1>7, <1>9, <2>1, <2>3, <3>1, <3>2
  <2> QED
    BY <2>2, <2>3
<1>12. ASSUME NEW k \in 1 .. Len(t)
       PROVE  g.next[t[k]] = IF k < Len(t) THEN t[k + 1] ELSE NULL
  <2>1. k \in 1 .. Len(s) + 1 /\ Len(t) = Len(s) + 1
    BY <1>7
  <2>2. CASE k < n - 1
    <3>1. /\ k \in 1 .. Len(s) /\ k < Len(s) /\ k < n /\ k + 1 < n
          /\ k + 1 \in 1 .. Len(s) + 1 /\ n - 1 \in 1 .. Len(s) /\ k # n - 1
      BY <1>8, <2>1, <2>2
    <3>2. t[k] = s[k] /\ t[k + 1] = s[k + 1] /\ s[k] # s[n - 1]
      BY <1>5, <1>7, <3>1
    <3>3. h.next[s[k]] = s[k + 1]
      BY <1>5, <3>1 DEF IsList
    <3> QED
      BY <1>8, <1>9, <2>1, <3>1, <3>2, <3>3
  <2>3. CASE k = n - 1
    <3>1. /\ k \in 1 .. Len(s) /\ n # 1 /\ k < n /\ k + 1 = n
          /\ n \in 1 .. Len(s) + 1 /\ k < Len(s) + 1
      BY <1>8, <2>1, <2>3
    <3>2. t[k] = s[n - 1] /\ t[k + 1] = i
      BY <1>7, <2>3, <3>1
    <3> QED
      BY <1>8, <1>9, <2>1, <2>3, <3>1, <3>2
  <2>4. CASE k = n
    <3>1. /\ n + 1 \in 1 .. Len(s) + 1 /\ ~(n + 1 < n) /\ n + 1 # n
          /\ (n + 1) - 1 = n /\ n < Len(s) + 1 /\ n \in 1 .. Len(s) + 1
      BY <1>8
    <3>2. t[n] = i /\ t[n + 1] = s[n]
      BY <1>7, <3>1
    <3> QED
      BY <1>2, <1>9, <2>1, <2>4, <3>1, <3>2
  <2>5. CASE k > n
    <3>1. /\ k - 1 \in 1 .. Len(s) /\ ~(k < n) /\ k # n /\ k - 1 # n - 1
          /\ n # 1 => n - 1 \in 1 .. Len(s)
          /\ k - 1 < Len(s) <=> k < Len(s) + 1
          /\ (k - 1) + 1 = k /\ (k + 1) - 1 = k
          /\ k < Len(s) + 1 => k + 1 \in 1 .. Len(s) + 1
          /\ ~(k + 1 < n) /\ k + 1 # n
      BY <1>8, <2>1, <2>5
    <3>2. t[k] = s[k - 1] /\ (k < Len(s) + 1 => t[k + 1] = s[k])
      BY <1>7, <2>1, <3>1
    <3>3. h.next[s[k - 1]] = IF k - 1 < Len(s) THEN s[k] ELSE NULL
      BY <1>5, <3>1 DEF IsList
    <3>4. n # 1 => s[k - 1] # s[n - 1]
      BY <1>5, <3>1
    <3>5. g.next[s[k - 1]] = h.next[s[k - 1]]
      BY <1>8, <1>9, <3>1, <3>4
    <3> QED
      BY <2>1, <3>1, <3>2, <3>3, <3>5
  <2> QED
    BY <1>8, <2>1, <2>2, <2>3, <2>4, <2>5
<1>13. IsList(g, c, t)
  <2>1. Len(t) # 0
    BY <1>7, <1>8
  <2> QED
    BY <1>7, <1>11, <1>12, <2>1 DEF IsList
<1>14. \A d \in Item \ {c} : Children(g, d) = Children(h, d)
  <2>1. \A d \in Item \ {c} : g.child[d] = h.child[d]
    BY <1>1, <1>9 DEF Links, Heap
  <2>2. \A d \in Item \ {c}, y \in Item : owner[y] = d => g.next[y] = h.next[y]
    <3>1. n # 1 => n - 1 \in 1 .. Len(s)
      BY <1>8
    <3>2. n # 1 => owner[s[n - 1]] = c
      BY <1>5, <3>1
    <3> QED
      BY <1>2, <1>9, <3>2
  <2> QED
    BY <1>1, <1>4, <1>10, <2>1, <2>2, SameChildren
<1> QED
  BY <1>4, <1>10, <1>13, <1>14, ListIsChildren DEF Relisted, g, t, s, x

\* The links that cJSON_DetachItemViaPointer changes.
LEMMA DetachNext ==
  ASSUME NEW h, NEW owner, NEW H, Links(h, owner, H),
         NEW c \in Item, IsOwner(h, c), NEW item \in Item, owner[item] = c
  PROVE  LET g == cJSON_DetachItemViaPointer(h, c, item).heap
         IN  /\ g.live = h.live /\ g.type = h.type
             /\ g.child = IF item = h.child[c]
                          THEN [h.child EXCEPT ![c] = h.next[item]] ELSE h.child
             /\ \A y \in Item :
                  g.next[y] = IF y = item THEN NULL
                              ELSE IF item # h.child[c] /\ y = h.prev[item]
                              THEN h.next[item] ELSE h.next[y]
<1> DEFINE next == h.next[item]
           prev == h.prev[item]
           first == item = h.child[c]
           g == cJSON_DetachItemViaPointer(h, c, item).heap
<1>1. /\ cJSON_DetachItemViaPointer(h, c, item).ret = item
      /\ g.live = h.live /\ g.type = h.type
      /\ g.child = IF first THEN [h.child EXCEPT ![c] = next] ELSE h.child
      /\ \A x \in Item :
           g.next[x] = IF x = item THEN NULL
                       ELSE IF ~first /\ x = prev THEN next ELSE h.next[x]
  BY DetachFields
<1> HIDE DEF g
<1> QED
  BY <1>1 DEF g

\* What the call returns, and that it frees nothing.
LEMMA DetachReturns ==
  ASSUME NEW h, NEW owner, NEW H, Links(h, owner, H),
         NEW c \in Item, IsOwner(h, c), NEW item \in Item, owner[item] = c
  PROVE  /\ cJSON_DetachItemViaPointer(h, c, item).ret = item
         /\ cJSON_DetachItemViaPointer(h, c, item).heap.live = h.live
<1> DEFINE next == h.next[item]
           first == item = h.child[c]
           g == cJSON_DetachItemViaPointer(h, c, item).heap
<1>1. /\ cJSON_DetachItemViaPointer(h, c, item).ret = item
      /\ g.live = h.live /\ g.type = h.type
      /\ g.child = IF first THEN [h.child EXCEPT ![c] = next] ELSE h.child
  BY DetachFields
<1> QED
  BY <1>1

\* An item that is detached leaves a gap that closes.
LEMMA DetachedKids ==
  ASSUME NEW h, NEW H, WellLinked(h, H), NEW c \in Item, IsOwner(h, c),
         NEW n \in 1 .. Len(Children(h, c))
  PROVE  LET s == Children(h, c)
             g == cJSON_DetachItemViaPointer(h, c, s[n]).heap
         IN  Relisted(g, h, c, Forest!RemoveAt(s, n))
<1> USE NULLAssumption
<1> DEFINE s == Children(h, c)
           x == s[n]
           g == cJSON_DetachItemViaPointer(h, c, x).heap
           t == Forest!RemoveAt(s, n)
<1>1. PICK owner : Links(h, owner, H)
  BY DEF WellLinked
<1>3. /\ x \in Item /\ owner[x] = c
      /\ x = h.child[c] <=> n = 1
      /\ n > 1 => h.prev[x] = s[n - 1]
  BY <1>1, ListPosition
<1>4. WellLinked(g, H \cup {x})
  <2> DEFINE r == cJSON_DetachItemViaPointer(h, c, x)
  <2> HIDE DEF x, r
  <2>1. x \in Link /\ x # NULL
    BY <1>3 DEF Link
  <2>2. r.ret = x /\ WellLinked(r.heap, H \cup ({r.ret} \ {NULL}))
    BY <1>1, <1>3, <2>1, DetachLinks DEF r
  <2>3. {x} \ {NULL} = {x}
    BY <2>1
  <2> QED
    BY <2>2, <2>3 DEF r
<1> HIDE DEF g
<1>a. /\ g.live = h.live /\ g.type = h.type
      /\ g.child = IF x = h.child[c] THEN [h.child EXCEPT ![c] = h.next[x]]
                   ELSE h.child
      /\ \A y \in Item :
           g.next[y] = IF y = x THEN NULL
                       ELSE IF x # h.child[c] /\ y = h.prev[x] THEN h.next[x]
                       ELSE h.next[y]
  <2> DEFINE f == cJSON_DetachItemViaPointer(h, c, x).heap
  <2> HIDE DEF x
  <2>1. /\ f.live = h.live /\ f.type = h.type
        /\ f.child = IF x = h.child[c] THEN [h.child EXCEPT ![c] = h.next[x]]
                     ELSE h.child
        /\ \A y \in Item :
             f.next[y] = IF y = x THEN NULL
                         ELSE IF x # h.child[c] /\ y = h.prev[x] THEN h.next[x]
                         ELSE h.next[y]
    BY <1>1, <1>3, DetachNext
  <2> QED
    BY <2>1 DEF g
<1>5. /\ IsList(h, c, s)
      /\ \A k, m \in 1 .. Len(s) : s[k] = s[m] => k = m
      /\ \A m \in 1 .. Len(s) : owner[s[m]] = c
  <2>1. \A o : Links(h, o, H) =>
          /\ IsList(h, c, s)
          /\ \A k, m \in 1 .. Len(s) : s[k] = s[m] => k = m
          /\ \A m \in 1 .. Len(s) : o[s[m]] = c
    BY ChildrenList
  <2> QED
    BY <1>1, <2>1
<1>6. s \in Seq(Item)
  BY <1>5 DEF IsList
<1>b. n \in 1 .. Len(s)
  OBVIOUS
<1> HIDE DEF s, g
<1>7. /\ t \in Seq(Item) /\ Len(t) = Len(s) - 1
      /\ \A k \in 1 .. Len(s) - 1 : t[k] = IF k < n THEN s[k] ELSE s[k + 1]
  BY <1>6, <1>b, RemoveAtElements
<1>8. /\ n \in 1 .. Len(s) /\ Len(s) \in Nat
      /\ \A m \in 1 .. Len(s) : s[m] \in Item
      /\ h.next[x] = IF n < Len(s) THEN s[n + 1] ELSE NULL
  BY <1>5, <1>6, <1>b DEF IsList
<1> HIDE DEF t
<1>9. /\ g.child = IF n = 1 THEN [h.child EXCEPT ![c] = h.next[x]] ELSE h.child
      /\ \A y \in Item :
           g.next[y] = IF y = x THEN NULL
                       ELSE IF n # 1 /\ y = s[n - 1] THEN h.next[x] ELSE h.next[y]
  <2>1. n # 1 => n > 1
    BY <1>8
  <2> QED
    BY <1>3, <1>a, <2>1
<1>10. \A d \in Item : IsOwner(g, d) <=> IsOwner(h, d)
  BY <1>a DEF IsOwner, IsReference
<1>11. g.child[c] = IF Len(t) = 0 THEN NULL ELSE t[1]
  <2>2. CASE n = 1
    <3>1. g.child[c] = h.next[x]
      BY <1>1, <1>9, <2>2 DEF Links, Heap
    <3>2. CASE Len(s) = 1
      BY <1>7, <1>8, <2>2, <3>1, <3>2
    <3>3. CASE Len(s) # 1
      <4>1. 1 < Len(s) /\ 1 \in 1 .. Len(s) - 1 /\ ~(1 < 1)
        <5>1. \A l \in Nat : l # 0 /\ l # 1 => 1 < l /\ 1 \in 1 .. l - 1
          OBVIOUS
        <5>2. Len(s) # 0 /\ Len(s) \in Nat
          BY <1>8
        <5> QED
          BY <3>3, <5>1, <5>2
      <4> QED
        BY <1>7, <1>8, <2>2, <3>1, <4>1
    <3> QED
      BY <3>2, <3>3
  <2>3. CASE n # 1
    <3>1. 1 < n /\ 1 \in 1 .. Len(s) - 1 /\ Len(s) # 0
      BY <1>8, <2>3
    <3>2. h.child[c] = s[1]
      BY <1>5, <3>1 DEF IsList
    <3> QED
      BY <1>7, <1>9, <2>3, <3>1, <3>2
  <2> QED
    BY <2>2, <2>3
<1>12. ASSUME NEW k \in 1 .. Len(t)
       PROVE  g.next[t[k]] = IF k < Len(t) THEN t[k + 1] ELSE NULL
  <2>1. k \in 1 .. Len(s) - 1 /\ Len(t) = Len(s) - 1
    BY <1>7
  <2>2. CASE k < n - 1
    <3>1. /\ k \in 1 .. Len(s) /\ k < Len(s) /\ k < n /\ k + 1 < n /\ k # n
          /\ k + 1 \in 1 .. Len(s) - 1 /\ n - 1 \in 1 .. Len(s) /\ k # n - 1
          /\ k < Len(s) - 1
      BY <1>8, <2>1, <2>2
    <3>2. t[k] = s[k] /\ t[k + 1] = s[k + 1] /\ s[k] # s[n - 1] /\ s[k] # x
      BY <1>5, <1>7, <1>8, <2>1, <3>1
    <3>3. h.next[s[k]] = s[k + 1]
      BY <1>5, <3>1 DEF IsList
    <3> QED
      BY <1>8, <1>9, <2>1, <3>1, <3>2, <3>3
  <2>3. CASE k = n - 1
    <3>1. /\ k \in 1 .. Len(s) /\ n # 1 /\ k < n /\ k + 1 = n /\ k # n
          /\ k < Len(s) - 1 <=> n < Len(s)
          /\ n < Len(s) => n \in 1 .. Len(s) - 1
          /\ ~(n < n)
      BY <1>8, <2>1, <2>3
    <3>2. t[k] = s[n - 1] /\ (n < Len(s) => t[k + 1] = s[n + 1]) /\ s[n - 1] # x
      BY <1>5, <1>7, <1>8, <2>1, <2>3, <3>1
    <3>3. g.next[s[n - 1]] = h.next[x]
      BY <1>8, <1>9, <2>3, <3>1, <3>2
    <3> QED
      BY <1>8, <2>1, <3>1, <3>2, <3>3
  <2>4. CASE k >= n
    <3>1. /\ k + 1 \in 1 .. Len(s) /\ ~(k < n) /\ k + 1 # n /\ k + 1 # n - 1
          /\ n # 1 => n - 1 \in 1 .. Len(s)
          /\ k + 1 < Len(s) <=> k < Len(s) - 1
          /\ k < Len(s) - 1 => k + 1 \in 1 .. Len(s) - 1
          /\ ~(k + 1 < n)
      BY <1>8, <2>1, <2>4
    <3>2. t[k] = s[k + 1] /\ (k < Len(s) - 1 => t[k + 1] = s[(k + 1) + 1])
      BY <1>7, <2>1, <3>1
    <3>3. h.next[s[k + 1]] = IF k + 1 < Len(s) THEN s[(k + 1) + 1] ELSE NULL
      BY <1>5, <3>1 DEF IsList
    <3>4. s[k + 1] # x /\ (n # 1 => s[k + 1] # s[n - 1])
      BY <1>5, <1>8, <3>1
    <3>5. g.next[s[k + 1]] = h.next[s[k + 1]]
      BY <1>8, <1>9, <3>1, <3>4
    <3> QED
      BY <2>1, <3>1, <3>2, <3>3, <3>5
  <2> QED
    BY <1>8, <2>1, <2>2, <2>3, <2>4
<1>13. IsList(g, c, t)
  BY <1>7, <1>11, <1>12 DEF IsList
<1>14. \A d \in Item \ {c} : Children(g, d) = Children(h, d)
  <2>1. \A d \in Item \ {c} : g.child[d] = h.child[d]
    BY <1>1, <1>9 DEF Links, Heap
  <2>2. \A d \in Item \ {c}, y \in Item : owner[y] = d => g.next[y] = h.next[y]
    <3>1. n # 1 => n - 1 \in 1 .. Len(s)
      BY <1>8
    <3>2. n # 1 => owner[s[n - 1]] = c
      BY <1>5, <3>1
    <3> QED
      BY <1>3, <1>9, <3>2
  <2> QED
    BY <1>1, <1>4, <1>10, <2>1, <2>2, SameChildren
<1> QED
  BY <1>4, <1>10, <1>13, <1>14, ListIsChildren DEF Relisted, g, t, s, x

\* The lists of what is deleted are gone, and no other list loses an item.
LEMMA DeletedKids ==
  ASSUME NEW h, NEW H, WellLinked(h, H), NEW i \in H, NEW c \in Item
  PROVE  LET g == cJSON_Delete(h, i)
         IN  Children(g, c) = IF c \in Deleted(h, i) THEN << >> ELSE Children(h, c)
<1> USE NULLAssumption
<1> DEFINE g == cJSON_Delete(h, i)
           gone == Deleted(h, i)
<1>1. PICK owner : Links(h, owner, H)
  BY DEF WellLinked
<1>2. h \in Heap /\ i \in Item /\ IsRoot(h, owner, i) /\ h.live \subseteq Item
  BY <1>1 DEF Links, Heap
<1>3. WellLinked(g, H \ {i})
  BY DeleteLinks
<1>4. /\ g.live = h.live \ gone
      /\ \A x \in Item \ gone :
           g.next[x] = h.next[x] /\ g.child[x] = h.child[x] /\ g.type[x] = h.type[x]
  BY <1>2, DeleteFields
<1> HIDE DEF g
<1>5. CASE c \in gone
  <2>1. ~IsOwner(g, c)
    BY <1>4, <1>5 DEF IsOwner
  <2> QED
    BY <1>5, <2>1, NoChildren DEF g
<1>6. CASE c \notin gone
  <2>1. IsOwner(g, c) <=> IsOwner(h, c)
    BY <1>4, <1>6 DEF IsOwner, IsReference
  <2>2. ASSUME NEW x \in Item, owner[x] = c PROVE g.next[x] = h.next[x]
    <3>1. x \notin gone
      <4>1. x # i
        BY <1>2, <2>2 DEF IsRoot
      <4> QED
        BY <1>1, <1>6, <2>2, <4>1, DeletedOwned
    <3> QED
      BY <1>4, <3>1
  <2>3. Children(g, c) = Children(h, c)
    BY <1>1, <1>3, <1>4, <1>6, <2>1, <2>2, SameChildren
  <2> QED
    BY <1>6, <2>3 DEF g
<1> QED
  BY <1>5, <1>6

-----------------------------------------------------------------------------
(* Families.                                                               *)

\* The children of what is in S are in S.
Closed(k, S) == \A c \in S : Forest!ToSet(k[c]) \subseteq S

\* Forest!Family for the lists k.
FamilyOf(k, x) ==
  {i \in Item : \A S \in SUBSET Item : x \in S /\ Closed(k, S) => i \in S}

\* A family is the least closed set around its item.
LEMMA FamilyLeast ==
  ASSUME NEW k, NEW x \in Item, \A c \in Item : Forest!ToSet(k[c]) \subseteq Item
  PROVE  /\ FamilyOf(k, x) \in SUBSET Item
         /\ x \in FamilyOf(k, x)
         /\ Closed(k, FamilyOf(k, x))
         /\ \A S \in SUBSET Item : x \in S /\ Closed(k, S) => FamilyOf(k, x) \subseteq S
<1>1. ASSUME NEW c \in FamilyOf(k, x), NEW y \in Forest!ToSet(k[c])
      PROVE  y \in FamilyOf(k, x)
  <2>1. c \in Item /\ y \in Item
    BY <1>1 DEF FamilyOf
  <2>2. ASSUME NEW S \in SUBSET Item, x \in S, Closed(k, S) PROVE y \in S
    BY <1>1, <2>2 DEF FamilyOf, Closed
  <2> QED
    BY <2>1, <2>2 DEF FamilyOf
<1> QED
  BY <1>1 DEF FamilyOf, Closed

\* A list that is outside a family does not matter to it.
LEMMA FamilyApart ==
  ASSUME NEW k, NEW l, NEW x \in Item, NEW c,
         \A d \in Item : /\ Forest!ToSet(k[d]) \subseteq Item
                         /\ Forest!ToSet(l[d]) \subseteq Item,
         \A d \in Item \ {c} : k[d] = l[d],
         c \notin FamilyOf(l, x)
  PROVE  FamilyOf(k, x) = FamilyOf(l, x)
<1> DEFINE K == FamilyOf(k, x)
           L == FamilyOf(l, x)
<1>1. /\ K \in SUBSET Item /\ x \in K /\ Closed(k, K)
      /\ \A S \in SUBSET Item : x \in S /\ Closed(k, S) => K \subseteq S
  BY FamilyLeast
<1>2. /\ L \in SUBSET Item /\ x \in L /\ Closed(l, L)
      /\ \A S \in SUBSET Item : x \in S /\ Closed(l, S) => L \subseteq S
  BY FamilyLeast
<1>3. c \notin L
  OBVIOUS
<1> HIDE DEF K, L
<1>4. Closed(k, L)
  BY <1>2, <1>3 DEF Closed
<1>5. K \subseteq L
  BY <1>1, <1>2, <1>4
<1>6. Closed(l, K)
  BY <1>1, <1>3, <1>5 DEF Closed
<1>7. L \subseteq K
  BY <1>1, <1>2, <1>6
<1> QED
  BY <1>5, <1>7 DEF K, L

\* The children of a container are the items that it owns.
LEMMA ListedOwned ==
  ASSUME NEW h, NEW owner, NEW H, Links(h, owner, H), NEW c \in Item,
         NEW x \in Forest!ToSet(Kids(h)[c])
  PROVE  x \in Item /\ owner[x] = c
<1>1. PICK n \in DOMAIN Children(h, c) : x = Children(h, c)[n]
  BY DEF Forest!ToSet, Kids
<1>2. Children(h, c) \in Seq(Item)
  BY ChildrenType DEF WellLinked
<1>3. n \in 1 .. Len(Children(h, c)) /\ x \in Item
  BY <1>1, <1>2
<1>4. IsOwner(h, c)
  <2> SUFFICES ASSUME ~IsOwner(h, c) PROVE FALSE
    OBVIOUS
  <2>1. Children(h, c) = << >>
    BY NoChildren
  <2>2. DOMAIN << >> = {}
    OBVIOUS
  <2> QED
    BY <1>1, <2>1, <2>2
<1> QED
  BY <1>1, <1>3, <1>4, ListPosition

\* An item that is owned is among the children of its owner.
LEMMA OwnedListed ==
  ASSUME NEW h, NEW owner, NEW H, Links(h, owner, H), NEW x \in Item,
         owner[x] # NULL
  PROVE  /\ owner[x] \in h.live /\ owner[x] \in Item
         /\ x \in Forest!ToSet(Kids(h)[owner[x]])
<1>1. x \in h.live /\ owner[x] \in h.live /\ owner[x] \in Item
  BY DEF Links, Backwards, IsOwner, Heap
<1>2. \E n \in DOMAIN Children(h, owner[x]) : Children(h, owner[x])[n] = x
  BY <1>1, ChildOwned
<1> QED
  BY <1>1, <1>2 DEF Forest!ToSet, Kids

\* The children are items.
LEMMA KidsItems ==
  ASSUME NEW h, NEW H, WellLinked(h, H), NEW c \in Item
  PROVE  Forest!ToSet(Kids(h)[c]) \subseteq Item
BY ListedOwned DEF WellLinked

\* What cJSON_Delete frees of a root is its family.
LEMMA RootFamily ==
  ASSUME NEW h, NEW owner, NEW H, Links(h, owner, H), NEW i \in H
  PROVE  FamilyOf(Kids(h), i) = Deleted(h, i)
<1> USE NULLAssumption
<1> DEFINE F == FamilyOf(Kids(h), i)
           gone == Deleted(h, i)
           Closes(S) == /\ i \in S
                        /\ \A x \in S :
                             /\ h.next[x] = NULL \/ h.next[x] \in S
                             /\ \/ IsReference(h, x)
                                \/ h.child[x] = NULL
                                \/ h.child[x] \in S
<1>1. h \in Heap /\ i \in Item /\ IsRoot(h, owner, i)
  BY DEF Links
<1>2. /\ gone \in SUBSET Item /\ i \in gone
      /\ \A x \in gone :
           /\ h.next[x] # NULL => h.next[x] \in gone
           /\ ~IsReference(h, x) /\ h.child[x] # NULL => h.child[x] \in gone
  BY <1>1, DeletedClosed
<1>3. \A S \in SUBSET Item : Closes(S) => gone \subseteq S
  BY DEF Deleted
<1>4. /\ F \in SUBSET Item /\ i \in F /\ Closed(Kids(h), F)
      /\ \A S \in SUBSET Item : i \in S /\ Closed(Kids(h), S) => F \subseteq S
  <2>1. \A c \in Item : Forest!ToSet(Kids(h)[c]) \subseteq Item
    BY KidsItems DEF WellLinked
  <2> QED
    BY <1>1, <2>1, FamilyLeast
<1> HIDE DEF F
<1>5. F \subseteq gone
  <2>1. ASSUME NEW c \in gone, NEW x \in Forest!ToSet(Kids(h)[c]) PROVE x \in gone
    <3>1. x \in Item /\ owner[x] = c
      BY <1>2, <2>1, ListedOwned
    <3> QED
      BY <1>1, <2>1, <3>1, DeletedFamily
  <2>2. Closed(Kids(h), gone)
    BY <2>1 DEF Closed
  <2> QED
    BY <1>2, <1>4, <2>2
<1>6. gone \subseteq F
  <2> HIDE DEF gone
  <2> DEFINE T == {x \in gone : x \in F /\ (x = i \/ owner[x] \in F)}
  <2>1. i \in T /\ T \in SUBSET Item
    BY <1>2, <1>4
  <2>2. ASSUME NEW x \in Item, owner[x] # NULL, owner[x] \in F PROVE x \in F
    BY <1>4, <2>2, OwnedListed DEF Closed
  <2>3. ASSUME NEW x \in T, h.next[x] # NULL PROVE h.next[x] \in T
    <3>1. h.next[x] \in gone /\ owner[h.next[x]] = owner[x] /\ owner[x] # NULL
      BY <1>2, <2>3 DEF Links, Forwards
    <3>2. x # i
      BY <1>1, <3>1 DEF IsRoot
    <3> QED
      BY <1>2, <2>2, <3>1, <3>2
  <2>4. ASSUME NEW x \in T, ~IsReference(h, x), h.child[x] # NULL
        PROVE  h.child[x] \in T
    <3>1. h.child[x] \in gone /\ x \in Item
      BY <1>2, <2>4
    <3>2. x \in h.live
      BY <2>4, <3>1 DEF Links, Zeroed
    <3>3. owner[h.child[x]] = x
      BY <2>4, <3>1, <3>2 DEF Links, Ends, IsOwner
    <3> QED
      BY <1>2, <2>2, <3>1, <3>3
  <2>5. Closes(T)
    BY <2>1, <2>3, <2>4
  <2> HIDE DEF T
  <2>6. gone \subseteq T
    BY <1>3, <2>1, <2>5
  <2> QED
    BY <2>6 DEF T
<1> QED
  BY <1>5, <1>6 DEF F, gone

\* Nothing hangs below itself: a container does not hang below what is taken
\* out of its list.
LEMMA DetachedApart ==
  ASSUME NEW h, NEW H, WellLinked(h, H), NEW c \in Item, IsOwner(h, c),
         NEW n \in 1 .. Len(Children(h, c))
  PROVE  LET x == Children(h, c)[n]
             g == cJSON_DetachItemViaPointer(h, c, x).heap
         IN  /\ x \in Item /\ x \notin H
             /\ WellLinked(g, H \cup {x})
             /\ c \notin Deleted(g, x)
<1> USE NULLAssumption
<1> DEFINE s == Children(h, c)
           x == s[n]
           r == cJSON_DetachItemViaPointer(h, c, x)
           g == r.heap
           gone == Deleted(g, x)
<1>1. PICK owner : Links(h, owner, H)
  BY DEF WellLinked
<1>2. x \in Item /\ owner[x] = c
  BY <1>1, ListPosition
<1>3. x \notin H /\ x \in h.live /\ h.live \subseteq Item
  BY <1>1, <1>2 DEF Links, IsRoot, Backwards, Heap
<1>4. Relisted(g, h, c, Forest!RemoveAt(s, n))
  BY DetachedKids
<1>5. Forest!ToSet(Forest!RemoveAt(s, n)) \subseteq Forest!ToSet(s)
  <2> DEFINE t == Forest!RemoveAt(s, n)
  <2>1. s \in Seq(Item) /\ n \in 1 .. Len(s)
    BY ChildrenType
  <2> HIDE DEF s
  <2>2. /\ t \in Seq(Item) /\ Len(t) = Len(s) - 1
        /\ \A m \in 1 .. Len(s) - 1 : t[m] = IF m < n THEN s[m] ELSE s[m + 1]
    BY <2>1, RemoveAtElements
  <2> HIDE DEF t
  <2>3. ASSUME NEW m \in DOMAIN t PROVE t[m] \in Forest!ToSet(s)
    <3>1. m \in 1 .. Len(s) - 1
      BY <2>2
    <3>2. m \in DOMAIN s /\ m + 1 \in DOMAIN s
      BY <2>1, <3>1
    <3> QED
      BY <2>2, <3>1, <3>2 DEF Forest!ToSet
  <2> QED
    BY <2>3 DEF Forest!ToSet, t
<1>6. WellLinked(g, H \cup {x})
  <2> HIDE DEF x, r
  <2>1. x \in Link /\ x # NULL
    BY <1>2 DEF Link
  <2>2. r.ret = x /\ WellLinked(r.heap, H \cup ({r.ret} \ {NULL}))
    BY <1>1, <1>2, <2>1, DetachLinks DEF r
  <2>3. {x} \ {NULL} = {x}
    BY <2>1
  <2> QED
    BY <2>2, <2>3
<1> HIDE DEF x, r
<1>7. PICK o : Links(g, o, H \cup {x})
  BY <1>6 DEF WellLinked
<1>8. ASSUME NEW y \in gone, y # x
      PROVE  o[y] # NULL /\ o[y] \in gone /\ owner[y] = o[y]
  <2>1. o[y] # NULL /\ o[y] \in gone /\ y \in Item
    BY <1>7, <1>8, DeletedOwned DEF Deleted
  <2>2. o[y] \in Item /\ y \in Forest!ToSet(Kids(g)[o[y]])
    BY <1>7, <2>1, OwnedListed
  <2>3. y \in Forest!ToSet(Kids(h)[o[y]])
    <3>1. CASE o[y] = c
      BY <1>4, <1>5, <2>2, <3>1 DEF Relisted, Kids
    <3>2. CASE o[y] # c
      BY <1>4, <2>2, <3>2 DEF Relisted, Kids
    <3> QED
      BY <3>1, <3>2
  <2> QED
    BY <1>1, <2>1, <2>2, <2>3, ListedOwned
<1>9. ASSUME c \in gone PROVE FALSE
  <2> DEFINE S == Item \ gone
  <2>1. H \subseteq S
    <3>1. ASSUME NEW j \in H PROVE j \in Item /\ o[j] = NULL
      BY <1>7, <3>1 DEF Links, IsRoot
    <3> QED
      BY <1>3, <1>8, <3>1
  <2>2. ASSUME NEW y \in h.live, owner[y] \in S PROVE y \in S
    BY <1>2, <1>3, <1>8, <1>9, <2>2
  <2>3. S \in SUBSET Item
    OBVIOUS
  <2> HIDE DEF S
  <2>4. x \in S
    BY <1>1, <1>3, <2>1, <2>2, <2>3 DEF Links, Rooted
  <2>5. x \in gone
    <3>1. g \in Heap
      BY <1>7 DEF Links
    <3> QED
      BY <1>2, <3>1, DeletedClosed
  <2> QED
    BY <2>4, <2>5 DEF S
<1> QED
  BY <1>2, <1>3, <1>6, <1>9 DEF r, x

\* Relisted, position by position.
LEMMA RelistedAt ==
  ASSUME NEW g, NEW h, NEW c \in Item, NEW s, Relisted(g, h, c, s)
  PROVE  \A d \in Item : Kids(g)[d] = IF d = c THEN s ELSE Kids(h)[d]
BY DEF Kids, Relisted

\* What cJSON_Delete frees of a detached item is what hung below it in its list.
LEMMA ChildFamily ==
  ASSUME NEW h, NEW H, WellLinked(h, H), NEW c \in Item, IsOwner(h, c),
         NEW n \in 1 .. Len(Children(h, c))
  PROVE  LET x == Children(h, c)[n]
             g == cJSON_DetachItemViaPointer(h, c, x).heap
         IN  FamilyOf(Kids(h), x) = Deleted(g, x)
<1> DEFINE s == Children(h, c)
           x == s[n]
           g == cJSON_DetachItemViaPointer(h, c, x).heap
<1>1. /\ x \in Item /\ WellLinked(g, H \cup {x}) /\ c \notin Deleted(g, x)
  BY DetachedApart
<1>2. Relisted(g, h, c, Forest!RemoveAt(s, n))
  BY DetachedKids
<1> HIDE DEF s, x, g
<1>3. FamilyOf(Kids(g), x) = Deleted(g, x)
  BY <1>1, RootFamily DEF WellLinked
<1>4. \A d \in Item \ {c} : Kids(h)[d] = Kids(g)[d]
  BY <1>2 DEF Relisted, Kids
<1>5. \A d \in Item : /\ Forest!ToSet(Kids(h)[d]) \subseteq Item
                      /\ Forest!ToSet(Kids(g)[d]) \subseteq Item
  BY <1>1, KidsItems
<1>6. FamilyOf(Kids(h), x) = FamilyOf(Kids(g), x)
  BY <1>1, <1>3, <1>4, <1>5, FamilyApart
<1> QED
  BY <1>3, <1>6 DEF s, x, g

\* What is left of the lists k without the items of gone.
Without(k, gone) == [c \in Item |-> IF c \in gone THEN << >> ELSE k[c]]

\* A root is deleted with its family.
LEMMA DeletedRoot ==
  ASSUME NEW h, NEW H, WellLinked(h, H), NEW i \in H
  PROVE  LET g == cJSON_Delete(h, i)
             gone == FamilyOf(Kids(h), i)
         IN  /\ i \in h.live /\ i \in gone
             /\ g.live = h.live \ gone
             /\ Kids(g) = Without(Kids(h), gone)
<1> DEFINE g == cJSON_Delete(h, i)
           gone == Deleted(h, i)
<1>1. h \in Heap /\ i \in Item /\ i \in h.live
  BY DEF WellLinked, Links, IsRoot
<1>2. FamilyOf(Kids(h), i) = gone
  BY RootFamily DEF WellLinked
<1>3. i \in gone
  BY <1>1, DeletedClosed
<1>4. g.live = h.live \ gone
  BY <1>1, DeleteFields
<1>5. \A c \in Item : Children(g, c) = IF c \in gone THEN << >> ELSE Children(h, c)
  BY DeletedKids
<1> HIDE DEF g, gone
<1>6. Kids(g) = Without(Kids(h), gone)
  BY <1>5 DEF Kids, Without
<1> QED
  BY <1>1, <1>2, <1>3, <1>4, <1>6 DEF g

\* n is a position of the list of c.
IsPosition(h, c, n) == n \in 1 .. Len(Children(h, c))

\* An item of a list is detached and deleted.
LEMMA DeletedChild ==
  ASSUME NEW h, NEW H, WellLinked(h, H), NEW c \in Item, IsOwner(h, c),
         NEW n, IsPosition(h, c, n)
  PROVE  LET s == Children(h, c)
             x == s[n]
             d == cJSON_DetachItemViaPointer(h, c, x)
             g == cJSON_Delete(d.heap, x)
             gone == FamilyOf(Kids(h), x)
         IN  /\ d.ret = x /\ d.heap.live = h.live
             /\ x \in h.live /\ x \in gone /\ x \notin H
             /\ g.live = h.live \ gone
             /\ Kids(g) = Without([Kids(h) EXCEPT ![c] = Forest!RemoveAt(s, n)], gone)
<1> DEFINE s == Children(h, c)
           x == s[n]
           d == cJSON_DetachItemViaPointer(h, c, x)
           f == d.heap
           g == cJSON_Delete(f, x)
           gone == FamilyOf(Kids(h), x)
           k == [Kids(h) EXCEPT ![c] = Forest!RemoveAt(s, n)]
<1>1. /\ x \in Item /\ x \notin H /\ WellLinked(f, H \cup {x})
  BY DetachedApart DEF IsPosition
<1>2. gone = Deleted(f, x)
  BY ChildFamily DEF IsPosition
<1>3. FamilyOf(Kids(f), x) = Deleted(f, x)
  BY <1>1, RootFamily DEF WellLinked
<1>4. Relisted(f, h, c, Forest!RemoveAt(s, n))
  BY DetachedKids DEF IsPosition
<1>5. Kids(f) = k
  <2> HIDE DEF f
  <2>1. \A t : Relisted(f, h, c, t) => Kids(f) = [Kids(h) EXCEPT ![c] = t]
    BY RelistedKids
  <2> QED
    BY <1>4, <2>1
<1>a. PICK owner : Links(h, owner, H)
  BY DEF WellLinked
<1>b. owner[x] = c
  BY <1>a, ListPosition DEF IsPosition
<1>6. d.ret = x /\ f.live = h.live
  <2> HIDE DEF x
  <2> QED
    BY <1>1, <1>a, <1>b, DetachReturns
<1> HIDE DEF f, k, x, gone
<1>8. /\ x \in f.live /\ x \in FamilyOf(Kids(f), x)
      /\ g.live = f.live \ FamilyOf(Kids(f), x)
      /\ Kids(g) = Without(Kids(f), FamilyOf(Kids(f), x))
  BY <1>1, DeletedRoot
<1> HIDE DEF g, d
<1>9. Kids(g) = Without(k, gone) /\ x \in gone /\ g.live = h.live \ gone
  BY <1>2, <1>3, <1>5, <1>6, <1>8
<1> QED
  BY <1>1, <1>6, <1>8, <1>9 DEF d, f, g, k, x, gone

\* The lists after a position of one of them has been given to another item.
Exchanged(h, c, n, i) == [Kids(h) EXCEPT ![c] = [Children(h, c) EXCEPT ![n] = i]]

\* An item of a list is replaced by a root, and deleted.
LEMMA ReplacedChild ==
  ASSUME NEW h, NEW H, WellLinked(h, H), NEW c \in Item, IsOwner(h, c),
         NEW n, IsPosition(h, c, n),
         NEW i \in H, i # c, c \notin Deleted(h, i)
  PROVE  LET s == Children(h, c)
             x == s[n]
             r == cJSON_ReplaceItemViaPointer(h, c, x, i)
             gone == FamilyOf(Kids(h), x)
         IN  /\ x \in h.live /\ x \in gone
             /\ r.heap.live = h.live \ gone
             /\ Kids(r.heap) = Without(Exchanged(h, c, n, i), gone)
<1> USE NULLAssumption
<1> DEFINE s == Children(h, c)
           x == s[n]
           r == cJSON_ReplaceItemViaPointer(h, c, x, i)
           gone == FamilyOf(Kids(h), x)
           g == InsertedBefore(h, c, x, i)
           t == Forest!InsertAt(s, n, i)
           d == cJSON_DetachItemViaPointer(g, c, x)
           k == Exchanged(h, c, n, i)
<1>1. PICK owner : Links(h, owner, H)
  BY DEF WellLinked
<1>2. x \in Item /\ owner[x] = c /\ x \in h.live /\ i \in Item
  <2>1. x \in Item /\ owner[x] = c
    BY <1>1, ListPosition DEF IsPosition
  <2> QED
    BY <1>1, <2>1 DEF Links, Backwards
<1>3. h.child[c] # NULL /\ i # x
  BY <1>1, <1>2 DEF Links, Backwards, IsRoot
<1>4. r = Returns(TRUE, cJSON_Delete(Replaced(h, c, x, i), x))
  <2> HIDE DEF x
  <2> QED
    BY <1>2, <1>3 DEF cJSON_ReplaceItemViaPointer, Replaced
<1>5. Replaced(h, c, x, i) = d.heap
  <2> HIDE DEF x
  <2> QED
    BY <1>1, <1>2, ReplacedIsInsertedAndDetached
\* The item is now one position further on.
<1>6. WellLinked(g, H \ {i}) /\ IsOwner(g, c) /\ g.live = h.live
  <2> HIDE DEF x
  <2>1. /\ \E o : Links(g, o, H \ {i}) /\ o[x] = c
        /\ InsertedBeforeFields(g, h, c, x, i)
    BY <1>1, <1>2, InsertedBeforeLinks
  <2> HIDE DEF g
  <2> QED
    BY <2>1 DEF WellLinked, InsertedBeforeFields, IsOwner, IsReference
<1>7. Relisted(g, h, c, t)
  BY InsertedKids DEF IsPosition
<1>8. s \in Seq(Item) /\ n \in 1 .. Len(s)
  BY ChildrenType DEF IsPosition
<1> HIDE DEF s, g
<1>9. t \in Seq(Item) /\ n + 1 \in 1 .. Len(t) /\ t[n + 1] = x
  <2>1. n \in 1 .. Len(s) + 1
    BY <1>8
  <2>2. /\ t \in Seq(Item) /\ Len(t) = Len(s) + 1
        /\ \A m \in 1 .. Len(s) + 1 :
             t[m] = IF m < n THEN s[m] ELSE IF m = n THEN i ELSE s[m - 1]
    BY <1>2, <1>8, <2>1, InsertAtElements
  <2> HIDE DEF t
  <2>3. n + 1 \in 1 .. Len(s) + 1 /\ ~(n + 1 < n) /\ n + 1 # n /\ (n + 1) - 1 = n
    BY <1>8
  <2> QED
    BY <1>8, <2>2, <2>3
<1>10. Forest!RemoveAt(t, n + 1) = [s EXCEPT ![n] = i]
  BY <1>2, <1>8, InsertedAndRemoved
<1> HIDE DEF t, x, gone
<1>11. Children(g, c) = t
  BY <1>7 DEF Relisted
<1> DEFINE f == cJSON_Delete(d.heap, x)
           lost == FamilyOf(Kids(g), x)
<1>12. /\ x \in lost /\ f.live = g.live \ lost
       /\ Kids(f) = Without([Kids(g) EXCEPT ![c] = Forest!RemoveAt(t, n + 1)], lost)
  <2>1. n + 1 \in 1 .. Len(Children(g, c)) /\ Children(g, c)[n + 1] = x
    BY <1>9, <1>11
  <2> DEFINE m == n + 1
  <2>2. m \in 1 .. Len(Children(g, c)) /\ Children(g, c)[m] = x
    BY <2>1
  <2> HIDE DEF m
  <2>a. IsPosition(g, c, m)
    BY <2>2 DEF IsPosition
  <2>3. /\ Children(g, c)[m] \in FamilyOf(Kids(g), Children(g, c)[m])
        /\ cJSON_Delete(cJSON_DetachItemViaPointer(g, c, Children(g, c)[m]).heap,
                        Children(g, c)[m]).live
             = g.live \ FamilyOf(Kids(g), Children(g, c)[m])
        /\ Kids(cJSON_Delete(cJSON_DetachItemViaPointer(g, c, Children(g, c)[m]).heap,
                             Children(g, c)[m]))
             = Without([Kids(g) EXCEPT ![c] = Forest!RemoveAt(Children(g, c), m)],
                       FamilyOf(Kids(g), Children(g, c)[m]))
    BY <1>6, <2>a, DeletedChild
  <2> QED
    BY <1>11, <2>2, <2>3 DEF m
<1>13. [Kids(g) EXCEPT ![c] = Forest!RemoveAt(t, n + 1)] = k
  <2> HIDE DEF f, lost, d, r, k
  <2>1. \A e \in Item : Kids(g)[e] = IF e = c THEN t ELSE Kids(h)[e]
    BY <1>7 DEF Relisted, Kids
  <2>2. Kids(g) = [e \in Item |-> Children(g, e)] /\ Kids(h) = [e \in Item |-> Children(h, e)]
    BY DEF Kids
  <2> QED
    BY <1>10, <2>1, <2>2 DEF k, s, Exchanged
\* Before the replacement was inserted, the same hung below the item.
<1>14. lost = gone
  <2>1. FamilyOf(Kids(g), x) = Deleted(d.heap, x) /\ c \notin Deleted(d.heap, x)
    <3> DEFINE m == n + 1
    <3>1. m \in 1 .. Len(Children(g, c)) /\ Children(g, c)[m] = x
      BY <1>9, <1>11
    <3> HIDE DEF m
    <3>2. FamilyOf(Kids(g), Children(g, c)[m])
            = Deleted(cJSON_DetachItemViaPointer(g, c, Children(g, c)[m]).heap,
                      Children(g, c)[m])
      BY <1>6, <3>1, ChildFamily
    <3>3. c \notin Deleted(cJSON_DetachItemViaPointer(g, c, Children(g, c)[m]).heap,
                           Children(g, c)[m])
      BY <1>6, <3>1, DetachedApart
    <3> QED
      BY <3>1, <3>2, <3>3
  <2>2. \A e \in Item \ {c} : Kids(h)[e] = Kids(g)[e]
    BY <1>7, RelistedAt
  <2>3. \A e \in Item : /\ Forest!ToSet(Kids(h)[e]) \subseteq Item
                        /\ Forest!ToSet(Kids(g)[e]) \subseteq Item
    BY <1>6, KidsItems
  <2>4. FamilyOf(Kids(h), x) = FamilyOf(Kids(g), x)
    BY <1>2, <2>1, <2>2, <2>3, FamilyApart
  <2> QED
    BY <2>4 DEF gone
<1>15. r.ret = TRUE /\ r.heap = f
  BY <1>4, <1>5 DEF Returns
<1> HIDE DEF r, f, lost, k, d
<1>16. /\ r.heap.live = h.live \ gone /\ Kids(r.heap) = Without(k, gone) /\ x \in gone
  BY <1>6, <1>12, <1>13, <1>14, <1>15
<1> QED
  BY <1>2, <1>15, <1>16 DEF r, k, s, x, gone

-----------------------------------------------------------------------------
(* Making items.                                                           *)

\* The new items s are the first one and, in this order, its children.
Grown(g, h, s) ==
  /\ Free(h, s)
  /\ g.live = h.live \cup Forest!ToSet(s)
  /\ Relisted(g, h, s[1], SubSeq(s, 2, Len(s)))

\* What a tail of a sequence holds.
LEMMA TailElements ==
  ASSUME NEW S, NEW s \in Seq(S), Len(s) > 0
  PROVE  LET t == SubSeq(s, 2, Len(s))
         IN  /\ t \in Seq(S) /\ Len(t) = Len(s) - 1
             /\ \A m \in 1 .. Len(s) - 1 : m + 1 \in 2 .. Len(s) /\ t[m] = s[m + 1]
<1> DEFINE t == SubSeq(s, 2, Len(s))
<1>1. t = [m \in 1 .. Len(s) - 1 |-> s[m + 1]]
  <2>1. t = [m \in 1 .. (Len(s) - 2) + 1 |-> s[(2 + m) - 1]]
    OBVIOUS
  <2>2. (Len(s) - 2) + 1 = Len(s) - 1
    OBVIOUS
  <2>3. \A m \in 1 .. Len(s) - 1 : (2 + m) - 1 = m + 1
    OBVIOUS
  <2> QED
    BY <2>1, <2>2, <2>3
<1> HIDE DEF t
<1>2. \A m \in 1 .. Len(s) - 1 : m + 1 \in 2 .. Len(s) /\ s[m + 1] \in S
  OBVIOUS
<1>3. Len(s) - 1 \in Nat
  OBVIOUS
<1>4. t \in [1 .. Len(s) - 1 -> S]
  BY <1>1, <1>2
<1>5. t \in Seq(S) /\ Len(t) = Len(s) - 1
  BY <1>3, <1>4
<1> QED
  BY <1>1, <1>2, <1>5 DEF t

\* The new items are a tree of their own, with the root a, in the words of
\* JsonForest.
Planted(g, h, a) ==
  LET new == g.live \ h.live
      k == Kids(g)
  IN  /\ a \in new /\ h.live \subseteq g.live
      /\ \A c \in Item \ new : k[c] = Kids(h)[c]
      /\ FamilyOf(k, a) = new
      /\ \A c \in new : a \notin Forest!ToSet(k[c])
      /\ \A c, d \in new : \A m \in DOMAIN k[c], n \in DOMAIN k[d] :
           k[c][m] = k[d][n] => c = d /\ m = n

\* A first item and its children are such a tree.
LEMMA GrownTree ==
  ASSUME NEW h, NEW H, WellLinked(h, H), NEW g, NEW G, WellLinked(g, G),
         NEW s, Grown(g, h, s)
  PROVE  Planted(g, h, s[1])
<1> DEFINE new == g.live \ h.live
           k == Kids(g)
           t == SubSeq(s, 2, Len(s))
           a == s[1]
<1>1. /\ s \in Seq(Item \ h.live) /\ Len(s) > 0
      /\ \A m, n \in 1 .. Len(s) : s[m] = s[n] => m = n
      /\ g.live = h.live \cup Forest!ToSet(s)
      /\ Relisted(g, h, s[1], SubSeq(s, 2, Len(s)))
  BY DEF Grown, Free
<1>2. /\ Len(s) \in Nat /\ DOMAIN s = 1 .. Len(s) /\ 1 \in 1 .. Len(s)
      /\ \A n \in 1 .. Len(s) : s[n] \in Item /\ s[n] \notin h.live
  BY <1>1
<1>3. new = {s[n] : n \in 1 .. Len(s)}
  BY <1>1, <1>2 DEF Forest!ToSet
<1>4. a \in new /\ new \subseteq Item
  BY <1>2, <1>3
<1>5. /\ t \in Seq(Item \ h.live) /\ Len(t) = Len(s) - 1
      /\ \A m \in 1 .. Len(s) - 1 : m + 1 \in 2 .. Len(s) /\ t[m] = s[m + 1]
  BY <1>1, TailElements
<1>6. DOMAIN t = 1 .. Len(s) - 1
  BY <1>5
<1>7. k[a] = t /\ \A c \in Item \ {a} : k[c] = Kids(h)[c]
  BY <1>1, <1>4 DEF Kids, Relisted
<1>8. \A c \in new \ {a} : k[c] = << >>
  <2>1. \A c \in new : ~IsOwner(h, c)
    BY DEF IsOwner
  <2>2. \A c \in new : Kids(h)[c] = << >>
    BY <1>4, <2>1, NoChildren DEF Kids
  <2> QED
    BY <1>4, <1>7, <2>2
<1>9. \A c \in Item : Forest!ToSet(k[c]) \subseteq Item
  BY KidsItems
<1> HIDE DEF k, t, a, new
<1>10. Forest!ToSet(t) = new \ {a}
  <2>1. ASSUME NEW m \in 1 .. Len(s) - 1 PROVE t[m] \in new \ {a}
    <3>1. m + 1 \in 1 .. Len(s) /\ m + 1 # 1
      BY <1>2
    <3> QED
      BY <1>1, <1>2, <1>3, <1>5, <3>1 DEF a
  <2>2. ASSUME NEW x \in new \ {a} PROVE \E m \in 1 .. Len(s) - 1 : x = t[m]
    <3>1. PICK n \in 1 .. Len(s) : x = s[n]
      BY <1>3
    <3>2. n # 1
      BY <3>1 DEF a
    <3>3. n - 1 \in 1 .. Len(s) - 1 /\ (n - 1) + 1 = n
      BY <1>2, <3>2
    <3> QED
      BY <1>5, <3>1, <3>3
  <2> QED
    BY <1>6, <2>1, <2>2 DEF Forest!ToSet
<1>11. Forest!ToSet(<< >>) = {} /\ DOMAIN << >> = {}
  BY DEF Forest!ToSet
<1>12. FamilyOf(k, a) = new
  <2> DEFINE F == FamilyOf(k, a)
  <2>1. /\ F \in SUBSET Item /\ a \in F /\ Closed(k, F)
        /\ \A S \in SUBSET Item : a \in S /\ Closed(k, S) => F \subseteq S
    BY <1>4, <1>9, FamilyLeast
  <2> HIDE DEF F
  <2>2. Closed(k, new)
    BY <1>7, <1>8, <1>10, <1>11 DEF Closed
  <2>3. F \subseteq new
    BY <1>4, <2>1, <2>2
  <2>4. new \subseteq F
    BY <1>7, <1>10, <2>1 DEF Closed
  <2> QED
    BY <2>3, <2>4 DEF F
<1>13. \A c \in new : a \notin Forest!ToSet(k[c])
  BY <1>7, <1>8, <1>10, <1>11
<1>14. ASSUME NEW c \in new, NEW d \in new, NEW m \in DOMAIN k[c],
              NEW n \in DOMAIN k[d], k[c][m] = k[d][n]
       PROVE  c = d /\ m = n
  <2>1. c = a /\ d = a
    BY <1>8, <1>11
  <2>2. m \in 1 .. Len(s) - 1 /\ n \in 1 .. Len(s) - 1 /\ t[m] = t[n]
    BY <1>6, <1>7, <1>14, <2>1
  <2>3. s[m + 1] = s[n + 1] /\ m + 1 \in 1 .. Len(s) /\ n + 1 \in 1 .. Len(s)
    BY <1>2, <1>5, <2>2
  <2>4. m + 1 = n + 1
    BY <1>1, <2>3
  <2> QED
    BY <2>1, <2>2, <2>4
<1>15. \A c \in Item \ new : k[c] = Kids(h)[c]
  BY <1>4, <1>7
<1>16. h.live \subseteq g.live
  BY <1>1
<1> QED
  BY <1>4, <1>12, <1>13, <1>14, <1>15, <1>16 DEF Planted, new, k, a

\* What cJSON_Duplicate makes is such a tree.
LEMMA CopyPlanted ==
  ASSUME NEW h, NEW H, WellLinked(h, H), NEW g, NEW n, CopyOf(h, g, n)
  PROVE  Planted(g, h, n)
<1> USE NULLAssumption
<1> DEFINE new == g.live \ h.live
           k == Kids(g)
           G == H \cup {n}
<1>1. WellLinked(g, G) /\ Adds(h, g) /\ HangBelow(h, g, n) /\ new = New(h, g)
  BY CopyLinks DEF CopyOf, New
<1>2. n \in new /\ h.live \subseteq g.live /\ new \subseteq Item /\ h \in Heap
  BY <1>1 DEF HangBelow, Adds, Heap, WellLinked, Links
<1>3. PICK owner : Links(h, owner, H)
  BY DEF WellLinked
<1>4. PICK o : Links(g, o, G)
  BY <1>1 DEF WellLinked
<1> HIDE DEF new, G
<1>5. ASSUME NEW c \in Item \ new
      PROVE  k[c] = Kids(h)[c]
  <2>1. c \in g.live <=> c \in h.live
    BY <1>2 DEF new
  <2>2. g.child[c] = h.child[c] /\ g.type[c] = h.type[c]
    BY <1>1 DEF Adds
  <2>3. IsOwner(g, c) <=> IsOwner(h, c)
    BY <2>1, <2>2 DEF IsOwner, IsReference
  <2>4. ASSUME NEW x \in Item, owner[x] = c PROVE g.next[x] = h.next[x]
    <3>1. x \in h.live
      BY <1>3, <2>4 DEF Links, Backwards
    <3> QED
      BY <1>1, <3>1 DEF Adds, New
  <2>5. Children(g, c) = Children(h, c)
    BY <1>1, <1>3, <2>2, <2>3, <2>4, SameChildren
  <2> QED
    BY <2>5 DEF Kids
<1>6. FamilyOf(k, n) = new
  <2>1. FamilyOf(k, n) = Deleted(g, n)
    BY <1>4, RootFamily DEF G
  <2>2. new \subseteq Deleted(g, n)
    BY <1>1 DEF HangBelow
  <2>3. \A x \in new : /\ g.next[x] = NULL \/ g.next[x] \in new
                       /\ g.child[x] = NULL \/ g.child[x] \in new
    BY <1>1 DEF Adds
  <2>4. Deleted(g, n) \subseteq new
    BY <1>2, <2>3, DeletedLeast
  <2> QED
    BY <2>1, <2>2, <2>4
<1>7. ASSUME NEW c \in new PROVE n \notin Forest!ToSet(k[c])
  <2>1. o[n] = NULL /\ c \in Item
    BY <1>2, <1>4 DEF Links, IsRoot, G
  <2> QED
    BY <1>4, <2>1, ListedOwned
<1>8. ASSUME NEW c \in new, NEW d \in new, NEW m \in DOMAIN k[c],
             NEW l \in DOMAIN k[d], k[c][m] = k[d][l]
      PROVE  c = d /\ m = l
  <2>1. c \in Item /\ d \in Item
    BY <1>2
  <2>2. k[c] = Children(g, c) /\ k[d] = Children(g, d)
    BY <2>1 DEF Kids
  <2>3. k[c][m] \in Forest!ToSet(k[c]) /\ k[c][m] \in Forest!ToSet(k[d])
    BY <1>8 DEF Forest!ToSet
  <2>4. o[k[c][m]] = c /\ o[k[c][m]] = d
    BY <1>4, <2>1, <2>3, ListedOwned
  <2>5. Children(g, c) \in Seq(Item)
    BY <1>1, <2>1, ChildrenType
  <2>6. m \in 1 .. Len(Children(g, c)) /\ l \in 1 .. Len(Children(g, c))
    BY <2>2, <2>4, <2>5
  <2>7. IsOwner(g, c)
    <3>1. Children(g, c) # << >>
      BY <2>6
    <3> QED
      BY <3>1, NoChildren
  <2> DEFINE s == Children(g, c)
  <2>8. \A i, j \in 1 .. Len(s) : s[i] = s[j] => i = j
    BY <1>4, <2>1, <2>7, ChildrenList
  <2>9. s[m] = s[l] /\ c = d
    BY <1>8, <2>2, <2>4
  <2> QED
    BY <2>6, <2>8, <2>9
<1> QED
  BY <1>2, <1>5, <1>6, <1>7, <1>8 DEF Planted, new

\* A call that makes one item changes no list.
LEMMA AloneKids ==
  ASSUME NEW h, NEW H, WellLinked(h, H), NEW r, MadeAlone(r, h, H)
  PROVE  Kids(r.heap) = Kids(h)
<1> DEFINE g == r.heap
           G == H \cup ({r.ret} \ {NULL})
<1>1. /\ WellLinked(g, G) /\ g.next = h.next
      /\ \A x \in Item \ {r.ret} : g.child[x] = h.child[x] /\ g.type[x] = h.type[x]
      /\ g.live = h.live \cup ({r.ret} \ {NULL}) /\ r.ret \notin h.live
      /\ r.ret # NULL => Lone(g, r.ret)
  BY DEF MadeAlone, Made
<1> HIDE DEF g, G
<1>2. ASSUME NEW c \in Item, IsOwner(h, c)
      PROVE  IsOwner(g, c) /\ g.child[c] = h.child[c]
  BY <1>1, <1>2 DEF IsOwner, IsReference
<1>3. ASSUME NEW c \in Item, IsOwner(g, c), ~IsOwner(h, c)
      PROVE  g.child[c] = NULL
  <2>1. c = r.ret /\ r.ret # NULL
    BY <1>1, <1>3 DEF IsOwner, IsReference
  <2> QED
    BY <1>1, <1>3, <2>1 DEF Lone, IsOwner
<1> QED
  BY <1>1, <1>2, <1>3, SameKids DEF g

\* An item that is made alone is a tree without children.
LEMMA AloneGrown ==
  ASSUME NEW h, NEW H, WellLinked(h, H), NEW r, MadeAlone(r, h, H), r.ret # NULL
  PROVE  Grown(r.heap, h, <<r.ret>>)
<1> DEFINE a == r.ret
           g == r.heap
           s == <<a>>
<1>1. /\ a \in Item /\ a \notin h.live /\ g.live = h.live \cup {a}
  BY DEF MadeAlone, Made, Link
<1>2. Kids(g) = Kids(h)
  BY AloneKids
<1> HIDE DEF a, g
<1>3. s \in Seq(Item \ h.live) /\ Len(s) = 1 /\ s[1] = a /\ DOMAIN s = {1}
  BY <1>1
<1>4. Free(h, s)
  BY <1>3 DEF Free
<1>5. Forest!ToSet(s) = {a}
  BY <1>3 DEF Forest!ToSet
<1>6. SubSeq(s, 2, Len(s)) = << >>
  BY <1>3
<1>7. \A c \in Item : Children(g, c) = Children(h, c)
  <2>1. \A c \in Item : Kids(g)[c] = Kids(h)[c]
    BY <1>2
  <2> QED
    BY <2>1 DEF Kids
<1>8. Children(h, a) = << >>
  BY <1>1, NoChildren DEF IsOwner
<1>9. Relisted(g, h, s[1], SubSeq(s, 2, Len(s)))
  BY <1>1, <1>3, <1>6, <1>7, <1>8 DEF Relisted
<1> QED
  BY <1>1, <1>4, <1>5, <1>9 DEF Grown, a, g

\* A chain is the list of its first item.
LEMMA ChainGrown ==
  ASSUME NEW h, NEW H, WellLinked(h, H), NEW s, Free(h, s),
         NEW g, IsChain(g, h, s, s[Len(s)])
  PROVE  Grown(g, h, s)
<1> DEFINE a == s[1]
           t == SubSeq(s, 2, Len(s))
<1>1. PICK owner : Links(h, owner, H)
  BY DEF WellLinked
<1>2. \E G : WellLinked(g, G)
  <2>1. Made(Returns(a, g), h, H)
    BY ChainLinks
  <2> QED
    BY <2>1 DEF Made, Returns
<1>3. /\ s \in Seq(Item \ h.live) /\ Len(s) \in Nat /\ Len(s) > 0
      /\ DOMAIN s = 1 .. Len(s) /\ 1 \in 1 .. Len(s)
      /\ \A n \in 1 .. Len(s) : s[n] \in Item /\ s[n] \notin h.live
      /\ \A m, n \in 1 .. Len(s) : s[m] = s[n] => m = n
  BY DEF Free
<1>4. /\ t \in Seq(Item \ h.live) /\ Len(t) = Len(s) - 1
      /\ \A m \in 1 .. Len(s) - 1 : m + 1 \in 2 .. Len(s) /\ t[m] = s[m + 1]
  BY <1>3, TailElements
<1>5. Forest!ToSet(s) = {a} \cup Elements(s) /\ a \in Item /\ a \notin Elements(s)
  <2>1. \A n \in 1 .. Len(s) : n = 1 \/ n \in 2 .. Len(s)
    BY <1>3
  <2>2. \A n \in 2 .. Len(s) : n \in 1 .. Len(s) /\ n # 1
    BY <1>3
  <2> QED
    BY <1>3, <2>1, <2>2 DEF Forest!ToSet, Elements
<1>6. /\ g.live = h.live \cup {a} \cup Elements(s) /\ g.type = h.type
      /\ \A x \in Item : g.child[x] = IF x = a /\ Len(s) > 1 THEN s[2] ELSE h.child[x]
      /\ \A x \in Item \ Elements(s) : g.next[x] = h.next[x]
      /\ \A n \in 2 .. Len(s) : g.next[s[n]] = IF n < Len(s) THEN s[n + 1] ELSE NULL
  BY DEF IsChain
<1>7. h \in Heap /\ Zeroed(h) /\ h.live \subseteq Item
  BY <1>1 DEF Links, Heap
<1>8. \A x \in Forest!ToSet(s) : x \in Item /\ x \notin h.live /\ h.type[x] = {} /\ h.child[x] = NULL
  BY <1>3, <1>7 DEF Forest!ToSet, Zeroed
<1> HIDE DEF t, a
<1>9. Children(g, a) = t
  <2>1. IsOwner(g, a)
    BY <1>5, <1>6, <1>8 DEF IsOwner, IsReference
  <2>2. t \in Seq(Item)
    BY <1>4
  <2>3. g.child[a] = IF Len(t) = 0 THEN NULL ELSE t[1]
    <3>1. CASE Len(s) = 1
      BY <1>4, <1>5, <1>6, <1>8, <3>1
    <3>2. CASE Len(s) # 1
      <4>1. Len(s) > 1 /\ 1 \in 1 .. Len(s) - 1 /\ Len(s) - 1 # 0
        BY <1>3, <3>2
      <4>2. t[1] = s[2]
        BY <1>4, <4>1
      <4> QED
        BY <1>4, <1>5, <1>6, <4>1, <4>2
    <3> QED
      BY <3>1, <3>2
  <2>4. ASSUME NEW m \in 1 .. Len(t)
        PROVE  g.next[t[m]] = IF m < Len(t) THEN t[m + 1] ELSE NULL
    <3>1. m \in 1 .. Len(s) - 1 /\ m + 1 \in 2 .. Len(s) /\ t[m] = s[m + 1]
      BY <1>4
    <3>2. m < Len(t) <=> m + 1 < Len(s)
      BY <1>3, <1>4
    <3>3. m + 1 < Len(s) => m + 1 \in 1 .. Len(s) - 1
      BY <1>3, <3>1
    <3>4. m + 1 < Len(s) => t[m + 1] = s[(m + 1) + 1]
      BY <1>4, <3>3
    <3> QED
      BY <1>6, <3>1, <3>2, <3>4
  <2>5. IsList(g, a, t)
    BY <2>2, <2>3, <2>4 DEF IsList
  <2> QED
    BY <1>2, <1>5, <2>1, <2>5, ListIsChildren
<1>10. ASSUME NEW d \in Item \ {a} PROVE Children(g, d) = Children(h, d)
  <2>1. IsOwner(h, d) => IsOwner(g, d)
    BY <1>6 DEF IsOwner, IsReference
  <2>2. g.child[d] = h.child[d]
    BY <1>6
  <2>3. IsOwner(g, d) /\ ~IsOwner(h, d) => g.child[d] = NULL
    <3>1. IsOwner(g, d) /\ ~IsOwner(h, d) => d \in Forest!ToSet(s)
      BY <1>5, <1>6 DEF IsOwner, IsReference
    <3> QED
      BY <1>8, <2>2, <3>1
  <2>4. ASSUME NEW x \in Item, owner[x] = d PROVE g.next[x] = h.next[x]
    <3>1. x \in h.live
      BY <1>1, <2>4, NULLAssumption DEF Links, Backwards
    <3> QED
      BY <1>5, <1>6, <1>8, <3>1
  <2> QED
    BY <1>1, <1>2, <2>1, <2>2, <2>3, <2>4, SameOrNoChildren
<1>11. g.live = h.live \cup Forest!ToSet(s)
  BY <1>5, <1>6
<1> QED
  BY <1>9, <1>10, <1>11 DEF Grown, Relisted, t, a

\* Arrays with elements, and those with texts in them.
LEMMA NumberArrayGrown ==
  ASSUME NEW h, NEW H, WellLinked(h, H), NEW s \in Seq(Item \ h.live),
         \A m, n \in 1 .. Len(s) : s[m] = s[n] => m = n, NEW count \in Nat
  PROVE  LET r == CreateNumberArray(h, s, count)
         IN  \/ r.ret = NULL /\ r.heap = h
             \/ r.ret # NULL /\ r.ret = s[1] /\ Grown(r.heap, h, s)
<1> DEFINE r == CreateNumberArray(h, s, count)
<1>1. \/ r = Returns(NULL, h)
      \/ \E g : /\ r = Returns(s[1], g) /\ Free(h, s)
               /\ IsChain(g, h, s, s[Len(s)])
  BY NumberArrayChain
<1> HIDE DEF r
<1>2. CASE r = Returns(NULL, h)
  BY <1>2 DEF r, Returns
<1>3. ASSUME NEW g, r = Returns(s[1], g), Free(h, s), IsChain(g, h, s, s[Len(s)])
      PROVE  r.ret # NULL /\ r.ret = s[1] /\ Grown(r.heap, h, s)
  <2>1. Grown(g, h, s)
    BY <1>3, ChainGrown
  <2>2. s[1] # NULL
    BY <1>3, NULLAssumption DEF Free
  <2> QED
    BY <1>3, <2>1, <2>2 DEF Returns
<1> QED
  BY <1>1, <1>2, <1>3 DEF r

\* An array of strings is one of numbers with texts in it.
LEMMA StringArrayGrown ==
  ASSUME NEW h, NEW H, WellLinked(h, H), NEW s \in Seq(Item \ h.live),
         \A m, n \in 1 .. Len(s) : s[m] = s[n] => m = n, NEW count \in Nat
  PROVE  LET r == CreateStringArray(h, s, count)
         IN  \/ r.ret = NULL /\ r.heap = h
             \/ r.ret # NULL /\ r.ret = s[1] /\ Grown(r.heap, h, s)
<1> DEFINE array == CreateNumberArray(h, s, count)
           g == array.heap
           elements == g.live \ (h.live \cup {array.ret})
           type == [i \in Item |-> IF i \in elements THEN g.type[i] \cup {"HasText"}
                                                    ELSE g.type[i]]
           strings == g.strings + count
           f == [g EXCEPT !.strings = strings, !.type = type]
           r == CreateStringArray(h, s, count)
<1>1. \/ array.ret = NULL /\ array.heap = h
      \/ array.ret # NULL /\ array.ret = s[1] /\ Grown(array.heap, h, s)
  BY NumberArrayGrown
<1>2. r = IF array.ret = NULL THEN array ELSE Returns(array.ret, f)
  BY DEF CreateStringArray
<1>3. \E G : WellLinked(g, G)
  <2>1. Made(array, h, H)
    BY CreateNumberArrayLinks
  <2> HIDE DEF array
  <2> QED
    BY <2>1 DEF Made
<1>4. \E G : WellLinked(r.heap, G)
  <2>1. Made(r, h, H)
    BY CreateStringArrayLinks
  <2> HIDE DEF r
  <2> QED
    BY <2>1 DEF Made
<1> HIDE DEF array, r
<1>5. CASE array.ret = NULL
  BY <1>1, <1>2, <1>5 DEF r
<1>6. CASE array.ret # NULL
  <2>1. g \in Heap
    BY <1>3 DEF WellLinked, Links
  <2>2. \A i \in Item : "IsReference" \in type[i] <=> "IsReference" \in g.type[i]
    OBVIOUS
  <2> HIDE DEF type, strings, g
  <2>3. /\ f.next = g.next /\ f.child = g.child /\ f.live = g.live /\ f.type = type
    BY <2>1 DEF Heap
  <2>4. r.ret = array.ret /\ r.heap = f
    BY <1>2, <1>6 DEF Returns
  <2> HIDE DEF f
  <2>5. \A c \in Item : IsOwner(f, c) <=> IsOwner(g, c)
    BY <2>2, <2>3 DEF IsOwner, IsReference
  <2>6. Kids(f) = Kids(g)
    <3>1. PICK G : WellLinked(g, G)
      BY <1>3
    <3>2. PICK F : WellLinked(f, F)
      BY <1>4, <2>4
    <3> QED
      BY <2>3, <2>5, <3>1, <3>2, SameKids
  <2>7. \A c \in Item : Children(f, c) = Children(g, c)
    <3>1. \A c \in Item : Kids(f)[c] = Kids(g)[c]
      BY <2>6
    <3> QED
      BY <3>1 DEF Kids
  <2>8. Grown(g, h, s) /\ array.ret = s[1]
    BY <1>1, <1>6 DEF g
  <2>9. s[1] \in Item
    BY <2>8 DEF Grown, Free
  <2>10. Grown(f, h, s)
    BY <2>3, <2>7, <2>8, <2>9 DEF Grown, Relisted
  <2> QED
    BY <1>6, <2>4, <2>8, <2>10 DEF r
<1> QED
  BY <1>5, <1>6

-----------------------------------------------------------------------------
(* Positions and keys.                                                     *)

\* What a container owns is at a position of its list.
LEMMA OwnedAt ==
  ASSUME NEW h, NEW owner, NEW H, Links(h, owner, H), NEW c \in Item,
         NEW x \in Item, owner[x] = c
  PROVE  \E n : IsPosition(h, c, n) /\ Children(h, c)[n] = x
<1>1. x \in h.live /\ c \in h.live
  BY NULLAssumption DEF Links, Backwards, IsOwner
<1>2. PICK n \in DOMAIN Children(h, c) : Children(h, c)[n] = x
  BY <1>1, ChildOwned
<1>3. Children(h, c) \in Seq(Item)
  BY ChildrenType DEF WellLinked
<1>4. DOMAIN Children(h, c) = 1 .. Len(Children(h, c))
  BY <1>3
<1> QED
  BY <1>2, <1>4 DEF IsPosition

\* A new key changes no list, and frees or makes no item.
LEMMA RenamedKids ==
  ASSUME NEW h, NEW H, WellLinked(h, H), NEW i \in h.live, NEW k \in Key,
         NEW constant_key \in BOOLEAN
  PROVE  LET g == Rename(h, i, k, constant_key)
         IN  g.live = h.live /\ Kids(g) = Kids(h)
<1> DEFINE g == Rename(h, i, k, constant_key)
<1>1. h \in Heap /\ i \in Item
  BY DEF WellLinked, Links, Heap
<1>2. g.live = h.live /\ g.child = h.child /\ g.next = h.next
  BY <1>1, RenameFields
<1>3. WellLinked(g, H)
  BY RenamedLinks
<1>4. \A c \in Item : IsOwner(h, c) <=> IsOwner(g, c)
  BY RenamedLinks
<1> HIDE DEF g
<1>5. Kids(g) = Kids(h)
  BY <1>2, <1>3, <1>4, SameKids
<1> QED
  BY <1>2, <1>5 DEF g

\* A string that is allocated changes no list.
LEMMA StrdupKids ==
  ASSUME NEW h, NEW H, WellLinked(h, H)
  PROVE  Kids(cJSON_strdup(h)) = Kids(h)
<1> DEFINE g == cJSON_strdup(h)
<1>1. h \in Heap
  BY DEF WellLinked, Links
<1>2. g.live = h.live /\ g.child = h.child /\ g.next = h.next /\ g.type = h.type
  BY <1>1, StrdupFields
<1>3. WellLinked(g, H)
  BY StrdupLinks
<1> HIDE DEF g
<1>4. \A c \in Item : IsOwner(h, c) <=> IsOwner(g, c)
  BY <1>2 DEF IsOwner, IsReference
<1>5. Kids(g) = Kids(h)
  BY <1>2, <1>3, <1>4, SameKids
<1> QED
  BY <1>5 DEF g

-----------------------------------------------------------------------------
(* Adding, inserting and replacing, in the words of JsonForest.            *)

\* The item i is now the last one in the list of c.
Appended(g, h, c, i) ==
  g.live = h.live /\ Kids(g) = [Kids(h) EXCEPT ![c] = Append(@, i)]

\* The item i has got a position in the list of c.
Inserted(g, h, c, i) ==
  /\ g.live = h.live
  /\ \E n \in 1 .. Len(Kids(h)[c]) + 1 :
       Kids(g) = [Kids(h) EXCEPT ![c] = Forest!InsertAt(@, n, i)]

\* The item i has got the position of an item that is gone with its family.
Swapped(g, h, c, i) ==
  \E n \in 1 .. Len(Kids(h)[c]) :
    LET gone == FamilyOf(Kids(h), Kids(h)[c][n])
    IN  /\ Kids(h)[c][n] \in h.live \cap gone
        /\ g.live = h.live \ gone
        /\ Kids(g) = Without([Kids(h) EXCEPT ![c][n] = i], gone)

\* To append is to insert at the end.
LEMMA AppendedInserted ==
  ASSUME NEW h, NEW H, WellLinked(h, H), NEW c \in Item, NEW i \in Item,
         NEW g, Appended(g, h, c, i)
  PROVE  Inserted(g, h, c, i)
<1> DEFINE s == Children(h, c)
<1>1. s \in Seq(Item)
  BY ChildrenType
<1>2. Kids(h)[c] = s
  BY DEF Kids
<1> HIDE DEF s
<1>3. Append(s, i) = Forest!InsertAt(s, Len(s) + 1, i)
  BY <1>1, AppendInserts
<1>4. Len(s) + 1 \in 1 .. Len(s) + 1
  BY <1>1
<1> QED
  BY <1>2, <1>3, <1>4 DEF Appended, Inserted

\* add_item_to_array appends, or does nothing.
LEMMA AddedToArray ==
  ASSUME NEW h, NEW H, WellLinked(h, H), NEW c \in Item, IsOwner(h, c),
         NEW i \in H \cup {NULL}, i # NULL /\ c \in Deleted(h, i) => c = i
  PROVE  LET r == add_item_to_array(h, c, i)
         IN  /\ r.ret \in BOOLEAN
             /\ r.ret => i # NULL /\ i # c /\ Appended(r.heap, h, c, i)
             /\ ~r.ret => r.heap = h
<1> DEFINE r == add_item_to_array(h, c, i)
           s == Children(h, c)
<1>1. /\ r.ret \in BOOLEAN
      /\ r.ret <=> i # NULL /\ i # c
      /\ r.ret => WellLinked(r.heap, H \ {i})
      /\ ~r.ret => r.heap = h
  BY AddLinks
<1>2. CASE i = NULL \/ i = c
  <2> HIDE DEF r
  <2> QED
    BY <1>1, <1>2 DEF r
<1>3. CASE i # NULL /\ i # c
  <2>1. i \in H /\ i \in Item /\ c \notin Deleted(h, i)
    BY <1>3 DEF WellLinked, Links, IsRoot
  <2>2. r.heap.live = h.live /\ Relisted(r.heap, h, c, Append(s, i))
    BY <1>3, <2>1, AppendedKids
  <2>4. Kids(h)[c] = s
    BY DEF Kids
  <2> HIDE DEF r, s
  <2>5. Kids(r.heap) = [Kids(h) EXCEPT ![c] = Append(s, i)]
    BY <2>2 DEF Relisted, Kids
  <2>8. Appended(r.heap, h, c, i)
    BY <2>2, <2>4, <2>5 DEF Appended
  <2> QED
    BY <1>1, <1>3, <2>8 DEF r
<1> QED
  BY <1>2, <1>3

\* add_item_to_object appends, or does nothing.
LEMMA AddedToObject ==
  ASSUME NEW h, NEW H, WellLinked(h, H), NEW c \in Item, IsOwner(h, c),
         NEW i \in H \cup {NULL}, i # NULL /\ c \in Deleted(h, i) => c = i,
         NEW k \in Key, NEW constant_key \in BOOLEAN, NEW memory \in BOOLEAN
  PROVE  LET r == add_item_to_object(h, c, k, i, constant_key, memory)
         IN  /\ r.ret \in BOOLEAN
             /\ r.ret => i # NULL /\ i # c /\ Appended(r.heap, h, c, i)
             /\ ~r.ret => r.heap = h
<1> DEFINE copied == IF constant_key THEN h ELSE cJSON_strdup(h)
           renamed == Rename(copied, i, k, constant_key)
           r == add_item_to_object(h, c, k, i, constant_key, memory)
<1>1. CASE i = NULL \/ c = i \/ (~constant_key /\ ~memory)
  BY <1>1 DEF add_item_to_object, Returns
<1>2. CASE ~(i = NULL \/ c = i \/ (~constant_key /\ ~memory))
  <2>1. r = add_item_to_array(renamed, c, i)
    BY <1>2 DEF add_item_to_object
  <2>2. /\ WellLinked(copied, H) /\ copied.live = h.live /\ Kids(copied) = Kids(h)
        /\ \A x \in Item : IsReference(copied, x) <=> IsReference(h, x)
        /\ Deleted(copied, i) = Deleted(h, i)
    BY StrdupLinks, StrdupKids
  <2>3. IsOwner(copied, c) /\ i \in copied.live
    BY <1>2, <2>2 DEF IsOwner, WellLinked, Links, IsRoot
  <2> HIDE DEF copied
  <2>4. WellLinked(renamed, H)
    BY <2>2, <2>3, RenamedLinks
  <2>5. IsOwner(renamed, c)
    BY <2>2, <2>3, RenamedLinks
  <2>6. Deleted(renamed, i) = Deleted(copied, i)
    BY <2>2, <2>3, RenamedLinks
  <2>7. renamed.live = copied.live /\ Kids(renamed) = Kids(copied)
    BY <2>2, <2>3, RenamedKids
  <2> HIDE DEF renamed, r
  <2>a. i # NULL /\ c \in Deleted(renamed, i) => c = i
    BY <2>2, <2>6
  <2>8. /\ r.ret \in BOOLEAN
        /\ r.ret => i # NULL /\ i # c /\ Appended(r.heap, renamed, c, i)
        /\ ~r.ret => r.heap = renamed
    BY <2>1, <2>4, <2>5, <2>a, AddedToArray
  <2>9. r.ret
    <3>1. /\ r.ret \in BOOLEAN
          /\ r.ret <=> i # NULL /\ i # c
          /\ r.ret => WellLinked(r.heap, H \ {i})
          /\ ~r.ret => r.heap = renamed
      BY <2>1, <2>4, <2>5, <2>a, AddLinks
    <3> QED
      BY <1>2, <3>1
  <2>10. Appended(r.heap, renamed, c, i) => Appended(r.heap, h, c, i)
    BY <2>2, <2>7 DEF Appended
  <2> QED
    BY <2>8, <2>9, <2>10 DEF r
<1> QED
  BY <1>1, <1>2

\* cJSON_InsertItemInArray inserts.
LEMMA InsertedInArray ==
  ASSUME NEW h, NEW H, WellLinked(h, H), NEW c \in Item, IsOwner(h, c),
         NEW i \in H, i # c, c \notin Deleted(h, i), NEW which \in Nat
  PROVE  LET r == cJSON_InsertItemInArray(h, c, which, i)
         IN  r.ret \in BOOLEAN /\ r.ret /\ Inserted(r.heap, h, c, i)
<1> USE NULLAssumption
<1>1. PICK owner : Links(h, owner, H)
  BY DEF WellLinked
<1> DEFINE x == get_array_item(h, c, which)
           prev == h.prev[x]
           placed == [h EXCEPT !.next[i] = x, !.prev[i] = prev, !.prev[x] = i]
           r == cJSON_InsertItemInArray(h, c, which, i)
<1>2. x \in Link /\ (x # NULL => x \in Item /\ owner[x] = c)
  BY <1>1, GetArrayItemOwned
<1>3. r = IF x = NULL THEN add_item_to_array(h, c, i)
          ELSE IF x = h.child[c]
          THEN Returns(TRUE, [placed EXCEPT !.child[c] = i])
          ELSE IF prev = NULL THEN Returns(FALSE, h)
          ELSE Returns(TRUE, [placed EXCEPT !.next[prev] = i])
  BY DEF cJSON_InsertItemInArray
<1>4. i \in Item /\ i # NULL /\ i \in H \cup {NULL}
  BY <1>1 DEF Links, IsRoot
<1>5. CASE x = NULL
  <2> HIDE DEF r, x
  <2>1. r = add_item_to_array(h, c, i)
    BY <1>3, <1>5
  <2>2. /\ r.ret \in BOOLEAN
        /\ r.ret => i # NULL /\ i # c /\ Appended(r.heap, h, c, i)
        /\ ~r.ret => r.heap = h
    BY <1>4, <2>1, AddedToArray
  <2>3. r.ret
    BY <1>4, <2>1 DEF add_item_to_array, Returns
  <2>4. Appended(r.heap, h, c, i) => Inserted(r.heap, h, c, i)
    BY <1>4, AppendedInserted
  <2> QED
    BY <1>4, <2>2, <2>3, <2>4 DEF r
<1>6. CASE x # NULL
  <2>1. x # h.child[c] => prev # NULL
    BY <1>1, <1>2, <1>6, ListedItem
  <2> HIDE DEF x, r
  <2>2. r = Returns(TRUE, InsertedBefore(h, c, x, i))
    BY <1>3, <1>6, <2>1 DEF InsertedBefore
  <2>3. PICK n : IsPosition(h, c, n) /\ Children(h, c)[n] = x
    BY <1>1, <1>2, <1>6, OwnedAt
  <2> DEFINE g == InsertedBefore(h, c, x, i)
             s == Children(h, c)
             t == Forest!InsertAt(s, n, i)
  <2>4. Relisted(g, h, c, t)
    <3>1. n \in 1 .. Len(Children(h, c))
      BY <2>3 DEF IsPosition
    <3>2. LET y == Children(h, c)[n]
          IN  Relisted(InsertedBefore(h, c, y, i), h, c, Forest!InsertAt(s, n, i))
      BY <3>1, InsertedKids
    <3> QED
      BY <2>3, <3>2
  <2>5. g.live = h.live
    <3>1. InsertedBeforeFields(g, h, c, x, i)
      BY <1>1, <1>2, <1>6, InsertedBeforeLinks
    <3> HIDE DEF g
    <3> QED
      BY <3>1 DEF InsertedBeforeFields
  <2>6. s \in Seq(Item) /\ Kids(h)[c] = s
    BY ChildrenType DEF Kids
  <2>7. n \in 1 .. Len(s) + 1
    BY <2>3, <2>6 DEF IsPosition
  <2> HIDE DEF g, s, t
  <2>8. Kids(g) = [Kids(h) EXCEPT ![c] = t]
    BY <2>4 DEF Relisted, Kids
  <2>9. Inserted(g, h, c, i)
    BY <2>5, <2>6, <2>7, <2>8 DEF Inserted, t
  <2> QED
    BY <2>2, <2>9 DEF Returns, g, r
<1> QED
  BY <1>5, <1>6

\* An item of the list of c, or none, is replaced.
LEMMA ReplacedItem ==
  ASSUME NEW h, NEW owner, NEW H, Links(h, owner, H),
         NEW c \in Item, IsOwner(h, c), NEW item \in Link,
         item # NULL => owner[item] = c,
         NEW i \in H, i # c, c \notin Deleted(h, i)
  PROVE  LET r == cJSON_ReplaceItemViaPointer(h, c, item, i)
         IN  /\ r.ret \in BOOLEAN
             /\ r.ret => Swapped(r.heap, h, c, i)
             /\ ~r.ret => r.heap = h
<1> DEFINE r == cJSON_ReplaceItemViaPointer(h, c, item, i)
<1>a. /\ r.ret \in BOOLEAN
      /\ r.ret => WellLinked(r.heap, H \ {i})
      /\ ~r.ret => r.heap = h
  <2>1. i \in Item /\ ((i \in H \ {c} /\ c \notin Deleted(h, i)) \/ i = item)
    BY DEF Links, IsRoot
  <2> QED
    BY <2>1, ReplaceLinks
<1>1. CASE item = NULL
  BY <1>1 DEF cJSON_ReplaceItemViaPointer, Returns
<1>2. CASE item # NULL
  <2>1. item \in Item /\ owner[item] = c /\ WellLinked(h, H)
    BY <1>2 DEF Link, WellLinked
  <2>2. PICK n : IsPosition(h, c, n) /\ Children(h, c)[n] = item
    BY <2>1, OwnedAt
  <2> DEFINE gone == FamilyOf(Kids(h), item)
             s == Children(h, c)
  <2>3. /\ item \in h.live /\ item \in gone
        /\ r.heap.live = h.live \ gone
        /\ Kids(r.heap) = Without(Exchanged(h, c, n, i), gone)
    BY <2>1, <2>2, ReplacedChild
  <2>4. Kids(h)[c] = s /\ Kids(h) = [d \in Item |-> Kids(h)[d]]
    BY DEF Kids
  <2>5. n \in 1 .. Len(s) /\ s[n] = item
    BY <2>2 DEF IsPosition
  <2> HIDE DEF r, gone, s
  <2>6. Exchanged(h, c, n, i) = [Kids(h) EXCEPT ![c][n] = i]
    BY <2>4 DEF Exchanged, s
  <2>7. Swapped(r.heap, h, c, i)
    BY <2>3, <2>4, <2>5, <2>6 DEF Swapped, gone
  <2> QED
    BY <1>a, <2>7 DEF r
<1> QED
  BY <1>1, <1>2

\* replace_item_in_object swaps, or changes no list.
LEMMA ReplacedInObject ==
  ASSUME NEW h, NEW H, WellLinked(h, H), NEW c \in Item, IsOwner(h, c),
         NEW i \in H, i # c, c \notin Deleted(h, i), NEW k \in Key,
         NEW case_sensitive \in BOOLEAN, NEW memory \in BOOLEAN
  PROVE  LET r == replace_item_in_object(h, c, k, i, case_sensitive, memory)
         IN  /\ r.ret \in BOOLEAN
             /\ r.ret => Swapped(r.heap, h, c, i)
             /\ ~r.ret => r.heap.live = h.live /\ Kids(r.heap) = Kids(h)
<1> USE NULLAssumption
<1> DEFINE renamed == Rename(h, i, k, FALSE)
           copied == cJSON_strdup(renamed)
           found == get_object_item(copied, c, k, case_sensitive)
           r == replace_item_in_object(h, c, k, i, case_sensitive, memory)
<1>1. h \in Heap /\ i \in Item /\ i \in h.live
  BY DEF WellLinked, Links, IsRoot
<1>2. CASE ~memory
  <2> DEFINE n == IF OwnsKey(h, i) THEN h.strings - 1 ELSE h.strings
             g == [h EXCEPT !.string[i] = NULL, !.strings = n]
  <2>1. r = Returns(FALSE, g)
    BY <1>2 DEF replace_item_in_object
  <2> HIDE DEF n
  <2>2. /\ g.next = h.next /\ g.prev = h.prev /\ g.child = h.child
        /\ g.live = h.live /\ g.type = h.type
    BY <1>1 DEF Heap
  <2>3. WellLinked(r.heap, H)
    <3>1. r.ret = FALSE
      BY <2>1 DEF Returns
    <3>2. ~r.ret => WellLinked(r.heap, H)
      BY ReplaceInObjectLinks
    <3> HIDE DEF r
    <3> QED
      BY <3>1, <3>2
  <2>4. r.heap = g /\ r.ret = FALSE
    BY <2>1 DEF Returns
  <2> HIDE DEF g, r
  <2>5. \A x \in Item : IsOwner(g, x) <=> IsOwner(h, x)
    BY <2>2 DEF IsOwner, IsReference
  <2>6. Kids(g) = Kids(h)
    BY <2>2, <2>3, <2>4, <2>5, SameKids
  <2> QED
    BY <2>2, <2>4, <2>6 DEF r
<1>3. CASE memory
  <2>1. r = cJSON_ReplaceItemViaPointer(copied, c, found, i)
    BY <1>3 DEF replace_item_in_object
  <2>2. /\ WellLinked(renamed, H) /\ IsOwner(renamed, c)
        /\ Deleted(renamed, i) = Deleted(h, i)
        /\ renamed.live = h.live /\ Kids(renamed) = Kids(h)
    <3>1. WellLinked(renamed, H)
      BY <1>1, RenamedLinks
    <3>2. IsOwner(renamed, c)
      BY <1>1, RenamedLinks
    <3>3. \A e \in BOOLEAN : Deleted(Rename(h, i, k, e), i) = Deleted(h, i)
      BY <1>1, RenamedLinks
    <3>4. Deleted(renamed, i) = Deleted(h, i)
      BY <3>3
    <3>5. \A e \in BOOLEAN : /\ Rename(h, i, k, e).live = h.live
                             /\ Kids(Rename(h, i, k, e)) = Kids(h)
      BY <1>1, RenamedKids
    <3> QED
      BY <3>1, <3>2, <3>4, <3>5
  <2> HIDE DEF renamed
  <2>3. /\ WellLinked(copied, H) /\ IsOwner(copied, c)
        /\ c \notin Deleted(copied, i)
        /\ copied.live = h.live
    BY <2>2, StrdupLinks DEF IsOwner
  <2>a. Kids(copied) = Kids(h)
    BY <2>2, StrdupKids
  <2> HIDE DEF copied
  <2>4. PICK owner : Links(copied, owner, H)
    BY <2>3 DEF WellLinked
  <2>5. found \in Link /\ (found # NULL => found \in Item /\ owner[found] = c)
    BY <2>3, <2>4, GetObjectItemOwned
  <2> HIDE DEF found, r
  <2>6. /\ r.ret \in BOOLEAN
        /\ r.ret => Swapped(r.heap, copied, c, i)
        /\ ~r.ret => r.heap = copied
    BY <2>1, <2>3, <2>4, <2>5, ReplacedItem
  <2>7. Swapped(r.heap, copied, c, i) => Swapped(r.heap, h, c, i)
    BY <2>3, <2>a DEF Swapped
  <2> QED
    BY <2>3, <2>a, <2>6, <2>7 DEF r
<1> QED
  BY <1>2, <1>3

-----------------------------------------------------------------------------
(* The steps of JsonForest.                                                *)

\* The families of JsonForest are those of the lists of the heap.
LEMMA FamilyIs ==
  \A x : Forest!Family(x) = FamilyOf(Kids(heap), x)
BY DEF Forest!Family, FamilyOf, Closed

\* The positions of JsonForest!Next.
LEMMA ForestBound == Forest!Cardinality(Item) = Cardinality(Item)
BY DEF Forest!Cardinality, Cardinality

\* What hangs below a root is its family.
LEMMA OwnerFamily ==
  ASSUME WellLinked(heap, held), NEW i \in held
  PROVE  Forest!Family(i) = Deleted(heap, i)
<1>1. FamilyOf(Kids(heap), i) = Deleted(heap, i)
  BY RootFamily DEF WellLinked
<1> QED
  BY <1>1, FamilyIs

\* Nothing that JsonForest knows of has changed.
LEMMA StutterStep ==
  ASSUME NEW g, heap' = g, g.live = heap.live, Kids(g) = Kids(heap), held' = held
  PROVE  [Forest!Next]_(Forest!vars)
BY DEF Forest!vars

\* A call that makes a tree.
LEMMA CreateStep ==
  ASSUME NEW g, g \in Heap, heap' = g,
         NEW a, Planted(g, heap, a), held' = held \cup {a}
  PROVE  Forest!Next
<1> DEFINE new == g.live \ heap.live
           k == Kids(g)
<1>1. a \in new /\ heap.live \subseteq g.live
  BY DEF Planted
<1>2. \A c \in Item \ new : k[c] = Kids(heap)[c]
  BY DEF Planted
<1>3. FamilyOf(k, a) = new
  BY DEF Planted
<1>4. \A c \in new : a \notin Forest!ToSet(k[c])
  BY DEF Planted
<1>5. \A c, d \in new : \A m \in DOMAIN k[c], n \in DOMAIN k[d] :
         k[c][m] = k[d][n] => c = d /\ m = n
  BY DEF Planted
<1>6. Forest!Family(a)' = FamilyOf(k, a)
  BY DEF Forest!Family, FamilyOf, Closed
<1>7. a \in Item
  BY <1>1 DEF Heap
<1>8. k = Kids(heap)'
  OBVIOUS
<1> HIDE DEF k
<1>9. Forest!Create(a)
  BY <1>1, <1>2, <1>3, <1>4, <1>5, <1>6, <1>8 DEF Forest!Create
<1> QED
  BY <1>7, <1>9 DEF Forest!Next

\* A call that makes a tree, or fails.
LEMMA GiveStep ==
  ASSUME WellLinked(heap, held), NEW r, Give(r), NEW G, WellLinked(r.heap, G),
         r.ret = NULL => r.heap.live = heap.live /\ Kids(r.heap) = Kids(heap),
         NEW s, r.ret # NULL => r.ret = s[1] /\ Grown(r.heap, heap, s)
  PROVE  [Forest!Next]_(Forest!vars)
<1>1. heap' = r.heap /\ held' = held \cup ({r.ret} \ {NULL})
  BY DEF Give
<1>2. CASE r.ret = NULL
  <2>1. held' = held
    BY <1>1, <1>2
  <2> QED
    BY <1>1, <1>2, <2>1, StutterStep
<1>3. CASE r.ret # NULL
  <2>1. held' = held \cup {s[1]}
    BY <1>1, <1>3
  <2>2. Planted(r.heap, heap, s[1]) /\ r.heap \in Heap
    BY <1>3, GrownTree DEF WellLinked, Links
  <2>3. Forest!Next
    BY <1>1, <2>1, <2>2, CreateStep
  <2> QED
    BY <2>3
<1> QED
  BY <1>2, <1>3

\* A call that makes one item, or fails.
LEMMA GiveAloneStep ==
  ASSUME WellLinked(heap, held), NEW r, Give(r), MadeAlone(r, heap, held)
  PROVE  [Forest!Next]_(Forest!vars)
<1>1. WellLinked(r.heap, held \cup ({r.ret} \ {NULL}))
  BY DEF MadeAlone, Made
<1>2. ASSUME r.ret = NULL
      PROVE  r.heap.live = heap.live /\ Kids(r.heap) = Kids(heap)
  <2>1. r.heap.live = heap.live
    BY <1>2 DEF MadeAlone
  <2> QED
    BY <2>1, AloneKids
<1> DEFINE s == <<r.ret>>
<1>3. ASSUME r.ret # NULL
      PROVE  r.ret = s[1] /\ Grown(r.heap, heap, s)
  BY <1>3, AloneGrown
<1> HIDE DEF s
<1> QED
  BY <1>1, <1>2, <1>3, GiveStep

\* A call that puts a root into a list, or fails.
LEMMA AdoptStep ==
  ASSUME WellLinked(heap, held), NEW r, NEW i \in held, Adopt(r, i),
         NEW G, WellLinked(r.heap, G), NEW c \in Item, IsOwner(heap, c),
         r.ret \in BOOLEAN,
         r.ret => c \notin Deleted(heap, i) /\ Inserted(r.heap, heap, c, i),
         ~r.ret => r.heap.live = heap.live /\ Kids(r.heap) = Kids(heap)
  PROVE  [Forest!Next]_(Forest!vars)
<1>1. heap' = r.heap /\ held' = IF r.ret THEN held \ {i} ELSE held
  BY DEF Adopt
<1>2. CASE ~r.ret
  <2>1. held' = held
    BY <1>1, <1>2
  <2> QED
    BY <1>1, <1>2, <2>1, StutterStep
<1>3. CASE r.ret
  <2>1. r.heap.live = heap.live /\ held' = held \ {i}
    BY <1>1, <1>3 DEF Inserted
  <2>2. PICK n \in 1 .. Len(Kids(heap)[c]) + 1 :
           Kids(r.heap) = [Kids(heap) EXCEPT ![c] = Forest!InsertAt(@, n, i)]
    BY <1>3 DEF Inserted
  <2>3. c \in heap.live \ Forest!Family(i)
    BY <1>3, OwnerFamily DEF IsOwner
  <2>4. Kids(heap)' = Kids(r.heap)
    BY <1>1
  <2>5. Forest!Insert(c, n, i)
    BY <1>1, <2>1, <2>2, <2>3, <2>4 DEF Forest!Insert
  <2>6. n \in 1 .. Cardinality(Item)
    <3> DEFINE s == Children(heap, c)
               t == Children(r.heap, c)
    <3>1. i \in Item
      BY DEF WellLinked, Links, IsRoot
    <3>2. s \in Seq(Item)
      BY ChildrenType
    <3>3. Len(t) <= Cardinality(Item)
      BY ListLength
    <3>4. Kids(heap)[c] = s
      BY DEF Kids
    <3>5. t = Forest!InsertAt(s, n, i)
      <4>1. Kids(r.heap)[c] = Forest!InsertAt(Kids(heap)[c], n, i)
        BY <2>2 DEF Kids
      <4> QED
        BY <4>1 DEF Kids
    <3> HIDE DEF s, t
    <3>6. Len(t) = Len(s) + 1
      BY <2>2, <3>1, <3>2, <3>4, <3>5, InsertAtElements
    <3>7. Cardinality(Item) \in Nat
      BY ItemAssumption, FS_CardinalityType
    <3> QED
      BY <2>2, <3>2, <3>3, <3>4, <3>6, <3>7
  <2>7. i \in Item
    BY DEF WellLinked, Links, IsRoot
  <2>8. Forest!Next
    BY <2>5, <2>6, <2>7, ForestBound DEF Forest!Next
  <2> QED
    BY <2>8
<1> QED
  BY <1>2, <1>3

\* A call that replaces an item by a root, or fails.
LEMMA SwapStep ==
  ASSUME WellLinked(heap, held), NEW r, NEW i \in held, Adopt(r, i),
         NEW c \in Item, IsOwner(heap, c), c \notin Deleted(heap, i),
         r.ret \in BOOLEAN,
         r.ret => Swapped(r.heap, heap, c, i),
         ~r.ret => r.heap.live = heap.live /\ Kids(r.heap) = Kids(heap)
  PROVE  [Forest!Next]_(Forest!vars)
<1>1. heap' = r.heap /\ held' = IF r.ret THEN held \ {i} ELSE held
  BY DEF Adopt
<1>2. CASE ~r.ret
  <2>1. held' = held
    BY <1>1, <1>2
  <2> QED
    BY <1>1, <1>2, <2>1, StutterStep
<1>3. CASE r.ret
  <2>1. PICK n \in 1 .. Len(Kids(heap)[c]) :
           LET gone == FamilyOf(Kids(heap), Kids(heap)[c][n])
           IN  /\ Kids(heap)[c][n] \in heap.live \cap gone
               /\ r.heap.live = heap.live \ gone
               /\ Kids(r.heap) = Without([Kids(heap) EXCEPT ![c][n] = i], gone)
    BY <1>3 DEF Swapped
  <2> DEFINE x == Kids(heap)[c][n]
  <2>2. Forest!Family(x) = FamilyOf(Kids(heap), x)
    BY FamilyIs
  <2>3. heap.live # r.heap.live
    BY <2>1
  <2>4. c \in heap.live \ Forest!Family(i)
    BY OwnerFamily DEF IsOwner
  <2>5. Kids(heap)' = Kids(r.heap)
    BY <1>1
  <2>6. n \in DOMAIN Kids(heap)[c] /\ n \in 1 .. Cardinality(Item)
    <3> DEFINE s == Children(heap, c)
    <3>1. s \in Seq(Item)
      BY ChildrenType
    <3>2. Len(s) <= Cardinality(Item)
      BY ListLength
    <3>3. Kids(heap)[c] = s
      BY DEF Kids
    <3> HIDE DEF s
    <3>4. Cardinality(Item) \in Nat
      BY ItemAssumption, FS_CardinalityType
    <3> QED
      BY <2>1, <3>1, <3>2, <3>3, <3>4
  <2>7. Forest!Forget(Forest!Family(x), [Kids(heap) EXCEPT ![c][n] = i])
    BY <1>1, <2>1, <2>2, <2>5 DEF Forest!Forget, Without
  <2>8. held' = held \ {i} /\ heap.live # heap'.live
    BY <1>1, <1>3, <2>3
  <2>9. Forest!Replace(c, n, i)
    BY <2>4, <2>6, <2>7, <2>8 DEF Forest!Replace
  <2>10. i \in Item
    BY DEF WellLinked, Links, IsRoot
  <2>11. Forest!Next
    BY <2>6, <2>9, <2>10, ForestBound DEF Forest!Next
  <2> QED
    BY <2>11
<1> QED
  BY <1>2, <1>3

\* A call that makes an item and puts it at the end of a list, or fails.
LEMMA AppendNewStep ==
  ASSUME WellLinked(heap, held), NEW c \in Item, IsOwner(heap, c),
         NEW r, MadeAlone(r, heap, held), NEW g, heap' = g, held' = held,
         \/ r.ret # NULL /\ Appended(g, r.heap, c, r.ret)
         \/ r.ret = NULL /\ g = r.heap
  PROVE  [Forest!Next]_(Forest!vars)
<1>1. Kids(r.heap) = Kids(heap)
  BY AloneKids
<1>2. r.heap.live = heap.live \cup ({r.ret} \ {NULL})
  BY DEF MadeAlone
<1>3. CASE r.ret = NULL /\ g = r.heap
  <2>1. g.live = heap.live /\ Kids(g) = Kids(heap)
    BY <1>1, <1>2, <1>3
  <2> QED
    BY <2>1, StutterStep
<1>4. CASE r.ret # NULL /\ Appended(g, r.heap, c, r.ret)
  <2>1. r.ret \in Item /\ r.ret \notin heap.live
    BY <1>4 DEF MadeAlone, Made, Link
  <2>2. g.live = heap.live \cup {r.ret}
    BY <1>2, <1>4 DEF Appended
  <2>3. Kids(heap)' = [Kids(heap) EXCEPT ![c] = Append(@, r.ret)]
    <3>1. Kids(g) = [Kids(heap) EXCEPT ![c] = Append(@, r.ret)]
      BY <1>1, <1>4 DEF Appended
    <3> QED
      BY <3>1
  <2>4. heap.live' = heap.live \cup {r.ret}
    BY <2>2
  <2>5. Forest!AppendNew(c, r.ret)
    BY <2>1, <2>3, <2>4 DEF Forest!AppendNew, IsOwner
  <2>6. Forest!Next
    BY <2>1, <2>5 DEF Forest!Next
  <2> QED
    BY <2>6
<1> QED
  BY <1>3, <1>4

\* A call that makes an item and deletes it again.
LEMMA MadeAndDeletedStep ==
  ASSUME WellLinked(heap, held), NEW r, MadeAlone(r, heap, held),
         heap' = cJSON_Delete(r.heap, r.ret), held' = held
  PROVE  [Forest!Next]_(Forest!vars)
<1> DEFINE x == r.ret
           h == r.heap
           G == held \cup ({x} \ {NULL})
           g == cJSON_Delete(h, x)
<1>1. Kids(h) = Kids(heap)
  BY AloneKids
<1>2. h.live = heap.live \cup ({x} \ {NULL})
  BY DEF MadeAlone
<1>3. x \in Link /\ x \notin heap.live /\ WellLinked(h, G)
  BY DEF MadeAlone, Made
<1>4. CASE x = NULL
  <2>1. g = h
    BY <1>4 DEF cJSON_Delete
  <2> HIDE DEF h, x
  <2>2. h.live = heap.live
    BY <1>2, <1>4
  <2> HIDE DEF g
  <2>3. heap' = g
    BY DEF g, h, x
  <2> QED
    BY <1>1, <2>1, <2>2, <2>3, StutterStep
<1>5. CASE x # NULL
  <2>1. Lone(h, x) /\ x \in Item
    BY <1>3, <1>5 DEF MadeAlone, Link
  <2>2. heap' = g
    OBVIOUS
  <2> HIDE DEF h, x
  <2>3. Deleted(h, x) = {x}
    BY <2>1, LoneDeleted
  <2>4. x \in G
    BY <1>5
  <2> HIDE DEF G
  <2>5. FamilyOf(Kids(h), x) = {x}
    BY <1>3, <2>3, <2>4, RootFamily DEF WellLinked
  <2>6. /\ x \in h.live /\ x \in FamilyOf(Kids(h), x)
        /\ g.live = h.live \ FamilyOf(Kids(h), x)
        /\ Kids(g) = Without(Kids(h), FamilyOf(Kids(h), x))
    BY <1>3, <2>4, DeletedRoot
  <2> HIDE DEF g
  <2>7. g.live = heap.live
    BY <1>2, <1>3, <1>5, <2>5, <2>6
  <2>8. Kids(heap)[x] = << >>
    BY <1>3, <2>1, NoChildren DEF Kids, IsOwner
  <2>9. Kids(heap) = [d \in Item |-> Kids(heap)[d]]
    BY DEF Kids
  <2>10. Kids(g) = Kids(heap)
    BY <1>1, <2>5, <2>6, <2>8, <2>9 DEF Without
  <2> QED
    BY <2>2, <2>7, <2>10, StutterStep
<1> QED
  BY <1>4, <1>5

\* A position of a list is one that JsonForest!Next tries.
LEMMA PositionBound ==
  ASSUME WellLinked(heap, held), NEW c \in Item, NEW n, IsPosition(heap, c, n)
  PROVE  n \in DOMAIN Kids(heap)[c] /\ n \in 1 .. Forest!Cardinality(Item)
<1> DEFINE s == Children(heap, c)
<1>1. s \in Seq(Item)
  BY ChildrenType
<1>2. Len(s) <= Cardinality(Item)
  BY ListLength
<1>3. Kids(heap)[c] = s
  BY DEF Kids
<1>4. n \in 1 .. Len(s)
  BY DEF IsPosition
<1> HIDE DEF s
<1>5. Cardinality(Item) \in Nat
  BY ItemAssumption, FS_CardinalityType
<1> QED
  BY <1>1, <1>2, <1>3, <1>4, <1>5, ForestBound

\* A call that takes an item out of a list.
LEMMA DetachStep ==
  ASSUME NEW owner, Links(heap, owner, held), NEW c \in Item, IsOwner(heap, c),
         NEW x \in Link, x = NULL \/ x \in held \/ owner[x] = c,
         Give(cJSON_DetachItemViaPointer(heap, c, x))
  PROVE  [Forest!Next]_(Forest!vars)
<1> USE NULLAssumption
<1> DEFINE r == cJSON_DetachItemViaPointer(heap, c, x)
<1>1. heap' = r.heap /\ held' = held \cup ({r.ret} \ {NULL})
  BY DEF Give
<1>2. WellLinked(heap, held)
  BY DEF WellLinked
<1>3. CASE x = NULL \/ (x \in held /\ x # NULL)
  <2>1. r = Returns(NULL, heap)
    <3>1. CASE x = NULL
      BY <3>1 DEF cJSON_DetachItemViaPointer
    <3>2. CASE x \in held /\ x # NULL
      <4>1. x # heap.child[c] /\ heap.prev[x] = NULL
        BY <3>2 DEF Links, Ends, IsRoot
      <4> QED
        BY <3>2, <4>1 DEF cJSON_DetachItemViaPointer
    <3> QED
      BY <1>3, <3>1, <3>2
  <2> HIDE DEF r
  <2>2. heap' = heap /\ held' = held
    BY <1>1, <2>1 DEF Returns
  <2> QED
    BY <2>2, StutterStep
<1>4. CASE x # NULL /\ x \notin held
  <2>1. x \in Item /\ owner[x] = c
    BY <1>4 DEF Link
  <2>2. PICK n : IsPosition(heap, c, n) /\ Children(heap, c)[n] = x
    BY <2>1, OwnedAt
  <2>3. r.ret = x /\ r.heap.live = heap.live
    BY <2>1, DetachReturns
  <2>4. Relisted(r.heap, heap, c, Forest!RemoveAt(Children(heap, c), n))
    BY <1>2, <2>2, DetachedKids DEF IsPosition
  <2>5. Kids(heap)[c] = Children(heap, c)
    BY DEF Kids
  <2> HIDE DEF r
  <2>6. Kids(r.heap) = [Kids(heap) EXCEPT ![c] = Forest!RemoveAt(@, n)]
    BY <2>4 DEF Relisted, Kids
  <2>7. Kids(heap)' = Kids(r.heap)
    BY <1>1
  <2>8. held' = held \cup {x}
    BY <1>1, <1>4, <2>3
  <2>9. n \in DOMAIN Kids(heap)[c] /\ n \in 1 .. Forest!Cardinality(Item)
    BY <1>2, <2>2, PositionBound
  <2>10. Kids(heap)[c][n] = x
    BY <2>2, <2>5
  <2>11. heap.live' = heap.live
    BY <1>1, <2>3
  <2>12. Forest!Detach(c, n)
    BY <1>4, <2>6, <2>7, <2>8, <2>9, <2>10, <2>11 DEF Forest!Detach
  <2>13. Forest!Next
    BY <2>9, <2>12 DEF Forest!Next
  <2> QED
    BY <2>13
<1> QED
  BY <1>3, <1>4

\* A call that deletes an item of a list.
LEMMA DeleteChildStep ==
  ASSUME NEW owner, Links(heap, owner, held), NEW c \in Item, IsOwner(heap, c),
         NEW x \in Link, x # NULL => owner[x] = c,
         DeleteDetached(cJSON_DetachItemViaPointer(heap, c, x))
  PROVE  [Forest!Next]_(Forest!vars)
<1> USE NULLAssumption
<1> DEFINE r == cJSON_DetachItemViaPointer(heap, c, x)
           g == cJSON_Delete(r.heap, r.ret)
<1>1. heap' = g /\ held' = held
  BY DEF DeleteDetached
<1>2. WellLinked(heap, held)
  BY DEF WellLinked
<1>3. CASE x = NULL
  <2>1. r = Returns(NULL, heap)
    BY <1>3 DEF cJSON_DetachItemViaPointer
  <2> HIDE DEF r
  <2>2. g = heap
    BY <2>1 DEF Returns, cJSON_Delete
  <2> QED
    BY <1>1, <2>2, StutterStep
<1>4. CASE x # NULL
  <2>1. x \in Item /\ owner[x] = c
    BY <1>4 DEF Link
  <2>2. PICK n : IsPosition(heap, c, n) /\ Children(heap, c)[n] = x
    BY <2>1, OwnedAt
  <2> DEFINE gone == FamilyOf(Kids(heap), x)
             s == Children(heap, c)
             k == [Kids(heap) EXCEPT ![c] = Forest!RemoveAt(s, n)]
             f == cJSON_Delete(r.heap, x)
  <2>3. /\ r.ret = x /\ r.heap.live = heap.live
        /\ x \in heap.live /\ x \in gone /\ x \notin held
        /\ f.live = heap.live \ gone
        /\ Kids(f) = Without(k, gone)
    BY <1>2, <2>2, DeletedChild
  <2>4. Kids(heap)[c] = s
    BY DEF Kids
  <2>5. Forest!Family(x) = gone
    BY FamilyIs
  <2>6. g = f
    BY <2>3
  <2> HIDE DEF g, f, gone, s, k, r
  <2>7. heap.live' = heap.live \ gone /\ heap.live # heap.live'
    BY <1>1, <2>3, <2>6
  <2>8. Kids(heap)' = Without(k, gone)
    BY <1>1, <2>3, <2>6
  <2>9. n \in DOMAIN Kids(heap)[c] /\ n \in 1 .. Forest!Cardinality(Item)
    BY <1>2, <2>2, PositionBound
  <2>10. Kids(heap)[c][n] = x
    BY <2>2, <2>4 DEF s
  <2>11. k = [Kids(heap) EXCEPT ![c] = Forest!RemoveAt(@, n)]
    BY <2>4 DEF k
  <2>12. Forest!Forget(gone, k)
    BY <2>7, <2>8 DEF Forest!Forget, Without
  <2>13. Forest!DeleteChild(c, n)
    BY <1>1, <2>5, <2>7, <2>9, <2>10, <2>11, <2>12 DEF Forest!DeleteChild
  <2>14. Forest!Next
    BY <2>9, <2>13 DEF Forest!Next
  <2> QED
    BY <2>14
<1> QED
  BY <1>3, <1>4

\* A call that deletes a root.
LEMMA DeleteRootStep ==
  ASSUME WellLinked(heap, held), NEW i \in held,
         heap' = cJSON_Delete(heap, i), held' = held \ {i}
  PROVE  [Forest!Next]_(Forest!vars)
<1> DEFINE g == cJSON_Delete(heap, i)
           gone == FamilyOf(Kids(heap), i)
<1>1. /\ i \in heap.live /\ i \in gone
      /\ g.live = heap.live \ gone
      /\ Kids(g) = Without(Kids(heap), gone)
  BY DeletedRoot
<1>2. heap' = g
  OBVIOUS
<1>3. Forest!Family(i) = gone /\ i \in Item
  BY FamilyIs DEF WellLinked, Links, IsRoot
<1> HIDE DEF g, gone
<1>4. heap.live' = heap.live \ gone /\ heap.live # heap.live'
  BY <1>1, <1>2
<1>5. Kids(heap)' = Without(Kids(heap), gone)
  BY <1>1, <1>2
<1>6. Forest!Forget(gone, Kids(heap))
  BY <1>4, <1>5 DEF Forest!Forget, Without
<1>7. Forest!DeleteRoot(i)
  BY <1>3, <1>4, <1>6 DEF Forest!DeleteRoot
<1>8. Forest!Next
  BY <1>3, <1>7 DEF Forest!Next
<1> QED
  BY <1>8

-----------------------------------------------------------------------------
(* Every call is a step of JsonForest, if no reference is lost.            *)

\* A reference that is added to an object gets its key.
LEMMA KeyMemory ==
  ASSUME FALSE \notin ReferenceKeyMemory, NEW memory \in ReferenceKeyMemory
  PROVE  memory \in BOOLEAN /\ memory
<1>1. \A e \in ReferenceKeyMemory : e \in BOOLEAN /\ (e \/ ~e)
  BY TreeAssumption
<1>2. \A e \in BOOLEAN : ~e => e = FALSE
  OBVIOUS
<1> QED
  BY <1>1, <1>2

\* A new item can be added to any list: nothing hangs below it.
LEMMA NewApart ==
  ASSUME WellLinked(heap, held), NEW c \in Item, IsOwner(heap, c),
         NEW r, MadeAlone(r, heap, held)
  PROVE  /\ r.ret \in Link /\ r.ret # c
         /\ WellLinked(r.heap, held \cup ({r.ret} \ {NULL}))
         /\ IsOwner(r.heap, c)
         /\ r.ret # NULL => c \notin Deleted(r.heap, r.ret)
<1> DEFINE x == r.ret
           g == r.heap
<1>1. /\ x \in Link /\ x \notin heap.live /\ x # c
      /\ WellLinked(g, held \cup ({x} \ {NULL}))
      /\ g.live = heap.live \cup ({x} \ {NULL})
      /\ \A i \in Item \ {x} : g.child[i] = heap.child[i] /\ g.type[i] = heap.type[i]
      /\ x # NULL => Lone(g, x)
  BY DEF MadeAlone, Made, IsOwner
<1> HIDE DEF x, g
<1>2. IsOwner(g, c)
  BY <1>1 DEF IsOwner, IsReference
<1>3. x # NULL => c \notin Deleted(g, x)
  BY <1>1, LoneDeleted DEF Link
<1> QED
  BY <1>1, <1>2, <1>3 DEF x, g

\* The new item x is now the last one of c, or there was no item or no memory.
AddedNew(a, h, c, x, memory) ==
  /\ a.ret \in BOOLEAN
  /\ a.ret => x # NULL /\ Appended(a.heap, h, c, x)
  /\ ~a.ret => a.heap = h
  /\ ~a.ret /\ memory => x = NULL

\* A new item is added to an object.
LEMMA NewAddedToObject ==
  ASSUME NEW h, NEW G, WellLinked(h, G), NEW c \in Item, IsOwner(h, c),
         NEW x \in G \cup {NULL}, x # c, x # NULL => c \notin Deleted(h, x),
         NEW k \in Key, NEW memory \in BOOLEAN,
         NEW a, a = add_item_to_object(h, c, k, x, FALSE, memory)
  PROVE  AddedNew(a, h, c, x, memory)
<1>1. x # NULL /\ c \in Deleted(h, x) => c = x
  OBVIOUS
<1>2. ASSUME NEW e \in BOOLEAN
      PROVE  LET r == add_item_to_object(h, c, k, x, e, memory)
             IN  /\ r.ret \in BOOLEAN
                 /\ r.ret => x # NULL /\ x # c /\ Appended(r.heap, h, c, x)
                 /\ ~r.ret => r.heap = h
  BY <1>1, AddedToObject
<1>3. FALSE \in BOOLEAN
  OBVIOUS
<1>4. /\ a.ret \in BOOLEAN
      /\ a.ret => x # NULL /\ x # c /\ Appended(a.heap, h, c, x)
      /\ ~a.ret => a.heap = h
  BY <1>2, <1>3
<1>5. x # NULL /\ memory => a.ret
  BY DEF add_item_to_object, add_item_to_array, Returns
<1> QED
  BY <1>4, <1>5 DEF AddedNew

\* A reference is made and added to an array.
LEMMA ReferenceToArrayStep ==
  ASSUME WellLinked(heap, held), NEW c \in Item, IsOwner(heap, c),
         NEW r, MadeAlone(r, heap, held),
         heap' = add_item_to_array(r.heap, c, r.ret).heap, held' = held
  PROVE  [Forest!Next]_(Forest!vars)
<1> DEFINE x == r.ret
           h == r.heap
           G == held \cup ({x} \ {NULL})
           a == add_item_to_array(h, c, x)
<1>1. /\ x \in Link /\ x # c /\ WellLinked(h, G) /\ IsOwner(h, c)
      /\ x # NULL => c \notin Deleted(h, x)
  BY NewApart
<1>2. x \in G \cup {NULL} /\ (x # NULL /\ c \in Deleted(h, x) => c = x)
  BY <1>1
<1>3. heap' = a.heap
  OBVIOUS
<1> HIDE DEF G
<1>4. /\ a.ret \in BOOLEAN
      /\ a.ret => x # NULL /\ x # c /\ Appended(a.heap, h, c, x)
      /\ ~a.ret => a.heap = h
  BY <1>1, <1>2, AddedToArray
<1>5. /\ a.ret \in BOOLEAN
      /\ a.ret <=> x # NULL /\ x # c
      /\ a.ret => WellLinked(a.heap, G \ {x})
      /\ ~a.ret => a.heap = h
  BY <1>1, <1>2, AddLinks
<1> HIDE DEF a
<1>6. \/ x # NULL /\ Appended(a.heap, h, c, x)
      \/ x = NULL /\ a.heap = h
  BY <1>1, <1>4, <1>5
<1> QED
  BY <1>3, <1>6, AppendNewStep

\* A reference is made and added to an object, its key being copied.
LEMMA ReferenceToObjectStep ==
  ASSUME WellLinked(heap, held), NEW c \in Item, IsOwner(heap, c),
         NEW r, MadeAlone(r, heap, held), NEW k \in Key, NEW memory \in BOOLEAN, memory,
         NEW a, a = add_item_to_object(r.heap, c, k, r.ret, FALSE, memory),
         heap' = a.heap, held' = held
  PROVE  [Forest!Next]_(Forest!vars)
<1> DEFINE x == r.ret
           h == r.heap
           G == held \cup ({x} \ {NULL})
<1>1. /\ x \in Link /\ x # c /\ WellLinked(h, G) /\ IsOwner(h, c)
      /\ x # NULL => c \notin Deleted(h, x)
  BY NewApart
<1>2. x \in G \cup {NULL} /\ a = add_item_to_object(h, c, k, x, FALSE, memory)
  OBVIOUS
<1> HIDE DEF G, x, h
<1>3. AddedNew(a, h, c, x, memory)
  BY <1>1, <1>2, NewAddedToObject
<1>4. \/ x # NULL /\ Appended(a.heap, h, c, x)
      \/ x = NULL /\ a.heap = h
  BY <1>3 DEF AddedNew
<1> QED
  BY <1>4, AppendNewStep DEF x, h

\* An item is made and added to an object, or deleted again.
LEMMA AddNewStep ==
  ASSUME WellLinked(heap, held), NEW c \in Item, IsOwner(heap, c),
         NEW r, MadeAlone(r, heap, held), NEW k \in Key, NEW memory \in BOOLEAN,
         NEW a, a = add_item_to_object(r.heap, c, k, r.ret, FALSE, memory),
         heap' = IF a.ret THEN a.heap ELSE cJSON_Delete(a.heap, r.ret),
         held' = held
  PROVE  [Forest!Next]_(Forest!vars)
<1> DEFINE x == r.ret
           h == r.heap
           G == held \cup ({x} \ {NULL})
<1>1. /\ x \in Link /\ x # c /\ WellLinked(h, G) /\ IsOwner(h, c)
      /\ x # NULL => c \notin Deleted(h, x)
  BY NewApart
<1>2. x \in G \cup {NULL} /\ a = add_item_to_object(h, c, k, x, FALSE, memory)
  OBVIOUS
<1> HIDE DEF G, x, h
<1>3. AddedNew(a, h, c, x, memory)
  BY <1>1, <1>2, NewAddedToObject
<1>4. CASE a.ret
  <2>1. heap' = a.heap
    BY <1>4
  <2> QED
    BY <1>3, <1>4, <2>1, AppendNewStep DEF x, h, AddedNew
<1>5. CASE ~a.ret
  <2>1. heap' = cJSON_Delete(h, x)
    BY <1>3, <1>5 DEF x, AddedNew
  <2> QED
    BY <2>1, MadeAndDeletedStep DEF x, h
<1> QED
  BY <1>4, <1>5

\* A call that adds a root at the end of a list, or fails.
LEMMA AddStep ==
  ASSUME WellLinked(heap, held), NEW r, NEW i \in held, Adopt(r, i),
         NEW G, WellLinked(heap', G), NEW c \in Item, IsOwner(heap, c),
         c \in Deleted(heap, i) => c = i, r.ret \in BOOLEAN,
         r.ret => i # NULL /\ i # c /\ Appended(r.heap, heap, c, i),
         ~r.ret => r.heap = heap
  PROVE  [Forest!Next]_(Forest!vars)
<1>1. WellLinked(r.heap, G)
  BY DEF Adopt
<1>2. i \in Item
  BY DEF WellLinked, Links, IsRoot
<1>3. r.ret => c \notin Deleted(heap, i) /\ Inserted(r.heap, heap, c, i)
  BY <1>2, AppendedInserted
<1>4. ~r.ret => r.heap.live = heap.live /\ Kids(r.heap) = Kids(heap)
  OBVIOUS
<1> QED
  BY <1>1, <1>3, <1>4, AdoptStep

\* A call of the client is a step of JsonForest, or none.
LEMMA NextForest ==
  FALSE \notin ReferenceKeyMemory =>
    (IInv /\ [Next]_vars => [Forest!Next]_(Forest!vars))
<1> SUFFICES ASSUME FALSE \notin ReferenceKeyMemory, IInv, [Next]_vars
             PROVE  [Forest!Next]_(Forest!vars)
  OBVIOUS
<1> USE NULLAssumption
<1>a. WellLinked(heap, held)
  BY DEF IInv, Linked, Claims
<1>b. PICK owner : Links(heap, owner, held)
  BY <1>a DEF WellLinked
<1>c. heap \in Heap /\ held \subseteq heap.live /\ held \subseteq Item
  BY <1>b DEF Links, IsRoot
<1>d. PICK G : WellLinked(heap', G)
  BY NextIInv DEF IInv, Linked
<1>e. Cardinality(Item) \in Nat
  BY ItemAssumption, FS_CardinalityType
<1>1. CASE CreateItem
  <2>1. PICK address \in Address, text \in Text, memory \in BOOLEAN :
           Give(Create(heap, address, text, memory))
    BY <1>1 DEF CreateItem
  <2>2. text \in BOOLEAN /\ address \in (Item \ heap.live) \cup {NULL}
    BY TreeAssumption DEF Address
  <2>3. MadeAlone(Create(heap, address, text, memory), heap, held)
    BY <1>a, <2>2, CreateLinks
  <2> QED
    BY <1>a, <2>1, <2>3, GiveAloneStep
<1>2. CASE CreateReference
  <2>1. PICK address \in Address, child \in heap.live :
           Give(CreateReferenceTo(heap, address, child))
    BY <1>2 DEF CreateReference
  <2>2. address \in (Item \ heap.live) \cup {NULL}
    BY DEF Address
  <2>3. MadeAlone(CreateReferenceTo(heap, address, child), heap, held)
    BY <1>a, <2>2, ReferenceLinks
  <2> QED
    BY <1>a, <2>1, <2>3, GiveAloneStep
<1>3. CASE CreateFilledArray
  <2>1. PICK count \in 0 .. MaxCount :
           \E built \in 0 .. count + 1 :
             \E addresses \in [1 .. built -> Item \ heap.live] :
               /\ \A m, n \in 1 .. built : addresses[m] = addresses[n] => m = n
               /\ \/ Give(CreateNumberArray(heap, addresses, count))
                  \/ Give(CreateStringArray(heap, addresses, count))
    BY <1>3 DEF CreateFilledArray
  <2>2. count \in Nat
    BY <2>1, TreeAssumption
  <2>3. PICK built \in 0 .. count + 1 :
           \E addresses \in [1 .. built -> Item \ heap.live] :
             /\ \A m, n \in 1 .. built : addresses[m] = addresses[n] => m = n
             /\ \/ Give(CreateNumberArray(heap, addresses, count))
                \/ Give(CreateStringArray(heap, addresses, count))
    BY <2>1
  <2>4. PICK addresses \in [1 .. built -> Item \ heap.live] :
             /\ \A m, n \in 1 .. built : addresses[m] = addresses[n] => m = n
             /\ \/ Give(CreateNumberArray(heap, addresses, count))
                \/ Give(CreateStringArray(heap, addresses, count))
    BY <2>3
  <2>5. addresses \in Seq(Item \ heap.live) /\ Len(addresses) = built
    BY <2>2
  <2>6. \A m, n \in 1 .. Len(addresses) : addresses[m] = addresses[n] => m = n
    BY <2>4, <2>5
  <2> DEFINE Fills(r) ==
               \/ r.ret = NULL /\ r.heap = heap
               \/ r.ret # NULL /\ r.ret = addresses[1] /\ Grown(r.heap, heap, addresses)
  <2>7. Fills(CreateNumberArray(heap, addresses, count))
    BY <1>a, <2>2, <2>5, <2>6, NumberArrayGrown
  <2>8. Fills(CreateStringArray(heap, addresses, count))
    BY <1>a, <2>2, <2>5, <2>6, StringArrayGrown
  <2>9. ASSUME NEW r, Give(r), Fills(r) PROVE [Forest!Next]_(Forest!vars)
    <3>1. WellLinked(r.heap, G)
      BY <1>d, <2>9 DEF Give
    <3>2. r.ret = NULL => r.heap.live = heap.live /\ Kids(r.heap) = Kids(heap)
      BY <2>9
    <3>3. r.ret # NULL => r.ret = addresses[1] /\ Grown(r.heap, heap, addresses)
      BY <2>9
    <3> QED
      BY <1>a, <2>9, <3>1, <3>2, <3>3, GiveStep
  <2> HIDE DEF Fills
  <2> QED
    BY <2>4, <2>7, <2>8, <2>9
<1>4. CASE DeleteRoot
  <2>1. PICK i \in held : heap' = cJSON_Delete(heap, i) /\ held' = held \ {i}
    BY <1>4 DEF DeleteRoot
  <2> QED
    BY <1>a, <2>1, DeleteRootStep
<1>5. CASE cJSON_AddItemToArray
  <2>1. PICK c \in Item, i \in held :
           /\ CanAdopt(c, i) \/ (Container(c) /\ c = i)
           /\ Adopt(add_item_to_array(heap, c, i), i)
    BY <1>5 DEF cJSON_AddItemToArray
  <2> DEFINE r == add_item_to_array(heap, c, i)
  <2>2. IsOwner(heap, c) /\ (c \in Deleted(heap, i) => c = i)
    BY <2>1, AddedOther, ContainerOwns
  <2>3. i \in held \cup {NULL} /\ (i # NULL /\ c \in Deleted(heap, i) => c = i)
    BY <2>2
  <2>4. /\ r.ret \in BOOLEAN
        /\ r.ret => i # NULL /\ i # c /\ Appended(r.heap, heap, c, i)
        /\ ~r.ret => r.heap = heap
    BY <1>a, <2>2, <2>3, AddedToArray
  <2>5. Adopt(r, i)
    BY <2>1
  <2> HIDE DEF r
  <2> QED
    BY <1>a, <1>c, <1>d, <2>2, <2>4, <2>5, AddStep
<1>6. CASE cJSON_AddItemToObject
  <2>1. PICK c \in Item, i \in held, k \in Key :
           \E constant_key \in ConstantKey, memory \in BOOLEAN :
             /\ CanAdopt(c, i) \/ (Container(c) /\ c = i)
             /\ Adopt(add_item_to_object(heap, c, k, i, constant_key, memory), i)
    BY <1>6 DEF cJSON_AddItemToObject
  <2>2. PICK constant_key \in ConstantKey, memory \in BOOLEAN :
             Adopt(add_item_to_object(heap, c, k, i, constant_key, memory), i)
    BY <2>1
  <2> DEFINE r == add_item_to_object(heap, c, k, i, constant_key, memory)
  <2>3. /\ IsOwner(heap, c) /\ constant_key \in BOOLEAN
        /\ c \in Deleted(heap, i) => c = i
    BY <2>1, AddedOther, ContainerOwns, TreeAssumption
  <2>4. i \in held \cup {NULL} /\ (i # NULL /\ c \in Deleted(heap, i) => c = i)
    BY <2>3
  <2>5. /\ r.ret \in BOOLEAN
        /\ r.ret => i # NULL /\ i # c /\ Appended(r.heap, heap, c, i)
        /\ ~r.ret => r.heap = heap
    BY <1>a, <2>3, <2>4, AddedToObject
  <2>6. Adopt(r, i)
    BY <2>2
  <2> HIDE DEF r
  <2> QED
    BY <1>a, <1>c, <1>d, <2>3, <2>5, <2>6, AddStep
<1>7. CASE cJSON_AddItemReferenceToArray
  <2>1. PICK c \in Item, i \in heap.live, address \in Address :
           /\ Container(c)
           /\ heap' = add_item_to_array(create_reference(heap, i, address).heap, c,
                        create_reference(heap, i, address).ret).heap
           /\ held' = held
    BY <1>7 DEF cJSON_AddItemReferenceToArray
  <2> DEFINE r == create_reference(heap, i, address)
  <2>2. IsOwner(heap, c) /\ address \in (Item \ heap.live) \cup {NULL}
    BY <2>1, ContainerOwns DEF Address
  <2>3. MadeAlone(r, heap, held)
    BY <1>a, <2>2, ReferenceLinks
  <2>4. heap' = add_item_to_array(r.heap, c, r.ret).heap
    BY <2>1
  <2> HIDE DEF r
  <2> QED
    BY <1>a, <2>1, <2>2, <2>3, <2>4, ReferenceToArrayStep
<1>8. CASE cJSON_AddItemReferenceToObject
  <2>1. PICK c \in Item, i \in heap.live, k \in Key, address \in Address :
           \E memory \in ReferenceKeyMemory :
             /\ Container(c)
             /\ heap' = add_item_to_object(create_reference(heap, i, address).heap,
                          c, k, create_reference(heap, i, address).ret,
                          FALSE, memory).heap
             /\ held' = held
    BY <1>8 DEF cJSON_AddItemReferenceToObject
  <2> DEFINE r == create_reference(heap, i, address)
  <2>2. PICK memory \in ReferenceKeyMemory :
           heap' = add_item_to_object(r.heap, c, k, r.ret, FALSE, memory).heap
    BY <2>1
  <2>3. IsOwner(heap, c) /\ address \in (Item \ heap.live) \cup {NULL}
    BY <2>1, ContainerOwns DEF Address
  <2>4. memory \in BOOLEAN /\ memory
    BY <2>2, KeyMemory
  <2>5. MadeAlone(r, heap, held)
    BY <1>a, <2>3, ReferenceLinks
  <2> HIDE DEF r
  <2> DEFINE a == add_item_to_object(r.heap, c, k, r.ret, FALSE, memory)
  <2>6. a = add_item_to_object(r.heap, c, k, r.ret, FALSE, memory) /\ heap' = a.heap
    BY <2>2
  <2> HIDE DEF a
  <2> QED
    BY <1>a, <2>1, <2>3, <2>4, <2>5, <2>6, ReferenceToObjectStep
<1>9. CASE cJSON_AddXToObject
  <2>1. PICK c \in Item, k \in Key, address \in Address, text \in Text :
           \E memory, key_memory \in BOOLEAN :
             /\ Container(c)
             /\ AddNewToObject(c, k, address, text, memory, key_memory)
             /\ held' = held
    BY <1>9 DEF cJSON_AddXToObject
  <2>2. PICK memory \in BOOLEAN, key_memory \in BOOLEAN :
           AddNewToObject(c, k, address, text, memory, key_memory)
    BY <2>1
  <2> DEFINE r == Create(heap, address, text, memory)
             a == add_item_to_object(r.heap, c, k, r.ret, FALSE, key_memory)
  <2>3. /\ IsOwner(heap, c) /\ text \in BOOLEAN
        /\ address \in (Item \ heap.live) \cup {NULL}
    BY <2>1, ContainerOwns, TreeAssumption DEF Address
  <2>4. MadeAlone(r, heap, held)
    BY <1>a, <2>3, CreateLinks
  <2>5. heap' = IF a.ret THEN a.heap ELSE cJSON_Delete(a.heap, r.ret)
    BY <2>2 DEF AddNewToObject
  <2>6. a = add_item_to_object(r.heap, c, k, r.ret, FALSE, key_memory)
    OBVIOUS
  <2> HIDE DEF r, a
  <2> QED
    BY <1>a, <2>1, <2>3, <2>4, <2>5, <2>6, AddNewStep
<1>10. CASE InsertItemInArray
  <2>1. PICK c \in Item, i \in held, which \in 0 .. Cardinality(Item) :
           /\ CanAdopt(c, i)
           /\ Adopt(cJSON_InsertItemInArray(heap, c, which, i), i)
    BY <1>10 DEF InsertItemInArray
  <2> DEFINE r == cJSON_InsertItemInArray(heap, c, which, i)
  <2>2. /\ IsOwner(heap, c) /\ i # c
        /\ c \notin Deleted(heap, i) /\ which \in Nat
    BY <1>c, <1>e, <2>1, CanAdoptOther, ContainerOwns
  <2>3. r.ret \in BOOLEAN /\ r.ret /\ Inserted(r.heap, heap, c, i)
    BY <1>a, <2>2, InsertedInArray
  <2>4. Adopt(r, i)
    BY <2>1
  <2> HIDE DEF r
  <2>5. WellLinked(r.heap, G)
    BY <1>d, <2>4 DEF Adopt
  <2>6. r.ret => c \notin Deleted(heap, i) /\ Inserted(r.heap, heap, c, i)
    BY <2>2, <2>3
  <2>7. ~r.ret => r.heap.live = heap.live /\ Kids(r.heap) = Kids(heap)
    BY <2>3
  <2> QED
    BY <1>a, <2>2, <2>3, <2>4, <2>5, <2>6, <2>7, AdoptStep
<1>11. CASE DetachItemViaPointer
  <2>1. PICK c \in Item, i \in Item :
           /\ Container(c) /\ (InList(c, i) \/ i \in held)
           /\ Give(cJSON_DetachItemViaPointer(heap, c, i))
    BY <1>11 DEF DetachItemViaPointer
  <2>2. IsOwner(heap, c) /\ i \in Link
    BY <2>1, ContainerOwns DEF Link
  <2>3. i = NULL \/ i \in held \/ owner[i] = c
    BY <1>b, <2>1, <2>2, InListOwned
  <2> QED
    BY <1>b, <2>1, <2>2, <2>3, DetachStep
\* What both ways to take an item out do with it.
<1>t. ASSUME NEW c \in Item, IsOwner(heap, c),
             NEW x \in Link, x # NULL => owner[x] = c,
             \/ Give(cJSON_DetachItemViaPointer(heap, c, x))
             \/ DeleteDetached(cJSON_DetachItemViaPointer(heap, c, x))
      PROVE  [Forest!Next]_(Forest!vars)
  <2>1. CASE Give(cJSON_DetachItemViaPointer(heap, c, x))
    <3>1. x = NULL \/ x \in held \/ owner[x] = c
      BY <1>t
    <3> QED
      BY <1>b, <1>t, <2>1, <3>1, DetachStep
  <2>2. CASE DeleteDetached(cJSON_DetachItemViaPointer(heap, c, x))
    BY <1>b, <1>t, <2>2, DeleteChildStep
  <2> QED
    BY <1>t, <2>1, <2>2
<1>12. CASE TakeItemFromArray
  <2>1. PICK c \in Item, which \in 0 .. Cardinality(Item) :
           LET x == get_array_item(heap, c, which)
           IN  /\ Container(c)
               /\ \/ Give(cJSON_DetachItemViaPointer(heap, c, x))
                  \/ DeleteDetached(cJSON_DetachItemViaPointer(heap, c, x))
    BY <1>12 DEF TakeItemFromArray
  <2> DEFINE x == get_array_item(heap, c, which)
  <2>2. IsOwner(heap, c) /\ which \in Nat
    BY <1>e, <2>1, ContainerOwns
  <2>3. x \in Link /\ (x # NULL => owner[x] = c)
    BY <1>b, <2>2, GetArrayItemOwned
  <2>4. \/ Give(cJSON_DetachItemViaPointer(heap, c, x))
        \/ DeleteDetached(cJSON_DetachItemViaPointer(heap, c, x))
    BY <2>1
  <2> HIDE DEF x
  <2> QED
    BY <1>t, <2>2, <2>3, <2>4
<1>13. CASE TakeItemFromObject
  <2>1. PICK c \in Item, k \in Key, case_sensitive \in BOOLEAN :
           LET x == get_object_item(heap, c, k, case_sensitive)
           IN  /\ Container(c)
               /\ \/ Give(cJSON_DetachItemViaPointer(heap, c, x))
                  \/ DeleteDetached(cJSON_DetachItemViaPointer(heap, c, x))
    BY <1>13 DEF TakeItemFromObject
  <2> DEFINE x == get_object_item(heap, c, k, case_sensitive)
  <2>2. IsOwner(heap, c)
    BY <2>1, ContainerOwns
  <2>3. x \in Link /\ (x # NULL => owner[x] = c)
    BY <1>b, <2>2, GetObjectItemOwned
  <2>4. \/ Give(cJSON_DetachItemViaPointer(heap, c, x))
        \/ DeleteDetached(cJSON_DetachItemViaPointer(heap, c, x))
    BY <2>1
  <2> HIDE DEF x
  <2> QED
    BY <1>t, <2>2, <2>3, <2>4
<1>14. CASE ReplaceItemViaPointer
  <2>1. PICK c \in Item, i \in Item, item \in Item :
           /\ InList(c, item)
           /\ CanAdopt(c, i) \/ (Container(c) /\ i = item)
           /\ Adopt(cJSON_ReplaceItemViaPointer(heap, c, item, i), i)
    BY <1>14 DEF ReplaceItemViaPointer
  <2> DEFINE r == cJSON_ReplaceItemViaPointer(heap, c, item, i)
  <2>2. IsOwner(heap, c)
    BY <2>1, CanAdoptOther, ContainerOwns
  <2>3. item \in Link /\ owner[item] = c
    BY <1>b, <2>1, <2>2, InListOwned DEF Link
  <2>4. CASE i = item
    <3>1. owner[i] # NULL
      BY <2>3, <2>4
    <3>2. i \notin held /\ r.heap = heap
      <4>1. i \notin held
        BY <1>b, <3>1 DEF Links, IsRoot
      <4>2. r.heap = heap
        BY <2>4 DEF cJSON_ReplaceItemViaPointer, Returns
      <4> QED
        BY <4>1, <4>2
    <3>3. Adopt(r, i)
      BY <2>1
    <3> HIDE DEF r
    <3>4. heap' = heap /\ held' = held
      BY <3>2, <3>3 DEF Adopt
    <3> QED
      BY <3>4, StutterStep
  <2>5. CASE i # item
    <3>1. i \in held /\ i # c /\ c \notin Deleted(heap, i)
      BY <2>1, <2>5, CanAdoptOther
    <3>2. item # NULL => owner[item] = c
      BY <2>3
    <3>3. /\ r.ret \in BOOLEAN
          /\ r.ret => Swapped(r.heap, heap, c, i)
          /\ ~r.ret => r.heap = heap
      BY <1>b, <2>2, <2>3, <3>1, <3>2, ReplacedItem
    <3>4. Adopt(r, i)
      BY <2>1
    <3> HIDE DEF r
    <3>5. ~r.ret => r.heap.live = heap.live /\ Kids(r.heap) = Kids(heap)
      BY <3>3
    <3> QED
      BY <1>a, <2>2, <3>1, <3>3, <3>4, <3>5, SwapStep
  <2> QED
    BY <2>4, <2>5
<1>15. CASE cJSON_ReplaceItemInArray
  <2>1. PICK c \in Item, i \in Item, which \in 0 .. Cardinality(Item) :
           /\ CanAdopt(c, i)
           /\ Adopt(cJSON_ReplaceItemViaPointer(heap, c,
                      get_array_item(heap, c, which), i), i)
    BY <1>15 DEF cJSON_ReplaceItemInArray
  <2> DEFINE x == get_array_item(heap, c, which)
             r == cJSON_ReplaceItemViaPointer(heap, c, x, i)
  <2>2. /\ IsOwner(heap, c) /\ which \in Nat
        /\ i \in held /\ i # c /\ c \notin Deleted(heap, i)
    BY <1>e, <2>1, CanAdoptOther, ContainerOwns
  <2>3. x \in Link /\ (x # NULL => owner[x] = c)
    BY <1>b, <2>2, GetArrayItemOwned
  <2>4. Adopt(r, i)
    BY <2>1
  <2> HIDE DEF x
  <2>5. /\ r.ret \in BOOLEAN
        /\ r.ret => Swapped(r.heap, heap, c, i)
        /\ ~r.ret => r.heap = heap
    BY <1>b, <2>2, <2>3, ReplacedItem
  <2> HIDE DEF r
  <2>6. ~r.ret => r.heap.live = heap.live /\ Kids(r.heap) = Kids(heap)
    BY <2>5
  <2> QED
    BY <1>a, <2>2, <2>4, <2>5, <2>6, SwapStep
<1>16. CASE cJSON_ReplaceItemInObject
  <2>1. PICK c \in Item, i \in Item, k \in Key :
           \E case_sensitive, memory \in BOOLEAN :
             /\ CanAdopt(c, i)
             /\ Adopt(replace_item_in_object(heap, c, k, i, case_sensitive, memory), i)
    BY <1>16 DEF cJSON_ReplaceItemInObject
  <2>2. PICK case_sensitive \in BOOLEAN, memory \in BOOLEAN :
           Adopt(replace_item_in_object(heap, c, k, i, case_sensitive, memory), i)
    BY <2>1
  <2> DEFINE r == replace_item_in_object(heap, c, k, i, case_sensitive, memory)
  <2>3. IsOwner(heap, c) /\ i \in held /\ i # c /\ c \notin Deleted(heap, i)
    BY <2>1, CanAdoptOther, ContainerOwns
  <2>4. /\ r.ret \in BOOLEAN
        /\ r.ret => Swapped(r.heap, heap, c, i)
        /\ ~r.ret => r.heap.live = heap.live /\ Kids(r.heap) = Kids(heap)
    BY <1>a, <2>3, ReplacedInObject
  <2>5. Adopt(r, i)
    BY <2>2
  <2> HIDE DEF r
  <2> QED
    BY <1>a, <2>3, <2>4, <2>5, SwapStep
<1>17. CASE UNCHANGED vars
  <2>1. heap' = heap /\ held' = held
    BY <1>17 DEF vars
  <2> QED
    BY <2>1, StutterStep
<1> QED
  BY <1>1, <1>2, <1>3, <1>4, <1>5, <1>6, <1>7, <1>8, <1>9, <1>10, <1>11,
     <1>12, <1>13, <1>14, <1>15, <1>16, <1>17 DEF Next

\* cJSON_Duplicate makes a tree, or fails.
LEMMA DuplicateForest ==
  FALSE \notin ReferenceKeyMemory =>
    (IInv /\ Duplicate => [Forest!Next]_(Forest!vars))
<1> SUFFICES ASSUME FALSE \notin ReferenceKeyMemory, IInv, Duplicate
             PROVE  [Forest!Next]_(Forest!vars)
  OBVIOUS
<1>1. PICK call : Give(call) /\ Copied(heap, call)
  BY DuplicateCall
<1>2. WellLinked(heap, held)
  BY DEF IInv, Linked, Claims
<1>3. heap' = call.heap /\ held' = held \cup ({call.ret} \ {NULL})
  BY <1>1 DEF Give
<1>4. CASE call.ret = NULL
  <2>1. heap' = heap /\ held' = held
    BY <1>1, <1>3, <1>4 DEF Copied
  <2> QED
    BY <2>1, StutterStep
<1>5. CASE call.ret # NULL
  <2>1. CopyOf(heap, call.heap, call.ret) /\ call.heap \in Heap
    BY <1>1, <1>5 DEF Copied, CopyOf, Adds
  <2>2. Planted(call.heap, heap, call.ret)
    BY <1>2, <2>1, CopyPlanted
  <2>3. held' = held \cup {call.ret}
    BY <1>3, <1>5
  <2>4. Forest!Next
    BY <1>3, <2>1, <2>2, <2>3, CreateStep
  <2> QED
    BY <2>4
<1> QED
  BY <1>4, <1>5

\* There are no trees at first.
LEMMA InitForest == Init => Forest!Init
<1> SUFFICES ASSUME Init PROVE Forest!Init
  OBVIOUS
<1>1. heap = EmptyHeap /\ held = {}
  BY DEF Init
<1>2. heap.live = {}
  BY <1>1 DEF EmptyHeap
<1>3. \A c \in Item : Children(heap, c) = << >>
  BY <1>2, NoChildren DEF IsOwner
<1>4. Kids(heap) = [i \in Item |-> << >>]
  BY <1>3 DEF Kids
<1> QED
  BY <1>1, <1>2, <1>4 DEF Forest!Init

\* Whatever the client does through the pointers of the items, cJSON_Duplicate
\* included, is something that JsonForest does with sequences: the list
\* functions keep what README.md, "Data Structure", promises, and a copy is a
\* tree of its own, unless a reference is lost for want of memory for its key
\* (cJSON_AddItemReferenceToObject).
THEOREM ImplementsForest ==
  ASSUME FALSE \notin ReferenceKeyMemory
  PROVE  CopySpec => ForestSpec
<1>1. Init => Forest!Init
  BY InitForest
<1>2. IInv /\ [Next \/ Duplicate]_vars => [Forest!Next]_(Forest!vars)
  BY NextForest, DuplicateForest
<1> QED
  BY <1>1, <1>2, Invariance, PTL DEF CopySpec, ForestSpec, Forest!Spec

=============================================================================

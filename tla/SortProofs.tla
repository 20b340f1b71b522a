----------------------------- MODULE SortProofs -----------------------------
(***************************************************************************)
(* cJSONUtils_SortObject, for objects of any number of members.            *)
(***************************************************************************)
EXTENDS ObjectSort, ItemLinksProofs, SequenceTheorems

-----------------------------------------------------------------------------
(* Lists of items.                                                         *)

Distinct(list) == \A m, n \in 1 .. Len(list) : list[m] = list[n] => m = n

\* Where Place finds an item.
LEMMA PlaceOf ==
  ASSUME NEW list \in Seq(Item), NEW i
  PROVE  /\ Place(list, i) \in 0 .. Len(list)
         /\ Place(list, i) # 0 => list[Place(list, i)] = i
         /\ \A n \in 1 .. Len(list) : list[n] = i => Place(list, i) \in 1 .. n
<1> DEFINE I == {n \in 1 .. Len(list) : list[n] = i}
<1>1. Len(list) \in Nat
  OBVIOUS
<1>2. Place(list, i) = IF I # {} THEN Min(I) ELSE 0
  BY Zenon DEF Place, SelectInSeq
<1>3. CASE I = {}
  BY <1>1, <1>2, <1>3
<1>4. CASE I # {}
  <2>1. I \in SUBSET Nat
    BY <1>1
  <2>2. \E x \in I : \A y \in I : x <= y
    <3> HIDE DEF I
    <3> QED
      BY <1>4, <2>1, LeastNat
  <2>3. Min(I) \in I /\ \A y \in I : Min(I) <= y
    <3> HIDE DEF I
    <3> QED
      BY <2>2 DEF Min
  <2>4. Place(list, i) = Min(I)
    BY <1>2, <1>4
  <2> HIDE DEF I
  <2>5. Place(list, i) \in I /\ \A y \in I : Place(list, i) <= y
    BY <2>3, <2>4
  <2> QED
    BY <1>1, <2>5 DEF I
<1> QED
  BY <1>3, <1>4

\* In a list without repetitions an item is at one place.
LEMMA PlaceInDistinct ==
  ASSUME NEW list \in Seq(Item), Distinct(list), NEW n \in 1 .. Len(list)
  PROVE  Place(list, list[n]) = n
<1>1. Place(list, list[n]) \in 1 .. n
  BY PlaceOf
<1>2. list[Place(list, list[n])] = list[n]
  BY <1>1, PlaceOf
<1>3. Len(list) \in Nat
  OBVIOUS
<1>4. Place(list, list[n]) \in 1 .. Len(list)
  BY <1>1, <1>3
<1> QED
  BY <1>2, <1>4 DEF Distinct

\* What relinking leaves, whatever the list.
LEMMA RelinkedHeap ==
  ASSUME NEW h \in Heap, NEW list \in Seq(Item)
  PROVE  /\ Relinked(h, list) \in Heap
         /\ Relinked(h, list).string = h.string
         /\ Relinked(h, list).child = h.child
<1> DEFINE next == [i \in Item |-> IF Place(list, i) \in 1 .. Len(list) - 1
                                  THEN list[Place(list, i) + 1] ELSE h.next[i]]
           prev == [i \in Item |-> IF Place(list, i) > 1
                                  THEN list[Place(list, i) - 1] ELSE h.prev[i]]
<1>1. Len(list) \in Nat /\ \A n \in 1 .. Len(list) : list[n] \in Link
  BY DEF Link
<1>2. ASSUME NEW i \in Item PROVE next[i] \in Link /\ prev[i] \in Link
  <2>1. Place(list, i) \in 0 .. Len(list)
    BY PlaceOf
  <2>2. h.next[i] \in Link /\ h.prev[i] \in Link
    BY DEF Heap
  <2> QED
    BY <1>1, <2>1, <2>2
<1>3. next \in [Item -> Link] /\ prev \in [Item -> Link]
  BY <1>2
<1>4. Relinked(h, list) = [h EXCEPT !.next = next, !.prev = prev]
  BY DEF Relinked
<1> HIDE DEF next, prev
<1> QED
  BY <1>3, <1>4 DEF Heap

\* An item in front of a list.
LEMMA InFront ==
  ASSUME NEW a \in Item, NEW r \in Seq(Item)
  PROVE  LET u == <<a>> \o r
         IN  /\ u \in Seq(Item) /\ Len(u) = Len(r) + 1 /\ u[1] = a
             /\ \A n \in 1 .. Len(r) : u[n + 1] = r[n]
             /\ \A n \in 2 .. Len(u) : u[n] = r[n - 1]
OBVIOUS

\* The rest of a list.
LEMMA RestOf ==
  ASSUME NEW s \in Seq(Item), s # << >>
  PROVE  /\ s[1] \in Item /\ Len(s) \in Nat \ {0}
         /\ Tail(s) \in Seq(Item) /\ Len(Tail(s)) = Len(s) - 1
         /\ \A n \in 1 .. Len(s) - 1 : Tail(s)[n] = s[n + 1]
OBVIOUS

-----------------------------------------------------------------------------
(* Merging.                                                                *)

\* What one round of the loop does with two lists, given what it does with
\* the lists that are left.
MergeStep(h, c, x, f) ==
  LET a == x[1]
      b == x[2]
  IN  IF a = << >> \/ b = << >> THEN a \o b
      ELSE IF Less(h, a[1], b[1], c)
      THEN <<a[1]>> \o f[<<Tail(a), b>>]
      ELSE <<b[1]>> \o f[<<a, Tail(b)>>]

Pairs == Seq(Item) \X Seq(Item)

\* What Merge makes of two lists, and what one round leaves to the next one.
MergeRounds(h, s, t, c) ==
  /\ s = << >> \/ t = << >> => Merge(h, s, t, c) = s \o t
  /\ s # << >> /\ t # << >> /\ Less(h, s[1], t[1], c)
       => Merge(h, s, t, c) = <<s[1]>> \o Merge(h, Tail(s), t, c)
  /\ s # << >> /\ t # << >> /\ ~Less(h, s[1], t[1], c)
       => Merge(h, s, t, c) = <<t[1]>> \o Merge(h, s, Tail(t), c)

\* Merge is what the rounds of its loop make of the two lists.
LEMMA MergeUnfolds ==
  ASSUME NEW h \in Heap, NEW c, NEW s \in Seq(Item), NEW t \in Seq(Item)
  PROVE  MergeRounds(h, s, t, c)
<1> USE DEF MergeRounds
<1> DEFINE Solution(f) == f = [x \in Pairs |-> MergeStep(h, c, x, f)]
           merge == CHOOSE f : Solution(f)
           V == Seq(Item)
           m == [x \in Pairs |-> Len(x[1]) + Len(x[2])]
           G == [z \in Pairs \X [Pairs -> V] |-> MergeStep(h, c, z[1], z[2])]
<1>1. m \in [Pairs -> Nat]
  <2>1. ASSUME NEW x \in Pairs PROVE Len(x[1]) + Len(x[2]) \in Nat
    <3>1. x[1] \in Seq(Item) /\ x[2] \in Seq(Item)
      BY DEF Pairs
    <3>2. \A a, b \in Seq(Item) : Len(a) + Len(b) \in Nat
      OBVIOUS
    <3> QED
      BY <3>1, <3>2, Zenon
  <2> QED
    BY <2>1
<1>2. ASSUME NEW x \in Pairs, x[1] # << >>, x[2] # << >>
      PROVE  /\ <<Tail(x[1]), x[2]>> \in Pairs /\ m[<<Tail(x[1]), x[2]>>] < m[x]
             /\ <<x[1], Tail(x[2])>> \in Pairs /\ m[<<x[1], Tail(x[2])>>] < m[x]
  <2>1. x[1] \in Seq(Item) /\ x[2] \in Seq(Item)
    BY DEF Pairs
  <2>2. <<Tail(x[1]), x[2]>> \in Pairs /\ <<x[1], Tail(x[2])>> \in Pairs
    BY <1>2, <2>1, RestOf DEF Pairs
  <2>3. /\ m[x] = Len(x[1]) + Len(x[2])
        /\ m[<<Tail(x[1]), x[2]>>] = Len(Tail(x[1])) + Len(x[2])
        /\ m[<<x[1], Tail(x[2])>>] = Len(x[1]) + Len(Tail(x[2]))
    BY <2>2
  <2>4. ASSUME NEW a \in Seq(Item), NEW b \in Seq(Item), a # << >>
        PROVE  /\ Len(Tail(a)) + Len(b) < Len(a) + Len(b)
               /\ Len(b) + Len(Tail(a)) < Len(b) + Len(a)
    BY <2>4
  <2>5. /\ Len(Tail(x[1])) + Len(x[2]) < Len(x[1]) + Len(x[2])
        /\ Len(x[1]) + Len(Tail(x[2])) < Len(x[1]) + Len(x[2])
    BY <1>2, <2>1, <2>4, Zenon
  <2> HIDE DEF m
  <2> QED
    BY <2>2, <2>3, <2>5, Zenon
<1>3. ASSUME NEW x \in Pairs, NEW f \in [Pairs -> V]
      PROVE  G[<<x, f>>] = MergeStep(h, c, x, f) /\ G[<<x, f>>] \in V
  <2>1. x[1] \in Seq(Item) /\ x[2] \in Seq(Item)
    BY DEF Pairs
  <2>2. G[<<x, f>>] = MergeStep(h, c, x, f)
    OBVIOUS
  <2>3. MergeStep(h, c, x, f) \in V
    <3>1. CASE x[1] = << >> \/ x[2] = << >>
      BY <2>1, <3>1 DEF MergeStep
    <3>2. CASE x[1] # << >> /\ x[2] # << >>
      <4>1. f[<<Tail(x[1]), x[2]>>] \in Seq(Item) /\ f[<<x[1], Tail(x[2])>>] \in Seq(Item)
        BY <1>2, <3>2
      <4>2. x[1][1] \in Item /\ x[2][1] \in Item
        BY <2>1, <3>2, RestOf
      <4>3. /\ <<x[1][1]>> \o f[<<Tail(x[1]), x[2]>>] \in V
            /\ <<x[2][1]>> \o f[<<x[1], Tail(x[2])>>] \in V
        BY <4>1, <4>2, InFront
      <4> QED
        BY <3>2, <4>3 DEF MergeStep
    <3> QED
      BY <3>1, <3>2
  <2> QED
    BY <2>2, <2>3
<1>4. G \in [Pairs \X [Pairs -> V] -> V]
  <2>1. ASSUME NEW z \in Pairs \X [Pairs -> V] PROVE MergeStep(h, c, z[1], z[2]) \in V
    <3>1. z[1] \in Pairs /\ z[2] \in [Pairs -> V]
      OBVIOUS
    <3> HIDE DEF V
    <3> QED
      BY <1>3, <3>1
  <2> QED
    BY <2>1
<1>5. ASSUME NEW x \in Pairs, NEW f \in [Pairs -> V], NEW g \in [Pairs -> V],
             \A y \in Pairs : m[y] < m[x] => f[y] = g[y]
      PROVE  G[<<x, f>>] = G[<<x, g>>]
  <2>1. MergeStep(h, c, x, f) = MergeStep(h, c, x, g)
    <3>1. CASE x[1] = << >> \/ x[2] = << >>
      BY <3>1 DEF MergeStep
    <3>2. CASE x[1] # << >> /\ x[2] # << >>
      <4> HIDE DEF m
      <4>1. /\ f[<<Tail(x[1]), x[2]>>] = g[<<Tail(x[1]), x[2]>>]
            /\ f[<<x[1], Tail(x[2])>>] = g[<<x[1], Tail(x[2])>>]
        BY <1>2, <1>5, <3>2
      <4> QED
        BY <4>1 DEF MergeStep
    <3> QED
      BY <3>1, <3>2
  <2> HIDE DEF G
  <2> QED
    BY <1>3, <2>1
<1>6. \E f \in [Pairs -> V] : \A x \in Pairs : f[x] = G[<<x, f>>]
  <2>1. V # {}
    BY EmptySeq
  <2> HIDE DEF m, G, V
  <2>2. DescendsAlong(m, G, Pairs, V)
    BY <1>1, <1>4, <1>5, <2>1 DEF DescendsAlong
  <2> QED
    BY <2>2, Recursion
<1>7. \E f : Solution(f)
  <2>1. PICK f \in [Pairs -> V] : \A x \in Pairs : f[x] = G[<<x, f>>]
    BY <1>6
  <2> HIDE DEF G
  <2>2. \A x \in Pairs : f[x] = MergeStep(h, c, x, f)
    BY <1>3, <2>1
  <2> QED
    BY <2>2
<1>8. merge = [x \in Pairs |-> MergeStep(h, c, x, merge)]
  BY <1>7
<1>9. ASSUME NEW a \in Seq(Item), NEW b \in Seq(Item)
      PROVE  Merge(h, a, b, c) = merge[<<a, b>>]
  BY Zenon DEF Merge, MergeStep, Pairs
<1>10. <<s, t>> \in Pairs
  BY DEF Pairs
<1> HIDE DEF merge
<1>11. merge[<<s, t>>] = MergeStep(h, c, <<s, t>>, merge)
  BY <1>8, <1>10
<1>12. CASE s = << >> \/ t = << >>
  BY <1>9, <1>11, <1>12 DEF MergeStep
<1>13. CASE s # << >> /\ t # << >>
  <2>1. Tail(s) \in Seq(Item) /\ Tail(t) \in Seq(Item)
    BY <1>13, RestOf
  <2> QED
    BY <1>9, <1>11, <1>13, <2>1 DEF MergeStep
<1> QED
  BY <1>12, <1>13

Named(h, list) == \A n \in 1 .. Len(list) : h.string[list[n]] # NULL

\* No item comes before one that is smaller.
Sorted(h, list, c) ==
  \A m, n \in 1 .. Len(list) : m < n => ~Less(h, list[n], list[m], c)

\* Among items with names "not smaller" is a total order.
LEMMA NotLessIsOrder ==
  ASSUME NEW h \in Heap, NEW c, NEW x \in Item, NEW y \in Item, NEW z \in Item,
         h.string[x] # NULL, h.string[y] # NULL, h.string[z] # NULL
  PROVE  /\ ~Less(h, x, y, c) /\ ~Less(h, y, z, c) => ~Less(h, x, z, c)
         /\ Less(h, x, y, c) => ~Less(h, y, x, c)
         /\ ~Less(h, x, x, c)
<1> USE SortAssumption, LowerAssumption
<1>1. h.string[x] \in Key /\ h.string[y] \in Key /\ h.string[z] \in Key
  BY DEF Heap
<1>2. \A k \in Key : rank[k] \in Nat /\ lower[k] \in Key /\ rank[lower[k]] \in Nat
  OBVIOUS
<1> DEFINE r(i) == IF c THEN rank[h.string[i]] ELSE rank[lower[h.string[i]]]
<1>3. r(x) \in Nat /\ r(y) \in Nat /\ r(z) \in Nat
  BY <1>1, <1>2
<1>4. ASSUME NEW i \in {x, y, z}, NEW j \in {x, y, z}
      PROVE  Less(h, i, j, c) <=> r(i) < r(j)
  BY DEF Less
<1> HIDE DEF r
<1> QED
  BY <1>3, <1>4

\* The members of a list.
LEMMA ListMembers ==
  ASSUME NEW s \in Seq(Item)
  PROVE  /\ ToSet(s) = {s[n] : n \in 1 .. Len(s)}
         /\ \A x : x \in ToSet(s) <=> \E n \in 1 .. Len(s) : s[n] = x
BY DEF ToSet

\* The members of a list with one more in front.
LEMMA MembersInFront ==
  ASSUME NEW p \in Seq(Item), NEW q \in Seq(Item), Len(q) = Len(p) + 1,
         \A n \in 1 .. Len(p) : q[n + 1] = p[n]
  PROVE  ToSet(q) = {q[1]} \cup ToSet(p)
<1>1. Len(p) \in Nat /\ Len(q) \in Nat
  OBVIOUS
<1>2. ASSUME NEW n \in 1 .. Len(q), n # 1 PROVE q[n] \in ToSet(p)
  <2>1. n - 1 \in 1 .. Len(p) /\ (n - 1) + 1 = n
    BY <1>1, <1>2
  <2>2. q[(n - 1) + 1] = p[n - 1]
    BY <2>1
  <2>3. q[n] = p[n - 1]
    BY <2>1, <2>2
  <2> QED
    BY <2>1, <2>3, ListMembers
<1>3. ASSUME NEW n \in 1 .. Len(p) PROVE p[n] \in ToSet(q)
  <2>1. n + 1 \in 1 .. Len(q)
    BY <1>1
  <2> QED
    BY <2>1, ListMembers
<1>4. q[1] \in ToSet(q)
  <2>1. 1 \in 1 .. Len(q)
    BY <1>1
  <2> QED
    BY <2>1, ListMembers
<1>5. \A x \in ToSet(q) : x = q[1] \/ x \in ToSet(p)
  <2>1. ASSUME NEW x \in ToSet(q) PROVE x = q[1] \/ x \in ToSet(p)
    <3>1. PICK n \in 1 .. Len(q) : q[n] = x
      BY ListMembers
    <3> QED
      BY <1>2, <3>1
  <2> QED
    BY <2>1
<1>6. \A x \in ToSet(p) : x \in ToSet(q)
  <2>1. ASSUME NEW x \in ToSet(p) PROVE x \in ToSet(q)
    <3>1. PICK n \in 1 .. Len(p) : p[n] = x
      BY ListMembers
    <3> QED
      BY <1>3, <3>1
  <2> QED
    BY <2>1
<1> QED
  BY <1>4, <1>5, <1>6

\* The list u is s and t merged.
IsMerge(h, s, t, c, u) ==
  /\ u \in Seq(Item) /\ Len(u) = Len(s) + Len(t)
  /\ ToSet(u) = ToSet(s) \cup ToSet(t)
  /\ s # << >> /\ t # << >> => u[1] = s[1] \/ u[1] = t[1]
  /\ u # << >> => \/ s # << >> /\ u[Len(u)] = s[Len(s)]
                  \/ t # << >> /\ u[Len(u)] = t[Len(t)]
  /\ Distinct(s) /\ Distinct(t) /\ ToSet(s) \cap ToSet(t) = {} => Distinct(u)
  /\ Sorted(h, s, c) /\ Sorted(h, t, c) /\ Named(h, s) /\ Named(h, t) => Sorted(h, u, c)

\* The two lists play the same part.
LEMMA MergeSymmetric ==
  ASSUME NEW h, NEW c, NEW s \in Seq(Item), NEW t \in Seq(Item), NEW u,
         IsMerge(h, s, t, c, u)
  PROVE  IsMerge(h, t, s, c, u)
<1>1. Len(s) + Len(t) = Len(t) + Len(s)
  OBVIOUS
<1>2. ToSet(s) \cup ToSet(t) = ToSet(t) \cup ToSet(s) /\ ToSet(s) \cap ToSet(t) = ToSet(t) \cap ToSet(s)
  OBVIOUS
<1> QED
  BY <1>1, <1>2, Zenon DEF IsMerge

\* Nothing is merged with an empty list.
LEMMA MergedWithNothing ==
  ASSUME NEW h, NEW c, NEW s \in Seq(Item)
  PROVE  IsMerge(h, << >>, s, c, s)
<1>1. ToSet(<< >>) = {} /\ Len(<< >>) = 0 /\ << >> \in Seq(Item)
  BY DEF ToSet
<1> QED
  BY <1>1 DEF IsMerge

\* The first of one list, put in front of what its rest and the other list
\* are merged to, if nothing in the other one is smaller.
LEMMA MergedInFront ==
  ASSUME NEW h, NEW c, NEW s \in Seq(Item), s # << >>, NEW t \in Seq(Item), NEW r,
         IsMerge(h, Tail(s), t, c, r),
         Sorted(h, s, c) /\ Sorted(h, t, c) /\ Named(h, s) /\ Named(h, t)
           => \A n \in 1 .. Len(t) : ~Less(h, t[n], s[1], c)
  PROVE  IsMerge(h, s, t, c, <<s[1]>> \o r)
<1> DEFINE v == Tail(s)
           u == <<s[1]>> \o r
<1>1. /\ s[1] \in Item /\ Len(s) \in Nat \ {0}
      /\ v \in Seq(Item) /\ Len(v) = Len(s) - 1
      /\ \A n \in 1 .. Len(s) - 1 : v[n] = s[n + 1]
  BY RestOf
<1>2. r \in Seq(Item) /\ Len(r) = Len(v) + Len(t) /\ Len(t) \in Nat /\ Len(r) \in Nat
  BY DEF IsMerge
<1>3. /\ u \in Seq(Item) /\ Len(u) = Len(r) + 1 /\ u[1] = s[1]
      /\ \A n \in 1 .. Len(r) : u[n + 1] = r[n]
      /\ \A n \in 2 .. Len(u) : u[n] = r[n - 1]
  BY <1>1, <1>2, InFront
<1>i. IsMerge(h, v, t, c, r)
  OBVIOUS
<1> HIDE DEF u, v
<1>4. ToSet(s) = {s[1]} \cup ToSet(v)
  <2>1. Len(s) = Len(v) + 1 /\ \A n \in 1 .. Len(v) : s[n + 1] = v[n]
    BY <1>1
  <2> QED
    BY <1>1, <2>1, MembersInFront
<1>5. ToSet(u) = {s[1]} \cup ToSet(r)
  BY <1>2, <1>3, MembersInFront
<1>6. ToSet(u) = ToSet(s) \cup ToSet(t)
  BY <1>4, <1>5, <1>i DEF IsMerge
<1>7. ASSUME Distinct(s), Distinct(t), ToSet(s) \cap ToSet(t) = {}
      PROVE  Distinct(u)
  <2>1. Distinct(v)
    <3>1. ASSUME NEW m \in 1 .. Len(v), NEW n \in 1 .. Len(v), v[m] = v[n] PROVE m = n
      <4>1. m + 1 \in 1 .. Len(s) /\ n + 1 \in 1 .. Len(s) /\ s[m + 1] = s[n + 1]
        BY <1>1, <3>1
      <4>2. m + 1 = n + 1
        BY <1>7, <4>1 DEF Distinct
      <4> QED
        BY <1>1, <4>2
    <3> QED
      BY <3>1 DEF Distinct
  <2>2. Distinct(r)
    BY <1>4, <1>7, <1>i, <2>1 DEF IsMerge
  <2>3. s[1] \notin ToSet(v)
    <3>1. ASSUME NEW n \in 1 .. Len(v), v[n] = s[1] PROVE FALSE
      <4>1. n + 1 \in 1 .. Len(s) /\ 1 \in 1 .. Len(s) /\ s[n + 1] = s[1]
        BY <1>1, <3>1
      <4>2. n + 1 = 1
        BY <1>7, <4>1 DEF Distinct
      <4> QED
        BY <1>1, <4>2
    <3> QED
      BY <1>1, <3>1, ListMembers
  <2>4. s[1] \notin ToSet(r)
    BY <1>4, <1>7, <1>i, <2>3 DEF IsMerge
  <2>5. \A n \in 1 .. Len(r) : r[n] # s[1]
    BY <1>2, <2>4, ListMembers
  <2>6. ASSUME NEW m \in 1 .. Len(u), NEW n \in 1 .. Len(u), u[m] = u[n] PROVE m = n
    <3>1. CASE m = 1
      BY <1>2, <1>3, <2>5, <2>6, <3>1
    <3>2. CASE n = 1
      BY <1>2, <1>3, <2>5, <2>6, <3>2
    <3>3. CASE m # 1 /\ n # 1
      <4>1. /\ m - 1 \in 1 .. Len(r) /\ n - 1 \in 1 .. Len(r)
            /\ u[m] = r[m - 1] /\ u[n] = r[n - 1]
        BY <1>2, <1>3, <3>3
      <4>2. m - 1 = n - 1
        BY <2>2, <2>6, <4>1 DEF Distinct
      <4> QED
        BY <4>2
    <3> QED
      BY <3>1, <3>2, <3>3
  <2> QED
    BY <2>6 DEF Distinct
<1>8. ASSUME Sorted(h, s, c), Sorted(h, t, c), Named(h, s), Named(h, t)
      PROVE  Sorted(h, u, c)
  <2>1. \A n \in 1 .. Len(v) : n + 1 \in 1 .. Len(s) /\ 1 \in 1 .. Len(s) /\ s[n + 1] = v[n]
    BY <1>1
  <2>2. Sorted(h, v, c) /\ Named(h, v)
    <3>1. ASSUME NEW m \in 1 .. Len(v), NEW n \in 1 .. Len(v), m < n
          PROVE  ~Less(h, v[n], v[m], c)
      <4>1. m + 1 < n + 1
        BY <3>1
      <4> QED
        BY <1>8, <2>1, <4>1 DEF Sorted
    <3> QED
      BY <1>8, <2>1, <3>1 DEF Sorted, Named
  <2>3. Sorted(h, r, c)
    BY <1>8, <1>i, <2>2 DEF IsMerge
  <2>4. ASSUME NEW n \in 1 .. Len(r) PROVE ~Less(h, r[n], s[1], c)
    <3>1. r[n] \in ToSet(v) \/ r[n] \in ToSet(t)
      <4>1. r[n] \in ToSet(r)
        BY <1>2, ListMembers
      <4> QED
        BY <1>i, <4>1 DEF IsMerge
    <3>2. CASE r[n] \in ToSet(t)
      <4>1. PICK k \in 1 .. Len(t) : t[k] = r[n]
        BY <3>2, ListMembers
      <4> QED
        BY <1>8, <4>1
    <3>3. CASE r[n] \in ToSet(v)
      <4>1. PICK k \in 1 .. Len(v) : v[k] = r[n]
        BY <1>1, <3>3, ListMembers
      <4>2. 1 < k + 1
        BY <1>1
      <4> QED
        BY <1>8, <2>1, <4>1, <4>2 DEF Sorted
    <3> QED
      BY <3>1, <3>2, <3>3
  <2>5. ASSUME NEW m \in 1 .. Len(u), NEW n \in 1 .. Len(u), m < n
        PROVE  ~Less(h, u[n], u[m], c)
    <3>1. n - 1 \in 1 .. Len(r) /\ u[n] = r[n - 1]
      BY <1>2, <1>3, <2>5
    <3>2. CASE m = 1
      BY <1>3, <2>4, <3>1, <3>2
    <3>3. CASE m # 1
      <4>1. m - 1 \in 1 .. Len(r) /\ u[m] = r[m - 1] /\ m - 1 < n - 1
        BY <1>2, <1>3, <2>5, <3>3
      <4> QED
        BY <2>3, <3>1, <4>1 DEF Sorted
    <3> QED
      BY <3>2, <3>3
  <2> QED
    BY <2>5 DEF Sorted
<1>9. Len(u) = Len(s) + Len(t)
  BY <1>1, <1>2, <1>3
<1>l. \/ u[Len(u)] = s[Len(s)]
      \/ t # << >> /\ u[Len(u)] = t[Len(t)]
  <2>1. CASE r = << >>
    <3>1. Len(r) = 0
      BY <2>1
    <3>2. Len(u) = 1 /\ Len(s) = 1
      BY <1>1, <1>2, <1>3, <3>1
    <3> QED
      BY <1>3, <3>2
  <2>2. CASE r # << >>
    <3>1. Len(r) \in 1 .. Len(r) /\ Len(u) = Len(r) + 1
      BY <1>2, <1>3, <2>2
    <3>2. u[Len(u)] = r[Len(r)]
      BY <1>3, <3>1
    <3>3. CASE v # << >> /\ r[Len(r)] = v[Len(v)]
      <4>1. Len(v) \in 1 .. Len(s) - 1 /\ Len(v) + 1 = Len(s)
        BY <1>1, <3>3
      <4>2. v[Len(v)] = s[Len(v) + 1]
        BY <1>1, <4>1
      <4> QED
        BY <3>2, <3>3, <4>1, <4>2
    <3> QED
      BY <1>i, <2>2, <3>2, <3>3 DEF IsMerge
  <2> QED
    BY <2>1, <2>2
<1> HIDE DEF u
<1>10. IsMerge(h, s, t, c, u)
  BY <1>3, <1>6, <1>7, <1>8, <1>9, <1>l DEF IsMerge
<1> QED
  BY <1>10 DEF u

\* Merge merges.
LEMMA MergeMerges ==
  ASSUME NEW h \in Heap, NEW c, NEW s \in Seq(Item), NEW t \in Seq(Item)
  PROVE  IsMerge(h, s, t, c, Merge(h, s, t, c))
<1> DEFINE Holds(a, b) == IsMerge(h, a, b, c, Merge(h, a, b, c))
           Bad == {k \in Nat : \E a, b \in Seq(Item) : k = Len(a) + Len(b) /\ ~Holds(a, b)}
<1>1. ASSUME Bad # {} PROVE FALSE
  <2>1. PICK k \in Bad : \A j \in Bad : k <= j
    <3>1. Bad \in SUBSET Nat
      OBVIOUS
    <3> HIDE DEF Bad
    <3> QED
      BY <1>1, <3>1, LeastNat
  <2>2. PICK a \in Seq(Item), b \in Seq(Item) : k = Len(a) + Len(b) /\ ~Holds(a, b)
    OBVIOUS
  <2>u. MergeRounds(h, a, b, c)
    <3> HIDE DEF Bad, Holds
    <3> QED
      BY MergeUnfolds, Zenon
  <2>3. ASSUME NEW x \in Seq(Item), NEW y \in Seq(Item), Len(x) + Len(y) < k
        PROVE  Holds(x, y)
    <3>1. Len(x) + Len(y) \in Nat /\ k \in Nat
      OBVIOUS
    <3>2. Len(x) + Len(y) \notin Bad
      <4> HIDE DEF Bad
      <4> QED
        BY <2>1, <2>3, <3>1
    <3> HIDE DEF Holds
    <3> QED
      BY <3>1, <3>2
  <2> HIDE DEF Bad
  <2>4. CASE a = << >>
    <3>1. a \o b = b
      BY <2>4
    <3>2. Merge(h, a, b, c) = a \o b
      BY <2>u, <2>4 DEF MergeRounds
    <3> QED
      BY <2>2, <2>4, <3>1, <3>2, MergedWithNothing
  <2>5. CASE b = << >>
    <3>1. a \o b = a
      BY <2>5
    <3>2. Merge(h, a, b, c) = a \o b
      BY <2>u, <2>5 DEF MergeRounds
    <3> QED
      BY <2>2, <2>5, <3>1, <3>2, MergedWithNothing, MergeSymmetric
  <2>6. CASE a # << >> /\ b # << >>
    <3>1. /\ a[1] \in Item /\ Tail(a) \in Seq(Item) /\ Len(Tail(a)) + Len(b) < k
          /\ b[1] \in Item /\ Tail(b) \in Seq(Item) /\ Len(a) + Len(Tail(b)) < k
          /\ Len(a) \in Nat \ {0} /\ Len(b) \in Nat \ {0}
      <4>1. \A x \in Seq(Item) : x # << >> =>
              /\ x[1] \in Item /\ Tail(x) \in Seq(Item)
              /\ Len(Tail(x)) = Len(x) - 1 /\ Len(x) \in Nat \ {0}
        BY RestOf
      <4> QED
        BY <2>2, <2>6, <4>1
    <3>2. ASSUME NEW x \in Seq(Item), NEW y \in Seq(Item), x # << >>, y # << >>,
                 ~Less(h, y[1], x[1], c),
                 Sorted(h, x, c) /\ Sorted(h, y, c) /\ Named(h, x) /\ Named(h, y),
                 NEW n \in 1 .. Len(y)
          PROVE  ~Less(h, y[n], x[1], c)
      <4>1. /\ Len(x) \in Nat \ {0} /\ Len(y) \in Nat \ {0}
            /\ x[1] \in Item /\ y[1] \in Item /\ y[n] \in Item
        BY <3>2
      <4>2. h.string[x[1]] # NULL /\ h.string[y[1]] # NULL /\ h.string[y[n]] # NULL
        BY <3>2, <4>1 DEF Named
      <4>3. ASSUME n # 1 PROVE ~Less(h, y[n], y[1], c)
        <5>1. 1 \in 1 .. Len(y) /\ 1 < n
          BY <4>1, <4>3
        <5> QED
          BY <3>2, <5>1 DEF Sorted
      <4> QED
        BY <3>2, <4>1, <4>2, <4>3, NotLessIsOrder
    <3>3. CASE Less(h, a[1], b[1], c)
      <4>1. Merge(h, a, b, c) = <<a[1]>> \o Merge(h, Tail(a), b, c)
        BY <2>u, <2>6, <3>3 DEF MergeRounds
      <4>2. IsMerge(h, Tail(a), b, c, Merge(h, Tail(a), b, c))
        BY <2>3, <3>1
      <4>3. ASSUME Sorted(h, a, c) /\ Sorted(h, b, c) /\ Named(h, a) /\ Named(h, b)
            PROVE  ~Less(h, b[1], a[1], c)
        <5>1. h.string[a[1]] # NULL /\ h.string[b[1]] # NULL
          BY <3>1, <4>3 DEF Named
        <5> QED
          BY <3>1, <3>3, <5>1, NotLessIsOrder
      <4>4. Sorted(h, a, c) /\ Sorted(h, b, c) /\ Named(h, a) /\ Named(h, b)
              => \A n \in 1 .. Len(b) : ~Less(h, b[n], a[1], c)
        BY <2>6, <3>2, <4>3
      <4>5. IsMerge(h, a, b, c, <<a[1]>> \o Merge(h, Tail(a), b, c))
        BY <2>6, <4>2, <4>4, MergedInFront
      <4> QED
        BY <2>2, <4>1, <4>5
    <3>4. CASE ~Less(h, a[1], b[1], c)
      <4>1. Merge(h, a, b, c) = <<b[1]>> \o Merge(h, a, Tail(b), c)
        BY <2>u, <2>6, <3>4 DEF MergeRounds
      <4>2. IsMerge(h, Tail(b), a, c, Merge(h, a, Tail(b), c))
        BY <2>3, <3>1, MergeSymmetric
      <4>3. Sorted(h, b, c) /\ Sorted(h, a, c) /\ Named(h, b) /\ Named(h, a)
              => \A n \in 1 .. Len(a) : ~Less(h, a[n], b[1], c)
        BY <2>6, <3>2, <3>4
      <4>4. IsMerge(h, b, a, c, <<b[1]>> \o Merge(h, a, Tail(b), c))
        BY <2>6, <4>2, <4>3, MergedInFront
      <4> QED
        BY <2>2, <4>1, <4>4, MergeSymmetric
    <3> QED
      BY <3>3, <3>4
  <2> QED
    BY <2>4, <2>5, <2>6
<1>2. ASSUME ~Holds(s, t) PROVE FALSE
  <2>1. Len(s) + Len(t) \in Nat
    OBVIOUS
  <2> HIDE DEF Holds
  <2>2. Len(s) + Len(t) \in Bad
    BY <1>2, <2>1
  <2> HIDE DEF Bad
  <2> QED
    BY <1>1, <2>2
<1> QED
  BY <1>2

-----------------------------------------------------------------------------
(* sort_list.                                                              *)

FirstHalf(list) == SubSeq(list, 1, Middle(list))
SecondHalf(list) == SubSeq(list, Middle(list) + 1, Len(list))

\* The two halves of a list of at least two items.
LEMMA Halves ==
  ASSUME NEW list \in Seq(Item), Len(list) >= 2
  PROVE  /\ Middle(list) \in 1 .. Len(list) - 1 /\ Len(list) \in Nat
         /\ FirstHalf(list) \in Seq(Item) /\ Len(FirstHalf(list)) = Middle(list)
         /\ \A n \in 1 .. Middle(list) : FirstHalf(list)[n] = list[n]
         /\ SecondHalf(list) \in Seq(Item)
         /\ Len(SecondHalf(list)) = Len(list) - Middle(list)
         /\ \A n \in 1 .. Len(list) - Middle(list) :
              SecondHalf(list)[n] = list[Middle(list) + n]
<1>1. Len(list) \in Nat
  OBVIOUS
<1>2. \A n \in Nat : n >= 2 => (n + 1) \div 2 \in 1 .. n - 1
  OBVIOUS
<1>3. Middle(list) \in 1 .. Len(list) - 1
  BY <1>1, <1>2 DEF Middle
<1>4. ASSUME NEW k \in 1 .. Len(list) - 1
      PROVE  /\ SubSeq(list, 1, k) \in Seq(Item) /\ Len(SubSeq(list, 1, k)) = k
             /\ \A n \in 1 .. k : SubSeq(list, 1, k)[n] = list[n]
             /\ SubSeq(list, k + 1, Len(list)) \in Seq(Item)
             /\ Len(SubSeq(list, k + 1, Len(list))) = Len(list) - k
             /\ \A n \in 1 .. Len(list) - k :
                  SubSeq(list, k + 1, Len(list))[n] = list[k + n]
  OBVIOUS
<1> QED
  BY <1>1, <1>3, <1>4 DEF FirstHalf, SecondHalf

\* Splitting leaves a heap with the same names and children.
LEMMA SplitHeap ==
  ASSUME NEW h \in Heap, NEW list \in Seq(Item)
  PROVE  /\ Split(h, list) \in Heap
         /\ Split(h, list).string = h.string /\ Split(h, list).child = h.child
BY DEF Split, Heap, Link

Calls == Heap \X Seq(Item)

\* What a call of sort_list does, given what the calls that it makes do.
SortStep(c, call, f) ==
  LET g == call[1]
      items == call[2]
      first == f[<<Split(g, items), FirstHalf(items)>>]
      second == f[<<first.heap, SecondHalf(items)>>]
      merged == Merge(g, first.ret, second.ret, c)
  IN  IF Len(items) < 2 \/ InOrder(g, items, c)
      THEN Returns(items, g)
      ELSE Returns(merged, Relinked(second.heap, merged))

\* sort_list is what its calls of itself make of the list.
LEMMA SortUnfolds ==
  ASSUME NEW c, NEW h \in Heap, NEW list \in Seq(Item)
  PROVE  \E f : /\ \A g \in Heap, s \in Seq(Item) : sort_list(g, s, c) = f[<<g, s>>]
                /\ \A call \in Calls : f[call] = SortStep(c, call, f)
<1> DEFINE Solution(f) == f = [call \in Calls |-> SortStep(c, call, f)]
           sort == CHOOSE f : Solution(f)
           V == [ret : Seq(Item), heap : Heap]
           m == [call \in Calls |-> Len(call[2])]
           G == [z \in Calls \X [Calls -> V] |-> SortStep(c, z[1], z[2])]
           Trivial(call) == Len(call[2]) < 2 \/ InOrder(call[1], call[2], c)
           First(call) == <<Split(call[1], call[2]), FirstHalf(call[2])>>
           Second(call, g) == <<g, SecondHalf(call[2])>>
<1>1. m \in [Calls -> Nat]
  <2>1. ASSUME NEW call \in Calls PROVE Len(call[2]) \in Nat
    <3>1. \A s \in Seq(Item) : Len(s) \in Nat
      OBVIOUS
    <3>2. call[2] \in Seq(Item)
      BY DEF Calls
    <3> QED
      BY <3>1, <3>2, Zenon
  <2> QED
    BY <2>1
<1>2. ASSUME NEW call \in Calls, ~Trivial(call), NEW g \in Heap
      PROVE  /\ First(call) \in Calls /\ m[First(call)] < m[call]
             /\ Second(call, g) \in Calls /\ m[Second(call, g)] < m[call]
  <2>1. call[1] \in Heap /\ call[2] \in Seq(Item)
    BY DEF Calls
  <2>2. ASSUME NEW s \in Seq(Item), ~(Len(s) < 2)
        PROVE  /\ FirstHalf(s) \in Seq(Item) /\ Len(FirstHalf(s)) < Len(s)
               /\ SecondHalf(s) \in Seq(Item) /\ Len(SecondHalf(s)) < Len(s)
    <3>1. Len(s) >= 2 /\ Len(s) \in Nat
      BY <2>2
    <3> QED
      BY <3>1, Halves
  <2>3. /\ FirstHalf(call[2]) \in Seq(Item) /\ Len(FirstHalf(call[2])) < Len(call[2])
        /\ SecondHalf(call[2]) \in Seq(Item) /\ Len(SecondHalf(call[2])) < Len(call[2])
    BY <1>2, <2>1, <2>2, Zenon
  <2>4. First(call) \in Calls /\ Second(call, g) \in Calls
    BY <2>1, <2>3, SplitHeap DEF Calls
  <2>5. /\ m[First(call)] = Len(FirstHalf(call[2]))
        /\ m[Second(call, g)] = Len(SecondHalf(call[2]))
        /\ m[call] = Len(call[2])
    BY <2>4
  <2> HIDE DEF m
  <2> QED
    BY <2>3, <2>4, <2>5, Zenon
<1>3. ASSUME NEW call \in Calls, NEW f \in [Calls -> V]
      PROVE  SortStep(c, call, f) \in V
  <2>1. call[1] \in Heap /\ call[2] \in Seq(Item)
    BY DEF Calls
  <2>2. CASE Trivial(call)
    <3>1. SortStep(c, call, f) = Returns(call[2], call[1])
      BY <2>2 DEF SortStep
    <3> QED
      BY <2>1, <3>1 DEF Returns
  <2>3. CASE ~Trivial(call)
    <3> DEFINE first == f[First(call)]
               second == f[Second(call, first.heap)]
               merged == Merge(call[1], first.ret, second.ret, c)
    <3>1. \A v \in V : v.ret \in Seq(Item) /\ v.heap \in Heap
      OBVIOUS
    <3>2. \A x \in Calls : f[x] \in V
      OBVIOUS
    <3>3. EmptyHeap \in Heap
      BY DEF EmptyHeap, Heap, Link
    <3>4. first \in V
      <4>1. First(call) \in Calls
        BY <1>2, <2>3, <3>3
      <4> HIDE DEF First, V
      <4> QED
        BY <3>2, <4>1
    <3>5. first.ret \in Seq(Item) /\ first.heap \in Heap
      <4> HIDE DEF first, V
      <4> QED
        BY <3>1, <3>4
    <3> HIDE DEF first
    <3>6. second \in V
      <4>1. Second(call, first.heap) \in Calls
        BY <1>2, <2>3, <3>5
      <4> HIDE DEF Second, V
      <4> QED
        BY <3>2, <4>1
    <3>7. second.ret \in Seq(Item) /\ second.heap \in Heap
      <4> HIDE DEF second, V
      <4> QED
        BY <3>1, <3>6
    <3> HIDE DEF second
    <3>8. merged \in Seq(Item)
      BY <2>1, <3>5, <3>7, MergeMerges DEF IsMerge
    <3>9. SortStep(c, call, f) = Returns(merged, Relinked(second.heap, merged))
      BY <2>3 DEF SortStep, first, second
    <3> HIDE DEF merged
    <3>10. Relinked(second.heap, merged) \in Heap
      BY <3>7, <3>8, RelinkedHeap
    <3> QED
      BY <3>8, <3>9, <3>10 DEF Returns
  <2> QED
    BY <2>2, <2>3
<1>4. G \in [Calls \X [Calls -> V] -> V]
  <2>1. ASSUME NEW z \in Calls \X [Calls -> V] PROVE SortStep(c, z[1], z[2]) \in V
    <3>1. z[1] \in Calls /\ z[2] \in [Calls -> V]
      OBVIOUS
    <3> HIDE DEF V
    <3> QED
      BY <1>3, <3>1
  <2> QED
    BY <2>1
<1>5. ASSUME NEW call \in Calls, NEW f \in [Calls -> V], NEW g \in [Calls -> V],
             \A y \in Calls : m[y] < m[call] => f[y] = g[y]
      PROVE  SortStep(c, call, f) = SortStep(c, call, g)
  <2>1. CASE Trivial(call)
    BY <2>1 DEF SortStep
  <2>2. CASE ~Trivial(call)
    <3>1. EmptyHeap \in Heap
      BY DEF EmptyHeap, Heap, Link
    <3>2. First(call) \in Calls /\ f[First(call)] = g[First(call)]
      <4> HIDE DEF m, V, First
      <4> QED
        BY <1>2, <1>5, <2>2, <3>1
    <3>3. f[First(call)].heap \in Heap
      <4>1. f[First(call)] \in V
        <5> HIDE DEF V, First
        <5> QED
          BY <3>2
      <4> HIDE DEF First
      <4> QED
        BY <4>1
    <3>4. f[Second(call, f[First(call)].heap)] = g[Second(call, f[First(call)].heap)]
      <4> HIDE DEF m, V, First, Second
      <4> QED
        BY <1>2, <1>5, <2>2, <3>3
    <3> QED
      BY <2>2, <3>2, <3>4 DEF SortStep
  <2> QED
    BY <2>1, <2>2
<1>6. \E f \in [Calls -> V] : \A call \in Calls : f[call] = G[<<call, f>>]
  <2>1. V # {}
    <3>1. EmptyHeap \in Heap /\ << >> \in Seq(Item)
      BY DEF EmptyHeap, Heap, Link
    <3>2. [ret |-> << >>, heap |-> EmptyHeap] \in V
      BY <3>1
    <3> QED
      BY <3>2
  <2>2. \A call \in Calls : \A f, g \in [Calls -> V] :
          (\A y \in Calls : m[y] < m[call] => f[y] = g[y]) => G[<<call, f>>] = G[<<call, g>>]
    <3> HIDE DEF m, V
    <3> QED
      BY <1>5
  <2> HIDE DEF m, G, V
  <2>3. DescendsAlong(m, G, Calls, V)
    BY <1>1, <1>4, <2>1, <2>2 DEF DescendsAlong
  <2> QED
    BY <2>3, Recursion
<1>7. \E f : Solution(f)
  <2>1. PICK f \in [Calls -> V] : \A call \in Calls : f[call] = G[<<call, f>>]
    BY <1>6
  <2> HIDE DEF V
  <2>2. \A call \in Calls : f[call] = SortStep(c, call, f)
    BY <2>1
  <2> QED
    BY <2>2
<1>8. sort = [call \in Calls |-> SortStep(c, call, sort)]
  BY <1>7
<1>9. ASSUME NEW g \in Heap, NEW s \in Seq(Item)
      PROVE  sort_list(g, s, c) = sort[<<g, s>>]
  BY Zenon DEF sort_list, SortStep, Calls, FirstHalf, SecondHalf
<1> HIDE DEF sort
<1>10. \A call \in Calls : sort[call] = SortStep(c, call, sort)
  BY <1>8
<1> QED
  BY <1>9, <1>10

\* The items of the list are linked both ways and the last one ends it; the
\* prev of the first one is open.
Strung(h, list) ==
  /\ \A n \in 1 .. Len(list) - 1 : /\ h.next[list[n]] = list[n + 1]
                                   /\ h.prev[list[n + 1]] = list[n]
  /\ list # << >> => h.next[list[Len(list)]] = NULL

\* Links outside the list are what they were.
SameOutside(g, h, list) ==
  \A i \in Item \ ToSet(list) : g.next[i] = h.next[i] /\ g.prev[i] = h.prev[i]

\* The prev of the first item after a sort.
FirstPrev(h, list, ret) == IF ret[1] = list[1] THEN h.prev[list[1]] ELSE NULL

\* What sort_list returns, and the heap it leaves, for a list in the heap h.
IsSort(h, list, c, ret, g) ==
  /\ ret \in Seq(Item) /\ g \in Heap
  /\ g.string = h.string /\ g.child = h.child
  /\ Len(ret) = Len(list) /\ ToSet(ret) = ToSet(list)
  /\ SameOutside(g, h, list)
  /\ Distinct(ret) /\ Strung(g, ret)
  /\ list # << >> => g.prev[ret[1]] = FirstPrev(h, list, ret)
  /\ Named(h, list) => Sorted(h, ret, c)

\* Only the names matter to an order.
LEMMA SameNames ==
  ASSUME NEW g, NEW h, g.string = h.string, NEW list, NEW c
  PROVE  /\ Sorted(g, list, c) <=> Sorted(h, list, c)
         /\ Named(g, list) <=> Named(h, list)
<1>1. \A x, y : Less(g, x, y, c) <=> Less(h, x, y, c)
  BY DEF Less
<1> QED
  BY <1>1 DEF Sorted, Named

\* Only the links of its items matter to a list.
LEMMA SameStrung ==
  ASSUME NEW g, NEW h, NEW list \in Seq(Item),
         \A i \in ToSet(list) : g.next[i] = h.next[i] /\ g.prev[i] = h.prev[i],
         Strung(h, list)
  PROVE  Strung(g, list)
<1>1. \A n \in 1 .. Len(list) : list[n] \in ToSet(list)
  BY ListMembers
<1>2. Len(list) \in Nat /\ (list # << >> => Len(list) \in 1 .. Len(list))
  OBVIOUS
<1>3. ASSUME NEW n \in 1 .. Len(list) - 1
      PROVE  g.next[list[n]] = list[n + 1] /\ g.prev[list[n + 1]] = list[n]
  <2>1. n \in 1 .. Len(list) /\ n + 1 \in 1 .. Len(list)
    BY <1>2
  <2> QED
    BY <1>1, <2>1 DEF Strung
<1>4. ASSUME list # << >> PROVE g.next[list[Len(list)]] = NULL
  BY <1>1, <1>2, <1>4 DEF Strung
<1> QED
  BY <1>3, <1>4 DEF Strung

\* Names that increase from each item to the next one increase along the list.
LEMMA InOrderIsSorted ==
  ASSUME NEW h \in Heap, NEW list \in Seq(Item), NEW c, Named(h, list),
         Len(list) < 2 \/ InOrder(h, list, c)
  PROVE  Sorted(h, list, c)
<1>1. Len(list) \in Nat /\ \A n \in 1 .. Len(list) : list[n] \in Item
  OBVIOUS
<1>2. ASSUME NEW m \in 1 .. Len(list), NEW n \in 1 .. Len(list), m < n,
             Less(h, list[n], list[m], c)
      PROVE  FALSE
  <2> DEFINE Bad == {k \in 1 .. Len(list) : m < k /\ Less(h, list[k], list[m], c)}
  <2>1. Bad \in SUBSET Nat /\ n \in Bad
    BY <1>1, <1>2
  <2>2. PICK k \in Bad : \A j \in Bad : k <= j
    <3> HIDE DEF Bad
    <3> QED
      BY <2>1, LeastNat
  <2>3. k \in 1 .. Len(list) /\ m < k /\ Less(h, list[k], list[m], c)
    OBVIOUS
  <2>4. k - 1 \in 1 .. Len(list) - 1 /\ k - 1 \in 1 .. Len(list) /\ (k - 1) + 1 = k
    BY <1>1, <2>3
  <2>5. Less(h, list[k - 1], list[k], c)
    <3>1. InOrder(h, list, c)
      BY <1>1, <2>4
    <3>2. Less(h, list[k - 1], list[(k - 1) + 1], c)
      BY <2>4, <3>1 DEF InOrder
    <3> QED
      BY <2>4, <3>2
  <2>6. /\ list[k - 1] \in Item /\ list[k] \in Item /\ list[m] \in Item
        /\ h.string[list[k - 1]] # NULL /\ h.string[list[k]] # NULL
        /\ h.string[list[m]] # NULL
    BY <1>1, <2>3, <2>4 DEF Named
  <2>7. ~Less(h, list[k], list[k - 1], c)
    BY <2>5, <2>6, NotLessIsOrder
  <2>8. ~Less(h, list[k - 1], list[m], c)
    <3>1. CASE k - 1 = m
      BY <2>6, <3>1, NotLessIsOrder
    <3>2. CASE k - 1 # m
      <4>1. k - 1 \notin Bad
        <5>1. k - 1 < k /\ k \in Nat /\ k - 1 \in Nat
          BY <2>3, <2>4
        <5> HIDE DEF Bad
        <5> QED
          BY <2>2, <5>1
      <4>2. m < k - 1
        BY <2>3, <3>2
      <4> QED
        BY <2>4, <4>1, <4>2
    <3> QED
      BY <3>1, <3>2
  <2> QED
    BY <2>3, <2>6, <2>7, <2>8, NotLessIsOrder
<1> QED
  BY <1>2 DEF Sorted

\* A list that is left alone is sorted.
LEMMA LeftAlone ==
  ASSUME NEW h \in Heap, NEW list \in Seq(Item), NEW c, Distinct(list), Strung(h, list),
         Len(list) < 2 \/ InOrder(h, list, c)
  PROVE  IsSort(h, list, c, list, h)
<1>1. Named(h, list) => Sorted(h, list, c)
  BY InOrderIsSorted
<1>2. SameOutside(h, h, list)
  BY DEF SameOutside
<1> QED
  BY <1>1, <1>2 DEF IsSort, FirstPrev

\* What the halves of a list are to the list.
LEMMA HalvesOf ==
  ASSUME NEW list \in Seq(Item), Len(list) >= 2
  PROVE  /\ ToSet(list) = ToSet(FirstHalf(list)) \cup ToSet(SecondHalf(list))
         /\ FirstHalf(list) # << >> /\ SecondHalf(list) # << >>
         /\ FirstHalf(list)[1] = list[1]
         /\ SecondHalf(list)[1] = list[Middle(list) + 1]
         /\ Distinct(list) =>
              /\ Distinct(FirstHalf(list)) /\ Distinct(SecondHalf(list))
              /\ ToSet(FirstHalf(list)) \cap ToSet(SecondHalf(list)) = {}
<1> DEFINE k == Middle(list)
           a == FirstHalf(list)
           b == SecondHalf(list)
<1>1. /\ k \in 1 .. Len(list) - 1 /\ Len(list) \in Nat
      /\ a \in Seq(Item) /\ Len(a) = k /\ \A n \in 1 .. k : a[n] = list[n]
      /\ b \in Seq(Item) /\ Len(b) = Len(list) - k
      /\ \A n \in 1 .. Len(list) - k : b[n] = list[k + n]
  BY Halves
<1> HIDE DEF k, a, b
<1>2. /\ \A n \in 1 .. Len(a) : n \in 1 .. Len(list) /\ a[n] = list[n]
      /\ \A n \in 1 .. Len(b) : k + n \in 1 .. Len(list) /\ b[n] = list[k + n]
  BY <1>1
<1>3. ToSet(a) \subseteq ToSet(list) /\ ToSet(b) \subseteq ToSet(list)
  <2>1. ASSUME NEW x \in ToSet(a) PROVE x \in ToSet(list)
    <3>1. PICK n \in 1 .. Len(a) : a[n] = x
      BY <1>1, ListMembers
    <3>2. n \in 1 .. Len(list) /\ list[n] = x
      BY <1>2, <3>1
    <3> QED
      BY <3>2, ListMembers
  <2>2. ASSUME NEW x \in ToSet(b) PROVE x \in ToSet(list)
    <3>1. PICK n \in 1 .. Len(b) : b[n] = x
      BY <1>1, ListMembers
    <3>2. k + n \in 1 .. Len(list) /\ list[k + n] = x
      BY <1>2, <3>1
    <3> QED
      BY <3>2, ListMembers
  <2> QED
    BY <2>1, <2>2
<1>4. ASSUME NEW n \in 1 .. Len(list) PROVE list[n] \in ToSet(a) \cup ToSet(b)
  <2>1. CASE n <= k
    <3>1. n \in 1 .. k /\ n \in 1 .. Len(a)
      BY <1>1, <2>1
    <3>2. a[n] = list[n]
      BY <1>1, <3>1
    <3> QED
      BY <1>1, <3>1, <3>2, ListMembers
  <2>2. CASE n > k
    <3>1. n - k \in 1 .. Len(b) /\ k + (n - k) = n
      BY <1>1, <2>2
    <3>2. b[n - k] = list[n]
      BY <1>2, <3>1
    <3> QED
      BY <1>1, <3>1, <3>2, ListMembers
  <2> QED
    BY <1>1, <2>1, <2>2
<1>5. ToSet(list) = ToSet(a) \cup ToSet(b)
  <2>1. \A x \in ToSet(list) : x \in ToSet(a) \cup ToSet(b)
    <3>1. ASSUME NEW x \in ToSet(list) PROVE x \in ToSet(a) \cup ToSet(b)
      <4>1. PICK n \in 1 .. Len(list) : list[n] = x
        BY ListMembers
      <4> QED
        BY <1>4, <4>1
    <3> QED
      BY <3>1
  <2> QED
    BY <1>3, <2>1
<1>6. 1 \in 1 .. Len(a) /\ 1 \in 1 .. Len(b)
  BY <1>1
<1>7. a # << >> /\ b # << >>
  BY <1>1, <1>6
<1>8. a[1] = list[1] /\ b[1] = list[k + 1]
  BY <1>2, <1>6
<1>9. ASSUME Distinct(list)
      PROVE  Distinct(a) /\ Distinct(b) /\ ToSet(a) \cap ToSet(b) = {}
  <2>1. Distinct(a)
    BY <1>2, <1>9 DEF Distinct
  <2>2. ASSUME NEW m \in 1 .. Len(b), NEW n \in 1 .. Len(b), b[m] = b[n] PROVE m = n
    <3>1. k + m = k + n
      BY <1>2, <1>9, <2>2 DEF Distinct
    <3> QED
      BY <1>1, <3>1
  <2>3. ASSUME NEW x \in ToSet(a) \cap ToSet(b) PROVE FALSE
    <3>1. PICK m \in 1 .. Len(a) : a[m] = x
      BY <1>1, ListMembers
    <3>2. PICK n \in 1 .. Len(b) : b[n] = x
      BY <1>1, ListMembers
    <3>3. m = k + n
      BY <1>2, <1>9, <3>1, <3>2 DEF Distinct
    <3> QED
      BY <1>1, <3>3
  <2> QED
    BY <2>1, <2>2, <2>3 DEF Distinct
<1> QED
  BY <1>5, <1>7, <1>8, <1>9 DEF a, b, k

\* Splitting a list that is linked leaves two that are.
LEMMA SplitStrung ==
  ASSUME NEW h \in Heap, NEW list \in Seq(Item), Len(list) >= 2,
         Distinct(list), Strung(h, list)
  PROVE  LET g == Split(h, list)
         IN  /\ Strung(g, FirstHalf(list)) /\ Strung(g, SecondHalf(list))
             /\ g.prev[FirstHalf(list)[1]] = h.prev[list[1]]
             /\ g.prev[SecondHalf(list)[1]] = NULL
             /\ SameOutside(g, h, list)
<1> DEFINE k == Middle(list)
           a == FirstHalf(list)
           b == SecondHalf(list)
           g == Split(h, list)
<1>1. /\ k \in 1 .. Len(list) - 1 /\ Len(list) \in Nat
      /\ a \in Seq(Item) /\ Len(a) = k /\ \A n \in 1 .. k : a[n] = list[n]
      /\ b \in Seq(Item) /\ Len(b) = Len(list) - k
      /\ \A n \in 1 .. Len(list) - k : b[n] = list[k + n]
  BY Halves
<1>2. \A n \in 1 .. Len(list) : list[n] \in Item
  OBVIOUS
<1>3. /\ \A i \in Item : g.next[i] = IF i = list[k] THEN NULL ELSE h.next[i]
      /\ \A i \in Item : g.prev[i] = IF i = list[k + 1] THEN NULL ELSE h.prev[i]
  BY DEF Split, Heap
<1> HIDE DEF k, a, b, g
<1>4. ASSUME NEW n \in 1 .. Len(list)
      PROVE  /\ g.next[list[n]] = IF n = k THEN NULL ELSE h.next[list[n]]
             /\ g.prev[list[n]] = IF n = k + 1 THEN NULL ELSE h.prev[list[n]]
  <2>1. list[n] \in Item /\ k \in 1 .. Len(list) /\ k + 1 \in 1 .. Len(list)
    BY <1>1, <1>2
  <2>2. (list[n] = list[k] <=> n = k) /\ (list[n] = list[k + 1] <=> n = k + 1)
    BY <2>1 DEF Distinct
  <2> QED
    BY <1>3, <2>1, <2>2
<1>5. \A n \in 1 .. Len(list) - 1 : /\ h.next[list[n]] = list[n + 1]
                                    /\ h.prev[list[n + 1]] = list[n]
  BY DEF Strung
<1>6. h.next[list[Len(list)]] = NULL
  BY <1>1 DEF Strung
<1>7. Strung(g, a)
  <2>1. ASSUME NEW n \in 1 .. Len(a) - 1
        PROVE  g.next[a[n]] = a[n + 1] /\ g.prev[a[n + 1]] = a[n]
    <3>1. /\ n \in 1 .. k /\ n + 1 \in 1 .. k /\ n # k /\ n + 1 # k + 1
          /\ n \in 1 .. Len(list) - 1 /\ n \in 1 .. Len(list) /\ n + 1 \in 1 .. Len(list)
      BY <1>1
    <3>2. g.next[list[n]] = list[n + 1] /\ g.prev[list[n + 1]] = list[n]
      BY <1>4, <1>5, <3>1
    <3>3. a[n] = list[n] /\ a[n + 1] = list[n + 1]
      BY <1>1, <3>1
    <3> QED
      BY <3>2, <3>3
  <2>2. g.next[a[Len(a)]] = NULL
    <3>1. k \in 1 .. k /\ k \in 1 .. Len(list)
      BY <1>1
    <3> QED
      BY <1>1, <1>4, <3>1
  <2> QED
    BY <2>1, <2>2 DEF Strung
<1>8. Strung(g, b)
  <2>1. ASSUME NEW n \in 1 .. Len(b) - 1
        PROVE  g.next[b[n]] = b[n + 1] /\ g.prev[b[n + 1]] = b[n]
    <3>1. /\ n \in 1 .. Len(list) - k /\ n + 1 \in 1 .. Len(list) - k
          /\ k + n \in 1 .. Len(list) - 1 /\ k + n \in 1 .. Len(list)
          /\ k + (n + 1) \in 1 .. Len(list) /\ k + (n + 1) = (k + n) + 1
          /\ k + n # k /\ k + (n + 1) # k + 1
      BY <1>1
    <3>2. g.next[list[k + n]] = h.next[list[k + n]]
      BY <1>4, <3>1
    <3>3. g.prev[list[k + (n + 1)]] = h.prev[list[k + (n + 1)]]
      BY <1>4, <3>1
    <3>4. h.next[list[k + n]] = list[k + (n + 1)] /\ h.prev[list[k + (n + 1)]] = list[k + n]
      BY <1>5, <3>1
    <3>5. b[n] = list[k + n] /\ b[n + 1] = list[k + (n + 1)]
      BY <1>1, <3>1
    <3> QED
      BY <3>2, <3>3, <3>4, <3>5
  <2>2. g.next[b[Len(b)]] = NULL
    <3>1. /\ Len(list) - k \in 1 .. Len(list) - k /\ k + (Len(list) - k) = Len(list)
          /\ Len(list) \in 1 .. Len(list) /\ Len(list) # k
      BY <1>1
    <3>2. b[Len(list) - k] = list[k + (Len(list) - k)]
      BY <1>1, <3>1
    <3>3. b[Len(b)] = list[Len(list)]
      BY <1>1, <3>1, <3>2
    <3> QED
      BY <1>4, <1>6, <3>1, <3>3
  <2> QED
    BY <2>1, <2>2 DEF Strung
<1>9. a[1] = list[1] /\ b[1] = list[k + 1]
  BY HalvesOf DEF a, b, k
<1>10. g.prev[list[1]] = h.prev[list[1]] /\ g.prev[list[k + 1]] = NULL
  <2>1. 1 \in 1 .. Len(list) /\ 1 # k + 1 /\ k + 1 \in 1 .. Len(list)
    BY <1>1
  <2> QED
    BY <1>4, <2>1
<1>11. SameOutside(g, h, list)
  <2>1. list[k] \in ToSet(list) /\ list[k + 1] \in ToSet(list)
    <3>1. k \in 1 .. Len(list) /\ k + 1 \in 1 .. Len(list)
      BY <1>1
    <3> QED
      BY <3>1, ListMembers
  <2> QED
    BY <1>3, <2>1 DEF SameOutside
<1> QED
  BY <1>7, <1>8, <1>9, <1>10, <1>11 DEF a, b, g

\* Relinking a list that ends somewhere links it.
LEMMA RelinkedStrung ==
  ASSUME NEW h \in Heap, NEW list \in Seq(Item), Distinct(list), list # << >>,
         h.next[list[Len(list)]] = NULL
  PROVE  LET g == Relinked(h, list)
         IN  /\ Strung(g, list) /\ SameOutside(g, h, list)
             /\ g.prev[list[1]] = h.prev[list[1]]
<1> DEFINE g == Relinked(h, list)
<1>1. /\ \A i \in Item : g.next[i] = IF Place(list, i) \in 1 .. Len(list) - 1
                                     THEN list[Place(list, i) + 1] ELSE h.next[i]
      /\ \A i \in Item : g.prev[i] = IF Place(list, i) > 1
                                     THEN list[Place(list, i) - 1] ELSE h.prev[i]
  BY DEF Relinked, Heap
<1>2. Len(list) \in Nat \ {0} /\ \A n \in 1 .. Len(list) : list[n] \in Item
  OBVIOUS
<1> HIDE DEF g
<1>3. ASSUME NEW n \in 1 .. Len(list)
      PROVE  /\ g.next[list[n]] = IF n \in 1 .. Len(list) - 1
                                  THEN list[n + 1] ELSE h.next[list[n]]
             /\ g.prev[list[n]] = IF n > 1 THEN list[n - 1] ELSE h.prev[list[n]]
  <2>1. Place(list, list[n]) = n
    BY PlaceInDistinct
  <2> QED
    BY <1>1, <1>2, <2>1
<1>4. ASSUME NEW n \in 1 .. Len(list) - 1
      PROVE  g.next[list[n]] = list[n + 1] /\ g.prev[list[n + 1]] = list[n]
  <2>1. n \in 1 .. Len(list) /\ n + 1 \in 1 .. Len(list) /\ n + 1 > 1 /\ (n + 1) - 1 = n
    BY <1>2
  <2>2. g.prev[list[n + 1]] = list[(n + 1) - 1]
    BY <1>3, <2>1
  <2> QED
    BY <1>3, <2>1, <2>2
<1>5. Len(list) \in 1 .. Len(list) /\ 1 \in 1 .. Len(list) /\ Len(list) \notin 1 .. Len(list) - 1
  BY <1>2
<1>6. g.next[list[Len(list)]] = NULL
  BY <1>3, <1>5
<1>7. g.prev[list[1]] = h.prev[list[1]]
  BY <1>3, <1>5
<1>8. SameOutside(g, h, list)
  <2>1. ASSUME NEW i \in Item \ ToSet(list) PROVE g.next[i] = h.next[i] /\ g.prev[i] = h.prev[i]
    <3>1. Place(list, i) = 0
      <4>1. Place(list, i) \in 0 .. Len(list) /\ (Place(list, i) # 0 => list[Place(list, i)] = i)
        BY PlaceOf
      <4>2. ASSUME Place(list, i) # 0 PROVE FALSE
        <5>1. Place(list, i) \in 1 .. Len(list)
          BY <1>2, <4>1, <4>2
        <5> QED
          BY <4>1, <4>2, <5>1, ListMembers
      <4> QED
        BY <4>2
    <3> QED
      BY <1>1, <3>1
  <2> QED
    BY <2>1 DEF SameOutside
<1> QED
  BY <1>4, <1>6, <1>7, <1>8 DEF g, Strung

\* A list is sorted if its halves are and are merged.
LEMMA MergedHalves ==
  ASSUME NEW h \in Heap, NEW list \in Seq(Item), NEW c, Len(list) >= 2,
         Distinct(list), Strung(h, list),
         NEW a, NEW f, IsSort(Split(h, list), FirstHalf(list), c, a, f),
         NEW b, NEW g, IsSort(f, SecondHalf(list), c, b, g),
         NEW u, IsMerge(h, a, b, c, u)
  PROVE  IsSort(h, list, c, u, Relinked(g, u))
<1> DEFINE p == FirstHalf(list)
           q == SecondHalf(list)
           k == Middle(list)
           d == Split(h, list)
           r == Relinked(g, u)
<1>1. /\ k \in 1 .. Len(list) - 1 /\ Len(list) \in Nat
      /\ p \in Seq(Item) /\ Len(p) = k /\ \A n \in 1 .. k : p[n] = list[n]
      /\ q \in Seq(Item) /\ Len(q) = Len(list) - k
      /\ \A n \in 1 .. Len(list) - k : q[n] = list[k + n]
  BY Halves
<1>2. /\ ToSet(list) = ToSet(p) \cup ToSet(q) /\ p # << >> /\ q # << >>
      /\ p[1] = list[1] /\ q[1] = list[k + 1]
      /\ Distinct(p) /\ Distinct(q) /\ ToSet(p) \cap ToSet(q) = {}
  BY HalvesOf
<1>3. d \in Heap /\ d.string = h.string /\ d.child = h.child
  BY SplitHeap
<1> HIDE DEF d, p, q, k
<1>a. IsSort(d, p, c, a, f)
  BY DEF d, p
<1>b. IsSort(f, q, c, b, g)
  BY DEF q
<1>u. IsMerge(h, a, b, c, u)
  OBVIOUS
<1>4. /\ a \in Seq(Item) /\ f \in Heap /\ f.string = h.string /\ f.child = h.child
      /\ Len(a) = Len(p) /\ ToSet(a) = ToSet(p)
  BY <1>3, <1>a DEF IsSort
<1>5. /\ b \in Seq(Item) /\ g \in Heap /\ g.string = h.string /\ g.child = h.child
      /\ Len(b) = Len(q) /\ ToSet(b) = ToSet(q)
  BY <1>4, <1>b DEF IsSort
<1>6. u \in Seq(Item) /\ Len(u) = Len(a) + Len(b) /\ ToSet(u) = ToSet(a) \cup ToSet(b)
  BY <1>u DEF IsMerge
<1>7. Len(u) = Len(list) /\ ToSet(u) = ToSet(list)
  BY <1>1, <1>2, <1>4, <1>5, <1>6
<1>8. r \in Heap /\ r.string = h.string /\ r.child = h.child
  BY <1>5, <1>6, RelinkedHeap
<1>9. a # << >> /\ b # << >> /\ u # << >>
  <2>1. \A s \in Seq(Item) : s = << >> <=> Len(s) = 0
    OBVIOUS
  <2>2. Len(p) # 0 /\ Len(q) # 0 /\ Len(list) # 0
    BY <1>1
  <2> QED
    BY <1>4, <1>5, <1>6, <1>7, <2>1, <2>2
<1>10. Distinct(a) /\ Distinct(b) /\ Distinct(u) /\ ToSet(a) \cap ToSet(b) = {}
  BY <1>2, <1>4, <1>5, <1>a, <1>b, <1>u DEF IsSort, IsMerge
<1>11. Named(h, list) => Sorted(h, u, c)
  <2>1. ASSUME Named(h, list) PROVE Named(h, p) /\ Named(h, q)
    <3>1. ASSUME NEW s \in Seq(Item), ToSet(s) \subseteq ToSet(list) PROVE Named(h, s)
      <4>1. ASSUME NEW n \in 1 .. Len(s) PROVE h.string[s[n]] # NULL
        <5>1. s[n] \in ToSet(list)
          BY <3>1, ListMembers
        <5>2. PICK m \in 1 .. Len(list) : list[m] = s[n]
          BY <5>1, ListMembers
        <5> QED
          BY <2>1, <5>2 DEF Named
      <4> QED
        BY <4>1 DEF Named
    <3> QED
      BY <1>1, <1>2, <3>1
  <2>2. ASSUME Named(h, list) PROVE Named(h, a) /\ Named(h, b)
    <3>1. ASSUME NEW s \in Seq(Item), NEW t \in Seq(Item), ToSet(s) = ToSet(t), Named(h, t)
          PROVE  Named(h, s)
      <4>1. ASSUME NEW n \in 1 .. Len(s) PROVE h.string[s[n]] # NULL
        <5>1. s[n] \in ToSet(t)
          BY <3>1, ListMembers
        <5>2. PICK m \in 1 .. Len(t) : t[m] = s[n]
          BY <5>1, ListMembers
        <5> QED
          BY <3>1, <5>2 DEF Named
      <4> QED
        BY <4>1 DEF Named
    <3> QED
      BY <1>1, <1>4, <1>5, <2>1, <2>2, <3>1
  <2>3. ASSUME Named(h, list) PROVE Sorted(h, a, c) /\ Sorted(h, b, c)
    <3>1. Sorted(d, a, c)
      <4>1. Named(d, p)
        BY <1>3, <2>1, <2>3, SameNames
      <4> QED
        BY <1>a, <4>1 DEF IsSort
    <3>2. Sorted(f, b, c)
      <4>1. Named(f, q)
        BY <1>4, <2>1, <2>3, SameNames
      <4> QED
        BY <1>b, <4>1 DEF IsSort
    <3> QED
      BY <1>3, <1>4, <3>1, <3>2, SameNames
  <2> QED
    BY <1>u, <2>2, <2>3 DEF IsMerge

\* The links that sorting the halves leaves.
<1>12. /\ Strung(d, p) /\ Strung(d, q) /\ d.prev[p[1]] = h.prev[list[1]]
       /\ d.prev[q[1]] = NULL /\ SameOutside(d, h, list)
  BY SplitStrung DEF d, p, q
<1>13. /\ Strung(f, a) /\ SameOutside(f, d, p) /\ f.prev[a[1]] = FirstPrev(d, p, a)
       /\ Strung(g, b) /\ SameOutside(g, f, q) /\ g.prev[b[1]] = FirstPrev(f, q, b)
  BY <1>2, <1>a, <1>b DEF IsSort
<1>14. \A n \in 1 .. Len(a) : a[n] \in Item /\ a[n] \in ToSet(p) /\ a[n] \notin ToSet(q)
  <2>1. \A n \in 1 .. Len(a) : a[n] \in Item /\ a[n] \in ToSet(a)
    BY <1>4, ListMembers
  <2> QED
    BY <1>2, <1>4, <2>1
<1>15. 1 \in 1 .. Len(a) /\ 1 \in 1 .. Len(b) /\ 1 \in 1 .. Len(q)
  <2>1. Len(a) \in Nat \ {0} /\ Len(b) \in Nat \ {0}
    BY <1>4, <1>5, <1>9
  <2> QED
    BY <1>5, <2>1
<1>16. Strung(g, a) /\ g.prev[a[1]] = f.prev[a[1]]
  <2>1. \A i \in ToSet(a) : g.next[i] = f.next[i] /\ g.prev[i] = f.prev[i]
    <3>1. \A i \in ToSet(a) : i \in Item \ ToSet(q)
      BY <1>4, <1>14, ListMembers
    <3> QED
      BY <1>13, <3>1 DEF SameOutside
  <2>2. a[1] \in ToSet(a)
    BY <1>4, <1>15, ListMembers
  <2> QED
    BY <1>4, <1>13, <2>1, <2>2, SameStrung
<1>17. f.prev[q[1]] = NULL
  <2>1. q[1] \in Item \ ToSet(p)
    <3>1. q[1] \in ToSet(q) /\ q[1] \in Item
      BY <1>1, <1>15, ListMembers
    <3> QED
      BY <1>2, <3>1
  <2> QED
    BY <1>12, <1>13, <2>1 DEF SameOutside
<1>18. g.next[u[Len(u)]] = NULL
  <2>1. u[Len(u)] = a[Len(a)] \/ u[Len(u)] = b[Len(b)]
    BY <1>9, <1>u DEF IsMerge
  <2> QED
    BY <1>9, <1>13, <1>16, <2>1 DEF Strung
<1>19. Strung(r, u) /\ SameOutside(r, g, u) /\ r.prev[u[1]] = g.prev[u[1]]
  BY <1>5, <1>6, <1>9, <1>10, <1>18, RelinkedStrung
<1> HIDE DEF r
<1>20. r.prev[u[1]] = FirstPrev(h, list, u)
  <2>1. CASE u[1] = a[1]
    <3>1. r.prev[u[1]] = FirstPrev(d, p, a)
      BY <1>13, <1>16, <1>19, <2>1
    <3> QED
      BY <1>2, <1>12, <2>1, <3>1 DEF FirstPrev
  <2>2. CASE u[1] = b[1]
    <3>1. r.prev[u[1]] = FirstPrev(f, q, b)
      BY <1>13, <1>19, <2>2
    <3>2. r.prev[u[1]] = NULL
      BY <1>17, <3>1 DEF FirstPrev
    <3>3. u[1] # list[1]
      <4>1. b[1] \in ToSet(q)
        BY <1>5, <1>15, ListMembers
      <4>2. list[1] \in ToSet(p)
        <5>1. 1 \in 1 .. Len(p)
          BY <1>4, <1>15
        <5> QED
          BY <1>1, <1>2, <5>1, ListMembers
      <4> QED
        BY <1>2, <2>2, <4>1, <4>2
    <3> QED
      BY <3>2, <3>3 DEF FirstPrev
  <2>3. u[1] = a[1] \/ u[1] = b[1]
    BY <1>9, <1>u DEF IsMerge
  <2> QED
    BY <2>1, <2>2, <2>3
<1>21. SameOutside(r, h, list)
  <2>1. ASSUME NEW i \in Item \ ToSet(list)
        PROVE  r.next[i] = h.next[i] /\ r.prev[i] = h.prev[i]
    <3>1. i \notin ToSet(u) /\ i \notin ToSet(q) /\ i \notin ToSet(p)
      BY <1>2, <1>7
    <3> QED
      BY <1>12, <1>13, <1>19, <3>1 DEF SameOutside
  <2> QED
    BY <2>1 DEF SameOutside
<1>22. IsSort(h, list, c, u, r)
  BY <1>6, <1>7, <1>8, <1>10, <1>11, <1>19, <1>20, <1>21 DEF IsSort
<1> QED
  BY <1>22 DEF r

\* sort_list sorts.
LEMMA SortSorts ==
  ASSUME NEW c, NEW h \in Heap, NEW list \in Seq(Item), Distinct(list), Strung(h, list)
  PROVE  LET sorted == sort_list(h, list, c)
         IN  IsSort(h, list, c, sorted.ret, sorted.heap)
<1>1. PICK f : /\ \A g \in Heap, s \in Seq(Item) : sort_list(g, s, c) = f[<<g, s>>]
               /\ \A call \in Calls : f[call] = SortStep(c, call, f)
  BY SortUnfolds
<1> DEFINE Holds(g, s) == IsSort(g, s, c, f[<<g, s>>].ret, f[<<g, s>>].heap)
           Bad == {k \in Nat : \E g \in Heap, s \in Seq(Item) :
                     k = Len(s) /\ Distinct(s) /\ Strung(g, s) /\ ~Holds(g, s)}
<1>2. ASSUME Bad # {} PROVE FALSE
  <2>1. PICK k \in Bad : \A j \in Bad : k <= j
    <3>1. Bad \in SUBSET Nat
      OBVIOUS
    <3> HIDE DEF Bad
    <3> QED
      BY <1>2, <3>1, LeastNat
  <2>2. PICK g \in Heap, s \in Seq(Item) :
          k = Len(s) /\ Distinct(s) /\ Strung(g, s) /\ ~Holds(g, s)
    OBVIOUS
  <2>3. ASSUME NEW e \in Heap, NEW t \in Seq(Item), Len(t) < k, Distinct(t), Strung(e, t)
        PROVE  Holds(e, t)
    <3>1. Len(t) \in Nat /\ k \in Nat
      OBVIOUS
    <3>2. Len(t) \notin Bad
      <4> HIDE DEF Bad
      <4> QED
        BY <2>1, <2>3, <3>1
    <3> HIDE DEF Holds
    <3> QED
      BY <2>3, <3>1, <3>2
  <2> HIDE DEF Bad
  <2>4. <<g, s>> \in Calls /\ f[<<g, s>>] = SortStep(c, <<g, s>>, f)
    <3>1. <<g, s>> \in Calls
      BY DEF Calls
    <3> QED
      BY <1>1, <3>1
  <2>5. CASE Len(s) < 2 \/ InOrder(g, s, c)
    <3>1. f[<<g, s>>] = Returns(s, g)
      BY <2>4, <2>5 DEF SortStep
    <3>2. f[<<g, s>>].ret = s /\ f[<<g, s>>].heap = g
      BY <3>1 DEF Returns
    <3>3. IsSort(g, s, c, s, g)
      BY <2>2, <2>5, LeftAlone
    <3> QED
      BY <2>2, <3>2, <3>3
  <2>6. CASE ~(Len(s) < 2 \/ InOrder(g, s, c))
    <3> DEFINE d == Split(g, s)
               p == FirstHalf(s)
               q == SecondHalf(s)
               first == f[<<d, p>>]
               second == f[<<first.heap, q>>]
               merged == Merge(g, first.ret, second.ret, c)
    <3>1. f[<<g, s>>] = Returns(merged, Relinked(second.heap, merged))
      BY <2>4, <2>6 DEF SortStep
    <3>2. Len(s) >= 2 /\ Len(s) \in Nat
      <4>1. Len(s) \in Nat
        OBVIOUS
      <4> QED
        BY <2>6, <4>1
    <3>3. /\ p \in Seq(Item) /\ q \in Seq(Item) /\ Len(p) < k /\ Len(q) < k
      BY <2>2, <3>2, Halves
    <3>4. d \in Heap
      BY SplitHeap
    <3>5. /\ Strung(d, p) /\ Strung(d, q) /\ Distinct(p) /\ Distinct(q)
          /\ ToSet(p) \cap ToSet(q) = {}
      BY <2>2, <3>2, SplitStrung, HalvesOf
    <3> HIDE DEF d, p, q
    <3>6. IsSort(d, p, c, first.ret, first.heap)
      BY <2>3, <3>3, <3>4, <3>5
    <3> HIDE DEF first
    <3>7. first.ret \in Seq(Item) /\ first.heap \in Heap
      BY <3>6 DEF IsSort
    <3>8. Strung(first.heap, q)
      <4>1. \A i \in ToSet(q) : i \in Item \ ToSet(p)
        <5>1. \A i \in ToSet(q) : i \in Item
          BY <3>3, ListMembers
        <5> QED
          BY <3>5, <5>1
      <4>2. SameOutside(first.heap, d, p)
        BY <3>6 DEF IsSort
      <4>3. \A i \in ToSet(q) : /\ first.heap.next[i] = d.next[i]
                                /\ first.heap.prev[i] = d.prev[i]
        BY <4>1, <4>2 DEF SameOutside
      <4> QED
        BY <3>3, <3>5, <4>3, SameStrung
    <3>9. IsSort(first.heap, q, c, second.ret, second.heap)
      BY <2>3, <3>3, <3>5, <3>7, <3>8
    <3> HIDE DEF second
    <3>10. second.ret \in Seq(Item)
      BY <3>9 DEF IsSort
    <3>11. IsMerge(g, first.ret, second.ret, c, merged)
      BY <3>7, <3>10, MergeMerges
    <3> HIDE DEF merged
    <3>12. IsSort(g, s, c, merged, Relinked(second.heap, merged))
      BY <2>2, <3>2, <3>6, <3>9, <3>11, MergedHalves DEF d, p, q
    <3>13. /\ f[<<g, s>>].ret = merged
           /\ f[<<g, s>>].heap = Relinked(second.heap, merged)
      BY <3>1 DEF Returns
    <3> QED
      BY <2>2, <3>12, <3>13
  <2> QED
    BY <2>5, <2>6
<1>3. Holds(h, list)
  <2>1. Len(list) \in Nat
    OBVIOUS
  <2>2. ASSUME ~Holds(h, list) PROVE Len(list) \in Bad
    <3> HIDE DEF Holds
    <3> QED
      BY <2>1, <2>2
  <2> HIDE DEF Bad, Holds
  <2> QED
    BY <1>2, <2>2
<1> QED
  BY <1>1, <1>3

-----------------------------------------------------------------------------
(* The object and its members.                                             *)

\* The members of the object are the list, all of them with a name.
IsObject(h, list) ==
  /\ h \in Heap /\ list \in Seq(Item)
  /\ Distinct(list) /\ Strung(h, list) /\ Named(h, list)
  /\ h.child[object] = IF list = << >> THEN NULL ELSE list[1]

\* A list without repetitions is no longer than there are items.
LEMMA DistinctLength ==
  ASSUME NEW list \in Seq(Item), Distinct(list)
  PROVE  Len(list) \in 0 .. Cardinality(Item)
<1>1. list \in [1 .. Len(list) -> Item] /\ Len(list) \in Nat
  OBVIOUS
<1>2. list \in Injection(1 .. Len(list), Item)
  BY <1>1 DEF Injection, IsInjective, Distinct
<1>3. Cardinality(1 .. Len(list)) <= Cardinality(Item) /\ Cardinality(Item) \in Nat
  BY <1>2, ItemAssumption, FS_Injection, FS_CardinalityType
<1>4. Cardinality(1 .. Len(list)) = Len(list)
  <2>1. 1 \in Int /\ Len(list) \in Int
    BY <1>1
  <2>2. Cardinality(1 .. Len(list)) = IF 1 > Len(list) THEN 0 ELSE Len(list) - 1 + 1
    BY <2>1, FS_Interval
  <2> QED
    BY <1>1, <2>2
<1> QED
  BY <1>1, <1>3, <1>4

\* An index finds the item at its place, and nothing behind the last one.
LEMMA IndexInList ==
  ASSUME NEW h, NEW list, IsObject(h, list), NEW n \in 0 .. Len(list)
  PROVE  get_array_item(h, object, n) = IF n < Len(list) THEN list[n + 1] ELSE NULL
<1> USE NULLAssumption, SortAssumption
<1> DEFINE found(k) == get_array_item(h, object, k)
           Right(k) == found(k) = IF k < Len(list) THEN list[k + 1] ELSE NULL
           Bad == {k \in 0 .. Len(list) : ~Right(k)}
<1>1. /\ h \in Heap /\ list \in Seq(Item) /\ Len(list) \in Nat
      /\ \A k \in 1 .. Len(list) : list[k] \in Item /\ list[k] # NULL
  BY DEF IsObject
<1>2. ASSUME Bad # {} PROVE FALSE
  <2>1. PICK k \in Bad : \A j \in Bad : k <= j
    <3>1. Bad \in SUBSET Nat
      BY <1>1
    <3> HIDE DEF Bad
    <3> QED
      BY <1>2, <3>1, LeastNat
  <2>2. k \in 0 .. Len(list) /\ ~Right(k)
    OBVIOUS
  <2>3. CASE k = 0
    <3>1. found(0) = h.child[object]
      BY <1>1, GetArrayItemFirst
    <3>2. list = << >> <=> Len(list) = 0
      BY <1>1
    <3> QED
      BY <1>1, <2>2, <2>3, <3>1, <3>2 DEF IsObject
  <2>4. CASE k # 0
    <3>1. k - 1 \in 0 .. Len(list) - 1 /\ k - 1 \in Nat /\ (k - 1) + 1 = k /\ k \in 1 .. Len(list)
      BY <1>1, <2>2, <2>4
    <3>2. k - 1 \notin Bad
      <4>1. k \in Nat /\ k - 1 < k
        BY <3>1
      <4> HIDE DEF Bad
      <4> QED
        BY <2>1, <3>1, <4>1
    <3>3. found(k - 1) = list[(k - 1) + 1]
      BY <1>1, <3>1, <3>2
    <3>4. found((k - 1) + 1) = After(h, found(k - 1))
      BY <1>1, <3>1, GetArrayItemNext
    <3> HIDE DEF found
    <3>5. found(k) = h.next[list[k]]
      BY <1>1, <3>1, <3>3, <3>4 DEF After
    <3>6. CASE k < Len(list)
      <4>1. k \in 1 .. Len(list) - 1
        BY <1>1, <3>1, <3>6
      <4> QED
        BY <2>2, <3>5, <3>6, <4>1 DEF IsObject, Strung
    <3>7. CASE ~(k < Len(list))
      <4>1. k = Len(list) /\ list # << >>
        BY <1>1, <3>1, <3>7
      <4> QED
        BY <2>2, <3>5, <3>7, <4>1 DEF IsObject, Strung
    <3> QED
      BY <3>6, <3>7
  <2> QED
    BY <2>3, <2>4
<1> QED
  BY <1>2

\* The members that are read along next are the list.
LEMMA MembersAreList ==
  ASSUME NEW h, NEW list, IsObject(h, list)
  PROVE  MembersOf(h) = list
<1> USE NULLAssumption
<1> DEFINE found(n) == get_array_item(h, object, n)
           Stops(n) == found(n) = NULL /\ \A m \in 0 .. n - 1 : found(m) # NULL
           size == CHOOSE n \in 0 .. Cardinality(Item) : Stops(n)
<1>1. /\ list \in Seq(Item) /\ Len(list) \in 0 .. Cardinality(Item) /\ Len(list) \in Nat
      /\ \A n \in 1 .. Len(list) : list[n] # NULL
  <2>1. Len(list) \in 0 .. Cardinality(Item)
    BY DistinctLength DEF IsObject
  <2> QED
    BY <2>1 DEF IsObject
<1>2. /\ found(Len(list)) = NULL
      /\ \A n \in 0 .. Len(list) - 1 : found(n) = list[n + 1]
  <2>1. Len(list) \in 0 .. Len(list) /\ ~(Len(list) < Len(list))
    BY <1>1
  <2>2. ASSUME NEW n \in 0 .. Len(list) - 1
        PROVE  n \in 0 .. Len(list) /\ n < Len(list)
    BY <1>1
  <2> QED
    BY <2>1, <2>2, IndexInList
<1> HIDE DEF found
<1>3. \A n \in 0 .. Len(list) - 1 : found(n) # NULL
  <2>1. ASSUME NEW n \in 0 .. Len(list) - 1 PROVE n + 1 \in 1 .. Len(list)
    BY <1>1
  <2> QED
    BY <1>1, <1>2, <2>1
<1>4. Stops(Len(list))
  BY <1>2, <1>3
<1>5. size \in 0 .. Cardinality(Item) /\ Stops(size)
  BY <1>1, <1>4
<1> HIDE DEF size
<1>6. size = Len(list)
  <2>1. size \in Nat
    BY <1>1, <1>5
  <2>2. ~(size < Len(list))
    BY <1>1, <1>3, <1>5, <2>1
  <2>3. ~(Len(list) < size)
    BY <1>1, <1>2, <1>5, <2>1
  <2> QED
    BY <1>1, <2>1, <2>2, <2>3
<1>7. MembersOf(h) = [n \in 1 .. size |-> found(n - 1)]
  BY Zenon DEF MembersOf, found, size
<1>8. \A n \in 1 .. Len(list) : found(n - 1) = list[n]
  <2>1. ASSUME NEW n \in 1 .. Len(list)
        PROVE  n - 1 \in 0 .. Len(list) - 1 /\ (n - 1) + 1 = n
    BY <1>1
  <2> QED
    BY <1>2, <2>1
<1>9. list = [n \in 1 .. Len(list) |-> list[n]]
  BY <1>1
<1> QED
  BY <1>6, <1>7, <1>8, <1>9

\* The heap g has in s, in order, the members that the heap h has in the list.
HasSorted(h, list, c, g, s) ==
  /\ IsObject(g, s) /\ Sorted(g, s, c)
  /\ ToSet(s) = ToSet(list) /\ Len(s) = Len(list)
  /\ g.string = h.string
  /\ list # << >> => g.prev[s[1]] = FirstPrev(h, list, s)

\* A sort of the object leaves an object with the members of before, in order.
LEMMA ObjectSorted ==
  ASSUME NEW h, NEW list, IsObject(h, list), NEW c
  PROVE  \E s : HasSorted(h, list, c, sort_object(h, c), s)
<1> USE SortAssumption
<1> DEFINE sorted == sort_list(h, list, c)
           s == sorted.ret
           g == sort_object(h, c)
<1>1. MembersOf(h) = list
  BY MembersAreList
<1>2. h \in Heap /\ list \in Seq(Item) /\ Distinct(list) /\ Strung(h, list) /\ Named(h, list)
  BY DEF IsObject
<1>3. IsSort(h, list, c, s, sorted.heap)
  BY <1>2, SortSorts
<1>4. g = IF s = << >> THEN h ELSE [sorted.heap EXCEPT !.child[object] = s[1]]
  BY <1>1 DEF sort_object
<1> HIDE DEF g, sorted
<1>5. s \in Seq(Item) /\ sorted.heap \in Heap /\ Len(s) = Len(list) /\ ToSet(s) = ToSet(list)
  BY <1>3 DEF IsSort
<1>6. (s = << >> <=> Len(s) = 0) /\ (list = << >> <=> Len(list) = 0)
  BY <1>2, <1>5
<1>7. CASE s = << >>
  <2>1. g = h /\ list = << >>
    BY <1>4, <1>5, <1>6, <1>7
  <2>2. Sorted(h, list, c)
    <3>1. Len(list) = 0
      BY <2>1
    <3> QED
      BY <3>1 DEF Sorted
  <2>3. HasSorted(h, list, c, g, list)
    BY <2>1, <2>2 DEF HasSorted
  <2> QED
    BY <2>3 DEF g
<1>8. CASE s # << >>
  <2>1. list # << >> /\ 1 \in 1 .. Len(s)
    BY <1>5, <1>6, <1>8
  <2>2. s[1] \in Link
    BY <1>5, <2>1 DEF Link
  <2>3. /\ g \in Heap /\ g.next = sorted.heap.next /\ g.prev = sorted.heap.prev
        /\ g.string = sorted.heap.string /\ g.child[object] = s[1]
    BY <1>4, <1>5, <1>8, <2>2 DEF Heap
  <2>4. g.string = h.string
    BY <1>3, <2>3 DEF IsSort
  <2>5. Strung(g, s)
    BY <1>3, <2>3 DEF IsSort, Strung
  <2>6. Named(g, s)
    <3>1. ASSUME NEW n \in 1 .. Len(s) PROVE g.string[s[n]] # NULL
      <4>1. s[n] \in ToSet(list)
        BY <1>5, ListMembers
      <4>2. PICK m \in 1 .. Len(list) : list[m] = s[n]
        BY <1>2, <4>1, ListMembers
      <4> QED
        BY <1>2, <2>4, <4>2 DEF Named
    <3> QED
      BY <3>1 DEF Named
  <2>7. Sorted(g, s, c)
    BY <1>2, <1>3, <2>4, SameNames DEF IsSort
  <2>8. g.prev[s[1]] = FirstPrev(h, list, s)
    BY <1>3, <2>1, <2>3 DEF IsSort
  <2>9. IsObject(g, s)
    BY <1>3, <1>5, <1>8, <2>3, <2>5, <2>6 DEF IsObject, IsSort
  <2>10. HasSorted(h, list, c, g, s)
    BY <1>5, <2>4, <2>7, <2>8, <2>9 DEF HasSorted
  <2> QED
    BY <2>10 DEF g
<1> QED
  BY <1>7, <1>8

-----------------------------------------------------------------------------
(* The specification.                                                      *)

\* The object that is made has the members it was given.
LEMMA ObjectMade ==
  ASSUME NEW n \in 0 .. Len(members), NEW names \in [1 .. n -> Key]
  PROVE  IsObject(ObjectWith(names), SubSeq(members, 1, n))
<1> USE NULLAssumption, SortAssumption
<1> DEFINE list == SubSeq(members, 1, n)
           s == <<object>> \o list
           r == CreateNumberArray(EmptyHeap, s, n)
           string == [i \in Item |-> IF i \in ToSet(list) THEN names[Place(members, i)]
                                     ELSE NULL]
           h == ObjectWith(names)
<1>1. /\ members \in Seq(Item) /\ Len(members) \in Nat /\ n \in Nat
      /\ \A k \in 1 .. Len(members) : members[k] \in Item /\ members[k] # object
      /\ Distinct(members)
  <2>1. members \in Seq(Item \ {object}) /\ IsInjective(members)
    OBVIOUS
  <2>2. members \in Seq(Item)
    BY <2>1
  <2> QED
    BY <2>1, <2>2 DEF Distinct, IsInjective
<1>2. /\ list \in Seq(Item) /\ Len(list) = n
      /\ \A k \in 1 .. n : list[k] = members[k] /\ k \in 1 .. Len(members)
  BY <1>1
<1>3. Len(names) = n
  BY <1>1
<1>4. Distinct(list)
  BY <1>1, <1>2 DEF Distinct
<1> HIDE DEF list
<1>5. /\ s \in Seq(Item) /\ Len(s) = n + 1 /\ s[1] = object
      /\ \A k \in 1 .. n : s[k + 1] = list[k]
      /\ \A k \in 2 .. n + 1 : s[k] = list[k - 1]
  BY <1>2, InFront
<1> HIDE DEF s
<1>6. s \in Seq(Item \ EmptyHeap.live) /\ WellLinked(EmptyHeap, {})
  <2>1. Item \ EmptyHeap.live = Item
    BY DEF EmptyHeap
  <2> QED
    BY <1>5, <2>1, NoItems
<1>7. ASSUME NEW k \in 1 .. Len(s), NEW j \in 1 .. Len(s), s[k] = s[j] PROVE k = j
  <2>1. \A i \in 2 .. Len(s) : i - 1 \in 1 .. n /\ s[i] = list[i - 1] /\ s[i] # object
    BY <1>1, <1>2, <1>5
  <2>2. CASE k = 1 \/ j = 1
    BY <1>1, <1>5, <1>7, <2>1, <2>2
  <2>3. CASE k # 1 /\ j # 1
    <3>1. k \in 2 .. Len(s) /\ j \in 2 .. Len(s)
      BY <1>1, <1>5, <2>3
    <3>2. k - 1 = j - 1
      BY <1>2, <1>4, <1>7, <2>1, <3>1 DEF Distinct
    <3> QED
      BY <1>1, <1>5, <3>2
  <2> QED
    BY <2>2, <2>3
<1>8. \/ r = Returns(NULL, EmptyHeap)
      \/ \E g : r = Returns(s[1], g) /\ Free(EmptyHeap, s) /\ IsChain(g, EmptyHeap, s, s[Len(s)])
  BY <1>1, <1>6, <1>7, NumberArrayChain
<1>9. r.ret = s[1]
  <2>1. Len(s) # 0 /\ ~(Len(s) < n + 1)
    BY <1>1, <1>5
  <2> QED
    BY <2>1 DEF CreateNumberArray, Returns
<1>10. s[1] # NULL
  BY <1>5
<1> HIDE DEF r
<1>11. IsChain(r.heap, EmptyHeap, s, s[Len(s)])
  BY <1>8, <1>9, <1>10 DEF Returns
<1>12. h = [r.heap EXCEPT !.string = string, !.strings = n]
  BY <1>3 DEF ObjectWith, r, s, list
<1>13. ASSUME NEW i \in ToSet(list) PROVE Place(members, i) \in 1 .. n
  <2>1. PICK k \in 1 .. n : list[k] = i
    BY <1>2, ListMembers
  <2>2. members[k] = i /\ k \in 1 .. Len(members)
    BY <1>2, <2>1
  <2>3. Place(members, i) \in 1 .. k
    BY <1>1, <2>2, PlaceOf
  <2> QED
    BY <1>1, <2>3
<1>14. \A i \in Item : string[i] \in Key \cup {NULL} /\ (i \in ToSet(list) => string[i] \in Key)
  BY <1>13
<1>15. string \in [Item -> Key \cup {NULL}]
  BY <1>14
<1> HIDE DEF h, string
<1>16. r.heap \in Heap
  BY <1>11 DEF IsChain
<1>17. /\ h \in Heap /\ h.next = r.heap.next /\ h.prev = r.heap.prev
       /\ h.child = r.heap.child /\ h.string = string
  <2> DEFINE g == r.heap
  <2>1. g \in Heap /\ h = [g EXCEPT !.string = string, !.strings = n]
    BY <1>12, <1>16
  <2>2. n \in Int
    BY <1>1
  <2> HIDE DEF g
  <2>3. /\ h \in Heap /\ h.next = g.next /\ h.prev = g.prev
        /\ h.child = g.child /\ h.string = string
    BY <1>15, <2>1, <2>2 DEF Heap
  <2> QED
    BY <2>3 DEF g
<1>18. Named(h, list)
  <2>1. ASSUME NEW k \in 1 .. Len(list) PROVE h.string[list[k]] # NULL
    <3>1. list[k] \in Item
      BY <1>2
    <3>2. list[k] \in ToSet(list)
      BY <1>2, ListMembers
    <3>3. string[list[k]] \in Key
      BY <1>14, <3>1, <3>2
    <3> QED
      BY <1>17, <3>3
  <2> QED
    BY <2>1 DEF Named
<1>19. h.child[object] = IF list = << >> THEN NULL ELSE list[1]
  <2>1. h.child[object] = IF Len(s) > 1 THEN s[2] ELSE NULL
    BY <1>5, <1>11, <1>17 DEF IsChain, EmptyHeap
  <2>2. (list = << >> <=> n = 0) /\ (Len(s) > 1 <=> n # 0) /\ (n # 0 => s[2] = list[1])
    <3>1. list = << >> <=> n = 0
      BY <1>1, <1>2
    <3>2. Len(s) > 1 <=> n # 0
      BY <1>1, <1>5
    <3>3. ASSUME n # 0 PROVE s[2] = list[1]
      <4>1. 1 \in 1 .. n /\ 1 + 1 = 2
        BY <1>1, <3>3
      <4>2. s[1 + 1] = list[1]
        BY <1>5, <4>1
      <4> QED
        BY <4>1, <4>2
    <3> QED
      BY <3>1, <3>2, <3>3
  <2> QED
    BY <2>1, <2>2
<1>20. Strung(h, list)
  <2>1. \A k \in 2 .. Len(s) :
          /\ h.next[s[k]] = IF k < Len(s) THEN s[k + 1] ELSE NULL
          /\ h.prev[s[k]] = IF k > 2 THEN s[k - 1] ELSE s[Len(s)]
    BY <1>11, <1>17 DEF IsChain
  <2>2. ASSUME NEW k \in 1 .. Len(list) - 1
        PROVE  h.next[list[k]] = list[k + 1] /\ h.prev[list[k + 1]] = list[k]
    <3>1. /\ k + 1 \in 2 .. Len(s) /\ (k + 1) + 1 \in 2 .. Len(s) /\ k + 1 < Len(s)
          /\ (k + 1) + 1 > 2 /\ ((k + 1) + 1) - 1 = k + 1
          /\ k \in 1 .. n /\ k + 1 \in 1 .. n
      BY <1>1, <1>2, <1>5
    <3>2. s[k + 1] = list[k] /\ s[(k + 1) + 1] = list[k + 1]
      BY <1>5, <3>1
    <3>3. h.next[s[k + 1]] = s[(k + 1) + 1]
      BY <2>1, <3>1
    <3>4. h.prev[s[(k + 1) + 1]] = s[((k + 1) + 1) - 1]
      BY <2>1, <3>1
    <3> QED
      BY <3>1, <3>2, <3>3, <3>4
  <2>3. ASSUME list # << >> PROVE h.next[list[Len(list)]] = NULL
    <3>1. n \in 1 .. n /\ Len(s) \in 2 .. Len(s) /\ Len(s) = n + 1
      BY <1>1, <1>2, <1>5, <2>3
    <3>2. s[Len(s)] = list[Len(list)]
      BY <1>2, <1>5, <3>1
    <3>3. h.next[s[Len(s)]] = NULL
      BY <2>1, <3>1
    <3> QED
      BY <3>2, <3>3
  <2> QED
    BY <2>2, <2>3 DEF Strung
<1> QED
  BY <1>2, <1>4, <1>17, <1>18, <1>19, <1>20 DEF IsObject, h, list

\* The invariant: there is an object whose members are linked from the second
\* one on and have names, and once sorted they are in the order of the last sort.
SortInv ==
  /\ IsObject(heap, MembersOf(heap))
  /\ order # "none" => Sorted(heap, MembersOf(heap), order = "case_sensitive")

\* A sort, seen from the members before and after it.
MembersSorted ==
  HasSorted(heap, MembersOf(heap), order' = "case_sensitive", heap', MembersOf(heap'))

\* The invariant holds of every object before it is sorted.
LEMMA SortInvInit == Init => SortInv
<1> SUFFICES ASSUME Init PROVE SortInv
  OBVIOUS
<1>1. PICK n \in 0 .. Len(members) : \E names \in [1 .. n -> Key] : heap = ObjectWith(names)
  BY DEF Init
<1>2. PICK names \in [1 .. n -> Key] : heap = ObjectWith(names)
  BY <1>1
<1> DEFINE list == SubSeq(members, 1, n)
<1>3. IsObject(heap, list)
  BY <1>2, ObjectMade
<1> HIDE DEF list
<1>4. MembersOf(heap) = list
  BY <1>3, MembersAreList
<1> QED
  BY <1>3, <1>4 DEF SortInv, Init

\* Every step sorts the whole object.
LEMMA NextSorts == SortInv /\ Next => MembersSorted
<1> SUFFICES ASSUME SortInv, Next PROVE MembersSorted
  OBVIOUS
<1>1. PICK c \in BOOLEAN : SortObject(c)
  BY DEF Next
<1>2. heap' = sort_object(heap, c) /\ (order' = "case_sensitive") = c
  BY <1>1 DEF SortObject
<1>3. PICK s : HasSorted(heap, MembersOf(heap), c, sort_object(heap, c), s)
  BY ObjectSorted DEF SortInv
<1>4. IsObject(heap', s)
  BY <1>2, <1>3 DEF HasSorted
<1>5. MembersOf(heap') = s
  BY <1>4, MembersAreList
<1> QED
  BY <1>2, <1>3, <1>5 DEF MembersSorted

\* Every step keeps the invariant.
LEMMA SortInvNext == SortInv /\ [Next]_vars => SortInv'
<1> SUFFICES ASSUME SortInv, [Next]_vars PROVE SortInv'
  OBVIOUS
<1>1. CASE Next
  BY <1>1, NextSorts DEF MembersSorted, HasSorted, SortInv
<1>2. CASE UNCHANGED vars
  BY <1>2 DEF vars, SortInv
<1> QED
  BY <1>1, <1>2

\* The invariant holds always.
LEMMA SortInvHolds == Spec => []SortInv
<1> QED
  BY SortInvInit, SortInvNext, PTL DEF Spec

\* After any number of sorts, by name or by the name in small letters, no
\* member precedes one whose name is smaller in the mode of the last sort.
THEOREM SortedIsOrdered == Spec => []Ordered
<1>1. SortInv => Ordered
  BY DEF SortInv, Sorted, Ordered, IsObject
<1> QED
  BY <1>1, SortInvHolds, PTL

\* The links back from every member but the first, and the end of the list.
THEOREM SortKeepsLinks == Spec => []LinkedFromSecond
<1>1. SortInv => LinkedFromSecond
  <2> SUFFICES ASSUME SortInv PROVE LinkedFromSecond
    OBVIOUS
  <2> DEFINE list == MembersOf(heap)
  <2>1. list \in Seq(Item) /\ Strung(heap, list)
    BY DEF SortInv, IsObject
  <2> HIDE DEF list
  <2>2. ASSUME NEW n \in 2 .. Len(list) PROVE heap.prev[list[n]] = list[n - 1]
    <3>1. n - 1 \in 1 .. Len(list) - 1 /\ (n - 1) + 1 = n
      BY <2>1
    <3>2. heap.prev[list[(n - 1) + 1]] = list[n - 1]
      BY <2>1, <3>1 DEF Strung
    <3> QED
      BY <3>1, <3>2
  <2> QED
    BY <2>1, <2>2 DEF Strung, LinkedFromSecond, list
<1> QED
  BY <1>1, SortInvHolds, PTL

\* A sort loses no member, doubles none and changes no name.
THEOREM SortKeepsMembers == Spec => KeepsMembers
<1>1. SortInv /\ [Next]_vars
        => [/\ ToSet(MembersOf(heap')) = ToSet(MembersOf(heap))
            /\ Len(MembersOf(heap')) = Len(MembersOf(heap))
            /\ heap'.string = heap.string]_vars
  BY NextSorts DEF MembersSorted, HasSorted
<1> QED
  BY <1>1, SortInvHolds, PTL DEF Spec, KeepsMembers

\* What a sort leaves in the prev of the first member, which it does not set.
THEOREM SortLeavesFirstPrev == Spec => FirstPrevAfterSort
<1>1. SortInv /\ [Next]_vars
        => [LET before == MembersOf(heap)
                after == MembersOf(heap')
            IN  before # << >> =>
                  heap'.prev[after[1]] = IF after[1] = before[1] THEN heap.prev[after[1]]
                                         ELSE NULL]_vars
  BY NextSorts DEF MembersSorted, HasSorted, FirstPrev
<1> QED
  BY <1>1, SortInvHolds, PTL DEF Spec, FirstPrevAfterSort
=============================================================================

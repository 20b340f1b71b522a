---------------------------- MODULE LeastNumber ----------------------------
(***************************************************************************)
(* The least-number principle, the form of induction that all the proofs    *)
(* use: what holds of no least number holds of none.  And what it gives for *)
(* recursive functions: the definition determines the function, if every    *)
(* call leads to a smaller measure.                                         *)
(***************************************************************************)
EXTENDS Integers, FiniteSetTheorems, WellFoundedInduction, TLAPS

\* A set of naturals has a least element.
LEMMA LeastNat ==
  ASSUME NEW T \in SUBSET Nat, T # {}
  PROVE  \E x \in T : \A y \in T : x <= y
<1> DEFINE R == StrictSubsetOrdering(Nat)
           Below(x) == 0 .. x
           B == {Below(x) : x \in T}
<1>1. B \subseteq FiniteSubsetsOf(Nat) /\ B # {}
  <2>1. ASSUME NEW x \in T PROVE IsFiniteSet(Below(x))
    BY FS_Interval
  <2>2. ASSUME NEW x \in T PROVE Below(x) \in FiniteSubsetsOf(Nat)
    BY <2>1 DEF FiniteSubsetsOf
  <2> QED
    BY <2>2
<1>2. PICK b \in B : \A c \in B : ~(<<c, b>> \in R)
  <2>1. IsWellFoundedOn(R, FiniteSubsetsOf(Nat))
    BY FS_StrictSubsetOrderingWellFounded
  <2> HIDE DEF R, B
  <2> QED
    BY <1>1, <2>1, WFMin
<1>3. PICK x \in T : b = Below(x)
  BY <1>2
<1>4. ASSUME NEW y \in T PROVE x <= y
  <2>1. ~(<<Below(y), Below(x)>> \in R)
    BY <1>2, <1>3
  <2>2. ASSUME y < x PROVE FALSE
    <3>1. Below(y) \subseteq Below(x) /\ x \in Below(x) /\ x \notin Below(y)
      BY <2>2
    <3>2. Below(y) \in SUBSET Nat /\ Below(x) \in SUBSET Nat
      OBVIOUS
    <3> QED
      BY <2>1, <3>1, <3>2 DEF StrictSubsetOrdering
  <2> QED
    BY <2>2
<1> QED
  BY <1>4

\* What holds of 0, and of every number up to n if it holds of the one before,
\* holds of all of them.
LEMMA UpTo ==
  ASSUME NEW n \in Nat, NEW T, 0 \in T, \A k \in 1 .. n : k - 1 \in T => k \in T
  PROVE  0 .. n \subseteq T
<1> DEFINE Bad == (0 .. n) \ T
<1>1. ASSUME Bad # {} PROVE FALSE
  <2>1. Bad \in SUBSET Nat
    OBVIOUS
  <2>2. PICK k \in Bad : \A j \in Bad : k <= j
    <3> HIDE DEF Bad
    <3> QED
      BY <1>1, <2>1, LeastNat
  <2>3. k \in 1 .. n /\ k \notin T
    BY <2>2
  <2>4. k - 1 \in 0 .. n /\ k - 1 < k /\ k - 1 \in Nat /\ k \in Nat
    BY <2>3
  <2>5. k - 1 \notin Bad
    <3> HIDE DEF Bad
    <3> QED
      BY <2>2, <2>4
  <2> QED
    BY <2>3, <2>4, <2>5
<1> QED
  BY <1>1

\* What G makes of x in D and of a function f from D to V is in V, and depends
\* on f only where the measure m is smaller than in x.
DescendsAlong(m, G, D, V) ==
  /\ V # {} /\ m \in [D -> Nat] /\ G \in [D \X [D -> V] -> V]
  /\ \A x \in D : \A f, g \in [D -> V] :
       (\A y \in D : m[y] < m[x] => f[y] = g[y]) => G[<<x, f>>] = G[<<x, g>>]

\* A definition by recursion along a measure has a solution, a function that
\* has in every x the value that G makes of x and of the function.
LEMMA Recursion ==
  ASSUME NEW D, NEW V, NEW m, NEW G, DescendsAlong(m, G, D, V)
  PROVE  \E f \in [D -> V] : \A x \in D : f[x] = G[<<x, f>>]
<1> USE DEF DescendsAlong
<1> DEFINE Solves(f, n) == \A x \in D : m[x] < n => f[x] = G[<<x, f>>]
           Solved == {n \in Nat : \E f \in [D -> V] : Solves(f, n)}
           F(n) == CHOOSE f \in [D -> V] : Solves(f, n)
<1>m. ASSUME NEW x \in D PROVE m[x] \in Nat
  OBVIOUS
<1>1. 0 \in Solved
  <2>1. PICK v \in V : TRUE
    OBVIOUS
  <2>2. [x \in D |-> v] \in [D -> V]
    BY <2>1
  <2>3. Solves([x \in D |-> v], 0)
    BY <1>m
  <2> HIDE DEF Solves
  <2> QED
    BY <2>2, <2>3
<1>2. ASSUME NEW n \in Solved PROVE n + 1 \in Solved
  <2>1. PICK f \in [D -> V] : Solves(f, n)
    OBVIOUS
  <2> DEFINE h == [x \in D |-> IF m[x] < n THEN f[x] ELSE G[<<x, f>>]]
  <2>2. h \in [D -> V]
    <3>1. ASSUME NEW x \in D PROVE G[<<x, f>>] \in V
      OBVIOUS
    <3> QED
      BY <3>1
  <2>3. ASSUME NEW x \in D, m[x] < n + 1 PROVE h[x] = G[<<x, h>>]
    <3>1. h[x] = G[<<x, f>>]
      BY <2>1
    <3>2. ASSUME NEW y \in D, m[y] < m[x] PROVE f[y] = h[y]
      <4>1. m[y] < n
        BY <1>m, <2>3, <3>2
      <4> QED
        BY <4>1
    <3> HIDE DEF h
    <3>3. G[<<x, f>>] = G[<<x, h>>]
      BY <2>2, <3>2
    <3> QED
      BY <3>1, <3>3
  <2>4. Solves(h, n + 1)
    BY <2>3
  <2> HIDE DEF Solves, h
  <2> QED
    BY <2>2, <2>4
<1>3. Solved = Nat
  <2> HIDE DEF Solved
  <2>1. Solved \subseteq Nat
    BY DEF Solved
  <2>2. ASSUME Nat \ Solved # {} PROVE FALSE
    <3>1. PICK n \in Nat \ Solved : \A k \in Nat \ Solved : n <= k
      BY <2>2, LeastNat
    <3>2. n # 0 /\ n - 1 \in Nat /\ n - 1 \in Solved
      BY <1>1, <3>1
    <3>3. (n - 1) + 1 \in Solved
      BY <1>2, <3>2
    <3> QED
      BY <3>1, <3>3
  <2> QED
    BY <2>1, <2>2
<1>4. ASSUME NEW n \in Nat PROVE F(n) \in [D -> V] /\ Solves(F(n), n)
  <2>1. \E f \in [D -> V] : Solves(f, n)
    BY <1>3
  <2> HIDE DEF Solves
  <2> QED
    BY <2>1
\* Two partial solutions agree as far as both are ones.
<1>5. ASSUME NEW f \in [D -> V], NEW g \in [D -> V], NEW n \in Nat,
             Solves(f, n), Solves(g, n), NEW x \in D, m[x] < n
      PROVE  f[x] = g[x]
  <2> DEFINE T == {m[z] : z \in {y \in D : m[y] < n /\ f[y] # g[y]}}
  <2>1. ASSUME T # {} PROVE FALSE
    <3>1. T \in SUBSET Nat
      BY <1>m
    <3>2. PICK t \in T : \A u \in T : t <= u
      <4> HIDE DEF T
      <4> QED
        BY <2>1, <3>1, LeastNat
    <3>3. PICK z \in D : m[z] < n /\ f[z] # g[z] /\ t = m[z]
      BY <3>2
    <3>4. ASSUME NEW y \in D, m[y] < m[z] PROVE f[y] = g[y]
      <4>1. m[y] < n
        BY <1>m, <3>3, <3>4
      <4>2. m[y] \in Nat /\ m[z] \in Nat
        BY <1>m
      <4>3. m[y] \notin T
        <5> HIDE DEF T
        <5> QED
          BY <3>2, <3>3, <3>4, <4>2
      <4> QED
        BY <4>1, <4>3
    <3>5. G[<<z, f>>] = G[<<z, g>>]
      BY <3>4
    <3> QED
      BY <1>5, <3>3, <3>5
  <2>2. ASSUME f[x] # g[x] PROVE m[x] \in T
    BY <1>5, <2>2
  <2> HIDE DEF T
  <2> QED
    BY <2>1, <2>2
<1> DEFINE f == [x \in D |-> F(m[x] + 1)[x]]
<1> HIDE DEF F
<1>6. f \in [D -> V]
  <2>1. ASSUME NEW x \in D PROVE F(m[x] + 1)[x] \in V
    <3>1. m[x] + 1 \in Nat
      BY <1>m
    <3> QED
      BY <1>4, <3>1
  <2> QED
    BY <2>1
<1>7. ASSUME NEW x \in D PROVE f[x] = G[<<x, f>>]
  <2>1. m[x] + 1 \in Nat /\ m[x] < m[x] + 1
    BY <1>m
  <2>2. F(m[x] + 1) \in [D -> V] /\ Solves(F(m[x] + 1), m[x] + 1)
    BY <1>4, <2>1
  <2>3. f[x] = G[<<x, F(m[x] + 1)>>]
    BY <2>1, <2>2
  <2>4. ASSUME NEW y \in D, m[y] < m[x] PROVE F(m[x] + 1)[y] = f[y]
    <3>1. m[y] + 1 \in Nat /\ m[y] < m[y] + 1 /\ m[y] + 1 <= m[x] + 1 /\ m[y] \in Nat
      BY <1>m, <2>1, <2>4
    <3>2. F(m[y] + 1) \in [D -> V] /\ Solves(F(m[y] + 1), m[y] + 1)
      BY <1>4, <3>1
    <3>3. Solves(F(m[x] + 1), m[y] + 1)
      <4>1. ASSUME NEW z \in D, m[z] < m[y] + 1 PROVE m[z] < m[x] + 1
        BY <1>m, <3>1, <4>1
      <4> QED
        BY <2>2, <4>1
    <3> HIDE DEF Solves
    <3>4. F(m[x] + 1)[y] = F(m[y] + 1)[y]
      BY <1>5, <2>2, <3>1, <3>2, <3>3
    <3> QED
      BY <3>4
  <2> HIDE DEF f, Solves
  <2>5. G[<<x, F(m[x] + 1)>>] = G[<<x, f>>]
    BY <1>6, <2>2, <2>4
  <2> QED
    BY <2>3, <2>5
<1> HIDE DEF f
<1> QED
  BY <1>6, <1>7

\* f begins with first, and goes on to n as Step says.
Iterates(f, n, first, Step) ==
  f[0] = first /\ \A k \in 1 .. n : f[k] = Step[<<k, f[k - 1]>>]

\* A definition of the elements from 0 to n, each by the one before, has a
\* solution.
LEMMA RecursionUpTo ==
  ASSUME NEW n \in Nat, NEW V, NEW first \in V, NEW Step \in [(1 .. n) \X V -> V]
  PROVE  \E f \in [0 .. n -> V] : Iterates(f, n, first, Step)
<1> USE DEF Iterates
<1> DEFINE Solves(f, m) == Iterates(f, m, first, Step)
           T == {m \in 0 .. n : \E f \in [0 .. n -> V] : Solves(f, m)}
<1>1. 0 \in T
  <2> DEFINE f == [k \in 0 .. n |-> first]
  <2>1. f \in [0 .. n -> V] /\ Solves(f, 0)
    OBVIOUS
  <2> HIDE DEF f, Solves
  <2> QED
    BY <2>1
<1>2. ASSUME NEW m \in 1 .. n, m - 1 \in T PROVE m \in T
  <2>1. PICK f \in [0 .. n -> V] : Solves(f, m - 1)
    BY <1>2
  <2>2. m - 1 \in 0 .. n /\ m # m - 1 /\ m \in 0 .. n /\ m # 0
    OBVIOUS
  <2>3. Step[<<m, f[m - 1]>>] \in V
    BY <2>2
  <2> DEFINE g == [k \in 0 .. n |-> IF k = m THEN Step[<<m, f[m - 1]>>] ELSE f[k]]
  <2>4. g \in [0 .. n -> V] /\ g[0] = first
    <3>1. \A k \in 0 .. n : f[k] \in V
      OBVIOUS
    <3> QED
      BY <2>1, <2>2, <2>3, <3>1
  <2>5. ASSUME NEW k \in 1 .. m PROVE g[k] = Step[<<k, g[k - 1]>>]
    <3>1. k - 1 \in 0 .. n /\ k - 1 # m /\ k \in 0 .. n
      OBVIOUS
    <3>2. g[k - 1] = f[k - 1]
      BY <3>1
    <3>3. CASE k = m
      BY <3>1, <3>2, <3>3
    <3>4. CASE k # m
      <4>1. k \in 1 .. m - 1 /\ g[k] = f[k]
        BY <3>1, <3>4
      <4> QED
        BY <2>1, <3>2, <4>1
    <3> QED
      BY <3>3, <3>4
  <2>6. Solves(g, m)
    BY <2>4, <2>5
  <2> HIDE DEF g, Solves
  <2> QED
    BY <2>2, <2>4, <2>6
<1>3. n \in T
  <2> HIDE DEF T
  <2> QED
    BY <1>1, <1>2, UpTo
<1> QED
  BY <1>3
=============================================================================

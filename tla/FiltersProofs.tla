--------------------------- MODULE FiltersProofs ---------------------------
(***************************************************************************)
(* Proofs about Filters: whatever the size of the image, the radius and    *)
(* the mask, sliding the box gives every pixel the mean around it.         *)
(*                                                                         *)
(* The definitions are recursive functions and sums, so that the proofs    *)
(* are inductions.  The provers cannot instantiate a theorem about a       *)
(* predicate, but they can one about a set: induction is stated here over  *)
(* the set of the values for which a property holds.                       *)
(***************************************************************************)
EXTENDS Filters, FiniteSetTheorems, TLAPS

-----------------------------------------------------------------------------
(***************************************************************************)
(* Induction.                                                              *)
(***************************************************************************)
\* Of finite sets, some one has no other among its subsets.
LEMMA LeastFiniteSet ==
  ASSUME NEW F, NEW X \in F, \A A \in F : IsFiniteSet(A)
  PROVE  \E A \in F : \A B \in F : B \subseteq A => B = A
<1> DEFINE S == UNION F
<1>1. F \subseteq FiniteSubsetsOf(S)
  BY DEF FiniteSubsetsOf
<1>2. PICK A \in F : \A B \in F : <<B, A>> \notin StrictSubsetOrdering(S)
  <2> HIDE DEF S
  <2> QED BY <1>1, FS_StrictSubsetOrderingWellFounded, WFMin
<1> QED BY <1>2 DEF StrictSubsetOrdering

\* A set of naturals that is not empty has a least element.
LEMMA LeastNatural ==
  ASSUME NEW S, NEW x \in S, \A s \in S : s \in Nat
  PROVE  \E n \in S : \A m \in S : n <= m
<1> DEFINE F == {0 .. n : n \in S}
<1>1. 0 .. x \in F
  OBVIOUS
<1>2. ASSUME NEW A \in F PROVE IsFiniteSet(A)
  <2>1. PICK n \in S : A = 0 .. n
    OBVIOUS
  <2>2. n \in Int /\ 0 \in Int
    OBVIOUS
  <2> QED BY <2>1, <2>2, FS_Interval
<1>3. PICK A \in F : \A B \in F : B \subseteq A => B = A
  <2> HIDE DEF F
  <2> QED BY <1>1, <1>2, LeastFiniteSet
<1>4. PICK n \in S : A = 0 .. n
  OBVIOUS
<1>5. ASSUME NEW m \in S, m < n PROVE FALSE
  <2>1. 0 .. m \subseteq 0 .. n /\ n \notin 0 .. m /\ n \in 0 .. n
    BY <1>5
  <2> QED BY <1>3, <1>4, <2>1
<1> QED BY <1>5

\* A set that holds 0 and the successors of what it holds, holds all of Nat.
LEMMA NaturalInduction ==
  ASSUME NEW S, 0 \in S, \A n \in Nat : n \in S => n + 1 \in S
  PROVE  \A n \in Nat : n \in S
<1> SUFFICES ASSUME NEW x \in Nat \ S PROVE FALSE
  OBVIOUS
<1>1. PICK n \in Nat \ S : \A m \in Nat \ S : n <= m
  BY LeastNatural
<1>2. n # 0 /\ n - 1 \in Nat /\ ~(n <= n - 1)
  OBVIOUS
<1>3. n - 1 \in S
  BY <1>1, <1>2
<1> QED BY <1>1, <1>2, <1>3

\* The same between two integers.
LEMMA IntervalInduction ==
  ASSUME NEW a \in Int, NEW b \in Int, NEW S, a \in S,
         \A i \in a .. b - 1 : i \in S => i + 1 \in S
  PROVE  \A i \in a .. b : i \in S
<1> DEFINE T == {n \in Nat : a + n <= b => a + n \in S}
<1>1. 0 \in T
  OBVIOUS
<1>2. ASSUME NEW n \in Nat, n \in T PROVE n + 1 \in T
  <2> SUFFICES ASSUME a + (n + 1) <= b PROVE (a + n) + 1 \in S
    OBVIOUS
  <2>1. a + n \in a .. b - 1 /\ a + n \in S
    BY <1>2
  <2> QED BY <2>1
<1>3. \A n \in Nat : n \in T
  <2> HIDE DEF T
  <2> QED BY <1>1, <1>2, NaturalInduction
<1> SUFFICES ASSUME NEW i \in a .. b PROVE i \in S
  OBVIOUS
<1>4. i - a \in Nat /\ a + (i - a) = i /\ a + (i - a) <= b
  OBVIOUS
<1> QED BY <1>3, <1>4

\* What holds of the empty set, and of a set if it holds of that set less any
\* of its elements, holds of every finite set.
LEMMA FiniteInduction ==
  ASSUME NEW S, IsFiniteSet(S), NEW P, {} \in P,
         \A T \in SUBSET S : T # {} /\ (\A x \in T : T \ {x} \in P) => T \in P
  PROVE  S \in P
<1> SUFFICES ASSUME S \notin P PROVE FALSE
  OBVIOUS
<1> DEFINE F == {T \in SUBSET S : T \notin P}
<1>1. S \in F
  OBVIOUS
<1>2. \A T \in F : IsFiniteSet(T)
  BY FS_Subset
<1>3. PICK T \in F : \A B \in F : B \subseteq T => B = T
  <2> HIDE DEF F
  <2> QED BY <1>1, <1>2, LeastFiniteSet
<1>4. T # {} /\ T \in SUBSET S /\ T \notin P
  OBVIOUS
<1>5. ASSUME NEW x \in T PROVE T \ {x} \in P
  <2>1. T \ {x} \in SUBSET S /\ T \ {x} \subseteq T /\ T \ {x} # T
    OBVIOUS
  <2> QED BY <1>3, <2>1
<1> QED BY <1>4, <1>5

-----------------------------------------------------------------------------
(***************************************************************************)
(* Recursive functions.  A recursive definition takes some function that   *)
(* satisfies its equation: that there is one has to be proved.             *)
(***************************************************************************)
\* (The hypotheses have names so that the provers see where to apply a lemma.)
NextOf(h, S) == h \in [Nat \X S -> S]

\* The value at n + 1 is a function of n and of the value at n.
LEMMA PrimitiveRecursion ==
  ASSUME NEW S, NEW a \in S, NEW h, NextOf(h, S)
  PROVE  \E f \in [Nat -> S] : f[0] = a /\ \A n \in Nat : f[n + 1] = h[<<n, f[n]>>]
<1> USE DEF NextOf
<1> DEFINE Upto(n, f) == /\ f \in [0 .. n -> S] /\ f[0] = a
                         /\ \A k \in 0 .. n - 1 : f[k + 1] = h[<<k, f[k]>>]
           Exists == {n \in Nat : \E f : Upto(n, f)}
<1>1. \A n \in Nat : n \in Exists
  <2>1. 0 \in Exists
    <3>1. Upto(0, [i \in 0 .. 0 |-> a])
      OBVIOUS
    <3> QED BY <3>1
  <2>2. ASSUME NEW n \in Nat, n \in Exists PROVE n + 1 \in Exists
    <3>1. PICK f : Upto(n, f)
      BY <2>2
    <3> DEFINE g == [i \in 0 .. n + 1 |-> IF i = n + 1 THEN h[<<n, f[n]>>] ELSE f[i]]
    <3>2. h[<<n, f[n]>>] \in S /\ \A i \in 0 .. n : f[i] \in S
      BY <3>1
    <3>3. g \in [0 .. n + 1 -> S]
      BY <3>2
    <3>4. g[0] = a
      BY <3>1
    <3>5. ASSUME NEW k \in 0 .. (n + 1) - 1 PROVE g[k + 1] = h[<<k, g[k]>>]
      <4>1. g[k] = f[k]
        OBVIOUS
      <4>2. CASE k = n
        <5>1. g[n + 1] = h[<<n, f[n]>>] /\ g[n] = f[n]
          OBVIOUS
        <5> QED BY ONLY <4>2, <5>1
      <4>3. CASE k # n
        <5>1. k \in 0 .. n - 1 /\ k + 1 \in 0 .. n + 1 /\ k + 1 # n + 1
          BY <4>3
        <5>2. g[k + 1] = f[k + 1] /\ f[k + 1] = h[<<k, f[k]>>]
          BY <3>1, <5>1
        <5> QED BY <4>1, <5>2
      <4> QED BY <4>2, <4>3
    <3>6. Upto(n + 1, g)
      <4> HIDE DEF g
      <4> QED BY <3>3, <3>4, <3>5
    <3> HIDE DEF Upto
    <3> QED BY <3>6
  <2> HIDE DEF Exists
  <2> QED BY <2>1, <2>2, NaturalInduction
<1>2. ASSUME NEW n \in Nat, NEW m \in Nat, NEW f, NEW g, Upto(n, f), Upto(m, g), n <= m
      PROVE  \A k \in 0 .. n : f[k] = g[k]
  <2> DEFINE E == {k \in 0 .. n : f[k] = g[k]}
  <2>1. 0 \in E
    BY <1>2
  <2>2. ASSUME NEW k \in 0 .. n - 1, k \in E PROVE k + 1 \in E
    <3>1. f[k] = g[k] /\ k \in 0 .. m - 1 /\ k + 1 \in 0 .. n
      BY <2>2, <1>2
    <3>2. f[k + 1] = h[<<k, f[k]>>] /\ g[k + 1] = h[<<k, g[k]>>]
      BY <1>2, <3>1
    <3> QED BY <3>1, <3>2
  <2>3. \A k \in 0 .. n : k \in E
    <3> HIDE DEF E
    <3> QED BY <2>1, <2>2, IntervalInduction
  <2> QED BY <2>3
<1> DEFINE G(n) == CHOOSE f : Upto(n, f)
           ff == [n \in Nat |-> G(n)[n]]
<1>3. \A n \in Nat : Upto(n, G(n))
  <2> HIDE DEF Upto
  <2> QED BY <1>1, Zenon
<1>4. ff \in [Nat -> S] /\ ff[0] = a
  <2> HIDE DEF G
  <2> QED BY <1>3
<1>5. ASSUME NEW n \in Nat PROVE ff[n + 1] = h[<<n, ff[n]>>]
  <2>1. n + 1 \in Nat /\ n <= n + 1
    OBVIOUS
  <2>2. Upto(n, G(n)) /\ Upto(n + 1, G(n + 1))
    <3> HIDE DEF Upto, G
    <3> QED BY <1>3, <2>1
  <2>3. G(n)[n] = G(n + 1)[n]
    <3> HIDE DEF Upto, G
    <3> QED BY <1>2, <2>1, <2>2
  <2>4. G(n + 1)[n + 1] = h[<<n, G(n + 1)[n]>>]
    <3> HIDE DEF G
    <3> QED BY <2>2
  <2> HIDE DEF G, Upto
  <2> QED BY <2>3, <2>4
<1> HIDE DEF ff
<1> QED BY <1>4, <1>5

\* Recursion over a set whose elements have a measure: the value at one
\* depends on the values at those that measure less.
Decreasing(D, S, m, H) ==
  /\ m \in [D -> Nat] /\ H \in [D \X [D -> S] -> S]
  /\ \A x \in D : \A f, g \in [D -> S] :
       (\A y \in D : m[y] < m[x] => f[y] = g[y]) => H[<<x, f>>] = H[<<x, g>>]

\* Any equation that only looks at values of a smaller measure has a solution.
LEMMA MeasuredRecursion ==
  ASSUME NEW D, NEW S, NEW m, NEW H, NEW s0 \in S, Decreasing(D, S, m, H)
  PROVE  \E f \in [D -> S] : \A x \in D : f[x] = H[<<x, f>>]
<1> USE DEF Decreasing
<1> DEFINE V == [D -> S]
           a == [x \in D |-> s0]
           h == [nf \in Nat \X V |-> [x \in D |-> H[<<x, nf[2]>>]]]
<1>1. a \in V
  OBVIOUS
<1>2. h \in [Nat \X V -> V]
  <2> SUFFICES ASSUME NEW nf \in Nat \X V PROVE [x \in D |-> H[<<x, nf[2]>>]] \in V
    BY Zenon
  <2>1. nf[2] \in [D -> S]
    OBVIOUS
  <2>2. \A x \in D : H[<<x, nf[2]>>] \in S
    BY <2>1
  <2> QED BY <2>2
<1>3. PICK F \in [Nat -> V] : F[0] = a /\ \A n \in Nat : F[n + 1] = h[<<n, F[n]>>]
  <2>1. NextOf(h, V)
    BY <1>2 DEF NextOf
  <2> HIDE DEF V, a, h
  <2> QED BY <1>1, <2>1, PrimitiveRecursion
<1>4. ASSUME NEW n \in Nat, NEW x \in D PROVE F[n] \in [D -> S] /\ F[n + 1][x] = H[<<x, F[n]>>]
  <2>1. F[n] \in V /\ <<n, F[n]>> \in Nat \X V
    OBVIOUS
  <2>2. F[n + 1] = [z \in D |-> H[<<z, F[n]>>]]
    <3> HIDE DEF V
    <3> QED BY <1>3, <2>1
  <2> QED BY <2>1, <2>2
<1> DEFINE f == [x \in D |-> F[m[x] + 1][x]]
           Stable == {n \in Nat : \A k \in 0 .. n : \A x \in D : m[x] < k => F[k][x] = f[x]}
<1>5. f \in [D -> S]
  <2> SUFFICES ASSUME NEW x \in D PROVE F[m[x] + 1][x] \in S
    OBVIOUS
  <2>1. m[x] + 1 \in Nat
    OBVIOUS
  <2> QED BY <1>4, <2>1
<1>6. \A n \in Nat : n \in Stable
  <2>1. 0 \in Stable
    OBVIOUS
  <2>2. ASSUME NEW n \in Nat, n \in Stable PROVE n + 1 \in Stable
    <3> SUFFICES ASSUME NEW x \in D, m[x] < n + 1 PROVE F[n + 1][x] = f[x]
      <4>1. ASSUME NEW k \in 0 .. n + 1, NEW x \in D, m[x] < k, k # n + 1
            PROVE  F[k][x] = f[x]
        <5>1. k \in 0 .. n
          BY <4>1
        <5> QED BY <2>2, <4>1, <5>1
      <4> HIDE DEF f
      <4> QED BY <4>1
    <3>1. m[x] \in Nat /\ m[x] <= n /\ m[x] \in 0 .. n /\ n \in 0 .. n
      OBVIOUS
    <3>2. ASSUME NEW y \in D, m[y] < m[x] PROVE F[n][y] = F[m[x]][y]
      <4>1. m[y] < n /\ m[y] \in Nat
        BY <3>1, <3>2
      <4> QED BY <2>2, <3>1, <3>2, <4>1
    <3>3. F[n] \in [D -> S] /\ F[m[x]] \in [D -> S]
      BY <1>4, <3>1
    <3>4. H[<<x, F[n]>>] = H[<<x, F[m[x]]>>]
      BY <3>2, <3>3
    <3>5. F[n + 1][x] = H[<<x, F[n]>>] /\ F[m[x] + 1][x] = H[<<x, F[m[x]]>>]
      BY <1>4, <3>1
    <3> QED BY <3>4, <3>5
  <2> HIDE DEF Stable
  <2> QED BY <2>1, <2>2, NaturalInduction
<1>7. ASSUME NEW x \in D PROVE f[x] = H[<<x, f>>]
  <2>1. m[x] \in Nat /\ m[x] \in 0 .. m[x]
    OBVIOUS
  <2>2. \A y \in D : m[y] < m[x] => F[m[x]][y] = f[y]
    BY <1>6, <2>1
  <2>3. F[m[x]] \in [D -> S] /\ F[m[x] + 1][x] = H[<<x, F[m[x]]>>]
    BY <1>4, <2>1
  <2>4. H[<<x, F[m[x]]>>] = H[<<x, f>>]
    <3> HIDE DEF f
    <3> QED BY <1>5, <2>2, <2>3
  <2> QED BY <2>3, <2>4
<1> HIDE DEF f
<1> QED BY <1>5, <1>7

\* A loop: n steps from a value a.  What holds of the pairs of a number of
\* steps and a value reached is a set G.
Loop(f, n, a, S, h) ==
  f[0] = a /\ \A k \in 0 .. n - 1 : f[k] \in S => f[k + 1] = h[<<k, f[k]>>]
KeptBy(G, n, S, h) ==
  \A k \in 0 .. n - 1 : \A s \in S : <<k, s>> \in G => <<k + 1, h[<<k, s>>]>> \in G

\* What a step keeps holds of every value of the loop.
LEMMA LoopInvariant ==
  ASSUME NEW n \in Nat, NEW S, NEW G \in SUBSET (Nat \X S), NEW a, <<0, a>> \in G,
         NEW h, KeptBy(G, n, S, h), NEW f, Loop(f, n, a, S, h)
  PROVE  \A k \in 0 .. n : <<k, f[k]>> \in G
<1> DEFINE E == {k \in Nat : k <= n => <<k, f[k]>> \in G}
<1>1. 0 \in E
  BY DEF Loop
<1>2. ASSUME NEW k \in Nat, k \in E PROVE k + 1 \in E
  <2> SUFFICES ASSUME k + 1 <= n PROVE <<k + 1, f[k + 1]>> \in G
    OBVIOUS
  <2>1. k \in 0 .. n - 1 /\ <<k, f[k]>> \in G /\ f[k] \in S
    BY <1>2
  <2>2. f[k + 1] = h[<<k, f[k]>>]
    BY <2>1 DEF Loop
  <2> QED BY <2>1, <2>2 DEF KeptBy
<1>3. \A k \in Nat : k \in E
  <2> HIDE DEF E
  <2> QED BY <1>1, <1>2, NaturalInduction
<1> QED BY <1>3

\* A loop whose values stay in S as long as the invariant holds is a function.
LEMMA LoopExists ==
  ASSUME NEW n \in Nat, NEW S, NEW G \in SUBSET (Nat \X S), NEW a, <<0, a>> \in G,
         NEW h, KeptBy(G, n, S, h)
  PROVE  \E f \in [0 .. n -> S] : Loop(f, n, a, S, h)
<1> DEFINE g == [ks \in Nat \X S |-> IF h[ks] \in S THEN h[ks] ELSE ks[2]]
<1>1. NextOf(g, S) /\ a \in S
  BY DEF NextOf
<1>2. PICK f \in [Nat -> S] : f[0] = a /\ \A k \in Nat : f[k + 1] = g[<<k, f[k]>>]
  <2> HIDE DEF g
  <2> QED BY <1>1, PrimitiveRecursion
<1>3. KeptBy(G, n, S, g)
  <2> SUFFICES ASSUME NEW k \in 0 .. n - 1, NEW s \in S, <<k, s>> \in G
               PROVE  <<k + 1, g[<<k, s>>]>> \in G
    BY DEF KeptBy
  <2>1. <<k + 1, h[<<k, s>>]>> \in G /\ <<k, s>> \in Nat \X S
    BY DEF KeptBy
  <2>2. h[<<k, s>>] \in S
    BY <2>1
  <2> QED BY <2>1, <2>2
<1>4. Loop(f, n, a, S, g)
  <2> HIDE DEF g
  <2> QED BY <1>2 DEF Loop
<1>5. \A k \in 0 .. n : <<k, f[k]>> \in G
  <2> HIDE DEF g
  <2> QED BY <1>3, <1>4, LoopInvariant
<1>6. ASSUME NEW k \in 0 .. n - 1 PROVE f[k + 1] = h[<<k, f[k]>>]
  <2>1. k \in 0 .. n /\ <<k, f[k]>> \in G /\ f[k] \in S
    BY <1>5
  <2>2. <<k + 1, h[<<k, f[k]>>]>> \in G /\ <<k, f[k]>> \in Nat \X S
    BY <2>1 DEF KeptBy
  <2>3. g[<<k, f[k]>>] = h[<<k, f[k]>>]
    BY <2>2
  <2> HIDE DEF g
  <2> QED BY <1>2, <2>3
<1> DEFINE l == [k \in 0 .. n |-> f[k]]
<1>7. l \in [0 .. n -> S] /\ \A k \in 0 .. n : l[k] = f[k]
  OBVIOUS
<1>8. l[0] = a /\ \A k \in 0 .. n - 1 : k \in 0 .. n /\ k + 1 \in 0 .. n
  BY <1>2
<1> HIDE DEF l
<1>9. Loop(l, n, a, S, h)
  BY <1>6, <1>7, <1>8 DEF Loop
<1> QED BY <1>7, <1>9

-----------------------------------------------------------------------------
(***************************************************************************)
(* Sums.                                                                   *)
(***************************************************************************)
\* The sum of no values.  The sum over a finite set takes an element of it,
\* any one, and the sum over the others.
SumEquation(f, S, it) ==
  it = [s \in SUBSET S |->
          IF s = {} THEN 0
          ELSE f[CHOOSE x \in s : TRUE] + it[s \ {CHOOSE x \in s : TRUE}]]

\* SumFunctionOnSet takes one of the solutions of its equation.
LEMMA SumIsSome ==
  ASSUME NEW f, NEW S, \E it : SumEquation(f, S, it)
  PROVE  \E it : SumEquation(f, S, it) /\ SumFunctionOnSet(f, S) = it[S]
  BY DEF SumEquation, SumFunctionOnSet, FoldFunctionOnSet, MapThenFoldSet

\* The equation has a solution: recursion over the size of a set.
LEMMA SumExists ==
  ASSUME NEW f, NEW S, IsFiniteSet(S), \A x \in S : f[x] \in Int
  PROVE  \E it \in [SUBSET S -> Int] : SumEquation(f, S, it)
<1> DEFINE D == SUBSET S
           some(s) == CHOOSE x \in s : TRUE
           m == [s \in D |-> Cardinality(s)]
           H == [sf \in D \X [D -> Int] |->
                   IF sf[1] = {} THEN 0 ELSE f[some(sf[1])] + sf[2][sf[1] \ {some(sf[1])}]]
<1>1. m \in [D -> Nat]
  BY FS_Subset, FS_CardinalityType
<1>2. ASSUME NEW s \in D, s # {}
      PROVE  /\ some(s) \in s /\ some(s) \in S /\ s \ {some(s)} \in D
             /\ Cardinality(s \ {some(s)}) < Cardinality(s)
  <2>1. some(s) \in s
    BY <1>2
  <2>2. IsFiniteSet(s) /\ Cardinality(s) \in Nat
    BY FS_Subset, FS_CardinalityType
  <2> HIDE DEF some
  <2>3. Cardinality(s \ {some(s)}) = Cardinality(s) - 1
    BY <2>1, <2>2, FS_RemoveElement
  <2> QED BY <2>1, <2>2, <2>3
<1>3. H \in [D \X [D -> Int] -> Int]
  <2> SUFFICES ASSUME NEW sf \in D \X [D -> Int]
               PROVE  (IF sf[1] = {} THEN 0
                       ELSE f[some(sf[1])] + sf[2][sf[1] \ {some(sf[1])}]) \in Int
    BY Zenon
  <2> HIDE DEF some
  <2> SUFFICES ASSUME sf[1] # {}
               PROVE  f[some(sf[1])] + sf[2][sf[1] \ {some(sf[1])}] \in Int
    OBVIOUS
  <2>1. sf[1] \in D /\ sf[2] \in [D -> Int]
    OBVIOUS
  <2>2. f[some(sf[1])] \in Int /\ sf[2][sf[1] \ {some(sf[1])}] \in Int
    BY <1>2, <2>1
  <2> QED BY <2>2
<1>4. ASSUME NEW s \in D, NEW g \in [D -> Int], NEW h \in [D -> Int],
             \A t \in D : m[t] < m[s] => g[t] = h[t]
      PROVE  H[<<s, g>>] = H[<<s, h>>]
  <2>1. /\ H[<<s, g>>] = IF s = {} THEN 0 ELSE f[some(s)] + g[s \ {some(s)}]
        /\ H[<<s, h>>] = IF s = {} THEN 0 ELSE f[some(s)] + h[s \ {some(s)}]
    <3> HIDE DEF some
    <3> QED OBVIOUS
  <2>2. CASE s = {}
    BY <2>1, <2>2
  <2>3. CASE s # {}
    <3>1. s \ {some(s)} \in D /\ m[s \ {some(s)}] < m[s]
      BY <1>2, <2>3
    <3> QED BY <1>4, <2>1, <3>1
  <2> QED BY <2>2, <2>3
<1>5. PICK it \in [D -> Int] : \A s \in D : it[s] = H[<<s, it>>]
  <2>1. Decreasing(D, Int, m, H)
    <3> HIDE DEF D, m, H
    <3> QED BY <1>1, <1>3, <1>4 DEF Decreasing
  <2>2. 0 \in Int
    OBVIOUS
  <2> HIDE DEF D, m, H
  <2> QED BY <2>1, <2>2, MeasuredRecursion
<1>6. \A s \in D : it[s] = IF s = {} THEN 0 ELSE f[some(s)] + it[s \ {some(s)}]
  <2> HIDE DEF some
  <2> QED BY <1>5
<1>7. SumEquation(f, S, it)
  BY <1>6 DEF SumEquation
<1> QED BY <1>7

\* A function that can be summed over a set.
Summable(f, S) == IsFiniteSet(S) /\ \A x \in S : f[x] \in Int

\* Whichever solution is taken, over whichever set, the sum is the same.
LEMMA SumUnique ==
  ASSUME NEW f, NEW S, NEW T \in SUBSET S, Summable(f, S), NEW it, NEW jt,
         SumEquation(f, S, it), SumEquation(f, T, jt)
  PROVE  it[T] = jt[T] /\ jt[T] \in Int
<1> DEFINE P == {U \in SUBSET T : it[U] = jt[U] /\ jt[U] \in Int}
           some(U) == CHOOSE x \in U : TRUE
<1>1. {} \in P
  BY DEF SumEquation
<1>2. ASSUME NEW U \in SUBSET T, U # {}, \A x \in U : U \ {x} \in P PROVE U \in P
  <2>1. some(U) \in U
    BY <1>2
  <2>2. /\ it[U] = f[some(U)] + it[U \ {some(U)}]
        /\ jt[U] = f[some(U)] + jt[U \ {some(U)}]
    BY <1>2 DEF SumEquation
  <2>3. f[some(U)] \in Int
    BY <2>1 DEF Summable
  <2> HIDE DEF some
  <2>4. it[U \ {some(U)}] = jt[U \ {some(U)}] /\ jt[U \ {some(U)}] \in Int
    BY <1>2, <2>1
  <2> QED BY <2>2, <2>3, <2>4
<1>3. IsFiniteSet(T)
  BY FS_Subset DEF Summable
<1>4. T \in P
  <2> HIDE DEF P
  <2> QED BY <1>1, <1>2, <1>3, FiniteInduction
<1> QED BY <1>4

\* Part of what can be added up can be added up.
LEMMA SummableSubset ==
  ASSUME NEW f, NEW S, NEW T \in SUBSET S, Summable(f, S)
  PROVE  Summable(f, T)
BY FS_Subset DEF Summable

\* The sum over no elements is 0.
LEMMA SumOfNone ==
  ASSUME NEW f
  PROVE  SumFunctionOnSet(f, {}) = 0
<1>1. Summable(f, {})
  BY FS_EmptySet DEF Summable
<1>2. PICK it : SumEquation(f, {}, it) /\ SumFunctionOnSet(f, {}) = it[{}]
  BY <1>1, SumExists, SumIsSome DEF Summable
<1> QED BY <1>2 DEF SumEquation

\* One step of the recursion, at the element that CHOOSE takes.
LEMMA SumOfSome ==
  ASSUME NEW f, NEW S, Summable(f, S), S # {}
  PROVE  LET y == CHOOSE x \in S : TRUE
         IN  SumFunctionOnSet(f, S) = f[y] + SumFunctionOnSet(f, S \ {y})
<1> DEFINE y == CHOOSE x \in S : TRUE
           T == S \ {y}
<1>1. PICK it : SumEquation(f, S, it) /\ SumFunctionOnSet(f, S) = it[S]
  BY SumExists, SumIsSome DEF Summable
<1>2. Summable(f, T)
  BY SummableSubset
<1>3. PICK jt : SumEquation(f, T, jt) /\ SumFunctionOnSet(f, T) = jt[T]
  <2> HIDE DEF T
  <2> QED BY <1>2, SumExists, SumIsSome DEF Summable
<1>4. it[T] = jt[T]
  <2> HIDE DEF y
  <2> QED BY <1>1, <1>3, SumUnique
<1>5. it[S] = f[y] + it[T]
  BY <1>1 DEF SumEquation
<1> QED BY <1>1, <1>3, <1>4, <1>5

\* A sum of integers is an integer.
LEMMA SumType ==
  ASSUME NEW f, NEW S, Summable(f, S)
  PROVE  SumFunctionOnSet(f, S) \in Int
<1>1. PICK it : SumEquation(f, S, it) /\ SumFunctionOnSet(f, S) = it[S]
  BY SumExists, SumIsSome DEF Summable
<1> QED BY <1>1, SumUnique

\* Any element may be taken first.
LEMMA SumOfOneAndRest ==
  ASSUME NEW f, NEW S, Summable(f, S), NEW y \in S
  PROVE  SumFunctionOnSet(f, S) = f[y] + SumFunctionOnSet(f, S \ {y})
<1> DEFINE P == {U \in SUBSET S : \A x \in U :
                   SumFunctionOnSet(f, U) = f[x] + SumFunctionOnSet(f, U \ {x})}
           some(U) == CHOOSE x \in U : TRUE
<1>1. ASSUME NEW U \in SUBSET S, U # {}, \A x \in U : U \ {x} \in P PROVE U \in P
  <2> SUFFICES ASSUME NEW x \in U
               PROVE  SumFunctionOnSet(f, U) = f[x] + SumFunctionOnSet(f, U \ {x})
    OBVIOUS
  <2>1. some(U) \in U
    BY <1>1
  <2>2. SumFunctionOnSet(f, U) = f[some(U)] + SumFunctionOnSet(f, U \ {some(U)})
    BY <1>1, SummableSubset, SumOfSome
  <2> HIDE DEF some
  <2>3. CASE x = some(U)
    BY <2>2, <2>3
  <2>4. CASE x # some(U)
    <3> DEFINE V == (U \ {x}) \ {some(U)}
    <3>1. V = (U \ {some(U)}) \ {x} /\ V \in SUBSET S
      OBVIOUS
    <3>2. SumFunctionOnSet(f, U \ {some(U)}) = f[x] + SumFunctionOnSet(f, V)
      BY <1>1, <2>1, <2>4, <3>1
    <3>3. SumFunctionOnSet(f, U \ {x}) = f[some(U)] + SumFunctionOnSet(f, V)
      BY <1>1, <2>1, <2>4
    <3>4. f[x] \in Int /\ f[some(U)] \in Int /\ SumFunctionOnSet(f, V) \in Int
      <4> HIDE DEF V
      <4>1. Summable(f, V)
        BY <3>1, SummableSubset
      <4> QED BY <2>1, <4>1, SumType DEF Summable
    <3> HIDE DEF V
    <3> QED BY <2>2, <3>2, <3>3, <3>4
  <2> QED BY <2>3, <2>4
<1>2. {} \in P
  OBVIOUS
<1>3. S \in P
  <2> HIDE DEF P
  <2> QED BY <1>1, <1>2, FiniteInduction DEF Summable
<1> QED BY <1>3

\* Another function with the same values, on another set of the same size.
LEMMA SumOverImage ==
  ASSUME NEW f, NEW g, NEW S, Summable(g, S), NEW h,
         \A x \in S : g[x] = f[h[x]],
         \A x, y \in S : h[x] = h[y] => x = y
  PROVE  SumFunctionOnSet(g, S) = SumFunctionOnSet(f, {h[x] : x \in S})
<1> DEFINE Im(U) == {h[x] : x \in U}
           P == {U \in SUBSET S : /\ Summable(f, Im(U))
                                  /\ SumFunctionOnSet(g, U) = SumFunctionOnSet(f, Im(U))}
<1>1. {} \in P
  <2>1. Im({}) = {} /\ Summable(f, {})
    BY FS_EmptySet DEF Summable
  <2> QED BY <2>1, SumOfNone
<1>2. ASSUME NEW U \in SUBSET S, U # {}, \A x \in U : U \ {x} \in P PROVE U \in P
  <2>1. PICK x \in U : TRUE
    BY <1>2
  <2>2. Im(U) = Im(U \ {x}) \union {h[x]} /\ Im(U \ {x}) = Im(U) \ {h[x]}
    OBVIOUS
  <2>3. U \ {x} \in P
    BY <1>2
  <2>4. h[x] \in Im(U) /\ f[h[x]] = g[x] /\ g[x] \in Int
    BY DEF Summable
  <2>5. Summable(f, Im(U \ {x})) /\ SumFunctionOnSet(g, U \ {x}) = SumFunctionOnSet(f, Im(U \ {x}))
    BY <2>3
  <2> HIDE DEF Im
  <2>6. Summable(f, Im(U))
    <3>1. IsFiniteSet(Im(U \ {x}) \union {h[x]})
      BY <2>5, FS_AddElement DEF Summable
    <3>2. \A z \in Im(U \ {x}) \union {h[x]} : f[z] \in Int
      BY <2>4, <2>5 DEF Summable
    <3> QED BY <2>2, <3>1, <3>2 DEF Summable
  <2>7. SumFunctionOnSet(f, Im(U)) = f[h[x]] + SumFunctionOnSet(f, Im(U) \ {h[x]})
    BY <2>4, <2>6, SumOfOneAndRest
  <2>8. SumFunctionOnSet(g, U) = g[x] + SumFunctionOnSet(g, U \ {x})
    BY SummableSubset, SumOfOneAndRest
  <2> QED BY <2>2, <2>4, <2>5, <2>6, <2>7, <2>8
<1>3. S \in P
  <2> HIDE DEF P
  <2> QED BY <1>1, <1>2, FiniteInduction DEF Summable
<1> QED BY <1>3

\* Functions that agree on a set have the same sum over it.
LEMMA SumAgrees ==
  ASSUME NEW f, NEW g, NEW S, Summable(f, S), \A x \in S : f[x] = g[x]
  PROVE  SumFunctionOnSet(f, S) = SumFunctionOnSet(g, S)
<1> DEFINE h == [x \in S |-> x]
<1>1. {h[x] : x \in S} = S
  OBVIOUS
<1>2. SumFunctionOnSet(f, S) = SumFunctionOnSet(g, {h[x] : x \in S})
  <2>1. \A x \in S : h[x] = x
    OBVIOUS
  <2> HIDE DEF h
  <2> QED BY <2>1, SumOverImage
<1> QED BY <1>1, <1>2

\* What is 0 may be left out.
LEMMA SumWithoutZeros ==
  ASSUME NEW f, NEW S, Summable(f, S), NEW T \in SUBSET S, \A x \in S \ T : f[x] = 0
  PROVE  SumFunctionOnSet(f, S) = SumFunctionOnSet(f, T)
<1> DEFINE P == {U \in SUBSET (S \ T) :
                   SumFunctionOnSet(f, T \union U) = SumFunctionOnSet(f, T)}
<1>1. {} \in P
  <2>1. T \union {} = T
    OBVIOUS
  <2> QED BY <2>1
<1>2. ASSUME NEW U \in SUBSET (S \ T), U # {}, \A x \in U : U \ {x} \in P PROVE U \in P
  <2>1. PICK x \in U : TRUE
    BY <1>2
  <2>2. (T \union U) \ {x} = T \union (U \ {x}) /\ T \union U \in SUBSET S
    OBVIOUS
  <2>3. f[x] = 0 /\ x \in T \union U
    OBVIOUS
  <2>4. SumFunctionOnSet(f, T \union U) = f[x] + SumFunctionOnSet(f, (T \union U) \ {x})
    <3> DEFINE V == T \union U
    <3> HIDE DEF V
    <3>1. SumFunctionOnSet(f, V) = f[x] + SumFunctionOnSet(f, V \ {x})
      BY <2>2, <2>3, SummableSubset, SumOfOneAndRest DEF V
    <3> QED BY <3>1 DEF V
  <2>5. SumFunctionOnSet(f, T \union (U \ {x})) = SumFunctionOnSet(f, T)
    BY <1>2
  <2>6. SumFunctionOnSet(f, T) \in Int
    BY SummableSubset, SumType
  <2>7. SumFunctionOnSet(f, T \union U) = SumFunctionOnSet(f, T)
    BY <2>2, <2>3, <2>4, <2>5, <2>6
  <2> QED BY <2>7
<1>3. S \ T \in P
  <2>1. IsFiniteSet(S \ T)
    BY FS_Subset DEF Summable
  <2> HIDE DEF P
  <2> QED BY <1>1, <1>2, <2>1, FiniteInduction
<1>4. T \union (S \ T) = S
  OBVIOUS
<1> QED BY <1>3, <1>4

\* A sum over disjoint parts is the sum of the sums over the parts.
LEMMA SumByParts ==
  ASSUME NEW f, NEW S, Summable(f, S), NEW K, IsFiniteSet(K), NEW part,
         S = UNION {part[k] : k \in K},
         \A k, l \in K : k # l => part[k] \intersect part[l] = {}
  PROVE  LET sums == [k \in K |-> SumFunctionOnSet(f, part[k])]
         IN  Summable(sums, K) /\ SumFunctionOnSet(f, S) = SumFunctionOnSet(sums, K)
<1> DEFINE Of(L) == UNION {part[k] : k \in L}
           sums == [k \in K |-> SumFunctionOnSet(f, part[k])]
           P == {L \in SUBSET K : SumFunctionOnSet(f, Of(L)) = SumFunctionOnSet(sums, L)}
<1>1. \A k \in K : part[k] \in SUBSET S /\ sums[k] = SumFunctionOnSet(f, part[k])
  OBVIOUS
<1>2. Summable(sums, K)
  <2> HIDE DEF sums
  <2>1. \A k \in K : sums[k] \in Int
    BY <1>1, SummableSubset, SumType
  <2> QED BY <2>1 DEF Summable
<1>3. {} \in P
  <2>1. Of({}) = {}
    OBVIOUS
  <2> HIDE DEF Of, sums
  <2> QED BY <2>1, SumOfNone
<1>4. ASSUME NEW L \in SUBSET K, L # {}, \A k \in L : L \ {k} \in P PROVE L \in P
  <2>1. PICK k \in L : TRUE
    BY <1>4
  <2> DEFINE M == L \ {k}
  <2>2. /\ Of(L) = Of(M) \union part[k] /\ Of(M) \intersect part[k] = {}
        /\ Of(L) \in SUBSET S
    OBVIOUS
  <2>3. SumFunctionOnSet(f, Of(M)) = SumFunctionOnSet(sums, M)
    BY <1>4
  <2>4. SumFunctionOnSet(sums, L) = sums[k] + SumFunctionOnSet(sums, M)
    <3> HIDE DEF sums
    <3> QED BY <1>2, SummableSubset, SumOfOneAndRest
  <2>5. SumFunctionOnSet(f, Of(L)) = SumFunctionOnSet(f, part[k]) + SumFunctionOnSet(f, Of(M))
    <3> DEFINE A == part[k]
               B == Of(M)
               Q == {U \in SUBSET A : SumFunctionOnSet(f, B \union U)
                                      = SumFunctionOnSet(f, U) + SumFunctionOnSet(f, B)}
    <3>1. A \in SUBSET S /\ B \in SUBSET S /\ A \intersect B = {} /\ Of(L) = B \union A
      BY <2>2
    <3> HIDE DEF A, B
    <3>2. SumFunctionOnSet(f, B) \in Int
      BY <3>1, SummableSubset, SumType
    <3>3. {} \in Q
      <4>1. B \union {} = B
        OBVIOUS
      <4> QED BY <3>2, <4>1, SumOfNone
    <3>4. ASSUME NEW U \in SUBSET A, U # {}, \A x \in U : U \ {x} \in Q PROVE U \in Q
      <4>1. PICK x \in U : TRUE
        BY <3>4
      <4> DEFINE V == B \union U
      <4>2. V \ {x} = B \union (U \ {x}) /\ V \in SUBSET S /\ x \in V /\ U \in SUBSET S /\ x \in S
        BY <3>1
      <4>3. SumFunctionOnSet(f, B \union (U \ {x}))
              = SumFunctionOnSet(f, U \ {x}) + SumFunctionOnSet(f, B)
        BY <3>4
      <4>4. SumFunctionOnSet(f, U) = f[x] + SumFunctionOnSet(f, U \ {x})
        BY <4>2, SummableSubset, SumOfOneAndRest
      <4>5. SumFunctionOnSet(f, U \ {x}) \in Int /\ f[x] \in Int
        <5>1. U \ {x} \in SUBSET S
          BY <4>2
        <5> QED BY <4>2, <5>1, SummableSubset, SumType DEF Summable
      <4>6. SumFunctionOnSet(f, V) = f[x] + SumFunctionOnSet(f, V \ {x})
        <5> HIDE DEF V
        <5> QED BY <4>2, SummableSubset, SumOfOneAndRest
      <4>7. SumFunctionOnSet(f, V) = SumFunctionOnSet(f, U) + SumFunctionOnSet(f, B)
        <5>1. SumFunctionOnSet(f, V \ {x}) = SumFunctionOnSet(f, U \ {x}) + SumFunctionOnSet(f, B)
          BY <4>2, <4>3
        <5> HIDE DEF V
        <5> QED BY <3>2, <4>4, <4>5, <4>6, <5>1
      <4> QED BY <4>7
    <3>5. A \in Q
      <4>1. IsFiniteSet(A)
        BY <3>1, FS_Subset DEF Summable
      <4> HIDE DEF Q
      <4> QED BY <3>3, <3>4, <4>1, FiniteInduction
    <3>6. SumFunctionOnSet(f, B \union A) = SumFunctionOnSet(f, A) + SumFunctionOnSet(f, B)
      BY <3>5
    <3> QED BY <3>1, <3>6 DEF A, B
  <2> HIDE DEF Of, sums, M
  <2> QED BY <1>1, <2>3, <2>4, <2>5
<1>5. K \in P
  <2> HIDE DEF P
  <2> QED BY <1>3, <1>4, FiniteInduction
<1>6. SumFunctionOnSet(f, S) = SumFunctionOnSet(sums, K)
  BY <1>5
<1> QED BY <1>2, <1>6

\* A sum of ones counts.
LEMMA SumOfOnes ==
  ASSUME NEW f, NEW S, IsFiniteSet(S), \A x \in S : f[x] = 1
  PROVE  Summable(f, S) /\ SumFunctionOnSet(f, S) = Cardinality(S)
<1> DEFINE P == {U \in SUBSET S : SumFunctionOnSet(f, U) = Cardinality(U)}
<1>1. Summable(f, S)
  BY DEF Summable
<1>2. {} \in P
  BY SumOfNone, FS_EmptySet
<1>3. ASSUME NEW U \in SUBSET S, U # {}, \A x \in U : U \ {x} \in P PROVE U \in P
  <2>1. PICK x \in U : TRUE
    BY <1>3
  <2>2. IsFiniteSet(U)
    BY FS_Subset
  <2>3. Cardinality(U \ {x}) = Cardinality(U) - 1 /\ Cardinality(U) \in Nat
    BY <2>2, FS_RemoveElement, FS_CardinalityType
  <2>4. SumFunctionOnSet(f, U) = 1 + SumFunctionOnSet(f, U \ {x})
    BY <1>1, SummableSubset, SumOfOneAndRest
  <2>5. SumFunctionOnSet(f, U \ {x}) = Cardinality(U \ {x})
    BY <1>3
  <2> QED BY <2>3, <2>4, <2>5
<1>4. S \in P
  <2> HIDE DEF P
  <2> QED BY <1>2, <1>3, FiniteInduction
<1> QED BY <1>1, <1>4

-----------------------------------------------------------------------------
(***************************************************************************)
(* The rows: what slides is the sum over the window.                       *)
(***************************************************************************)
Line(v, row) == [x \in Cols |-> v[<<x, row>>]]

\* The sizes of SizeAssumption, one by one.
LEMMA SizeType == Width \in Nat \ {0} /\ Height \in Nat \ {0} /\ CharMax \in Nat /\ Scale \in Nat
BY SizeAssumption

\* The values along a row of the image can be added up.
LEMMA LineSummable ==
  ASSUME NEW v \in [Pixels -> Int], NEW row \in Rows, NEW S \in SUBSET Cols
  PROVE  Summable(Line(v, row), S)
<1>1. IsFiniteSet(Cols)
  BY SizeType, FS_Interval DEF Cols
<1>2. \A x \in S : <<x, row>> \in Pixels /\ Line(v, row)[x] = v[<<x, row>>]
  BY DEF Line, Pixels
<1> QED BY <1>1, <1>2, FS_Subset DEF Summable

\* The window one pixel on has one pixel more at its end and one less at its start.
LEMMA WindowSlides ==
  ASSUME NEW v \in [Pixels -> Int], NEW r \in Nat, NEW row \in Rows,
         NEW i \in r .. Width - 1 - r, i # r
  PROVE  SumFunctionOnSet(Line(v, row), i - r .. i + r)
           = SumFunctionOnSet(Line(v, row), (i - 1) - r .. (i - 1) + r)
             + v[<<i + r, row>>] - v[<<i - r - 1, row>>]
<1> DEFINE w == Line(v, row)
           U == i - r - 1 .. i + r
<1>1. U \in SUBSET Cols /\ i + r \in U /\ i - r - 1 \in U
  BY SizeType DEF Cols
<1>2. U \ {i - r - 1} = i - r .. i + r /\ U \ {i + r} = (i - 1) - r .. (i - 1) + r
  BY SizeType
<1>3. w[i + r] = v[<<i + r, row>>] /\ w[i - r - 1] = v[<<i - r - 1, row>>]
  BY <1>1 DEF Line
<1> HIDE DEF w, U
<1>4. Summable(w, U) /\ Summable(w, U \ {i - r - 1}) /\ Summable(w, U \ {i + r})
  BY <1>1, LineSummable DEF w
<1>5. SumFunctionOnSet(w, U) = w[i + r] + SumFunctionOnSet(w, U \ {i + r})
  BY <1>1, <1>4, SumOfOneAndRest
<1>6. SumFunctionOnSet(w, U) = w[i - r - 1] + SumFunctionOnSet(w, U \ {i - r - 1})
  BY <1>1, <1>4, SumOfOneAndRest
<1>7. /\ w[i + r] \in Int /\ w[i - r - 1] \in Int
      /\ SumFunctionOnSet(w, U \ {i - r - 1}) \in Int /\ SumFunctionOnSet(w, U \ {i + r}) \in Int
  BY <1>1, <1>4, SumType DEF Summable
<1>8. SumFunctionOnSet(w, U \ {i - r - 1})
        = SumFunctionOnSet(w, U \ {i + r}) + w[i + r] - w[i - r - 1]
  BY <1>5, <1>6, <1>7
<1> QED BY <1>2, <1>3, <1>8 DEF w

\* The sum that slides along a row is the sum over the window, at every pixel.
LEMMA RowSumIsWindow ==
  ASSUME NEW v \in [Pixels -> Int], NEW r \in Nat, NEW row \in Rows
  PROVE  \A i \in r .. Width - 1 - r :
           RowSum(v, r, row)[i] = SumFunctionOnSet(Line(v, row), i - r .. i + r)
<1> DEFINE D == r .. Width - 1 - r
           W(i) == SumFunctionOnSet(Line(v, row), i - r .. i + r)
           First == SumFunction([x \in 0 .. 2 * r |-> v[<<x, row>>]])
           Slides(f) == f = [i \in D |-> IF i = r THEN First
                              ELSE f[i - 1] + v[<<i + r, row>>] - v[<<Leaving(i, r), row>>]]
           ff == [i \in D |-> W(i)]
<1>1. ASSUME r \in D PROVE First = W(r)
  <2>1. r - r .. r + r = 0 .. 2 * r /\ 0 .. 2 * r \in SUBSET Cols
    BY <1>1, SizeType DEF Cols
  <2> DEFINE g == [x \in 0 .. 2 * r |-> v[<<x, row>>]]
  <2>2. \A x \in 0 .. 2 * r : Line(v, row)[x] = g[x]
    BY <2>1 DEF Line
  <2>3. First = SumFunctionOnSet(g, 0 .. 2 * r)
    BY DEF SumFunction
  <2>4. Summable(Line(v, row), 0 .. 2 * r)
    BY <2>1, LineSummable
  <2> HIDE DEF g, First
  <2>5. SumFunctionOnSet(Line(v, row), 0 .. 2 * r) = SumFunctionOnSet(g, 0 .. 2 * r)
    BY <2>2, <2>4, SumAgrees
  <2> QED BY <2>1, <2>3, <2>5
<1>2. ASSUME NEW i \in D, i # r
      PROVE  /\ i - 1 \in D /\ r \in D
             /\ W(i) = W(i - 1) + v[<<i + r, row>>] - v[<<Leaving(i, r), row>>]
  <2>1. i - 1 \in D /\ r \in D
    BY <1>2, SizeType
  <2>2. Leaving(i, r) = i - r - 1
    BY DEF Leaving, LeavingLast
  <2> QED BY <1>2, <2>1, <2>2, WindowSlides
<1>3. \E f : Slides(f)
  <2>1. Slides(ff)
    <3> HIDE DEF W, First
    <3> SUFFICES ASSUME NEW i \in D
                 PROVE  ff[i] = IF i = r THEN First
                          ELSE ff[i - 1] + v[<<i + r, row>>] - v[<<Leaving(i, r), row>>]
      OBVIOUS
    <3> HIDE DEF D
    <3>1. CASE i = r
      BY <1>1, <3>1
    <3>2. CASE i # r
      BY <1>2, <3>2
    <3> QED BY <3>1, <3>2
  <2> QED BY <2>1
<1>4. Slides(RowSum(v, r, row))
  BY <1>3 DEF RowSum
<1> DEFINE f == RowSum(v, r, row)
           E == {i \in D : f[i] = W(i)}
<1> HIDE DEF f, W, First
<1>5. CASE D = {}
  BY <1>5 DEF f, W
<1>6. CASE D # {}
  <2>1. r \in D
    BY <1>6, SizeType
  <2>2. r \in E
    BY <1>1, <1>4, <2>1 DEF f
  <2>3. ASSUME NEW i \in r .. (Width - 1 - r) - 1, i \in E PROVE i + 1 \in E
    <3>1. i + 1 \in D /\ i + 1 # r /\ (i + 1) - 1 = i
      BY SizeType
    <3>2. f[i + 1] = f[i] + v[<<(i + 1) + r, row>>] - v[<<Leaving(i + 1, r), row>>]
      BY <1>4, <3>1 DEF f
    <3>3. W(i + 1) = W(i) + v[<<(i + 1) + r, row>>] - v[<<Leaving(i + 1, r), row>>]
      BY <1>2, <3>1
    <3> QED BY <2>3, <3>1, <3>2, <3>3
  <2>4. \A i \in r .. Width - 1 - r : i \in E
    <3>1. r \in Int /\ Width - 1 - r \in Int
      BY SizeType
    <3> HIDE DEF E
    <3> QED BY <2>2, <2>3, <3>1, IntervalInduction
  <2> QED BY <2>4 DEF f, W
<1> QED BY <1>5, <1>6

\* The order of the loops.
LEMMA IndexOfPixel ==
  /\ \A p \in Pixels : Index(p) \in 0 .. Width * Height - 1 /\ PixelAt(Index(p)) = p
  /\ \A k \in 0 .. Width * Height - 1 : PixelAt(k) \in Pixels /\ Index(PixelAt(k)) = k
<1>1. ASSUME NEW p \in Pixels
      PROVE  Index(p) \in 0 .. Width * Height - 1 /\ PixelAt(Index(p)) = p
  <2>1. PICK a \in 0 .. Width - 1, b \in 0 .. Height - 1 : p = <<a, b>>
    BY DEF Pixels, Cols, Rows
  <2>2. a + b * Width \in 0 .. Width * Height - 1
    BY SizeType
  <2>3. (a + b * Width) % Width = a /\ (a + b * Width) \div Width = b
    BY SizeType
  <2>4. Index(p) = a + b * Width
    BY <2>1 DEF Index
  <2> QED BY <2>1, <2>2, <2>3, <2>4 DEF PixelAt
<1>2. ASSUME NEW k \in 0 .. Width * Height - 1
      PROVE  PixelAt(k) \in Pixels /\ Index(PixelAt(k)) = k
  <2>1. k \in Nat
    BY SizeType
  <2>2. k % Width \in 0 .. Width - 1 /\ k = (k % Width) + (k \div Width) * Width
    BY <2>1, SizeType
  <2>3. k \div Width \in 0 .. Height - 1
    BY SizeType
  <2> QED BY <2>2, <2>3 DEF PixelAt, Pixels, Cols, Rows, Index
<1> QED BY <1>1, <1>2

-----------------------------------------------------------------------------
(***************************************************************************)
(* The columns: what is added up is the sum over the box.                  *)
(***************************************************************************)
Box(p, r) == (p[1] - r .. p[1] + r) \X (p[2] - r .. p[2] + r)

\* The box around a pixel that far inside lies in the image.
LEMMA BoxType ==
  ASSUME NEW r \in Nat, NEW p \in Inside(r)
  PROVE  /\ p[1] \in r .. Width - 1 - r /\ p[2] \in r .. Height - 1 - r
         /\ p = <<p[1], p[2]>> /\ p \in Pixels
         /\ p[1] - r .. p[1] + r \in SUBSET Cols /\ p[2] - r .. p[2] + r \in SUBSET Rows
         /\ IsFiniteSet(p[1] - r .. p[1] + r) /\ IsFiniteSet(p[2] - r .. p[2] + r)
         /\ Box(p, r) \in SUBSET Pixels
<1>1. p[1] \in r .. Width - 1 - r /\ p[2] \in r .. Height - 1 - r /\ p = <<p[1], p[2]>>
  BY DEF Inside
<1>2. p[1] - r .. p[1] + r \in SUBSET Cols /\ p[2] - r .. p[2] + r \in SUBSET Rows
  BY <1>1, SizeType DEF Cols, Rows
<1>3. p[1] \in Cols /\ p[2] \in Rows
  BY <1>1, SizeType DEF Cols, Rows
<1>4. IsFiniteSet(p[1] - r .. p[1] + r) /\ IsFiniteSet(p[2] - r .. p[2] + r)
  <2>1. p[1] - r \in Int /\ p[1] + r \in Int /\ p[2] - r \in Int /\ p[2] + r \in Int
    BY <1>1, SizeType
  <2> QED BY <2>1, FS_Interval
<1> QED BY <1>1, <1>2, <1>3, <1>4 DEF Pixels, Box

\* An image has finitely many pixels.
LEMMA PixelsFinite == IsFiniteSet(Pixels)
<1> DEFINE K == Width * Height
           h == [k \in 0 .. K - 1 |-> PixelAt(k)]
<1>1. K \in Nat /\ IsFiniteSet(0 .. K - 1)
  BY SizeType, FS_Interval
<1>2. h \in Surjection(0 .. K - 1, Pixels)
  <2>1. h \in [0 .. K - 1 -> Pixels]
    BY IndexOfPixel
  <2>2. \A p \in Pixels : \E k \in 0 .. K - 1 : h[k] = p
    BY IndexOfPixel
  <2> HIDE DEF h
  <2> QED BY <2>1, <2>2 DEF Surjection
<1> HIDE DEF h
<1> QED BY <1>1, <1>2, FS_Surjection

\* Its values can be added up.
LEMMA PixelsSummable ==
  ASSUME NEW v \in [Pixels -> Int], NEW S \in SUBSET Pixels
  PROVE  Summable(v, S)
BY PixelsFinite, FS_Subset DEF Summable

\* Sums over the rows of a box add up to the sum over the box.
LEMMA BoxByRows ==
  ASSUME NEW v \in [Pixels -> Int], NEW r \in Nat, NEW p \in Inside(r), NEW g,
         \A y \in p[2] - r .. p[2] + r :
           g[y] = SumFunctionOnSet(Line(v, y), p[1] - r .. p[1] + r)
  PROVE  SumFunctionOnSet(g, p[2] - r .. p[2] + r) = SumFunctionOnSet(v, Box(p, r))
<1> DEFINE X == p[1] - r .. p[1] + r
           Y == p[2] - r .. p[2] + r
           part == [y \in Y |-> X \X {y}]
           sums == [y \in Y |-> SumFunctionOnSet(v, part[y])]
<1>1. /\ X \in SUBSET Cols /\ Y \in SUBSET Rows /\ IsFiniteSet(Y)
      /\ Box(p, r) \in SUBSET Pixels /\ Box(p, r) = X \X Y
  BY BoxType DEF Box
<1>2. \A y \in Y : g[y] = SumFunctionOnSet(Line(v, y), X)
  OBVIOUS
<1> HIDE DEF X, Y
<1>3. Box(p, r) = UNION {part[y] : y \in Y}
  BY <1>1
<1>4. \A y, z \in Y : y # z => part[y] \intersect part[z] = {}
  OBVIOUS
<1>5. Summable(v, Box(p, r))
  BY <1>1, PixelsSummable
<1>6. Summable(sums, Y) /\ SumFunctionOnSet(v, Box(p, r)) = SumFunctionOnSet(sums, Y)
  <2> HIDE DEF part
  <2> QED BY <1>1, <1>3, <1>4, <1>5, SumByParts
<1>7. ASSUME NEW y \in Y PROVE sums[y] = g[y]
  <2> DEFINE h == [x \in X |-> <<x, y>>]
  <2>1. {h[x] : x \in X} = part[y]
    OBVIOUS
  <2>2. \A x \in X : Line(v, y)[x] = v[h[x]]
    BY <1>1 DEF Line
  <2>3. \A x, z \in X : h[x] = h[z] => x = z
    OBVIOUS
  <2>4. Summable(Line(v, y), X)
    BY <1>1, LineSummable
  <2>5. SumFunctionOnSet(Line(v, y), X) = SumFunctionOnSet(v, {h[x] : x \in X})
    <3> HIDE DEF h
    <3> QED BY <2>2, <2>3, <2>4, SumOverImage
  <2> QED BY <1>2, <2>1, <2>5
<1>8. SumFunctionOnSet(sums, Y) = SumFunctionOnSet(g, Y)
  <2> HIDE DEF sums
  <2> QED BY <1>6, <1>7, SumAgrees
<1> QED BY <1>6, <1>8 DEF Y

\* The reference, by columns.
LEMMA LightByColumns ==
  ASSUME NEW image \in [Pixels -> Int], NEW mask \in SUBSET Pixels, NEW r \in Nat,
         NEW p \in Inside(r)
  PROVE  Mean(image, mask, r, p)
           = (Scale * SumFunctionOnSet(image, Around(p, r, mask)))
               \div Cardinality(Around(p, r, mask))
<1> DEFINE X == p[1] - r .. p[1] + r
           Y == p[2] - r .. p[2] + r
           column(x) == {y \in Y : <<x, y>> \in mask}
           light(x) == SumFunction([y \in column(x) |-> image[<<x, y>>]])
           lights == [x \in X |-> light(x)]
           A == Around(p, r, mask)
           part == [x \in X |-> {x} \X column(x)]
           sums == [x \in X |-> SumFunctionOnSet(image, part[x])]
<1>1. /\ X \in SUBSET Cols /\ Y \in SUBSET Rows /\ IsFiniteSet(X) /\ IsFiniteSet(Y)
      /\ A = (X \X Y) \intersect mask /\ A \in SUBSET Pixels
  BY BoxType DEF Around
<1>2. Mean(image, mask, r, p) = (Scale * SumFunction(lights)) \div Cardinality(A)
  BY DEF Mean
<1> HIDE DEF X, Y, A
<1>3. A = UNION {part[x] : x \in X}
  <2>1. ASSUME NEW q \in A PROVE \E x \in X : q \in part[x]
    <3>1. q[1] \in X /\ q[2] \in Y /\ q = <<q[1], q[2]>> /\ q \in mask
      BY <1>1
    <3>2. q[2] \in column(q[1])
      BY <3>1
    <3> QED BY <3>1, <3>2
  <2>2. ASSUME NEW x \in X, NEW q \in part[x] PROVE q \in A
    BY <1>1
  <2> QED BY <2>1, <2>2
<1>4. \A x, z \in X : x # z => part[x] \intersect part[z] = {}
  OBVIOUS
<1>5. Summable(image, A)
  BY <1>1, PixelsSummable
<1>6. Summable(sums, X) /\ SumFunctionOnSet(image, A) = SumFunctionOnSet(sums, X)
  <2> HIDE DEF part
  <2> QED BY <1>1, <1>3, <1>4, <1>5, SumByParts
<1>7. ASSUME NEW x \in X PROVE sums[x] = lights[x]
  <2> DEFINE h == [y \in column(x) |-> <<x, y>>]
             g == [y \in column(x) |-> image[<<x, y>>]]
  <2>1. {h[y] : y \in column(x)} = part[x]
    <3> HIDE DEF column
    <3>1. part[x] = {x} \X column(x)
      OBVIOUS
    <3> QED BY <3>1
  <2>2. \A y \in column(x) : g[y] = image[h[y]]
    OBVIOUS
  <2>3. \A y, z \in column(x) : h[y] = h[z] => y = z
    OBVIOUS
  <2>4. Summable(g, column(x))
    <3>1. IsFiniteSet(column(x))
      BY <1>1, FS_Subset
    <3>2. \A y \in column(x) : g[y] \in Int
      OBVIOUS
    <3> QED BY <3>1, <3>2 DEF Summable
  <2>5. lights[x] = SumFunctionOnSet(g, column(x))
    BY DEF SumFunction
  <2> HIDE DEF column, h, g
  <2>6. SumFunctionOnSet(g, column(x)) = SumFunctionOnSet(image, {h[y] : y \in column(x)})
    BY <2>2, <2>3, <2>4, SumOverImage
  <2> HIDE DEF part, lights
  <2>7. sums[x] = SumFunctionOnSet(image, part[x])
    OBVIOUS
  <2> QED BY <2>1, <2>5, <2>6, <2>7
<1>8. SumFunction(lights) = SumFunctionOnSet(lights, X)
  BY DEF SumFunction
<1> HIDE DEF sums, lights
<1>9. SumFunctionOnSet(sums, X) = SumFunctionOnSet(lights, X)
  BY <1>6, <1>7, SumAgrees
<1> QED BY <1>2, <1>6, <1>8, <1>9 DEF A

\* A value is carried over from where it was last computed.
CarriedOver(last, K, fresh, value, z) ==
  \A k \in 0 .. K - 1 :
    last[k] = IF k \in fresh THEN value[k] ELSE IF k = 0 THEN z ELSE last[k - 1]

\* The loop over the columns keeps the last value it computed.
LEMMA LastValue ==
  ASSUME NEW K \in Nat, NEW S, NEW z \in S, NEW fresh \in SUBSET (0 .. K - 1),
         NEW value \in [0 .. K - 1 -> S]
  PROVE  \E last \in [0 .. K - 1 -> S] : CarriedOver(last, K, fresh, value, z)
<1> DEFINE a == IF 0 \in fresh /\ 0 < K THEN value[0] ELSE z
           h == [ns \in Nat \X S |-> IF ns[1] + 1 \in fresh /\ ns[1] + 1 < K
                                       THEN value[ns[1] + 1] ELSE ns[2]]
<1>1. a \in S
  OBVIOUS
<1>2. NextOf(h, S)
  <2> SUFFICES ASSUME NEW ns \in Nat \X S
               PROVE  (IF ns[1] + 1 \in fresh /\ ns[1] + 1 < K
                       THEN value[ns[1] + 1] ELSE ns[2]) \in S
    BY Zenon DEF NextOf
  <2> QED OBVIOUS
<1>3. PICK f \in [Nat -> S] : f[0] = a /\ \A n \in Nat : f[n + 1] = h[<<n, f[n]>>]
  <2> HIDE DEF a, h
  <2> QED BY <1>1, <1>2, PrimitiveRecursion
<1> DEFINE last == [k \in 0 .. K - 1 |-> f[k]]
<1>4. ASSUME NEW k \in 0 .. K - 1
      PROVE  last[k] = IF k \in fresh THEN value[k] ELSE IF k = 0 THEN z ELSE last[k - 1]
  <2>1. CASE k = 0
    BY <1>3, <2>1
  <2>2. CASE k # 0
    <3>1. k - 1 \in Nat /\ k - 1 \in 0 .. K - 1 /\ (k - 1) + 1 = k /\ k < K
      BY <2>2
    <3>2. f[k] = h[<<k - 1, f[k - 1]>>] /\ f[k - 1] \in S
      <4> HIDE DEF a, h, last
      <4>1. f[(k - 1) + 1] = h[<<k - 1, f[k - 1]>>] /\ f[k - 1] \in S
        BY ONLY <1>3, <3>1
      <4> QED BY ONLY <3>1, <4>1
    <3>3. f[k] = IF k \in fresh THEN value[k] ELSE f[k - 1]
      BY <3>1, <3>2
    <3>4. last[k] = f[k] /\ last[k - 1] = f[k - 1]
      BY <3>1
    <3> QED BY <2>2, <3>3, <3>4
  <2> QED BY <2>1, <2>2
<1>5. last \in [0 .. K - 1 -> S]
  BY <1>3
<1> HIDE DEF last
<1> QED BY <1>4, <1>5 DEF CarriedOver

BoxLight(rows, r, q) ==
  SumFunction([y \in q[2] - r .. q[2] + r |-> rows.sums[y][q[1]]])
BoxCount(rows, r, q) ==
  SumFunction([y \in q[2] - r .. q[2] + r |-> AsChar(rows.counts[y][q[1]])])

\* The sums that boxcarFilterImage adds up come to the light of the masked box.
LEMMA LightOfBox ==
  ASSUME NEW image \in [Pixels -> Int], NEW mask \in SUBSET Pixels, NEW r \in Nat,
         NEW q \in Inside(r)
  PROVE  /\ Summable(image, Around(q, r, mask))
         /\ BoxLight(SumRows(image, mask, r), r, q) = SumFunctionOnSet(image, Around(q, r, mask))
<1> DEFINE weighed == [z \in Pixels |-> IF z \in mask THEN image[z] ELSE 0]
           rows == SumRows(image, mask, r)
<1>1. /\ weighed \in [Pixels -> Int]
      /\ \A row \in Rows : rows.sums[row] = RowSum(weighed, r, row)
  BY DEF SumRows
<1> DEFINE Y == q[2] - r .. q[2] + r
           g == [y \in Y |-> rows.sums[y][q[1]]]
<1>2. BoxLight(rows, r, q) = SumFunctionOnSet(g, Y)
  BY DEF SumFunction, BoxLight
<1>3. ASSUME NEW y \in Y
      PROVE  g[y] = SumFunctionOnSet(Line(weighed, y), q[1] - r .. q[1] + r)
  <2>1. y \in Rows /\ q[1] \in r .. Width - 1 - r
    BY BoxType
  <2>2. g[y] = RowSum(weighed, r, y)[q[1]]
    BY <1>1, <2>1
  <2> HIDE DEF weighed, g
  <2> QED BY <1>1, <2>1, <2>2, RowSumIsWindow
<1> HIDE DEF g, weighed
<1>4. SumFunctionOnSet(g, Y) = SumFunctionOnSet(weighed, Box(q, r))
  BY <1>1, <1>3, BoxByRows
<1>5. /\ Around(q, r, mask) = Box(q, r) \intersect mask
      /\ Around(q, r, mask) \in SUBSET Box(q, r) /\ Box(q, r) \in SUBSET Pixels
  BY BoxType DEF Around, Box
<1>6. Summable(weighed, Box(q, r)) /\ Summable(weighed, Around(q, r, mask))
  BY <1>1, <1>5, PixelsSummable
<1>7. \A z \in Box(q, r) \ Around(q, r, mask) : weighed[z] = 0
  BY <1>5 DEF weighed
<1>8. \A z \in Around(q, r, mask) : weighed[z] = image[z]
  BY <1>5 DEF weighed
<1>9. SumFunctionOnSet(weighed, Box(q, r)) = SumFunctionOnSet(weighed, Around(q, r, mask))
  BY <1>5, <1>6, <1>7, SumWithoutZeros
<1>10. SumFunctionOnSet(weighed, Around(q, r, mask)) = SumFunctionOnSet(image, Around(q, r, mask))
  BY <1>6, <1>8, SumAgrees
<1> QED BY <1>2, <1>4, <1>5, <1>9, <1>10, PixelsSummable

\* The counts come to the pixels of the box that count: no char has wrapped.
LEMMA CountOfBox ==
  ASSUME NEW image \in [Pixels -> Int], NEW mask \in SUBSET Pixels, NEW r \in Nat,
         2 * r + 1 <= CharMax, NEW q \in Inside(r)
  PROVE  /\ IsFiniteSet(Around(q, r, mask)) /\ Cardinality(Around(q, r, mask)) \in Nat
         /\ BoxCount(SumRows(image, mask, r), r, q) = Cardinality(Around(q, r, mask))
<1> DEFINE counted == [z \in Pixels |-> IF z \in mask THEN 1 ELSE 0]
           rows == SumRows(image, mask, r)
<1>1. /\ counted \in [Pixels -> Int]
      /\ \A row \in Rows : rows.counts[row] = RowSum(counted, r, row)
  BY DEF SumRows
<1> DEFINE X == q[1] - r .. q[1] + r
           Y == q[2] - r .. q[2] + r
           g == [y \in Y |-> AsChar(rows.counts[y][q[1]])]
<1>2. BoxCount(rows, r, q) = SumFunctionOnSet(g, Y)
  BY DEF SumFunction, BoxCount
<1>3. ASSUME NEW y \in Y
      PROVE  g[y] = SumFunctionOnSet(Line(counted, y), X)
  <2> DEFINE T == {x \in X : <<x, y>> \in mask}
             L == Line(counted, y)
  <2>1. rows.counts[y][q[1]] = SumFunctionOnSet(L, X) /\ X \in SUBSET Cols /\ y \in Rows
    <3>1. y \in Rows /\ X \in SUBSET Cols /\ q[1] \in r .. Width - 1 - r
      BY BoxType
    <3>2. rows.counts[y][q[1]] = RowSum(counted, r, y)[q[1]]
      BY <1>1, <3>1
    <3> HIDE DEF counted
    <3> QED BY <1>1, <3>1, <3>2, RowSumIsWindow
  <2>2. Summable(L, X) /\ T \in SUBSET X
    BY <1>1, <2>1, LineSummable
  <2>3. /\ \A x \in X \ T : L[x] = 0
        /\ \A x \in T : L[x] = 1
    BY <2>1 DEF Line, Pixels
  <2>4. IsFiniteSet(T) /\ Cardinality(T) <= 2 * r + 1 /\ Cardinality(T) \in Nat
    <3>1. q[1] - r \in Int /\ q[1] + r \in Int /\ q[1] \in Int
      <4>1. q[1] \in r .. Width - 1 - r
        BY BoxType
      <4> QED BY <4>1, SizeType
    <3>2. IsFiniteSet(X) /\ Cardinality(X) = 2 * r + 1
      <4>1. /\ IsFiniteSet(X)
            /\ Cardinality(X) = IF q[1] - r > q[1] + r THEN 0 ELSE (q[1] + r) - (q[1] - r) + 1
        BY <3>1, FS_Interval
      <4> HIDE DEF X
      <4> QED BY ONLY <3>1, <4>1, SizeType, 2 * r + 1 <= CharMax, r \in Nat
    <3>3. IsFiniteSet(T) /\ Cardinality(T) <= Cardinality(X)
      <4> HIDE DEF T, L, X
      <4> QED BY ONLY <2>2, <3>2, FS_Subset
    <3> HIDE DEF T, L, X
    <3> QED BY ONLY <3>2, <3>3, FS_CardinalityType
  <2> HIDE DEF T, L, X
  <2>5. SumFunctionOnSet(L, X) = Cardinality(T)
    BY <2>2, <2>3, <2>4, SumWithoutZeros, SumOfOnes
  <2>6. AsChar(Cardinality(T)) = Cardinality(T)
    BY <2>4, SizeType DEF AsChar
  <2> QED BY <2>1, <2>5, <2>6 DEF L
<1> HIDE DEF g, counted, X
<1>4. SumFunctionOnSet(g, Y) = SumFunctionOnSet(counted, Box(q, r))
  BY <1>1, <1>3, BoxByRows DEF X
<1>5. /\ Around(q, r, mask) = Box(q, r) \intersect mask
      /\ Around(q, r, mask) \in SUBSET Box(q, r) /\ Box(q, r) \in SUBSET Pixels
  BY BoxType DEF Around, Box
<1>6. Summable(counted, Box(q, r)) /\ IsFiniteSet(Around(q, r, mask))
  BY <1>1, <1>5, PixelsSummable DEF Summable
<1>7. \A z \in Box(q, r) \ Around(q, r, mask) : counted[z] = 0
  BY <1>5 DEF counted
<1>8. \A z \in Around(q, r, mask) : counted[z] = 1
  BY <1>5 DEF counted
<1>9. SumFunctionOnSet(counted, Box(q, r)) = SumFunctionOnSet(counted, Around(q, r, mask))
  BY <1>5, <1>6, <1>7, SumWithoutZeros
<1>10. SumFunctionOnSet(counted, Around(q, r, mask)) = Cardinality(Around(q, r, mask))
  BY <1>6, <1>8, SumOfOnes
<1> QED BY <1>2, FS_CardinalityType, <1>4, <1>6, <1>9, <1>10

\* What the loops over the pixels leave: the value computed last.
Fresh(rows, r) == {k \in 0 .. Width * Height - 1 :
                     PixelAt(k) \in Inside(r) /\ BoxCount(rows, r, PixelAt(k)) > 0}
FreshValue(rows, r) ==
  [k \in 0 .. Width * Height - 1 |->
     IF k \in Fresh(rows, r)
     THEN (Scale * BoxLight(rows, r, PixelAt(k))) \div BoxCount(rows, r, PixelAt(k))
     ELSE 0]

Columns(last, r, filtered) ==
  [q \in Pixels |-> IF q \in Inside(r) THEN last[Index(q)] ELSE filtered[q]]

\* The second pass is such a loop over the pixels in memory order.
LEMMA ColumnsCarry ==
  ASSUME NEW rows, NEW r, NEW filtered, FreshValue(rows, r) \in [0 .. Width * Height - 1 -> Int]
  PROVE  \E last \in [0 .. Width * Height - 1 -> Int] :
           /\ CarriedOver(last, Width * Height, Fresh(rows, r), FreshValue(rows, r), 0)
           /\ SumColumns(rows, r, filtered) = Columns(last, r, filtered)
<1> DEFINE K == Width * Height
           s(q) == SumFunction([y \in q[2] - r .. q[2] + r |-> rows.sums[y][q[1]]])
           n(q) == SumFunction([y \in q[2] - r .. q[2] + r |-> AsChar(rows.counts[y][q[1]])])
           New(k) == PixelAt(k) \in Inside(r) /\ n(PixelAt(k)) > 0
           Value(k) == (Scale * s(PixelAt(k))) \div n(PixelAt(k))
           Last(f) == f = [k \in 0 .. K - 1 |->
                             IF PixelAt(k) \in Inside(r) /\ n(PixelAt(k)) > 0
                             THEN (Scale * s(PixelAt(k))) \div n(PixelAt(k))
                             ELSE IF k = 0 THEN 0 ELSE f[k - 1]]
           last == CHOOSE f : Last(f)
           fresh == Fresh(rows, r)
           value == FreshValue(rows, r)
<1>1. K \in Nat /\ K - 1 \in Int
  BY SizeType
<1>2. SumColumns(rows, r, filtered) = Columns(last, r, filtered)
  BY DEF SumColumns, Columns
<1>3. \A k \in 0 .. K - 1 : /\ k \in fresh <=> New(k)
                            /\ k \in fresh => value[k] = Value(k)
  BY DEF Fresh, FreshValue, BoxLight, BoxCount
<1>4. fresh \in SUBSET (0 .. K - 1) /\ value \in [0 .. K - 1 -> Int] /\ 0 \in Int
  BY DEF Fresh
<1> HIDE DEF K, s, n, fresh, value
<1>5. \E f : Last(f)
  <2>1. PICK f \in [0 .. K - 1 -> Int] : CarriedOver(f, K, fresh, value, 0)
    BY <1>1, <1>4, LastValue
  <2>2. Last(f)
    <3> SUFFICES ASSUME NEW k \in 0 .. K - 1
                 PROVE  f[k] = IF New(k) THEN Value(k) ELSE IF k = 0 THEN 0 ELSE f[k - 1]
      BY Zenon
    <3> HIDE DEF New, Value
    <3> QED BY <1>3, <2>1 DEF CarriedOver
  <2> QED BY <2>2
<1>6. Last(last)
  BY <1>5
<1>7. /\ DOMAIN last = 0 .. K - 1
      /\ \A k \in 0 .. K - 1 :
           last[k] = IF k \in fresh THEN value[k] ELSE IF k = 0 THEN 0 ELSE last[k - 1]
  <2> HIDE DEF last
  <2>1. DOMAIN last = 0 .. K - 1
    BY <1>6
  <2>2. \A k \in 0 .. K - 1 : last[k] = IF New(k) THEN Value(k) ELSE IF k = 0 THEN 0 ELSE last[k - 1]
    BY <1>6
  <2> HIDE DEF New, Value, Last
  <2> QED BY <1>3, <2>1, <2>2
<1> DEFINE E == {k \in Nat : k < K => last[k] \in Int}
<1> HIDE DEF last
<1>8. \A k \in Nat : k \in E
  <2>1. 0 \in E
    BY <1>1, <1>4, <1>7
  <2>2. ASSUME NEW k \in Nat, k \in E PROVE k + 1 \in E
    <3> SUFFICES ASSUME k + 1 < K PROVE last[k + 1] \in Int
      OBVIOUS
    <3>1. k + 1 \in 0 .. K - 1 /\ k + 1 # 0 /\ (k + 1) - 1 = k /\ k < K
      BY <1>1
    <3> QED BY <1>4, <1>7, <2>2, <3>1
  <2> HIDE DEF E
  <2> QED BY <2>1, <2>2, NaturalInduction
<1>9. last = [k \in 0 .. K - 1 |-> last[k]]
  BY <1>6, <1>7
<1>10. last \in [0 .. K - 1 -> Int]
  <2>1. \A k \in 0 .. K - 1 : last[k] \in Int
    BY <1>1, <1>8
  <2> QED BY <1>9, <2>1
<1>11. CarriedOver(last, K, fresh, value, 0)
  BY <1>7 DEF CarriedOver
<1> QED BY <1>2, <1>10, <1>11 DEF K, fresh, value

\* What the loop computes at a pixel is an integer.
LEMMA FreshValueType ==
  ASSUME NEW image \in [Pixels -> Int], NEW mask \in SUBSET Pixels, NEW r \in Nat,
         2 * r + 1 <= CharMax
  PROVE  FreshValue(SumRows(image, mask, r), r) \in [0 .. Width * Height - 1 -> Int]
<1> DEFINE rows == SumRows(image, mask, r)
<1> SUFFICES ASSUME NEW k \in Fresh(rows, r)
             PROVE  (Scale * BoxLight(rows, r, PixelAt(k))) \div BoxCount(rows, r, PixelAt(k)) \in Int
  BY DEF FreshValue
<1>1. PixelAt(k) \in Inside(r) /\ BoxCount(rows, r, PixelAt(k)) > 0
  BY DEF Fresh
<1>2. BoxCount(rows, r, PixelAt(k)) \in Nat
  BY <1>1, CountOfBox
<1>3. BoxLight(rows, r, PixelAt(k)) \in Int
  BY <1>1, LightOfBox, SumType
<1> HIDE DEF rows
<1> QED BY <1>1, <1>2, <1>3, SizeType

\* A box with a pixel that counts has a mean.
LEMMA MeanType ==
  ASSUME NEW image \in [Pixels -> Int], NEW mask \in SUBSET Pixels, NEW r \in Nat,
         2 * r + 1 <= CharMax, NEW p \in Inside(r), Around(p, r, mask) # {}
  PROVE  Mean(image, mask, r, p) \in Int /\ Cardinality(Around(p, r, mask)) > 0
<1>1. Cardinality(Around(p, r, mask)) \in Nat /\ Cardinality(Around(p, r, mask)) # 0
  BY CountOfBox, FS_EmptySet
<1>2. SumFunctionOnSet(image, Around(p, r, mask)) \in Int
  BY LightOfBox, SumType
<1> QED BY <1>1, <1>2, LightByColumns, SizeType

\* The theorem about boxcarFilterImage: for every image, mask and radius whose
\* rows a char can count, a pixel with something that counts around it gets the
\* mean taken from scratch, and nothing of what filtered_image held before.
THEOREM BoxIsMean ==
  ASSUME NEW image \in [Pixels -> Int], NEW mask \in SUBSET Pixels, NEW filtered,
         NEW r \in Nat, 2 * r + 1 <= CharMax,
         NEW p \in Inside(r), Around(p, r, mask) # {}
  PROVE  SumColumns(SumRows(image, mask, r), r, filtered)[p] = Mean(image, mask, r, p)
<1> DEFINE rows == SumRows(image, mask, r)
<1>1. PICK last \in [0 .. Width * Height - 1 -> Int] :
        /\ CarriedOver(last, Width * Height, Fresh(rows, r), FreshValue(rows, r), 0)
        /\ SumColumns(rows, r, filtered) = Columns(last, r, filtered)
  BY FreshValueType, ColumnsCarry
<1>2. p \in Pixels /\ Index(p) \in 0 .. Width * Height - 1 /\ PixelAt(Index(p)) = p
  BY BoxType, IndexOfPixel
<1>3. BoxCount(rows, r, p) = Cardinality(Around(p, r, mask)) /\ BoxCount(rows, r, p) > 0
  BY CountOfBox, MeanType
<1>4. Index(p) \in Fresh(rows, r)
  BY <1>2, <1>3 DEF Fresh
<1>5. last[Index(p)] = (Scale * BoxLight(rows, r, p)) \div BoxCount(rows, r, p)
  <2>1. last[Index(p)] = FreshValue(rows, r)[Index(p)]
    BY <1>1, <1>2, <1>4 DEF CarriedOver
  <2> QED BY <1>2, <1>4, <2>1 DEF FreshValue
<1>6. SumColumns(rows, r, filtered)[p] = last[Index(p)]
  BY <1>1, <1>2 DEF Columns
<1> QED BY <1>3, <1>5, <1>6, LightOfBox, LightByColumns

\* The second pass leaves an image of integers.
LEMMA ColumnsType ==
  ASSUME NEW image \in [Pixels -> Int], NEW mask \in SUBSET Pixels,
         NEW filtered \in [Pixels -> Int], NEW r \in Nat, 2 * r + 1 <= CharMax
  PROVE  SumColumns(SumRows(image, mask, r), r, filtered) \in [Pixels -> Int]
<1> DEFINE rows == SumRows(image, mask, r)
<1>1. PICK last \in [0 .. Width * Height - 1 -> Int] :
        SumColumns(rows, r, filtered) = Columns(last, r, filtered)
  BY FreshValueType, ColumnsCarry
<1>2. \A q \in Pixels : last[Index(q)] \in Int
  BY IndexOfPixel
<1> QED BY <1>1, <1>2 DEF Columns
=============================================================================

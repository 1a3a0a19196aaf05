--------------------------- MODULE ImagingProofs ---------------------------
(***************************************************************************)
(* Proofs about Blobs and Imaging, for images of any size, any number of   *)
(* blobs, any parameters within the assumptions and packets at any time.   *)
(*                                                                         *)
(* First the operators: the merge sort (MergeSorts, PartSorts), the search *)
(* (SearchCovers), the turn of rows into heights (SortedFlip) and the      *)
(* centroid (CentroidReversed); with BoxIsMean of FiltersProofs they say   *)
(* what a step of Imaging leaves.  Then the inductive invariant, which     *)
(* says what the buffers hold between the steps: every property follows    *)
(* from it.                                                                *)
(***************************************************************************)
EXTENDS Imaging, FiltersProofs

-----------------------------------------------------------------------------
(***************************************************************************)
(* How often a value is found in a part of a sequence.                     *)
(***************************************************************************)
CountIn(s, a, b, x) == Cardinality({i \in a .. b : s[i] = x})

\* Counting gives a natural number.
LEMMA CountType ==
  ASSUME NEW s, NEW a \in Int, NEW b \in Int, NEW x
  PROVE  IsFiniteSet({i \in a .. b : s[i] = x}) /\ CountIn(s, a, b, x) \in Nat
BY FS_Interval, FS_Subset, FS_CardinalityType DEF CountIn

\* Nothing is found in an empty part.
LEMMA CountNone ==
  ASSUME NEW s, NEW a \in Int, NEW b \in Int, b < a, NEW x
  PROVE  CountIn(s, a, b, x) = 0
<1>1. {i \in a .. b : s[i] = x} = {}
  OBVIOUS
<1> QED BY <1>1, FS_EmptySet DEF CountIn

\* Counts of adjoining parts add up.
LEMMA CountSplit ==
  ASSUME NEW s, NEW a \in Int, NEW b \in Int, NEW c \in Int, a <= b + 1, b <= c, NEW x
  PROVE  CountIn(s, a, c, x) = CountIn(s, a, b, x) + CountIn(s, b + 1, c, x)
<1> DEFINE S == {i \in a .. b : s[i] = x}
           T == {i \in b + 1 .. c : s[i] = x}
<1>1. {i \in a .. c : s[i] = x} = S \union T /\ S \intersect T = {}
  OBVIOUS
<1>2. IsFiniteSet(S) /\ IsFiniteSet(T) /\ Cardinality(S) \in Nat /\ Cardinality(T) \in Nat
  <2>1. b + 1 \in Int
    OBVIOUS
  <2>2. IsFiniteSet(a .. b) /\ IsFiniteSet(b + 1 .. c)
    BY <2>1, FS_Interval
  <2>3. S \in SUBSET (a .. b) /\ T \in SUBSET (b + 1 .. c)
    OBVIOUS
  <2> HIDE DEF S, T
  <2>4. IsFiniteSet(S) /\ IsFiniteSet(T)
    BY ONLY <2>2, <2>3, FS_Subset
  <2> QED BY ONLY <2>4, FS_CardinalityType
<1> HIDE DEF S, T
<1>3. Cardinality(S \union T) = Cardinality(S) + Cardinality(T)
  <2>1. Cardinality(S \union T)
          = Cardinality(S) + Cardinality(T) - Cardinality(S \intersect T)
    BY ONLY <1>2, FS_Union
  <2>2. Cardinality(S \intersect T) = 0
    BY ONLY <1>1, FS_EmptySet
  <2> QED BY ONLY <1>2, <2>1, <2>2
<1> QED BY <1>1, <1>3 DEF CountIn, S, T

\* Counting in a part of one element.
LEMMA CountOne ==
  ASSUME NEW s, NEW a \in Int, NEW x
  PROVE  CountIn(s, a, a, x) = IF s[a] = x THEN 1 ELSE 0
<1>1. {i \in a .. a : s[i] = x} = IF s[a] = x THEN {a} ELSE {}
  OBVIOUS
<1> QED BY <1>1, FS_Singleton, FS_EmptySet DEF CountIn

\* Counting one element more.
LEMMA CountNext ==
  ASSUME NEW s, NEW a \in Int, NEW b \in Int, a <= b, NEW x
  PROVE  CountIn(s, a, b, x) = CountIn(s, a, b - 1, x) + IF s[b] = x THEN 1 ELSE 0
<1> DEFINE c == b - 1
<1>1. c \in Int /\ c + 1 = b /\ a <= c + 1 /\ c <= b
  OBVIOUS
<1> HIDE DEF c
<1>2. CountIn(s, a, b, x) = CountIn(s, a, c, x) + CountIn(s, c + 1, b, x)
  BY <1>1, CountSplit
<1>3. CountIn(s, b, b, x) = IF s[b] = x THEN 1 ELSE 0
  BY CountOne
<1> QED BY <1>1, <1>2, <1>3 DEF c

\* Parts with the same elements have the same counts.
LEMMA CountSame ==
  ASSUME NEW s, NEW t, NEW a \in Int, NEW b \in Int, \A i \in a .. b : s[i] = t[i], NEW x
  PROVE  CountIn(s, a, b, x) = CountIn(t, a, b, x)
<1>1. {i \in a .. b : s[i] = x} = {i \in a .. b : t[i] = x}
  OBVIOUS
<1> QED BY <1>1 DEF CountIn

\* Appending an element adds one to its count and nothing to the others.
LEMMA CountAppend ==
  ASSUME NEW B, NEW s \in Seq(B), NEW e \in B, NEW x
  PROVE  /\ Append(s, e) \in Seq(B) /\ Len(Append(s, e)) = Len(s) + 1
         /\ \A i \in 1 .. Len(s) : Append(s, e)[i] = s[i]
         /\ Append(s, e)[Len(s) + 1] = e
         /\ CountIn(Append(s, e), 1, Len(s) + 1, x)
              = CountIn(s, 1, Len(s), x) + IF e = x THEN 1 ELSE 0
<1> DEFINE t == Append(s, e)
           n == Len(s)
<1>1. /\ t \in Seq(B) /\ Len(t) = n + 1 /\ n \in Nat
      /\ \A i \in 1 .. n : t[i] = s[i]
      /\ t[n + 1] = e
  OBVIOUS
<1> HIDE DEF t, n
<1>2. n + 1 \in Int /\ (n + 1) - 1 = n /\ 1 <= n + 1 /\ 1 \in Int /\ n \in Int
  BY <1>1
<1>3. CountIn(t, 1, n + 1, x) = CountIn(t, 1, n, x) + IF e = x THEN 1 ELSE 0
  BY <1>1, <1>2, CountNext
<1>4. CountIn(t, 1, n, x) = CountIn(s, 1, n, x)
  BY <1>1, <1>2, CountSame
<1> QED BY <1>1, <1>3, <1>4 DEF t, n

-----------------------------------------------------------------------------
(***************************************************************************)
(* merge: what it has taken from either half, in order.                    *)
(***************************************************************************)
BlobSet == [x : Int, y : Int, mag : Nat \ {0}]

Descending(s) == \A i, j \in DOMAIN s : i < j => s[i].mag >= s[j].mag

\* What was taken so far is the first i - 1 of one half and j - 1 of the other.
Taken(l, r, i, j, out) ==
  \A x : CountIn(out, 1, Len(out), x) = CountIn(l, 1, i - 1, x) + CountIn(r, 1, j - 1, x)

\* Nothing that is still in a half is brighter than what was taken.
AboveRest(l, i, out) ==
  \A m \in DOMAIN out : i <= Len(l) => out[m].mag >= l[i].mag

\* The merge after k steps.
Merging(B, l, r, k, i, j, out) ==
  /\ i \in 1 .. Len(l) + 1 /\ j \in 1 .. Len(r) + 1 /\ i + j = k + 2
  /\ out \in Seq(B) /\ Len(out) = k
  /\ Taken(l, r, i, j, out)
  /\ Descending(l) /\ Descending(r) =>
       Descending(out) /\ AboveRest(l, i, out) /\ AboveRest(r, j, out)

\* The halves of a merge play the same part.
LEMMA MergingSwaps ==
  ASSUME NEW B \in SUBSET BlobSet, NEW l \in Seq(B), NEW r \in Seq(B), NEW k \in Nat,
         NEW i, NEW j, NEW out, Merging(B, l, r, k, i, j, out)
  PROVE  Merging(B, r, l, k, j, i, out)
<1>1. i \in Int /\ j \in Int /\ Len(l) \in Nat /\ Len(r) \in Nat
  BY DEF Merging
<1>2. Taken(r, l, j, i, out)
  <2> SUFFICES ASSUME NEW x
               PROVE  CountIn(out, 1, Len(out), x) = CountIn(r, 1, j - 1, x) + CountIn(l, 1, i - 1, x)
    BY DEF Taken
  <2>1. CountIn(out, 1, Len(out), x) = CountIn(l, 1, i - 1, x) + CountIn(r, 1, j - 1, x)
    BY DEF Merging, Taken
  <2>2. i - 1 \in Int /\ j - 1 \in Int /\ 1 \in Int
    BY <1>1
  <2>3. CountIn(l, 1, i - 1, x) \in Nat /\ CountIn(r, 1, j - 1, x) \in Nat
    BY <2>2, CountType
  <2> QED BY <2>1, <2>3
<1>3. j + i = k + 2
  BY <1>1 DEF Merging
<1> QED BY <1>2, <1>3 DEF Merging

\* The brighter of the two blobs that are next is taken.
LEMMA MergingTakes ==
  ASSUME NEW B \in SUBSET BlobSet, NEW l \in Seq(B), NEW r \in Seq(B), NEW k \in Nat,
         NEW i, NEW j, NEW out, Merging(B, l, r, k, i, j, out),
         i <= Len(l), j <= Len(r) => l[i].mag >= r[j].mag
  PROVE  Merging(B, l, r, k + 1, i + 1, j, Append(out, l[i]))
<1> DEFINE e == l[i]
           n == Len(l)
           t == Append(out, e)
<1>1. /\ i \in 1 .. n /\ j \in 1 .. Len(r) + 1 /\ i + j = k + 2 /\ n \in Nat /\ Len(r) \in Nat
      /\ out \in Seq(B) /\ Len(out) = k
  BY DEF Merging
<1>2. e \in B /\ e.mag \in Nat
  <2>1. e \in B /\ e \in BlobSet
    BY <1>1
  <2> HIDE DEF e
  <2> QED BY ONLY <2>1 DEF BlobSet
<1>3. DOMAIN out = 1 .. k /\ DOMAIN l = 1 .. n
  BY <1>1
<1> HIDE DEF e, t
<1>4. /\ t \in Seq(B) /\ Len(t) = k + 1 /\ t[k + 1] = e
      /\ \A m \in 1 .. k : t[m] = out[m]
  BY ONLY <1>1, <1>2, CountAppend DEF t
<1>5. i + 1 \in 1 .. Len(l) + 1 /\ (i + 1) + j = (k + 1) + 2
  BY <1>1
<1>6. Taken(l, r, i + 1, j, t)
  <2> SUFFICES ASSUME NEW x
               PROVE  CountIn(t, 1, Len(t), x)
                        = CountIn(l, 1, (i + 1) - 1, x) + CountIn(r, 1, j - 1, x)
    BY DEF Taken
  <2>1. CountIn(out, 1, k, x) = CountIn(l, 1, i - 1, x) + CountIn(r, 1, j - 1, x)
    BY <1>1 DEF Merging, Taken
  <2>2. CountIn(t, 1, k + 1, x) = CountIn(out, 1, k, x) + IF e = x THEN 1 ELSE 0
    BY <1>1, <1>2, CountAppend DEF t
  <2>3. CountIn(l, 1, i, x) = CountIn(l, 1, i - 1, x) + IF e = x THEN 1 ELSE 0
    <3>1. i \in Int /\ 1 \in Int /\ 1 <= i
      BY <1>1
    <3> QED BY <3>1, CountNext DEF e
  <2>4. (i + 1) - 1 = i /\ i - 1 \in Int /\ j - 1 \in Int /\ 1 \in Int
    BY <1>1
  <2>5. CountIn(l, 1, i - 1, x) \in Nat /\ CountIn(r, 1, j - 1, x) \in Nat
    BY <2>4, CountType
  <2> QED BY <1>4, <2>1, <2>2, <2>3, <2>4, <2>5
<1>7. ASSUME Descending(l), Descending(r)
      PROVE  Descending(t) /\ AboveRest(l, i + 1, t) /\ AboveRest(r, j, t)
  <2>1. Descending(out) /\ AboveRest(l, i, out)
    BY <1>7 DEF Merging
  <2>2. \A m \in 1 .. k : out[m].mag >= e.mag
    <3>1. i <= Len(l)
      OBVIOUS
    <3> QED BY <1>3, <2>1, <3>1 DEF AboveRest, e
  <2>3. \A m \in 1 .. k + 1 : t[m].mag >= e.mag /\ t[m].mag \in Nat
    <3>1. \A m \in 1 .. k + 1 : t[m] \in B
      BY <1>4
    <3>2. ASSUME NEW m \in 1 .. k + 1 PROVE t[m].mag >= e.mag
      <4>1. CASE m = k + 1
        BY <1>2, <1>4, <4>1
      <4>2. CASE m # k + 1
        <5>1. m \in 1 .. k
          BY <4>2
        <5> QED BY <1>4, <2>2, <5>1
      <4> QED BY <4>1, <4>2
    <3> QED BY <3>1, <3>2 DEF BlobSet
  <2>4. Descending(t)
    <3> SUFFICES ASSUME NEW a \in 1 .. k + 1, NEW b \in 1 .. k + 1, a < b
                 PROVE  t[a].mag >= t[b].mag
      BY <1>4 DEF Descending
    <3>1. a \in 1 .. k
      OBVIOUS
    <3>2. CASE b = k + 1
      BY <1>4, <2>3, <3>2
    <3>3. CASE b # k + 1
      <4>1. b \in 1 .. k
        BY <3>3
      <4>2. out[a].mag >= out[b].mag
        BY <1>3, <2>1, <3>1, <4>1 DEF Descending
      <4> QED BY <1>4, <3>1, <4>1, <4>2
    <3> QED BY <3>2, <3>3
  <2>5. ASSUME i + 1 <= n PROVE e.mag >= l[i + 1].mag /\ l[i + 1].mag \in Nat
    <3>1. i + 1 \in 1 .. n /\ i < i + 1
      BY <1>1, <2>5
    <3>2. l[i + 1] \in B
      BY <3>1
    <3>3. l[i].mag >= l[i + 1].mag
      BY <1>1, <1>7, <1>3, <3>1 DEF Descending
    <3> QED BY <3>2, <3>3 DEF e, BlobSet
  <2>6. ASSUME j <= Len(r) PROVE e.mag >= r[j].mag /\ r[j].mag \in Nat
    <3>1. j \in 1 .. Len(r)
      BY <1>1, <2>6
    <3>2. r[j] \in B
      BY <3>1
    <3> QED BY <2>6, <3>2 DEF e, BlobSet
  <2>7. DOMAIN t = 1 .. k + 1 /\ Len(l) = n
    BY <1>4
  <2>8. AboveRest(l, i + 1, t)
    BY ONLY <1>2, <2>3, <2>5, <2>7 DEF AboveRest
  <2>9. AboveRest(r, j, t)
    BY ONLY <1>2, <2>3, <2>6, <2>7 DEF AboveRest
  <2> QED BY <2>4, <2>8, <2>9
<1>8. Merging(B, l, r, k + 1, i + 1, j, t)
  BY <1>1, <1>4, <1>5, <1>6, <1>7 DEF Merging
<1> QED BY <1>8 DEF t, e

\* Behind the last blob of a half is a magnitude of 0.
LEMMA HalfType ==
  ASSUME NEW B \in SUBSET BlobSet, NEW l \in Seq(B), NEW i \in 1 .. Len(l) + 1
  PROVE  /\ i <= Len(l) => Half(l)[i] = l[i]
         /\ i <= Len(l) => Half(l)[i].mag > 0
         /\ i > Len(l) => Half(l)[i].mag = 0
         /\ Half(l)[i].mag \in Nat
<1>1. Len(l) \in Nat /\ \A k \in 1 .. Len(l) : l[k] \in B
  OBVIOUS
<1>2. ASSUME i <= Len(l) PROVE Half(l)[i] = l[i] /\ l[i].mag \in Nat \ {0}
  <2>1. Half(l)[i] = l[i] /\ l[i] \in B
    BY <1>1, <1>2 DEF Half
  <2> QED BY <2>1 DEF BlobSet
<1>3. ASSUME i > Len(l) PROVE Half(l)[i] = Garbage
  <2>1. i = Len(l) + 1
    BY <1>1, <1>3
  <2> QED BY <1>1, <2>1 DEF Half
<1> QED BY <1>1, <1>2, <1>3 DEF Garbage

\* The state of the loop of merge, as the model writes it.
MergeState(B) == [i : Nat, j : Nat, out : Seq(B)]
MergeStart == [i |-> 1, j |-> 1, out |-> <<>>]

MergeStep(l, r, s) ==
  LET left == Half(l)[s.i]
      right == Half(r)[s.j]
  IN  IF s.i > Len(l) + 1 THEN [s EXCEPT !.out = Append(@, Garbage)]
      ELSE IF TakeLeft(left, right)
      THEN [i |-> s.i + 1, j |-> s.j, out |-> Append(s.out, left)]
      ELSE [i |-> s.i, j |-> s.j + 1, out |-> Append(s.out, right)]

\* A step of merge takes the brighter head, and its sentinels are never taken.
LEMMA MergeStepKeeps ==
  ASSUME NEW B \in SUBSET BlobSet, NEW l \in Seq(B), NEW r \in Seq(B),
         NEW k \in 0 .. Len(l) + Len(r) - 1, NEW s \in MergeState(B),
         Merging(B, l, r, k, s.i, s.j, s.out)
  PROVE  LET t == MergeStep(l, r, s)
         IN  t \in MergeState(B) /\ Merging(B, l, r, k + 1, t.i, t.j, t.out)
<1> DEFINE left == Half(l)[s.i]
           right == Half(r)[s.j]
           t == MergeStep(l, r, s)
<1>1. PICK i \in Nat, j \in Nat, out \in Seq(B) : s = [i |-> i, j |-> j, out |-> out]
  BY DEF MergeState
<1>2. /\ s.i = i /\ s.j = j /\ s.out = out /\ Len(l) \in Nat /\ Len(r) \in Nat /\ k \in Nat
      /\ i \in 1 .. Len(l) + 1 /\ j \in 1 .. Len(r) + 1 /\ i + j = k + 2 /\ k < Len(l) + Len(r)
  BY <1>1 DEF Merging
<1>3. /\ i <= Len(l) => left = l[i]
      /\ i <= Len(l) => left.mag > 0
      /\ i > Len(l) => left.mag = 0
      /\ left.mag \in Nat
  BY <1>2, HalfType
<1>4. /\ j <= Len(r) => right = r[j]
      /\ j <= Len(r) => right.mag > 0
      /\ j > Len(r) => right.mag = 0
      /\ right.mag \in Nat
  BY <1>2, HalfType
<1>5. Merging(B, l, r, k, i, j, out) /\ Merging(B, r, l, k, j, i, out)
  BY <1>2, MergingSwaps
<1>6. /\ TakeLeft(left, right) =>
           t = [i |-> i + 1, j |-> j, out |-> Append(out, left)]
      /\ ~TakeLeft(left, right) =>
           t = [i |-> i, j |-> j + 1, out |-> Append(out, right)]
  <2>1. ~(s.i > Len(l) + 1)
    BY <1>2
  <2> HIDE DEF left, right
  <2> QED BY <1>2, <2>1 DEF MergeStep, left, right
<1> HIDE DEF t, left, right
<1>7. CASE TakeLeft(left, right)
  <2>1. i <= Len(l) /\ (j <= Len(r) => l[i].mag >= r[j].mag) /\ left = l[i]
    <3>1. left.mag >= right.mag
      BY ONLY <1>3, <1>4, <1>7 DEF TakeLeft
    <3>2. i <= Len(l)
      <4>1. i \in Int /\ j \in Int /\ Len(l) \in Int /\ Len(r) \in Int
            /\ i <= Len(l) + 1 /\ j <= Len(r) + 1 /\ i + j < Len(l) + Len(r) + 2
        BY ONLY <1>2
      <4> QED BY ONLY <1>3, <1>4, <3>1, <4>1
    <3>3. left = l[i]
      BY ONLY <1>3, <3>2
    <3>4. j <= Len(r) => l[i].mag >= r[j].mag
      BY ONLY <1>3, <1>4, <3>1, <3>3
    <3> QED BY ONLY <3>2, <3>3, <3>4
  <2>2. Merging(B, l, r, k + 1, i + 1, j, Append(out, l[i]))
    BY <1>2, <1>5, <2>1, MergingTakes
  <2>3. t.i = i + 1 /\ t.j = j /\ t.out = Append(out, l[i])
    BY <1>6, <1>7, <2>1
  <2>4. t \in MergeState(B)
    <3> DEFINE u == Append(out, l[i])
    <3>1. u \in Seq(B) /\ i + 1 \in Nat
      BY <2>2 DEF Merging
    <3>2. t = [i |-> i + 1, j |-> j, out |-> u]
      BY <1>6, <1>7, <2>1
    <3>3. j \in Nat
      BY <1>2
    <3> HIDE DEF u
    <3> QED BY ONLY <3>1, <3>2, <3>3 DEF MergeState
  <2> QED BY <2>2, <2>3, <2>4 DEF t
<1>8. CASE ~TakeLeft(left, right)
  <2>1. j <= Len(r) /\ (i <= Len(l) => r[j].mag >= l[i].mag) /\ right = r[j]
    <3>1. left.mag < right.mag
      BY ONLY <1>3, <1>4, <1>8 DEF TakeLeft
    <3>2. j <= Len(r)
      <4>1. i \in Int /\ j \in Int /\ Len(l) \in Int /\ Len(r) \in Int
            /\ i <= Len(l) + 1 /\ j <= Len(r) + 1 /\ i + j < Len(l) + Len(r) + 2
        BY ONLY <1>2
      <4> QED BY ONLY <1>3, <1>4, <3>1, <4>1
    <3>3. right = r[j]
      BY ONLY <1>4, <3>2
    <3>4. i <= Len(l) => r[j].mag >= l[i].mag
      BY ONLY <1>3, <1>4, <3>1, <3>3
    <3> QED BY ONLY <3>2, <3>3, <3>4
  <2>2. Merging(B, r, l, k + 1, j + 1, i, Append(out, r[j]))
    BY <1>2, <1>5, <2>1, MergingTakes
  <2>3. Merging(B, l, r, k + 1, i, j + 1, Append(out, r[j]))
    <3>1. k + 1 \in Nat
      BY <1>2
    <3> QED BY <2>2, <3>1, MergingSwaps
  <2>4. t.i = i /\ t.j = j + 1 /\ t.out = Append(out, r[j])
    BY <1>6, <1>8, <2>1
  <2>5. t \in MergeState(B)
    <3> DEFINE u == Append(out, r[j])
    <3>1. u \in Seq(B) /\ j + 1 \in Nat
      BY <2>2 DEF Merging
    <3>2. t = [i |-> i, j |-> j + 1, out |-> u]
      BY <1>6, <1>8, <2>1
    <3>3. i \in Nat
      BY <1>2
    <3> HIDE DEF u
    <3> QED BY ONLY <3>1, <3>2, <3>3 DEF MergeState
  <2> QED BY <2>3, <2>4, <2>5 DEF t
<1> QED BY <1>7, <1>8

Sorts(t, l, r) ==
  /\ Len(t) = Len(l) + Len(r)
  /\ Descending(l) /\ Descending(r) => Descending(t)
  /\ \A x : CountIn(t, 1, Len(t), x) = CountIn(l, 1, Len(l), x) + CountIn(r, 1, Len(r), x)

\* A whole merge of two halves sorts them.
LEMMA MergeSorts ==
  ASSUME NEW B \in SUBSET BlobSet, NEW l \in Seq(B), NEW r \in Seq(B)
  PROVE  merge(l, r) \in Seq(B) /\ Sorts(merge(l, r), l, r)
<1> DEFINE n == Len(l) + Len(r)
           S == MergeState(B)
           h == [ks \in Nat \X S |-> MergeStep(l, r, ks[2])]
           G == {ks \in Nat \X S : Merging(B, l, r, ks[1], ks[2].i, ks[2].j, ks[2].out)}
           Steps(f) == f = [k \in 0 .. n |->
                              IF k = 0 THEN [i |-> 1, j |-> 1, out |-> <<>>]
                              ELSE LET s == f[k - 1]
                                       left == Half(l)[s.i]
                                       right == Half(r)[s.j]
                                   IN  IF s.i > Len(l) + 1
                                       THEN [s EXCEPT !.out = Append(@, Garbage)]
                                       ELSE IF TakeLeft(left, right)
                                       THEN [i |-> s.i + 1, j |-> s.j, out |-> Append(s.out, left)]
                                       ELSE [i |-> s.i, j |-> s.j + 1, out |-> Append(s.out, right)]]
           step == CHOOSE f : Steps(f)
<1>1. n \in Nat /\ Len(l) \in Nat /\ Len(r) \in Nat
  OBVIOUS
<1>2. merge(l, r) = step[n].out
  BY DEF merge
<1>3. <<0, MergeStart>> \in G
  <2>1. MergeStart \in S /\ MergeStart.i = 1 /\ MergeStart.j = 1 /\ MergeStart.out = <<>>
    BY DEF MergeStart, MergeState
  <2>2. Merging(B, l, r, 0, 1, 1, <<>>)
    <3>1. Taken(l, r, 1, 1, <<>>)
      <4> SUFFICES ASSUME NEW x
                   PROVE  CountIn(<<>>, 1, Len(<<>>), x)
                            = CountIn(l, 1, 1 - 1, x) + CountIn(r, 1, 1 - 1, x)
        BY DEF Taken
      <4>1. Len(<<>>) = 0 /\ 1 - 1 = 0 /\ 0 \in Int /\ 1 \in Int /\ 0 < 1
        OBVIOUS
      <4>2. CountIn(<<>>, 1, 0, x) = 0 /\ CountIn(l, 1, 0, x) = 0 /\ CountIn(r, 1, 0, x) = 0
        BY <4>1, CountNone
      <4> QED BY <4>1, <4>2
    <3>2. Descending(<<>>) /\ AboveRest(l, 1, <<>>) /\ AboveRest(r, 1, <<>>)
      BY DEF Descending, AboveRest
    <3> QED BY <1>1, <3>1, <3>2 DEF Merging
  <2> QED BY <2>1, <2>2
<1>4. KeptBy(G, n, S, h)
  <2> SUFFICES ASSUME NEW k \in 0 .. n - 1, NEW s \in S, <<k, s>> \in G
               PROVE  <<k + 1, h[<<k, s>>]>> \in G
    BY DEF KeptBy
  <2>1. k \in Nat /\ h[<<k, s>>] = MergeStep(l, r, s) /\ Merging(B, l, r, k, s.i, s.j, s.out)
    OBVIOUS
  <2> DEFINE t == MergeStep(l, r, s)
  <2>2. t \in S /\ Merging(B, l, r, k + 1, t.i, t.j, t.out)
    BY <2>1, MergeStepKeeps
  <2> QED BY <2>1, <2>2
<1>5. ASSUME NEW f, Steps(f) PROVE Loop(f, n, MergeStart, S, h)
  <2>1. f[0] = MergeStart
    <3>1. \A m \in 0 .. n : m = 0 => f[m] = MergeStart
      BY <1>5, Zenon DEF MergeStart
    <3>2. 0 \in 0 .. n
      BY ONLY <1>1
    <3> QED BY <3>1, <3>2
  <2>2. ASSUME NEW k \in 0 .. n - 1, f[k] \in S PROVE f[k + 1] = h[<<k, f[k]>>]
    <3>1. k + 1 \in 0 .. n /\ k + 1 # 0 /\ (k + 1) - 1 = k /\ k \in Nat
      BY <1>1
    <3>2. \A m \in 0 .. n : m # 0 => f[m] = MergeStep(l, r, f[m - 1])
      BY <1>5, Zenon DEF MergeStep
    <3> QED BY <2>2, <3>1, <3>2
  <2> HIDE DEF h
  <2> QED BY <2>1, <2>2 DEF Loop
<1>6. \E f : Steps(f)
  <2>1. PICK f \in [0 .. n -> S] : Loop(f, n, MergeStart, S, h)
    <3> HIDE DEF n, S, h, G
    <3>1. G \in SUBSET (Nat \X S)
      BY DEF G
    <3> QED BY <1>1, <1>3, <1>4, <3>1, LoopExists
  <2>2. ASSUME NEW k \in 0 .. n
        PROVE  f[k] = IF k = 0 THEN MergeStart ELSE MergeStep(l, r, f[k - 1])
    <3>1. CASE k = 0
      BY <2>1, <3>1 DEF Loop
    <3>2. CASE k # 0
      <4>1. k - 1 \in 0 .. n - 1 /\ k - 1 \in 0 .. n /\ (k - 1) + 1 = k /\ k - 1 \in Nat
        BY <1>1, <3>2
      <4>2. f[k - 1] \in S
        BY <4>1
      <4>3. f[k] = h[<<k - 1, f[k - 1]>>]
        <5> HIDE DEF h
        <5> QED BY <2>1, <4>1, <4>2 DEF Loop
      <4>4. h[<<k - 1, f[k - 1]>>] = MergeStep(l, r, f[k - 1])
        BY <4>1, <4>2
      <4> QED BY <3>2, <4>3, <4>4
    <3> QED BY <3>1, <3>2
  <2>3. Steps(f)
    BY <2>2 DEF MergeStart, MergeStep
  <2> QED BY <2>3
<1>7. Steps(step)
  BY <1>6
<1>8. <<n, step[n]>> \in G
  <2>1. Loop(step, n, MergeStart, S, h)
    <3> HIDE DEF step, Steps, h
    <3> QED BY <1>5, <1>7
  <2> HIDE DEF n, S, h, G, step
  <2>2. G \in SUBSET (Nat \X S)
    BY DEF G
  <2>3. \A k \in 0 .. n : <<k, step[k]>> \in G
    BY <1>1, <1>3, <1>4, <2>1, <2>2, LoopInvariant
  <2> QED BY <1>1, <2>3
<1> DEFINE s == step[n]
<1> HIDE DEF step
<1>9. s \in S /\ Merging(B, l, r, n, s.i, s.j, s.out)
  BY <1>8
<1> HIDE DEF s
<1>10. s.i = Len(l) + 1 /\ s.j = Len(r) + 1
  BY <1>1, <1>9 DEF Merging
<1>11. s.out \in Seq(B) /\ Sorts(s.out, l, r)
  BY <1>1, <1>9, <1>10 DEF Merging, Sorts, Taken
<1> QED BY <1>2, <1>11 DEF s

-----------------------------------------------------------------------------
(***************************************************************************)
(* part: halves are sorted before they are merged.                         *)
(***************************************************************************)
LEMMA PartOfSequence ==
  ASSUME NEW B, NEW s \in Seq(B), NEW p \in DOMAIN s, NEW r \in DOMAIN s
  PROVE  /\ SubSeq(s, p, r) \in Seq(B)
         /\ p = r => Len(SubSeq(s, p, r)) = 1 /\ SubSeq(s, p, r)[1] = s[p]
OBVIOUS

PartStep(list, pr, f) ==
  LET p == pr[1]
      r == pr[2]
      q == (p + r) \div 2
  IN  IF p < r THEN merge(f[<<p, q>>], f[<<q + 1, r>>])
      ELSE SubSeq(list, p, r)

\* t is the part of list from p to r, sorted.
SortsPart(t, list, p, r) ==
  /\ Len(t) = (r - p) + 1
  /\ Descending(t)
  /\ \A x : CountIn(t, 1, Len(t), x) = CountIn(list, p, r, x)

\* The theorem about the sort: part gives the same blobs, the brightest first,
\* however many there are; the coordinates move with their magnitude.
THEOREM PartSorts ==
  ASSUME NEW B \in SUBSET BlobSet, NEW list \in Seq(B)
  PROVE  /\ part(list) \in Seq(B)
         /\ SortsPart(part(list), list, 1, Len(list))
<1> DEFINE n == Len(list)
           D == DOMAIN list
           S == Seq(B)
           Parts(f) == f = [pr \in D \X D |->
                              LET p == pr[1]
                                  r == pr[2]
                                  q == (p + r) \div 2
                              IN  IF p < r THEN merge(f[<<p, q>>], f[<<q + 1, r>>])
                                  ELSE SubSeq(list, p, r)]
           sorted == CHOOSE f : Parts(f)
           m == [pr \in D \X D |-> IF pr[1] < pr[2] THEN pr[2] - pr[1] ELSE 0]
           H == [xf \in (D \X D) \X [D \X D -> S] |-> PartStep(list, xf[1], xf[2])]
<1>1. n \in Nat /\ D = 1 .. n /\ <<>> \in S
  OBVIOUS
<1>2. CASE list = <<>>
  <2>1. part(list) = <<>> /\ n = 0
    BY <1>2 DEF part
  <2>2. Descending(<<>>) /\ Len(<<>>) = 0
    BY DEF Descending
  <2>3. ASSUME NEW x PROVE CountIn(<<>>, 1, 0, x) = CountIn(list, 1, 0, x)
    <3>1. 1 \in Int /\ 0 \in Int /\ 0 < 1
      OBVIOUS
    <3> QED BY <3>1, CountNone
  <2> QED BY <1>1, <2>1, <2>2, <2>3 DEF SortsPart
<1>3. CASE list # <<>>
  <2>1. part(list) = sorted[<<1, n>>] /\ 1 \in D /\ n \in D
    BY <1>1, <1>3 DEF part
  <2>2. ASSUME NEW p \in D, NEW r \in D, p < r
        PROVE  LET q == (p + r) \div 2
               IN  /\ q \in D /\ q + 1 \in D /\ p <= q /\ q < r /\ q \in Int
                   /\ <<p, q>> \in D \X D /\ <<q + 1, r>> \in D \X D
                   /\ m[<<p, q>>] < m[<<p, r>>] /\ m[<<q + 1, r>>] < m[<<p, r>>]
    BY <1>1, <2>2
  <2>3. Decreasing(D \X D, S, m, H)
    <3>1. m \in [D \X D -> Nat]
      BY <1>1
    <3>2. H \in [(D \X D) \X [D \X D -> S] -> S]
      <4> SUFFICES ASSUME NEW x \in D \X D, NEW f \in [D \X D -> S]
                   PROVE  PartStep(list, x, f) \in S
        OBVIOUS
      <4>1. PICK p \in D, r \in D : x = <<p, r>>
        OBVIOUS
      <4> DEFINE q == (p + r) \div 2
      <4>2. CASE p < r
        <5>1. f[<<p, q>>] \in S /\ f[<<q + 1, r>>] \in S
          BY <2>2, <4>2
        <5>2. PartStep(list, x, f) = merge(f[<<p, q>>], f[<<q + 1, r>>])
          BY <4>1, <4>2 DEF PartStep
        <5> HIDE DEF q
        <5> QED BY <5>1, <5>2, MergeSorts
      <4>3. CASE ~(p < r)
        <5>1. PartStep(list, x, f) = SubSeq(list, p, r)
          BY <4>1, <4>3 DEF PartStep
        <5>2. SubSeq(list, p, r) \in S
          BY PartOfSequence
        <5> QED BY ONLY <5>1, <5>2
      <4> QED BY <4>2, <4>3
    <3>3. ASSUME NEW x \in D \X D, NEW f \in [D \X D -> S], NEW g \in [D \X D -> S],
                 \A y \in D \X D : m[y] < m[x] => f[y] = g[y]
          PROVE  H[<<x, f>>] = H[<<x, g>>]
      <4>1. PICK p \in D, r \in D : x = <<p, r>>
        OBVIOUS
      <4> DEFINE q == (p + r) \div 2
      <4>2. H[<<x, f>>] = PartStep(list, x, f) /\ H[<<x, g>>] = PartStep(list, x, g)
        OBVIOUS
      <4>3. CASE p < r
        <5>1. f[<<p, q>>] = g[<<p, q>>] /\ f[<<q + 1, r>>] = g[<<q + 1, r>>]
          <6> HIDE DEF m
          <6> QED BY <2>2, <3>3, <4>1, <4>3
        <5> QED BY <4>1, <4>2, <4>3, <5>1 DEF PartStep
      <4>4. CASE ~(p < r)
        BY <4>1, <4>2, <4>4 DEF PartStep
      <4> QED BY <4>3, <4>4
    <3> HIDE DEF m, H
    <3> QED BY <3>1, <3>2, <3>3 DEF Decreasing
  <2>4. \E f : Parts(f)
    <3>1. PICK f \in [D \X D -> S] : \A x \in D \X D : f[x] = H[<<x, f>>]
      <4> HIDE DEF D, S, m, H
      <4> QED BY <1>1, <2>3, MeasuredRecursion
    <3>2. \A x \in D \X D : f[x] = PartStep(list, x, f)
      BY <3>1
    <3>3. Parts(f)
      BY <3>2 DEF PartStep
    <3> QED BY <3>3
  <2>5. \A p, r \in D : sorted[<<p, r>>] = PartStep(list, <<p, r>>, sorted)
    BY <2>4 DEF PartStep
  <2> DEFINE Good(p, r) == sorted[<<p, r>>] \in S /\ SortsPart(sorted[<<p, r>>], list, p, r)
             E == {k \in Nat : \A p, r \in D : p <= r /\ r - p <= k => Good(p, r)}
  <2> HIDE DEF sorted
  <2>6. ASSUME NEW p \in D PROVE Good(p, p)
    <3> DEFINE t == SubSeq(list, p, p)
    <3>1. sorted[<<p, p>>] = t
      <4>1. PartStep(list, <<p, p>>, sorted) = t
        <5>1. ~(p < p)
          BY <1>1
        <5> QED BY <5>1 DEF PartStep
      <4> QED BY <2>5, <4>1
    <3>2. t \in S /\ Len(t) = 1 /\ t[1] = list[p]
      BY PartOfSequence
    <3> HIDE DEF t
    <3>3. Descending(t)
      BY <3>2 DEF Descending
    <3>4. ASSUME NEW x PROVE CountIn(t, 1, 1, x) = CountIn(list, p, p, x)
      <4>1. 1 \in Int /\ p \in Int
        BY <1>1
      <4> QED BY <3>2, <4>1, CountOne
    <3>5. (p - p) + 1 = 1
      BY <1>1
    <3> QED BY <3>1, <3>2, <3>3, <3>4, <3>5 DEF SortsPart
  <2>7. \A k \in Nat : k \in E
    <3>1. 0 \in E
      <4>1. ASSUME NEW p \in D, NEW r \in D, p <= r, r - p <= 0 PROVE p = r
        BY <1>1, <4>1
      <4> HIDE DEF Good
      <4> QED BY <2>6, <4>1
    <3>2. ASSUME NEW k \in Nat, k \in E PROVE k + 1 \in E
      <4> SUFFICES ASSUME NEW p \in D, NEW r \in D, p <= r, r - p <= k + 1
                   PROVE  Good(p, r)
        <5> HIDE DEF Good
        <5> QED OBVIOUS
      <4> DEFINE q == (p + r) \div 2
                 a == sorted[<<p, q>>]
                 b == sorted[<<q + 1, r>>]
                 t == merge(a, b)
      <4>1. CASE p = r
        BY <2>6, <4>1
      <4>2. CASE p < r
        <5>1. /\ q \in D /\ q + 1 \in D /\ p <= q /\ q < r /\ q \in Int /\ p \in Int /\ r \in Int
              /\ q - p <= k /\ r - (q + 1) <= k /\ q + 1 <= r
          <6>1. p \in 1 .. Len(list) /\ r \in 1 .. Len(list) /\ Len(list) \in Nat
            BY <1>1
          <6> QED BY ONLY <4>2, <6>1, r - p <= k + 1, k \in Nat, D = 1 .. Len(list)
        <5>2. sorted[<<p, r>>] = t
          BY <2>5, <4>2 DEF PartStep
        <5> HIDE DEF q
        <5>3. Good(p, q) /\ Good(q + 1, r)
          <6> HIDE DEF Good
          <6> QED BY <3>2, <5>1
        <5>4. a \in S /\ b \in S /\ SortsPart(a, list, p, q) /\ SortsPart(b, list, q + 1, r)
          BY <5>3
        <5> HIDE DEF a, b
        <5>5. t \in S /\ Sorts(t, a, b)
          BY <5>4, MergeSorts
        <5> HIDE DEF t
        <5>6. Len(t) = (r - p) + 1
          <6>1. Len(a) = (q - p) + 1 /\ Len(b) = (r - (q + 1)) + 1 /\ Len(t) = Len(a) + Len(b)
            BY <5>4, <5>5 DEF Sorts, SortsPart
          <6>2. p \in Int /\ q \in Int /\ r \in Int
            BY <5>1
          <6>3. ((q - p) + 1) + ((r - (q + 1)) + 1) = (r - p) + 1
            BY ONLY <6>2
          <6> QED BY <6>1, <6>3
        <5>7. Descending(t)
          BY <5>4, <5>5 DEF Sorts, SortsPart
        <5>8. ASSUME NEW x PROVE CountIn(t, 1, Len(t), x) = CountIn(list, p, r, x)
          <6>1. CountIn(t, 1, Len(t), x) = CountIn(a, 1, Len(a), x) + CountIn(b, 1, Len(b), x)
            BY <5>5 DEF Sorts
          <6>2. /\ CountIn(a, 1, Len(a), x) = CountIn(list, p, q, x)
                /\ CountIn(b, 1, Len(b), x) = CountIn(list, q + 1, r, x)
            BY <5>4 DEF SortsPart
          <6>3. CountIn(list, p, r, x) = CountIn(list, p, q, x) + CountIn(list, q + 1, r, x)
            <7>1. p \in Int /\ q \in Int /\ r \in Int /\ p <= q /\ q < r
              BY <5>1
            <7>2. p <= q + 1 /\ q <= r
              BY ONLY <7>1
            <7> QED BY <7>1, <7>2, CountSplit
          <6> QED BY <6>1, <6>2, <6>3
        <5> QED BY <5>2, <5>5, <5>6, <5>7, <5>8 DEF SortsPart
      <4>3. p < r \/ p = r
        BY <1>1
      <4> QED BY <4>1, <4>2, <4>3
    <3> HIDE DEF E
    <3> QED BY <3>1, <3>2, NaturalInduction
  <2>8. Good(1, n)
    <3>1. n \in E /\ 1 <= n /\ n - 1 <= n
      BY <1>1, <2>1, <2>7
    <3> HIDE DEF Good
    <3> QED BY <2>1, <3>1
  <2> QED BY <2>1, <2>8
<1> QED BY <1>2, <1>3

-----------------------------------------------------------------------------
(***************************************************************************)
(* The search: every candidate is covered by a blob at least as bright.    *)
(***************************************************************************)
\* A blob as the search finds it: its eight neighbours are in the image.
Star == {b \in BlobSet : <<b.x, b.y>> \in Inside(1)}

\* A candidate is a pixel that far inside, and makes a blob with a magnitude.
LEMMA CandidateType ==
  ASSUME NEW filtered \in [Pixels -> Int], NEW b \in Nat, NEW limit \in Nat \union {NotANumber},
         NEW p \in Candidates(filtered, b, limit)
  PROVE  p \in Pixels /\ Blob(filtered, p) \in Star /\ Magnitude(filtered, p) \in Nat
<1>1. p \in SearchArea(b) /\ filtered[p] > limit /\ limit \in Nat
  BY DEF Candidates
<1>2. PICK x \in b + 1 .. Width - b - 3, y \in b + 1 .. Height - b - 3 : p = <<x, y>>
  BY <1>1 DEF SearchArea
<1>3. x \in Int /\ y \in Int /\ p[1] = x /\ p[2] = y /\ p \in Inside(1) /\ p \in Pixels
  BY <1>2, SizeType DEF Inside, Pixels, Cols, Rows
<1>4. filtered[p] \in Int
  BY <1>3
<1>5. Magnitude(filtered, p) \in Nat \ {0}
  BY <1>1, <1>4 DEF Magnitude
<1>6. Blob(filtered, p) \in BlobSet
  BY <1>3, <1>5 DEF Blob, BlobSet
<1>7. Blob(filtered, p).x = x /\ Blob(filtered, p).y = y
  BY <1>3 DEF Blob
<1> QED BY <1>2, <1>3, <1>5, <1>6, <1>7 DEF Star

\* One more blob neither empties the list nor makes any entry fainter, and some
\* entry is as bright as the new one.
LEMMA KeepCovers ==
  ASSUME NEW s \in Seq(Star), NEW new \in Star
  PROVE  LET t == Keep(s, new)
         IN  /\ t \in Seq(Star) /\ t # <<>> /\ DOMAIN s \subseteq DOMAIN t
             /\ \A i \in DOMAIN s : t[i].mag >= s[i].mag
             /\ \E i \in DOMAIN t : t[i].mag >= new.mag
<1> DEFINE n == Len(s)
           t == Keep(s, new)
           replaced == [i \in DOMAIN s |->
                          IF IsNear(new, s[i]) /\ Replaces(new, s[i]) THEN new ELSE s[i]]
<1>1. n \in Nat /\ DOMAIN s = 1 .. n /\ \A i \in 1 .. n : s[i] \in Star
  OBVIOUS
<1>2. \A e \in Star : e.mag \in Nat
  BY DEF Star, BlobSet
<1>3. CASE \E i \in DOMAIN s : IsNear(new, s[i])
  <2>1. t = replaced
    BY <1>3 DEF Keep
  <2>2. \A i \in 1 .. n : replaced[i] = IF IsNear(new, s[i]) /\ Replaces(new, s[i]) THEN new ELSE s[i]
    BY <1>1
  <2>3. replaced \in [1 .. n -> Star]
    BY <1>1
  <2>4. replaced \in Seq(Star) /\ DOMAIN replaced = 1 .. n
    <3> HIDE DEF replaced
    <3> QED BY <1>1, <2>3
  <2> HIDE DEF t, replaced
  <2>5. \A i \in 1 .. n : replaced[i].mag >= s[i].mag
    BY <1>1, <1>2, <2>2 DEF Replaces
  <2>6. PICK i \in 1 .. n : IsNear(new, s[i])
    BY <1>1, <1>3
  <2>7. replaced[i].mag >= new.mag
    BY <1>1, <1>2, <2>2, <2>6 DEF Replaces
  <2>8. replaced # <<>>
    BY <2>4, <2>6
  <2> QED BY <1>1, <2>1, <2>4, <2>5, <2>6, <2>7, <2>8 DEF t
<1>4. CASE ~ \E i \in DOMAIN s : IsNear(new, s[i])
  <2>1. t = Append(s, new)
    BY <1>4 DEF Keep
  <2> HIDE DEF t
  <2>2. /\ t \in Seq(Star) /\ DOMAIN t = 1 .. n + 1 /\ t # <<>>
        /\ \A i \in 1 .. n : t[i] = s[i]
        /\ t[n + 1] = new
    BY <1>1, <2>1
  <2>3. n + 1 \in 1 .. n + 1 /\ 1 .. n \subseteq 1 .. n + 1
    BY <1>1
  <2>4. \A i \in 1 .. n : t[i].mag >= s[i].mag
    BY <1>1, <1>2, <2>2
  <2>5. t[n + 1].mag >= new.mag
    BY <1>2, <2>2
  <2> QED BY <1>1, <2>2, <2>3, <2>4, <2>5 DEF t
<1> QED BY <1>3, <1>4

SearchStep(filtered, candidates, k, s) ==
  IF PixelAt(k) \in candidates THEN Keep(s, Blob(filtered, PixelAt(k))) ELSE s

\* What the search has kept after k pixels.
Covered(filtered, candidates, k, s) ==
  /\ s = <<>> <=> \A j \in 0 .. k - 1 : PixelAt(j) \notin candidates
  /\ \A j \in 0 .. k - 1 : PixelAt(j) \in candidates =>
       \E i \in DOMAIN s : s[i].mag >= Magnitude(filtered, PixelAt(j))

\* The theorem about the scan of findBlobs: whatever the image, the border and
\* the threshold, it finds a blob if there is a candidate, and every candidate
\* is covered by a blob at least as bright.
THEOREM SearchCovers ==
  ASSUME NEW filtered \in [Pixels -> Int], NEW b \in Nat, NEW limit \in Nat \union {NotANumber}
  PROVE  LET s == Search(filtered, b, limit)
             candidates == Candidates(filtered, b, limit)
         IN  /\ s \in Seq(Star)
             /\ s = <<>> <=> candidates = {}
             /\ \A p \in candidates : \E i \in DOMAIN s : s[i].mag >= Magnitude(filtered, p)
<1> DEFINE n == Width * Height
           C == Candidates(filtered, b, limit)
           S == Seq(Star)
           h == [ks \in Nat \X S |-> SearchStep(filtered, C, ks[1], ks[2])]
           G == {ks \in Nat \X S : Covered(filtered, C, ks[1], ks[2])}
           Scans(f) == f = [k \in 0 .. n |->
                              IF k = 0 THEN <<>>
                              ELSE IF PixelAt(k - 1) \in C
                              THEN Keep(f[k - 1], Blob(filtered, PixelAt(k - 1)))
                              ELSE f[k - 1]]
           kept == CHOOSE f : Scans(f)
<1>1. n \in Nat
  BY SizeType
<1>2. Search(filtered, b, limit) = kept[n]
  BY DEF Search
<1>3. ASSUME NEW p \in C
      PROVE  p \in Pixels /\ Blob(filtered, p) \in Star /\ Magnitude(filtered, p) \in Nat
             /\ Blob(filtered, p).mag = Magnitude(filtered, p)
  BY CandidateType DEF Blob
<1> HIDE DEF n, C
<1>4. <<0, <<>>>> \in G
  <2>1. Covered(filtered, C, 0, <<>>)
    BY DEF Covered
  <2>2. <<>> \in S /\ 0 \in Nat
    OBVIOUS
  <2> HIDE DEF S
  <2> QED BY <2>1, <2>2
<1>5. KeptBy(G, n, S, h)
  <2> SUFFICES ASSUME NEW k \in 0 .. n - 1, NEW s \in S, <<k, s>> \in G
               PROVE  <<k + 1, h[<<k, s>>]>> \in G
    BY DEF KeptBy
  <2> DEFINE p == PixelAt(k)
             t == SearchStep(filtered, C, k, s)
  <2>1. k \in Nat /\ h[<<k, s>>] = t /\ Covered(filtered, C, k, s)
    BY <1>1
  <2>2. \A j \in 0 .. (k + 1) - 1 : j \in 0 .. k - 1 \/ j = k
    BY <2>1
  <2>3. k \in 0 .. (k + 1) - 1 /\ \A j \in 0 .. k - 1 : j \in 0 .. (k + 1) - 1
    BY <2>1
  <2> SUFFICES t \in S /\ Covered(filtered, C, k + 1, t)
    BY <2>1
  <2>4. CASE p \in C
    <3>1. t = Keep(s, Blob(filtered, p))
      BY <2>4 DEF SearchStep
    <3> HIDE DEF t, p
    <3>2. /\ t \in S /\ t # <<>> /\ DOMAIN s \subseteq DOMAIN t
          /\ \A i \in DOMAIN s : t[i].mag >= s[i].mag
          /\ \E i \in DOMAIN t : t[i].mag >= Magnitude(filtered, p)
      <4>1. Blob(filtered, p) \in Star /\ Blob(filtered, p).mag = Magnitude(filtered, p)
        BY <1>3, <2>4
      <4> QED BY <3>1, <4>1, KeepCovers
    <3>3. ASSUME NEW j \in 0 .. k - 1, PixelAt(j) \in C
          PROVE  \E i \in DOMAIN t : t[i].mag >= Magnitude(filtered, PixelAt(j))
      <4>1. PICK i \in DOMAIN s : s[i].mag >= Magnitude(filtered, PixelAt(j))
        BY <2>1, <3>3 DEF Covered
      <4>2. i \in DOMAIN t /\ t[i].mag >= s[i].mag
        BY <3>2
      <4>3. s[i] \in Star /\ t[i] \in Star
        BY <3>2, <4>2
      <4>4. s[i].mag \in Nat /\ t[i].mag \in Nat /\ Magnitude(filtered, PixelAt(j)) \in Nat
        BY <1>3, <3>3, <4>3 DEF Star, BlobSet
      <4> QED BY <4>1, <4>2, <4>4
    <3>4. \A j \in 0 .. (k + 1) - 1 : PixelAt(j) \in C =>
            \E i \in DOMAIN t : t[i].mag >= Magnitude(filtered, PixelAt(j))
      BY <2>2, <3>2, <3>3 DEF p
    <3> QED BY <2>3, <2>4, <3>2, <3>4 DEF Covered, p
  <2>5. CASE p \notin C
    <3>1. t = s
      BY <2>5 DEF SearchStep
    <3> HIDE DEF t
    <3>2. \A j \in 0 .. (k + 1) - 1 : PixelAt(j) \in C => j \in 0 .. k - 1
      BY <2>2, <2>5
    <3> QED BY <2>1, <2>3, <3>1, <3>2 DEF Covered
  <2> QED BY <2>4, <2>5
<1>6. ASSUME NEW f, Scans(f) PROVE Loop(f, n, <<>>, S, h)
  <2>1. f[0] = <<>>
    BY <1>1, <1>6
  <2>2. ASSUME NEW k \in 0 .. n - 1, f[k] \in S PROVE f[k + 1] = h[<<k, f[k]>>]
    <3>1. k + 1 \in 0 .. n /\ k + 1 # 0 /\ (k + 1) - 1 = k /\ k \in Nat
      BY <1>1
    <3>2. f[k + 1] = SearchStep(filtered, C, k, f[k])
      BY <1>6, <3>1 DEF SearchStep
    <3> QED BY <2>2, <3>1, <3>2
  <2> HIDE DEF h
  <2> QED BY <2>1, <2>2 DEF Loop
<1>7. \E f : Scans(f)
  <2>1. PICK f \in [0 .. n -> S] : Loop(f, n, <<>>, S, h)
    <3> HIDE DEF S, h, G
    <3>1. G \in SUBSET (Nat \X S)
      BY DEF G
    <3> QED BY <1>1, <1>4, <1>5, <3>1, LoopExists
  <2>2. ASSUME NEW k \in 0 .. n
        PROVE  f[k] = IF k = 0 THEN <<>> ELSE SearchStep(filtered, C, k - 1, f[k - 1])
    <3>1. CASE k = 0
      BY <2>1, <3>1 DEF Loop
    <3>2. CASE k # 0
      <4>1. k - 1 \in 0 .. n - 1 /\ k - 1 \in 0 .. n /\ (k - 1) + 1 = k /\ k - 1 \in Nat
        BY <1>1, <3>2
      <4>2. f[k - 1] \in S
        BY <4>1
      <4>3. f[k] = h[<<k - 1, f[k - 1]>>]
        <5> HIDE DEF h
        <5> QED BY <2>1, <4>1, <4>2 DEF Loop
      <4>4. h[<<k - 1, f[k - 1]>>] = SearchStep(filtered, C, k - 1, f[k - 1])
        BY <4>1, <4>2
      <4> QED BY <3>2, <4>3, <4>4
    <3> QED BY <3>1, <3>2
  <2>3. Scans(f)
    BY <2>2 DEF SearchStep
  <2> QED BY <2>3
<1>8. Scans(kept)
  BY <1>7
<1>9. <<n, kept[n]>> \in G
  <2>1. Loop(kept, n, <<>>, S, h)
    <3> HIDE DEF kept, Scans, h
    <3> QED BY <1>6, <1>8
  <2> HIDE DEF S, h, G, kept
  <2>2. G \in SUBSET (Nat \X S)
    BY DEF G
  <2>3. \A k \in 0 .. n : <<k, kept[k]>> \in G
    BY <1>1, <1>4, <1>5, <2>1, <2>2, LoopInvariant
  <2> QED BY <1>1, <2>3
<1> HIDE DEF kept
<1>10. kept[n] \in S /\ Covered(filtered, C, n, kept[n])
  BY <1>9
<1>11. \A p \in C : Index(p) \in 0 .. n - 1 /\ PixelAt(Index(p)) = p
  BY <1>3, IndexOfPixel DEF n
<1>12. kept[n] = <<>> <=> C = {}
  BY <1>10, <1>11 DEF Covered
<1>13. \A p \in C : \E i \in DOMAIN kept[n] : kept[n][i].mag >= Magnitude(filtered, p)
  BY <1>10, <1>11 DEF Covered
<1> QED BY <1>2, <1>10, <1>12, <1>13 DEF C

-----------------------------------------------------------------------------
(***************************************************************************)
(* Heights over the bottom of the image.                                   *)
(***************************************************************************)
\* A blob as it is handed on.
Mirrored == {b \in BlobSet : <<b.x, Height - b.y>> \in Inside(1)}
Mirror(b) == [b EXCEPT !.y = Height - @]

\* Turning a row into a height and back.
LEMMA MirrorType ==
  ASSUME NEW b \in BlobSet
  PROVE  /\ Mirror(b) \in BlobSet /\ Mirror(Mirror(b)) = b
         /\ b \in Star <=> Mirror(b) \in Mirrored
<1>1. PICK x \in Int, y \in Int, mag \in Nat \ {0} : b = [x |-> x, y |-> y, mag |-> mag]
  BY DEF BlobSet
<1>2. Mirror(b) = [x |-> x, y |-> Height - y, mag |-> mag]
  BY <1>1 DEF Mirror
<1>3. Height - y \in Int /\ Height - (Height - y) = y
  BY SizeType
<1>4. Mirror(Mirror(b)) = [x |-> x, y |-> Height - (Height - y), mag |-> mag]
  <2> DEFINE c == Mirror(b)
  <2>1. c = [x |-> x, y |-> Height - y, mag |-> mag]
    BY <1>2
  <2> HIDE DEF c
  <2>2. Mirror(c) = [x |-> x, y |-> Height - (Height - y), mag |-> mag]
    BY <2>1 DEF Mirror
  <2> QED BY <2>2 DEF c
<1>5. Mirror(b) \in BlobSet
  BY <1>2, <1>3 DEF BlobSet
<1> QED BY <1>1, <1>2, <1>3, <1>4, <1>5 DEF Star, Mirrored

\* Flip does so for every blob of a list.
LEMMA FlipType ==
  ASSUME NEW B \in SUBSET BlobSet, NEW s \in Seq(B)
  PROVE  /\ Flip(s) \in Seq(BlobSet) /\ Len(Flip(s)) = Len(s) /\ DOMAIN Flip(s) = 1 .. Len(s)
         /\ \A i \in 1 .. Len(s) : Flip(s)[i] = Mirror(s[i]) /\ s[i] \in B
<1> DEFINE n == Len(s)
           f == Flip(s)
<1>1. n \in Nat /\ DOMAIN s = 1 .. n /\ \A i \in 1 .. n : s[i] \in B
  OBVIOUS
<1>2. f = [i \in 1 .. n |-> Mirror(s[i])]
  BY <1>1 DEF Flip, Mirror
<1>3. f \in [1 .. n -> BlobSet]
  BY <1>1, <1>2, MirrorType
<1> HIDE DEF f, n
<1>4. f \in Seq(BlobSet) /\ Len(f) = n /\ DOMAIN f = 1 .. n
  BY <1>1, <1>3
<1> QED BY <1>1, <1>2, <1>4 DEF f, n

\* A sequence as a bag: two sequences in which every value is as frequent.
LEMMA SameBag ==
  ASSUME NEW B, NEW s \in Seq(B), NEW t \in Seq(B),
         \A x : CountIn(s, 1, Len(s), x) = CountIn(t, 1, Len(t), x)
  PROVE  ToBag(s) = ToBag(t)
<1>1. ASSUME NEW u \in Seq(B), NEW x
      PROVE  CountIn(u, 1, Len(u), x) = Cardinality({i \in DOMAIN u : u[i] = x})
  <2>1. {i \in DOMAIN u : u[i] = x} = {i \in 1 .. Len(u) : u[i] = x}
    OBVIOUS
  <2> QED BY <2>1 DEF CountIn
<1>2. ASSUME NEW u \in Seq(B), NEW x PROVE x \in Range(u) <=> CountIn(u, 1, Len(u), x) # 0
  <2> DEFINE I == {i \in 1 .. Len(u) : u[i] = x}
  <2>1. x \in Range(u) <=> I # {}
    BY DEF Range
  <2>2. IsFiniteSet(I)
    <3>1. 1 \in Int /\ Len(u) \in Int /\ I \in SUBSET (1 .. Len(u))
      OBVIOUS
    <3> HIDE DEF I
    <3> QED BY <3>1, FS_Interval, FS_Subset
  <2>3. Cardinality(I) = 0 <=> I = {}
    BY <2>2, FS_EmptySet
  <2> QED BY <2>1, <2>3 DEF CountIn
<1>3. Range(s) = Range(t)
  <2>1. \A x : x \in Range(s) <=> x \in Range(t)
    BY <1>2
  <2> QED BY <2>1
<1>4. ASSUME NEW x
      PROVE  Cardinality({i \in DOMAIN s : s[i] = x}) = Cardinality({i \in DOMAIN t : t[i] = x})
  <2>1. CountIn(s, 1, Len(s), x) = Cardinality({i \in DOMAIN s : s[i] = x})
    BY <1>1
  <2>2. CountIn(t, 1, Len(t), x) = Cardinality({i \in DOMAIN t : t[i] = x})
    BY <1>1
  <2> QED BY <2>1, <2>2
<1> QED BY <1>3, <1>4 DEF ToBag

\* A flipped list has each blob as often as the list has its mirror image.
LEMMA CountFlipped ==
  ASSUME NEW s \in Seq(BlobSet), NEW x \in BlobSet
  PROVE  CountIn(Flip(s), 1, Len(s), x) = CountIn(s, 1, Len(s), Mirror(x))
<1>1. \A i \in 1 .. Len(s) : Flip(s)[i] = Mirror(s[i]) /\ s[i] \in BlobSet
  BY FlipType
<1>2. \A i \in 1 .. Len(s) : Flip(s)[i] = x <=> s[i] = Mirror(x)
  BY <1>1, MirrorType
<1>3. {i \in 1 .. Len(s) : Flip(s)[i] = x} = {i \in 1 .. Len(s) : s[i] = Mirror(x)}
  BY <1>2
<1> QED BY <1>3 DEF CountIn

\* The flipped stars lie in the image.
LEMMA FlipStars ==
  ASSUME NEW stars \in Seq(Star)
  PROVE  Flip(stars) \in Seq(Mirrored) /\ Len(Flip(stars)) = Len(stars)
<1> DEFINE f == Flip(stars)
           n == Len(stars)
<1>1. Star \in SUBSET BlobSet
  BY DEF Star
<1>2. f \in Seq(BlobSet) /\ Len(f) = n /\ \A i \in 1 .. n : f[i] = Mirror(stars[i]) /\ stars[i] \in Star
  BY <1>1, FlipType
<1>3. \A i \in 1 .. n : f[i] \in Mirrored
  BY <1>1, <1>2, MirrorType
<1> HIDE DEF f
<1>4. f \in Seq(Mirrored)
  BY <1>2, <1>3
<1> QED BY <1>2, <1>4 DEF f

\* The blobs that findBlobs hands on are those it found.
LEMMA SortedFlip ==
  ASSUME NEW stars \in Seq(Star)
  PROVE  LET list == part(Flip(stars))
         IN  /\ list \in Seq(Mirrored)
             /\ Descending(list)
             /\ ToBag(Flip(list)) = ToBag(stars)
<1> DEFINE f == Flip(stars)
           b == part(f)
           n == Len(stars)
<1>1. Star \in SUBSET BlobSet /\ Mirrored \in SUBSET BlobSet
  BY DEF Star, Mirrored
<1>2. f \in Seq(Mirrored) /\ Len(f) = n
  BY FlipStars
<1>3. b \in Seq(Mirrored) /\ SortsPart(b, f, 1, Len(f))
  BY <1>1, <1>2, PartSorts
<1> HIDE DEF f, b
<1>4. n \in Nat /\ Len(b) = n /\ Descending(b)
  BY <1>2, <1>3 DEF SortsPart
<1>5. b \in Seq(BlobSet) /\ stars \in Seq(BlobSet)
  BY <1>1, <1>3
<1>6. Flip(b) \in Seq(BlobSet) /\ Len(Flip(b)) = n
  BY <1>4, <1>5, FlipType
<1>7. ASSUME NEW x PROVE CountIn(Flip(b), 1, n, x) = CountIn(stars, 1, n, x)
  <2>1. CASE x \in BlobSet
    <3>1. CountIn(Flip(b), 1, n, x) = CountIn(b, 1, n, Mirror(x))
      BY <1>4, <1>5, <2>1, CountFlipped
    <3>2. CountIn(b, 1, n, Mirror(x)) = CountIn(f, 1, n, Mirror(x))
      BY <1>2, <1>3, <1>4 DEF SortsPart
    <3>3. CountIn(f, 1, n, Mirror(x)) = CountIn(stars, 1, n, Mirror(Mirror(x)))
      BY <1>5, <2>1, MirrorType, CountFlipped DEF f
    <3>4. Mirror(Mirror(x)) = x
      BY <2>1, MirrorType
    <3> QED BY <3>1, <3>2, <3>3, <3>4
  <2>2. CASE x \notin BlobSet
    <3>1. \A i \in 1 .. n : Flip(b)[i] \in BlobSet /\ stars[i] \in BlobSet
      BY <1>4, <1>5, <1>6
    <3>2. {i \in 1 .. n : Flip(b)[i] = x} = {} /\ {i \in 1 .. n : stars[i] = x} = {}
      BY <2>2, <3>1
    <3> QED BY <3>2 DEF CountIn
  <2> QED BY <2>1, <2>2
<1>8. ToBag(Flip(b)) = ToBag(stars)
  BY <1>5, <1>6, <1>7, SameBag
<1> QED BY <1>3, <1>4, <1>8 DEF b, f

-----------------------------------------------------------------------------
(***************************************************************************)
(* The centroid.                                                           *)
(***************************************************************************)
LEMMA SumNegated ==
  ASSUME NEW f, NEW g, NEW S, Summable(f, S), \A x \in S : g[x] = 0 - f[x]
  PROVE  SumFunctionOnSet(g, S) = 0 - SumFunctionOnSet(f, S)
<1> DEFINE P == {U \in SUBSET S : SumFunctionOnSet(g, U) = 0 - SumFunctionOnSet(f, U)}
<1>1. Summable(g, S)
  BY DEF Summable
<1>2. {} \in P
  BY SumOfNone
<1>3. ASSUME NEW U \in SUBSET S, U # {}, \A x \in U : U \ {x} \in P PROVE U \in P
  <2>1. PICK x \in U : TRUE
    BY <1>3
  <2>2. /\ SumFunctionOnSet(f, U) = f[x] + SumFunctionOnSet(f, U \ {x})
        /\ SumFunctionOnSet(f, U \ {x}) \in Int
    BY SummableSubset, SumOfOneAndRest, SumType
  <2>3. SumFunctionOnSet(g, U) = g[x] + SumFunctionOnSet(g, U \ {x})
    BY <1>1, SummableSubset, SumOfOneAndRest
  <2>4. SumFunctionOnSet(g, U \ {x}) = 0 - SumFunctionOnSet(f, U \ {x})
    BY <1>3
  <2>5. f[x] \in Int /\ g[x] = 0 - f[x]
    BY DEF Summable
  <2> QED BY <2>2, <2>3, <2>4, <2>5
<1>4. S \in P
  <2> HIDE DEF P
  <2> QED BY <1>2, <1>3, FiniteInduction DEF Summable
<1> QED BY <1>4

\* The pixels that CentreOfLight weighs.
Lit(blob) == {p \in Pixels : Distance(p[1], blob.x) <= 1 /\ Distance(Height - p[2], blob.y) <= 1}

Place(blob) == [d \in Block |-> <<blob.x + d[1], Height - blob.y + d[2]>>]

\* The nine offsets reach these pixels, each once.
LEMMA BlockIsLit ==
  ASSUME NEW blob \in Mirrored
  PROVE  /\ \A d \in Block : Place(blob)[d] \in Lit(blob)
         /\ {Place(blob)[d] : d \in Block} = Lit(blob)
         /\ \A d, e \in Block : Place(blob)[d] = Place(blob)[e] => d = e
<1> DEFINE h == Place(blob)
<1>1. /\ blob.x \in 1 .. Width - 2 /\ Height - blob.y \in 1 .. Height - 2
      /\ blob.x \in Int /\ blob.y \in Int /\ Width \in Nat /\ Height \in Nat
  BY SizeType DEF Mirrored, BlobSet, Inside
<1>2. ASSUME NEW d \in Block
      PROVE  /\ d[1] \in -1 .. 1 /\ d[2] \in -1 .. 1 /\ d = <<d[1], d[2]>>
             /\ h[d] = <<blob.x + d[1], Height - blob.y + d[2]>>
  BY DEF Block, Place
<1>3. ASSUME NEW d \in Block PROVE h[d] \in Lit(blob)
  <2> DEFINE x == blob.x + d[1]
             y == Height - blob.y + d[2]
  <2>1. x \in Cols /\ y \in Rows /\ Distance(x, blob.x) <= 1 /\ Distance(Height - y, blob.y) <= 1
    BY <1>1, <1>2 DEF Cols, Rows, Distance
  <2> HIDE DEF x, y
  <2> QED BY <1>2, <2>1 DEF x, y, Lit, Pixels
<1>4. ASSUME NEW p \in Lit(blob) PROVE \E d \in Block : h[d] = p
  <2> DEFINE dx == p[1] - blob.x
             dy == p[2] - (Height - blob.y)
  <2>1. /\ p = <<p[1], p[2]>> /\ p[1] \in Int /\ p[2] \in Int
        /\ Distance(p[1], blob.x) <= 1 /\ Distance(Height - p[2], blob.y) <= 1
    BY <1>1 DEF Lit, Pixels, Cols, Rows
  <2>2. /\ dx \in -1 .. 1 /\ dy \in -1 .. 1
        /\ blob.x + dx = p[1] /\ Height - blob.y + dy = p[2]
    BY <1>1, <2>1 DEF Distance
  <2> HIDE DEF dx, dy
  <2>3. <<dx, dy>> \in Block
    BY <2>2 DEF Block
  <2>4. h[<<dx, dy>>] = <<p[1], p[2]>>
    BY <1>2, <2>2, <2>3
  <2> QED BY <2>1, <2>3, <2>4
<1>5. ASSUME NEW d \in Block, NEW e \in Block, h[d] = h[e] PROVE d = e
  <2>1. blob.x + d[1] = blob.x + e[1] /\ Height - blob.y + d[2] = Height - blob.y + e[2]
    BY <1>2, <1>5
  <2>2. d[1] = e[1] /\ d[2] = e[2]
    BY <1>1, <1>2, <2>1
  <2> QED BY <1>2, <2>2
<1> QED BY <1>3, <1>4, <1>5

\* A sum over the offsets is one over the pixels.
LEMMA SumOverBlock ==
  ASSUME NEW blob \in Mirrored, NEW f \in [Lit(blob) -> Int],
         NEW g \in [Block -> Int], \A d \in Block : g[d] = f[Place(blob)[d]]
  PROVE  SumFunction(g) = SumFunction(f) /\ Summable(f, Lit(blob))
<1> DEFINE h == Place(blob)
<1>1. IsFiniteSet(Block)
  <2>1. ASSUME NEW a \in Int, NEW b \in Int, a = -1, b = 1 PROVE IsFiniteSet(-1 .. 1)
    <3>1. IsFiniteSet(a .. b)
      BY FS_Interval
    <3> QED BY <2>1, <3>1
  <2>2. IsFiniteSet(-1 .. 1)
    BY <2>1
  <2> QED BY <2>2, FS_Product DEF Block
<1>2. Summable(g, Block)
  BY <1>1 DEF Summable
<1>3. /\ \A d \in Block : g[d] = f[h[d]]
      /\ \A d, e \in Block : h[d] = h[e] => d = e
      /\ {h[d] : d \in Block} = Lit(blob)
  BY BlockIsLit
<1> HIDE DEF h
<1>4. SumFunctionOnSet(g, Block) = SumFunctionOnSet(f, {h[d] : d \in Block})
  BY <1>2, <1>3, SumOverImage
<1>5. Summable(f, Lit(blob))
  BY PixelsFinite, FS_Subset DEF Summable, Lit
<1>6. SumFunction(g) = SumFunctionOnSet(g, Block) /\ SumFunction(f) = SumFunctionOnSet(f, Lit(blob))
  BY DEF SumFunction
<1> QED BY <1>3, <1>4, <1>5, <1>6

\* The theorem about the centroid: its weights are those of the light around
\* the peak along the rows, and their opposites along the columns.
THEOREM CentroidReversed ==
  ASSUME NEW picture \in [Pixels -> Int], NEW blob \in Mirrored
  PROVE  LET centre == CentreOfLight(picture, blob)
         IN  Centroid(picture, blob)
               = [x |-> centre.x, y |-> 0 - centre.y, sum |-> centre.sum]
<1> DEFINE L == Lit(blob)
           h == Place(blob)
           lightX == [p \in L |-> (p[1] - blob.x) * picture[p]]
           lightY == [p \in L |-> ((Height - p[2]) - blob.y) * picture[p]]
           downY == [p \in L |-> 0 - lightY[p]]
           lights == [p \in L |-> picture[p]]
           gx == [d \in Block |-> d[1] * LightAt(picture, blob, d)]
           gy == [d \in Block |-> d[2] * LightAt(picture, blob, d)]
           gs == [d \in Block |-> LightAt(picture, blob, d)]
<1>1. /\ blob.x \in Int /\ blob.y \in Int /\ Height \in Int
  BY SizeType DEF Mirrored, BlobSet
<1>2. ASSUME NEW p \in L PROVE p[1] \in Int /\ p[2] \in Int /\ picture[p] \in Int
  BY DEF Lit, Pixels, Cols, Rows
<1>3. /\ lightX \in [L -> Int] /\ lightY \in [L -> Int] /\ lights \in [L -> Int]
      /\ downY \in [L -> Int]
  BY <1>1, <1>2
<1>4. ASSUME NEW d \in Block
      PROVE  /\ d[1] \in Int /\ d[2] \in Int /\ h[d] \in L
             /\ h[d][1] = blob.x + d[1] /\ h[d][2] = Height - blob.y + d[2]
             /\ LightAt(picture, blob, d) = picture[h[d]] /\ picture[h[d]] \in Int
  <2>1. d[1] \in Int /\ d[2] \in Int /\ h[d] = <<blob.x + d[1], Height - blob.y + d[2]>>
    BY DEF Block, Place
  <2>2. h[d] \in L
    BY BlockIsLit
  <2> QED BY <1>2, <2>1, <2>2 DEF LightAt
<1>5. gx \in [Block -> Int] /\ gy \in [Block -> Int] /\ gs \in [Block -> Int]
  <2> HIDE DEF h, L
  <2> QED BY <1>4
<1>6. ASSUME NEW d \in Block
      PROVE  gx[d] = lightX[h[d]] /\ gy[d] = downY[h[d]] /\ gs[d] = lights[h[d]]
  <2> DEFINE q == h[d]
             v == picture[q]
  <2>1. /\ q \in L /\ v \in Int /\ d[1] \in Int /\ d[2] \in Int
        /\ q[1] = blob.x + d[1] /\ q[2] = Height - blob.y + d[2]
        /\ LightAt(picture, blob, d) = v
    BY <1>4
  <2> HIDE DEF h, L, q
  <2>2. /\ gx[d] = d[1] * v /\ gy[d] = d[2] * v /\ gs[d] = v
    BY <2>1
  <2>3. /\ lightX[q] = (q[1] - blob.x) * v /\ lights[q] = v
        /\ downY[q] = 0 - ((Height - q[2]) - blob.y) * v
    BY <2>1
  <2>4. q[1] - blob.x = d[1] /\ (Height - q[2]) - blob.y = 0 - d[2]
    BY <1>1, <2>1
  <2>5. 0 - (0 - d[2]) * v = d[2] * v
    BY <2>1
  <2> QED BY <2>2, <2>3, <2>4, <2>5 DEF q
<1> HIDE DEF gx, gy, gs, lightX, lightY, downY, lights
<1>7. /\ SumFunction(gx) = SumFunction(lightX) /\ SumFunction(gs) = SumFunction(lights)
      /\ SumFunction(gy) = SumFunction(downY)
  BY <1>3, <1>5, <1>6, SumOverBlock
<1>8. SumFunction(downY) = 0 - SumFunction(lightY)
  <2>1. Summable(lightY, L)
    BY <1>3, PixelsFinite, FS_Subset DEF Summable, Lit
  <2>2. \A p \in L : downY[p] = 0 - lightY[p]
    BY DEF downY
  <2>3. SumFunctionOnSet(downY, L) = 0 - SumFunctionOnSet(lightY, L)
    BY <2>1, <2>2, SumNegated
  <2>4. DOMAIN downY = L /\ DOMAIN lightY = L
    BY <1>3
  <2> QED BY <2>3, <2>4 DEF SumFunction
<1>9. SumFunction(lights) = SumFunctionOnSet(picture, L)
  <2>1. Summable(picture, L)
    BY <1>2, PixelsFinite, FS_Subset DEF Summable, Lit
  <2>2. \A p \in L : picture[p] = lights[p]
    BY DEF lights
  <2>3. SumFunctionOnSet(picture, L) = SumFunctionOnSet(lights, L)
    BY <2>1, <2>2, SumAgrees
  <2> QED BY <1>3, <2>3 DEF SumFunction
<1>10. Centroid(picture, blob)
         = [x |-> SumFunction(gx), y |-> SumFunction(gy), sum |-> SumFunction(gs)]
  BY DEF Centroid, Light, gx, gy, gs
<1>11. CentreOfLight(picture, blob)
         = [x |-> SumFunction(lightX), y |-> SumFunction(lightY), sum |-> SumFunctionOnSet(picture, L)]
  BY DEF CentreOfLight, Lit, lightX, lightY
<1> QED BY <1>7, <1>8, <1>9, <1>10, <1>11

-----------------------------------------------------------------------------
(***************************************************************************)
(* The inductive invariant of Imaging.                                     *)
(***************************************************************************)
\* The types, those of the lists and of the filtered image included.
TypeInv ==
  /\ TypeOK
  /\ ic \in [Pixels -> Int]
  /\ found \in Seq(Star) /\ blobs \in Seq(Mirrored)

\* A map that has been made and not been read is still asked for, or was.
MapInv ==
  hotPixels = mapFile \/ withdrawn \/ (stage = "load" /\ makeMap # 0)

\* What SmoothColumns leaves, until the high-pass filter has run.
SmoothedIsMean ==
  \A p \in Inside(RSmooth) :
    Around(p, RSmooth, mask) # {} => ic[p] = Mean(image, mask, RSmooth, p)

\* The sums along the rows are those of the image and mask in use, for the
\* radius of the columns to come.
FilterInv ==
  /\ stage = "smoothed" => rows = SumRows(image, mask, RSmooth)
  /\ stage = "highPassed" => /\ rows = SumRows(image, mask, RHighPass)
                             /\ border = Border + RHighPass
  /\ stage \in {"highPass", "highPassed"} => SmoothedIsMean
  /\ FilteredIsMean

\* Each list comes from what is before it.
BlobInv ==
  /\ stage = "sort" => /\ threshold \in Nat \union {NotANumber}
                       /\ found = Search(ic, border, threshold)
                       /\ blobs = Flip(found)
  /\ stage = "solve" => centres = [i \in DOMAIN blobs |-> Centroid(image, blobs[i])]
  /\ SortedTogether

IInv == TypeInv /\ MapInv /\ FilterInv /\ BlobInv /\ DateKept

\* The assumptions about the constants, one by one.
LEMMA ConstantType ==
  /\ RSmooth \in Nat /\ RHighPass \in Nat \ {0} /\ Border \in Nat
  /\ RSmooth <= Border /\ RSmooth <= RHighPass
  /\ 2 * RSmooth + 1 <= CharMax /\ 2 * RHighPass + 1 <= CharMax
  /\ MaxPixel \in Nat \ {0} /\ Thresholds \in SUBSET Nat /\ Images \in SUBSET [Pixels -> Nat]
  /\ 0 \in MapLevels /\ MapLevels \in SUBSET Nat /\ MaxImages \in Nat /\ MaxPackets \in Nat
BY SizeAssumption, RadiiAssumption, ThresholdAssumption, InputAssumption

\* The invariant holds at the start.
LEMMA InitInv == Init => IInv
<1> SUFFICES ASSUME Init PROVE IInv
  OBVIOUS
<1>1. TypeOK
  <2>1. image \in Image
    <3>1. 0 \in 0 .. MaxPixel
      BY ConstantType
    <3> QED BY <3>1 DEF Init, Image
  <2>2. \A i \in DOMAIN blobs : <<blobs[i].x, Height - blobs[i].y>> \in Inside(1)
    BY DEF Init
  <2>3. stage \in Stages /\ makeMap \in MapLevels /\ highPass \in BOOLEAN
    BY ConstantType DEF Init, Stages
  <2>4. /\ mapFile \subseteq Pixels /\ hotPixels \subseteq Pixels /\ mask \subseteq Inside(1)
        /\ firstTime \in BOOLEAN /\ retried \in BOOLEAN /\ withdrawn \in BOOLEAN
    BY DEF Init
  <2>5. DOMAIN ic = Pixels /\ border \in {0, Border, Border + RHighPass}
    BY DEF Init
  <2>6. images \in 0 .. MaxImages /\ packets \in 0 .. MaxPackets
    BY ConstantType DEF Init
  <2> QED BY <2>1, <2>2, <2>3, <2>4, <2>5, <2>6 DEF TypeOK
<1>2. ic \in [Pixels -> Int] /\ found \in Seq(Star) /\ blobs \in Seq(Mirrored)
  BY DEF Init
<1>3. MapInv
  BY DEF Init, MapInv
<1>4. FilterInv
  BY DEF Init, FilterInv, FilteredIsMean
<1>5. BlobInv
  BY DEF Init, BlobInv, SortedTogether
<1>6. DateKept
  BY DEF Init, DateKept
<1> QED BY <1>1, <1>2, <1>3, <1>4, <1>5, <1>6 DEF IInv, TypeInv

\* Every step keeps MapInv: only Packet can withdraw a request.
LEMMA MapStep == TypeInv /\ MapInv /\ [Next]_vars => MapInv'
<1> SUFFICES ASSUME TypeInv, MapInv, [Next]_vars PROVE MapInv'
  OBVIOUS
<1> USE DEF MapInv
<1>1. CASE MakeMap
  BY <1>1 DEF MakeMap, packetVars
<1>2. CASE LoadMap
  BY <1>2 DEF LoadMap, MustRead, MustReadAgain
<1>3. CASE ClearRequest
  BY <1>3 DEF ClearRequest
<1>4. CASE Packet
  BY <1>4 DEF Packet, mapVars
<1>5. CASE DateImage \/ CaptureImage
  BY <1>5 DEF DateImage, CaptureImage, mapVars, packetVars
<1>6. CASE MakeMask \/ SmoothRows \/ SmoothColumns \/ HighPassRows \/ HighPassColumns
  BY <1>6 DEF MakeMask, SmoothRows, SmoothColumns, HighPassRows, HighPassColumns, mapVars, packetVars
<1>7. CASE SearchBlobs \/ SortBlobs
  BY <1>7 DEF SearchBlobs, SortBlobs, mapVars, packetVars
<1>8. CASE CountBlobs \/ CentreBlobs \/ HandOver
  BY <1>8 DEF CountBlobs, CentreBlobs, HandOver, mapVars, packetVars
<1>9. CASE UNCHANGED vars
  BY <1>9 DEF vars, mapVars, packetVars
<1> QED BY <1>1, <1>2, <1>3, <1>4, <1>5, <1>6, <1>7, <1>8, <1>9 DEF Next, findBlobs

\* Every step keeps DateKept: only DateImage sets the dates.
LEMMA DateStep == TypeInv /\ DateKept /\ [Next]_vars => DateKept'
<1> SUFFICES ASSUME TypeInv, DateKept, [Next]_vars PROVE DateKept'
  OBVIOUS
<1> USE DEF DateKept
<1>1. CASE DateImage
  <2>1. PICK tm \in Dates : dated' = <<tm, Corrected(tm)>>
    BY <1>1 DEF DateImage
  <2>2. \/ Corrected(tm).year = tm.year /\ Corrected(tm).mon = tm.mon /\ Corrected(tm).mday = tm.mday
        \/ tm.mon = 1 /\ tm.mday = 29
    <3>1. CASE hasLeapDay(tm.year) /\ tm.yday = 59
      BY <3>1, DatesAssumption DEF hasLeapDay, isLeapYear
    <3>2. CASE ~(hasLeapDay(tm.year) /\ tm.yday = 59)
      BY <3>2 DEF Corrected
    <3> QED BY <3>1, <3>2
  <2> QED BY <2>1, <2>2
<1>2. CASE Packet
  BY <1>2 DEF Packet, dateVars
<1>3. CASE CaptureImage \/ MakeMap \/ LoadMap \/ ClearRequest
  BY <1>3 DEF CaptureImage, MakeMap, LoadMap, ClearRequest
<1>4. CASE MakeMask \/ SmoothRows \/ SmoothColumns \/ HighPassRows \/ HighPassColumns
  BY <1>4 DEF MakeMask, SmoothRows, SmoothColumns, HighPassRows, HighPassColumns
<1>5. CASE SearchBlobs \/ SortBlobs \/ CountBlobs \/ CentreBlobs \/ HandOver
  BY <1>5 DEF SearchBlobs, SortBlobs, CountBlobs, CentreBlobs, HandOver
<1>6. CASE UNCHANGED vars
  BY <1>6 DEF vars, dateVars
<1> QED BY <1>1, <1>2, <1>3, <1>4, <1>5, <1>6 DEF Next, findBlobs

\* What is masked, and where a mean can be taken.
LEMMA MaskType == mask \subseteq Inside(1) => mask \in SUBSET Pixels
BY SizeType DEF Inside, Pixels, Cols, Rows

\* An image holds integers.
LEMMA ImageType == image \in Image => image \in [Pixels -> Int]
<1>1. 0 .. MaxPixel \subseteq Int
  BY ConstantType
<1> QED BY <1>1 DEF Image

\* Sums along the rows of the image that are added up give integers.
LEMMA SmoothedType ==
  ASSUME TypeInv, NEW r \in Nat, 2 * r + 1 <= CharMax
  PROVE  SumColumns(SumRows(image, mask, r), r, ic) \in [Pixels -> Int]
BY MaskType, ImageType, ColumnsType DEF TypeInv, TypeOK

\* Every step keeps the types, given what is in rows.
LEMMA TypeStep == IInv /\ [Next]_vars => TypeInv'
<1> SUFFICES ASSUME IInv, [Next]_vars PROVE TypeInv'
  OBVIOUS
<1> DEFINE Lists ==
      /\ found \in Seq(Star) /\ blobs \in Seq(Mirrored)
<1>1. TypeInv /\ TypeOK /\ Lists /\ ic \in [Pixels -> Int]
  BY DEF IInv, TypeInv
<1>2. (stage \in Stages)'
  BY <1>1 DEF TypeOK, Next, findBlobs, vars, Stages, DateImage, CaptureImage, MakeMap, LoadMap,
       ClearRequest, MakeMask, SmoothRows, SmoothColumns, HighPassRows, HighPassColumns,
       SearchBlobs, SortBlobs, CountBlobs, CentreBlobs, HandOver, Packet
<1>3. (image \in Image)'
  <2>1. CASE CaptureImage
    <3>1. PICK packed \in Images : image' = unpack_mono12(packed)
      BY <2>1 DEF CaptureImage
    <3>2. \A p \in Pixels : packed[p] % (MaxPixel + 1) \in 0 .. MaxPixel
      <4> SUFFICES ASSUME NEW p \in Pixels PROVE packed[p] % (MaxPixel + 1) \in 0 .. MaxPixel
        OBVIOUS
      <4>1. packed[p] \in Nat /\ MaxPixel \in Nat \ {0}
        BY ConstantType
      <4> QED BY <4>1
    <3> QED BY <3>1, <3>2 DEF unpack_mono12, Image
  <2>2. CASE UNCHANGED image
    BY <2>2, <1>1 DEF TypeOK, Image
  <2> QED BY <2>1, <2>2 DEF Next, findBlobs, vars, DateImage, MakeMap, LoadMap, ClearRequest,
       MakeMask, SmoothRows, SmoothColumns, HighPassRows, HighPassColumns, SearchBlobs,
       SortBlobs, CountBlobs, CentreBlobs, HandOver, Packet
<1>4. (makeMap \in MapLevels /\ highPass \in BOOLEAN /\ packets \in 0 .. MaxPackets)'
  <2>1. CASE Packet
    <3>1. /\ packets' = packets + 1 /\ packets < MaxPackets
          /\ makeMap' \in MapLevels /\ highPass' \in BOOLEAN
      BY <2>1, Zenon DEF Packet
    <3>2. packets \in 0 .. MaxPackets
      BY <1>1 DEF TypeOK
    <3>3. packets' \in 0 .. MaxPackets
      BY ONLY <3>1, <3>2, ConstantType
    <3> QED BY <3>1, <3>3, Zenon
  <2>2. CASE ClearRequest \/ CountBlobs
    BY <2>2, <1>1, ConstantType DEF ClearRequest, CountBlobs, TypeOK
  <2>3. CASE UNCHANGED <<makeMap, highPass, packets>>
    BY <2>3, <1>1 DEF TypeOK
  <2> QED BY <2>1, <2>2, <2>3 DEF Next, findBlobs, vars, packetVars, DateImage, CaptureImage,
       MakeMap, LoadMap, MakeMask, SmoothRows, SmoothColumns, HighPassRows, HighPassColumns,
       SearchBlobs, SortBlobs, CentreBlobs, HandOver
<1>5. (mapFile \subseteq Pixels /\ hotPixels \subseteq Pixels)'
  <2>1. CASE MakeMap \/ LoadMap
    BY <2>1, <1>1 DEF MakeMap, LoadMap, TypeOK
  <2>2. CASE UNCHANGED <<mapFile, hotPixels>>
    BY <2>2, <1>1 DEF TypeOK
  <2> QED BY <2>1, <2>2 DEF Next, findBlobs, vars, mapVars, DateImage, CaptureImage,
       ClearRequest, MakeMask, SmoothRows, SmoothColumns, HighPassRows, HighPassColumns,
       SearchBlobs, SortBlobs, CountBlobs, CentreBlobs, HandOver, Packet
<1>6. (firstTime \in BOOLEAN /\ retried \in BOOLEAN /\ withdrawn \in BOOLEAN)'
  BY <1>1 DEF TypeOK, Next, findBlobs, vars, mapVars, packetVars, DateImage, CaptureImage, MakeMap,
       LoadMap, ClearRequest, MakeMask, SmoothRows, SmoothColumns, HighPassRows, HighPassColumns,
       SearchBlobs, SortBlobs, CountBlobs, CentreBlobs, HandOver, Packet
<1>7. (mask \subseteq Inside(1))'
  <2>1. CASE MakeMask
    BY <2>1 DEF MakeMask, makeMask, Masked, Without
  <2>2. CASE UNCHANGED mask
    BY <2>2, <1>1 DEF TypeOK, Inside
  <2> QED BY <2>1, <2>2 DEF Next, findBlobs, vars, filterVars, DateImage, CaptureImage, MakeMap,
       LoadMap, ClearRequest, SmoothRows, SmoothColumns, HighPassRows, HighPassColumns,
       SearchBlobs, SortBlobs, CountBlobs, CentreBlobs, HandOver, Packet
<1>8. (border \in {0, Border, Border + RHighPass})'
  <2>1. CASE HighPassRows
    BY <2>1 DEF HighPassRows
  <2>2. CASE UNCHANGED border
    BY <2>2, <1>1 DEF TypeOK
  <2> QED BY <2>1, <2>2 DEF Next, findBlobs, vars, filterVars, DateImage, CaptureImage, MakeMap,
       LoadMap, ClearRequest, MakeMask, SmoothRows, SmoothColumns, HighPassColumns,
       SearchBlobs, SortBlobs, CountBlobs, CentreBlobs, HandOver, Packet
<1>9. (images \in 0 .. MaxImages)'
  <2>1. CASE DateImage
    BY <2>1, <1>1, ConstantType DEF DateImage, TypeOK
  <2>2. CASE UNCHANGED images
    BY <2>2, <1>1 DEF TypeOK
  <2> QED BY <2>1, <2>2 DEF Next, findBlobs, vars, dateVars, CaptureImage, MakeMap, LoadMap,
       ClearRequest, MakeMask, SmoothRows, SmoothColumns, HighPassRows, HighPassColumns,
       SearchBlobs, SortBlobs, CountBlobs, CentreBlobs, HandOver, Packet
<1>10. (ic \in [Pixels -> Int])'
  <2>1. CASE SmoothColumns
    <3>1. rows = SumRows(image, mask, RSmooth)
      BY <2>1 DEF IInv, FilterInv, SmoothColumns
    <3> QED BY <1>1, <2>1, <3>1, ConstantType, SmoothedType DEF SmoothColumns
  <2>2. CASE HighPassColumns
    <3> DEFINE ic2 == SumColumns(rows, RHighPass, ic)
    <3>1. rows = SumRows(image, mask, RHighPass)
      BY <2>2 DEF IInv, FilterInv, HighPassColumns
    <3>2. ic2 \in [Pixels -> Int]
      BY <1>1, <3>1, ConstantType, SmoothedType
    <3>3. ic' = [p \in Pixels |-> IF p \in Inside(border) THEN ic[p] - ic2[p] ELSE ic[p]]
      BY <2>2 DEF HighPassColumns
    <3> HIDE DEF ic2
    <3> QED BY <1>1, <3>2, <3>3
  <2>3. CASE UNCHANGED ic
    BY <2>3, <1>1 DEF Pixels
  <2> QED BY <2>1, <2>2, <2>3 DEF Next, findBlobs, vars, filterVars, DateImage, CaptureImage,
       MakeMap, LoadMap, ClearRequest, MakeMask, SmoothRows, HighPassRows,
       SearchBlobs, SortBlobs, CountBlobs, CentreBlobs, HandOver, Packet
<1>11. Lists'
  <2>1. CASE SearchBlobs
    <3>1. threshold' \in Nat \union {NotANumber}
      BY <2>1, ConstantType DEF SearchBlobs
    <3>2. border \in Nat
      BY <1>1, ConstantType DEF TypeOK
    <3>3. found' = Search(ic, border, threshold') /\ blobs' = Flip(found')
      BY <2>1 DEF SearchBlobs
    <3>4. found' \in Seq(Star)
      BY <1>1, <3>1, <3>2, <3>3, SearchCovers
    <3>5. blobs' \in Seq(Mirrored)
      BY <3>3, <3>4, FlipStars
    <3> QED BY <3>4, <3>5
  <2>2. CASE SortBlobs
    <3>1. Mirrored \in SUBSET BlobSet
      BY DEF Mirrored
    <3>2. part(blobs) \in Seq(Mirrored)
      BY <1>1, <3>1, PartSorts
    <3> QED BY <1>1, <2>2, <3>2 DEF SortBlobs
  <2>3. CASE HandOver
    BY <2>3 DEF HandOver
  <2>4. CASE UNCHANGED <<found, blobs>>
    BY <2>4, <1>1
  <2> QED BY <2>1, <2>2, <2>3, <2>4 DEF Next, findBlobs, vars, blobVars, DateImage, CaptureImage,
       MakeMap, LoadMap, ClearRequest, MakeMask, SmoothRows, SmoothColumns, HighPassRows,
       HighPassColumns, CountBlobs, CentreBlobs, Packet
<1>12. (\A i \in DOMAIN blobs : <<blobs[i].x, Height - blobs[i].y>> \in Inside(1))'
  <2>1. \A i \in DOMAIN blobs' : blobs'[i] \in Mirrored
    BY <1>11
  <2> QED BY <2>1 DEF Mirrored, Inside
<1>13. TypeOK'
  BY <1>2, <1>3, <1>4, <1>5, <1>6, <1>7, <1>8, <1>9, <1>10, <1>12 DEF TypeOK
<1> QED BY <1>10, <1>11, <1>13 DEF TypeInv

\* Farther from the edge is also far enough.
LEMMA InsideShrinks ==
  ASSUME NEW m \in Nat, NEW n \in Nat, m <= n
  PROVE  Inside(n) \subseteq Inside(m)
BY SizeType DEF Inside

\* A larger box has more pixels that count.
LEMMA AroundGrows ==
  ASSUME NEW m \in Nat, NEW n \in Nat, m <= n, NEW p \in Inside(m), NEW M
  PROVE  Around(p, m, M) \subseteq Around(p, n, M)
<1>1. p[1] \in Int /\ p[2] \in Int
  BY SizeType DEF Inside
<1>2. p[1] - m .. p[1] + m \subseteq p[1] - n .. p[1] + n
  BY <1>1
<1>3. p[2] - m .. p[2] + m \subseteq p[2] - n .. p[2] + n
  BY <1>1
<1> QED BY <1>2, <1>3 DEF Around

\* The second pass smooths the image, and leaves the means.
LEMMA SmoothStep ==
  ASSUME IInv, SmoothColumns
  PROVE  SmoothedIsMean'
<1> SUFFICES ASSUME NEW p \in Inside(RSmooth), Around(p, RSmooth, mask) # {}
             PROVE  ic'[p] = Mean(image, mask, RSmooth, p)
  BY DEF SmoothColumns, SmoothedIsMean
<1>1. mask \in SUBSET Pixels /\ image \in [Pixels -> Int]
  BY MaskType, ImageType DEF IInv, TypeInv, TypeOK
<1>2. rows = SumRows(image, mask, RSmooth)
  BY DEF IInv, FilterInv, SmoothColumns
<1>3. SumColumns(rows, RSmooth, ic)[p] = Mean(image, mask, RSmooth, p)
  <2>1. RSmooth \in Nat /\ 2 * RSmooth + 1 <= CharMax
    BY ConstantType
  <2>2. SumColumns(SumRows(image, mask, RSmooth), RSmooth, ic)[p] = Mean(image, mask, RSmooth, p)
    BY ONLY <1>1, <2>1, p \in Inside(RSmooth), Around(p, RSmooth, mask) # {}, BoxIsMean
  <2> QED BY <1>2, <2>2
<1> QED BY <1>3 DEF SmoothColumns

\* Without the high-pass filter the search finds what was smoothed.
LEMMA SmoothedOnly ==
  ASSUME IInv, HighPassRows, ~highPass
  PROVE  FilteredIsMean'
<1> SUFFICES ASSUME NEW p \in Inside(Border), Around(p, RSmooth, mask) # {}
             PROVE  ic[p] = Mean(image, mask, RSmooth, p) - 0
  BY DEF HighPassRows, FilteredIsMean
<1>1. mask \in SUBSET Pixels /\ image \in [Pixels -> Int]
  BY MaskType, ImageType DEF IInv, TypeInv, TypeOK
<1>2. p \in Inside(RSmooth)
  BY ConstantType, InsideShrinks
<1>3. ic[p] = Mean(image, mask, RSmooth, p)
  BY <1>2 DEF IInv, FilterInv, HighPassRows, SmoothedIsMean
<1>4. Mean(image, mask, RSmooth, p) \in Int
  BY <1>1, <1>2, ConstantType, MeanType
<1> QED BY <1>3, <1>4

\* With it, the mean over the larger box is taken off.
LEMMA HighPassed ==
  ASSUME IInv, HighPassColumns
  PROVE  FilteredIsMean'
<1>1. border = Border + RHighPass /\ rows = SumRows(image, mask, RHighPass)
  BY DEF IInv, FilterInv, HighPassColumns
<1>2. border # Border
  BY <1>1, ConstantType
<1> DEFINE ic2 == SumColumns(rows, RHighPass, ic)
<1> SUFFICES ASSUME NEW p \in Inside(border), Around(p, RSmooth, mask) # {}
             PROVE  ic'[p] = Mean(image, mask, RSmooth, p) - Mean(image, mask, RHighPass, p)
  BY <1>2 DEF HighPassColumns, FilteredIsMean
<1>3. mask \in SUBSET Pixels /\ image \in [Pixels -> Int]
  BY MaskType, ImageType DEF IInv, TypeInv, TypeOK
<1>4. /\ p \in Inside(RSmooth) /\ p \in Inside(RHighPass) /\ p \in Pixels
  <2>1. /\ Inside(border) \subseteq Inside(RSmooth)
        /\ Inside(border) \subseteq Inside(RHighPass)
        /\ Inside(border) \subseteq Inside(0)
    BY <1>1, ConstantType, InsideShrinks
  <2>2. Inside(0) \subseteq Pixels
    BY SizeType DEF Inside, Pixels, Cols, Rows
  <2> QED BY <2>1, <2>2
<1>5. Around(p, RHighPass, mask) # {}
  BY <1>4, ConstantType, AroundGrows
<1>6. ic[p] = Mean(image, mask, RSmooth, p)
  BY <1>4 DEF IInv, FilterInv, HighPassColumns, SmoothedIsMean
<1>7. ic2[p] = Mean(image, mask, RHighPass, p)
  <2>1. RHighPass \in Nat /\ 2 * RHighPass + 1 <= CharMax
    BY ConstantType
  <2>2. SumColumns(SumRows(image, mask, RHighPass), RHighPass, ic)[p] = Mean(image, mask, RHighPass, p)
    BY ONLY <1>3, <1>4, <1>5, <2>1, BoxIsMean
  <2> QED BY <1>1, <2>2
<1>8. ic' = [q \in Pixels |-> IF q \in Inside(border) THEN ic[q] - ic2[q] ELSE ic[q]]
  BY DEF HighPassColumns
<1> HIDE DEF ic2
<1>9. ic'[p] = ic[p] - ic2[p]
  BY <1>4, <1>8
<1> QED BY <1>6, <1>7, <1>9

\* Every step keeps FilterInv: the filter runs on one image and one mask.
LEMMA FilterStep == IInv /\ [Next]_vars => FilterInv'
<1> SUFFICES ASSUME IInv, [Next]_vars PROVE FilterInv'
  OBVIOUS
<1>1. FilterInv
  BY DEF IInv
<1> DEFINE Elsewhere == stage \notin {"smoothed", "highPass", "highPassed", "search"}
<1>2. ASSUME Elsewhere' PROVE FilterInv'
  BY <1>2 DEF FilterInv, FilteredIsMean
<1>3. CASE DateImage \/ CaptureImage \/ MakeMap \/ LoadMap \/ ClearRequest \/ MakeMask
  BY <1>2, <1>3 DEF DateImage, CaptureImage, MakeMap, LoadMap, ClearRequest, MakeMask
<1>4. CASE SmoothRows
  BY <1>4 DEF SmoothRows, FilterInv, FilteredIsMean
<1>5. CASE SmoothColumns
  BY <1>5, SmoothStep DEF SmoothColumns, FilterInv, FilteredIsMean
<1>6. CASE HighPassRows
  <2>1. CASE highPass
    BY <1>1, <1>6, <2>1 DEF HighPassRows, FilterInv, FilteredIsMean, SmoothedIsMean
  <2>2. CASE ~highPass
    BY <1>6, <2>2, SmoothedOnly DEF HighPassRows, FilterInv
  <2> QED BY <2>1, <2>2
<1>7. CASE HighPassColumns
  BY <1>7, HighPassed DEF HighPassColumns, FilterInv
<1>8. CASE SearchBlobs \/ SortBlobs \/ CountBlobs \/ CentreBlobs \/ HandOver
  BY <1>2, <1>8 DEF SearchBlobs, SortBlobs, CountBlobs, CentreBlobs, HandOver
<1>9. CASE Packet \/ UNCHANGED vars
  <2>1. UNCHANGED <<stage, image, mask, rows, ic, border>>
    BY <1>9 DEF Packet, vars, filterVars
  <2> QED BY <1>1, <2>1 DEF FilterInv, FilteredIsMean, SmoothedIsMean
<1> QED BY <1>3, <1>4, <1>5, <1>6, <1>7, <1>8, <1>9 DEF Next, findBlobs

\* Every step keeps BlobInv.
LEMMA BlobStep == IInv /\ [Next]_vars => BlobInv'
<1> SUFFICES ASSUME IInv, [Next]_vars PROVE BlobInv'
  OBVIOUS
<1>1. BlobInv
  BY DEF IInv
<1>2. ASSUME stage' \notin {"sort", "count", "solve"} PROVE BlobInv'
  BY <1>2 DEF BlobInv, SortedTogether
<1>3. CASE DateImage \/ CaptureImage \/ MakeMap \/ LoadMap \/ ClearRequest \/ MakeMask
  BY <1>2, <1>3 DEF DateImage, CaptureImage, MakeMap, LoadMap, ClearRequest, MakeMask
<1>4. CASE SmoothRows \/ SmoothColumns \/ HighPassRows \/ HighPassColumns
  BY <1>2, <1>4 DEF SmoothRows, SmoothColumns, HighPassRows, HighPassColumns
<1>5. CASE SearchBlobs
  <2>1. threshold' \in Nat \union {NotANumber}
    BY <1>5, ConstantType DEF SearchBlobs
  <2>2. found' = Search(ic', border', threshold') /\ blobs' = Flip(found') /\ stage' = "sort"
    BY <1>5 DEF SearchBlobs, filterVars
  <2> QED BY <2>1, <2>2 DEF BlobInv, SortedTogether
<1>6. CASE SortBlobs
  <2>1. found \in Seq(Star) /\ blobs = Flip(found)
    BY <1>1, <1>6 DEF IInv, TypeInv, BlobInv, SortBlobs
  <2>2. blobs' = part(Flip(found)) /\ found' = found /\ stage' = "count"
    BY <1>6, <2>1 DEF SortBlobs
  <2>3. Descending(blobs') /\ ToBag(Flip(blobs')) = ToBag(found')
    BY <2>1, <2>2, SortedFlip
  <2> QED BY <2>2, <2>3 DEF BlobInv, SortedTogether, Descending
<1>7. CASE CountBlobs \/ HandOver
  BY <1>2, <1>7 DEF CountBlobs, HandOver
<1>8. CASE CentreBlobs
  BY <1>8 DEF CentreBlobs, BlobInv, SortedTogether
<1>9. CASE Packet \/ UNCHANGED vars
  <2>1. UNCHANGED <<stage, image, ic, border, threshold, found, blobs, centres>>
    BY <1>9 DEF Packet, vars, filterVars, blobVars
  <2> QED BY <1>1, <2>1 DEF BlobInv, SortedTogether
<1> QED BY <1>3, <1>4, <1>5, <1>6, <1>7, <1>8, <1>9 DEF Next, findBlobs

\* The invariant is inductive.
LEMMA Invariance == Spec => []IInv
<1>1. Init => IInv
  BY InitInv
<1>2. IInv /\ [Next]_vars => IInv'
  BY TypeStep, MapStep, FilterStep, BlobStep, DateStep DEF IInv
<1> QED BY <1>1, <1>2, PTL DEF Spec

-----------------------------------------------------------------------------
(***************************************************************************)
(* What follows from it.                                                   *)
(***************************************************************************)

\* The state of the thread between two images stays of its type: above all,
\* every blob lies in the image with its eight neighbours, so that its
\* centroid is read from pixels that exist.
THEOREM TypeCorrect == Spec => []TypeOK
<1>1. IInv => TypeOK
  BY DEF IInv, TypeInv
<1> QED BY <1>1, Invariance, PTL

\* Whenever makeMask, the filters or the search run, the hot pixels in memory
\* are those of the map on disk, or a packet took a request back between the
\* making of its map and the reading.
THEOREM MapIsInUse == Spec => []MapInUse
<1>1. IInv => MapInUse
  BY DEF IInv, MapInv, MapInUse
<1> QED BY <1>1, Invariance, PTL

\* For any image, any mask and any radii, the two passes of boxcarFilterImage
\* give the search the means it is meant to look at.
THEOREM FilteredMeans == Spec => []FilteredIsMean
<1>1. IInv => FilteredIsMean
  BY DEF IInv, FilterInv
<1> QED BY <1>1, Invariance, PTL

\* No star that the scan of findBlobs comes across is lost to fainter ones.
THEOREM BrightestIsFound == Spec => []BrightestFound
<1>1. IInv => BrightestFound
  <2> SUFFICES ASSUME IInv, stage = "sort"
               PROVE  LET magnitudes == {Magnitude(ic, p) : p \in Candidates(ic, border, threshold)}
                      IN  /\ magnitudes = {} <=> found = <<>>
                          /\ \A m \in magnitudes : \E i \in DOMAIN found : found[i].mag >= m
    BY DEF BrightestFound
  <2>1. threshold \in Nat \union {NotANumber} /\ found = Search(ic, border, threshold)
    BY DEF IInv, BlobInv
  <2>2. ic \in [Pixels -> Int] /\ border \in Nat
    BY ConstantType DEF IInv, TypeInv, TypeOK
  <2>3. /\ found = <<>> <=> Candidates(ic, border, threshold) = {}
        /\ \A p \in Candidates(ic, border, threshold) :
             \E i \in DOMAIN found : found[i].mag >= Magnitude(ic, p)
    BY <2>1, <2>2, SearchCovers
  <2> QED BY <2>3
<1> QED BY <1>1, Invariance, PTL

\* merge and part sort the magnitudes of however many blobs and take the
\* coordinates along.
THEOREM BlobsSortedTogether == Spec => []SortedTogether
<1>1. IInv => SortedTogether
  BY DEF IInv, BlobInv
<1> QED BY <1>1, Invariance, PTL

\* Every centroid is the mean position of the light around the peak, in a
\* block that lies in the image, but for the sign of y: the weights follow the
\* rows in memory, the blob's y counts from the bottom.
CentroidUpToSign ==
  stage = "solve" =>
    \A i \in DOMAIN blobs :
      LET centre == CentreOfLight(image, blobs[i])
      IN  centres[i] = [x |-> centre.x, y |-> 0 - centre.y, sum |-> centre.sum]

\* The centroids are those of the light, with the sign of y reversed, whatever
\* the stars: CentroidIsWeighted, which the code does not keep, differs from
\* this in the sign alone.
THEOREM CentroidsReversed == Spec => []CentroidUpToSign
<1>1. IInv => CentroidUpToSign
  <2> SUFFICES ASSUME IInv, stage = "solve", NEW i \in DOMAIN blobs
               PROVE  LET centre == CentreOfLight(image, blobs[i])
                      IN  centres[i] = [x |-> centre.x, y |-> 0 - centre.y, sum |-> centre.sum]
    BY DEF CentroidUpToSign
  <2>1. image \in [Pixels -> Int] /\ blobs[i] \in Mirrored
    BY ImageType DEF IInv, TypeInv, TypeOK
  <2>2. centres[i] = Centroid(image, blobs[i])
    BY DEF IInv, BlobInv
  <2> QED BY <2>1, <2>2, CentroidReversed
<1> QED BY <1>1, Invariance, PTL

\* The correction for leap years keeps every day but one.
THEOREM DateIsKept == Spec => []DateKept
<1>1. IInv => DateKept
  BY DEF IInv
<1> QED BY <1>1, Invariance, PTL
=============================================================================

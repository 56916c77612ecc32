----------------------------- MODULE DataLemmas -----------------------------
(***************************************************************************)
(* Lemmas about numbers, sequences and sums that the proofs about several  *)
(* components share.                                                       *)
(*                                                                         *)
(* The value of a fold is found without induction over the sequence: a sum *)
(* of natural numbers is the cardinality of a set of units, one element    *)
(* per unit summed, and this cardinality satisfies the recursion that      *)
(* defines the fold.  That nothing else does is shown with a smallest      *)
(* counterexample.                                                         *)
(***************************************************************************)
EXTENDS Integers, SequencesExt, FiniteSetTheorems, SequenceTheorems, TLAPS

\* A non-empty set of naturals has the minimum that Min chooses.
LEMMA MinOfNats ==
  ASSUME NEW S \in SUBSET Nat, S # {}
  PROVE  Min(S) \in S /\ \A x \in S : Min(S) <= x
<1> DEFINE R == OpToRel(<, Nat)
<1>1. R = {p \in Nat \X Nat : p[1] < p[2]}
  BY Zenon DEF OpToRel
<1>2. IsWellFoundedOn(R, Nat)
  BY NatLessThanWellFounded, Zenon
<1>0. ASSUME NEW x \in Nat, NEW y \in Nat, x < y
      PROVE  <<x, y>> \in R
  <2>1. <<x, y>> \in {p \in Nat \X Nat : p[1] < p[2]}
    BY <1>0
  <2> QED BY <2>1, <1>1, Zenon
<1> HIDE DEF R
<1>3. PICK m \in S : \A y \in S : ~(<<y, m>> \in R)
  BY <1>2, WFMin, Zenon
<1>4. ASSUME NEW y \in S PROVE m <= y
  <2>1. ~(y < m)
    BY <1>0, <1>3
  <2>2. y \in Nat /\ m \in Nat
    OBVIOUS
  <2> QED BY <2>1, <2>2
<1> QED BY <1>4 DEF Min

\* A sequence without its k-th element.
LEMMA RemoveAtProps ==
  ASSUME NEW S, NEW q \in Seq(S), NEW k \in 1 .. Len(q)
  PROVE  /\ RemoveAt(q, k) \in Seq(S)
         /\ Len(RemoveAt(q, k)) = Len(q) - 1
         /\ \A j \in 1 .. Len(q) - 1 :
              RemoveAt(q, k)[j] = IF j < k THEN q[j] ELSE q[j + 1]
<1> DEFINE a == SubSeq(q, 1, k - 1)
           b == SubSeq(q, k + 1, Len(q))
<1>1. Len(q) \in Nat /\ k \in Nat /\ k >= 1 /\ k <= Len(q)
  BY LenProperties
<1>2. a \in Seq(S) /\ Len(a) = k - 1 /\ \A j \in 1 .. k - 1 : a[j] = q[j]
  BY <1>1, SubSeqProperties
<1>3. /\ b \in Seq(S) /\ Len(b) = Len(q) - k
      /\ \A j \in 1 .. Len(q) - k : b[j] = q[k + j]
  BY <1>1, SubSeqProperties
<1> HIDE DEF a, b
<1>4. /\ a \o b \in Seq(S)
      /\ Len(a \o b) = Len(a) + Len(b)
      /\ \A j \in 1 .. Len(a) + Len(b) :
           (a \o b)[j] = IF j <= Len(a) THEN a[j] ELSE b[j - Len(a)]
  BY <1>2, <1>3, ConcatProperties
<1>5. RemoveAt(q, k) = a \o b
  BY DEF RemoveAt, a, b
<1>6. Len(a) + Len(b) = Len(q) - 1
  BY <1>1, <1>2, <1>3
<1>7. ASSUME NEW j \in 1 .. Len(q) - 1
      PROVE  (a \o b)[j] = IF j < k THEN q[j] ELSE q[j + 1]
  <2>1. (a \o b)[j] = IF j <= k - 1 THEN a[j] ELSE b[j - (k - 1)]
    BY <1>2, <1>4, <1>6
  <2>2. CASE j < k
    BY <1>1, <1>2, <2>1, <2>2
  <2>3. CASE ~(j < k)
    <3>1. j - (k - 1) \in 1 .. Len(q) - k /\ k + (j - (k - 1)) = j + 1
      BY <1>1, <2>3
    <3>2. b[j - (k - 1)] = q[j + 1]
      BY <1>3, <3>1
    <3> QED BY <1>1, <2>1, <2>3, <3>2
  <2> QED BY <2>2, <2>3
<1> QED BY <1>4, <1>5, <1>6, <1>7

\* RemoveFirst removes at a position that holds the element.
LEMMA RemoveFirstAt ==
  ASSUME NEW S, NEW q \in Seq(S), NEW s
  PROVE  /\ (\A j \in 1 .. Len(q) : q[j] # s) => RemoveFirst(q, s) = q
         /\ (\E j \in 1 .. Len(q) : q[j] = s) =>
              \E k \in 1 .. Len(q) :
                 q[k] = s /\ RemoveFirst(q, s) = RemoveAt(q, k)
<1>1. (\A j \in 1 .. Len(q) : q[j] # s) => RemoveFirst(q, s) = q
  BY DEF RemoveFirst
<1>2. ASSUME \E j \in 1 .. Len(q) : q[j] = s
      PROVE  \E k \in 1 .. Len(q) :
                 q[k] = s /\ RemoveFirst(q, s) = RemoveAt(q, k)
  <2> DEFINE I == {j \in 1 .. Len(q) : q[j] = s}
  <2>1. I \in SUBSET Nat /\ I # {}
    BY <1>2
  <2> HIDE DEF I
  <2>2. Min(I) \in I
    BY <2>1, MinOfNats
  <2>3. RemoveFirst(q, s) = RemoveAt(q, Min(I))
    BY <1>2, <2>1 DEF RemoveFirst, SelectInSeq, I
  <2> QED BY <2>2, <2>3 DEF I
<1> QED BY <1>1, <1>2

\* A sum or difference that stays in the width does not wrap.
LEMMA SmallMod ==
  ASSUME NEW x \in Nat, NEW m \in Nat, x < m
  PROVE  (x % m) = x /\ ((x + m) % m) = x
  OBVIOUS

\* As many elements as the values of f over T add up to.
Units(T, f) == {x \in T \X Nat : x[2] \in 1 .. f[x[1]]}

\* There are finitely many units.
LEMMA UnitsFinite ==
  ASSUME NEW T, IsFiniteSet(T), NEW f, NEW B \in Nat, \A x \in T : f[x] \in 0 .. B
  PROVE  IsFiniteSet(Units(T, f)) /\ Cardinality(Units(T, f)) \in Nat
<1>1. IsFiniteSet(1 .. B)
  BY FS_Interval
<1>2. IsFiniteSet(T \X (1 .. B))
  BY <1>1, FS_Product
<1>3. Units(T, f) \in SUBSET (T \X (1 .. B))
  BY DEF Units
<1>4. IsFiniteSet(Units(T, f))
  BY <1>2, <1>3, FS_Subset
<1> QED BY <1>4, FS_CardinalityType

\* The units of one element and of the others.
LEMMA UnitsSplit ==
  ASSUME NEW T, IsFiniteSet(T), NEW f, NEW B \in Nat, \A x \in T : f[x] \in 0 .. B,
         NEW y \in T
  PROVE  /\ Cardinality(Units(T \ {y}, f)) \in Nat
         /\ Cardinality(Units(T, f)) = Cardinality(Units(T \ {y}, f)) + f[y]
<1> DEFINE U == Units(T \ {y}, f)
           V == {y} \X (1 .. f[y])
<1>1. f[y] \in Nat
  OBVIOUS
<1>2. IsFiniteSet(T \ {y})
  BY FS_RemoveElement
<1>3. IsFiniteSet(U) /\ Cardinality(U) \in Nat
  BY <1>2, UnitsFinite
<1>4. IsFiniteSet(1 .. f[y]) /\ Cardinality(1 .. f[y]) = f[y]
  <2>1. PICK c \in Nat : c = f[y]
    BY <1>1
  <2>2. IsFiniteSet(1 .. c) /\ Cardinality(1 .. c) = c
    BY FS_Interval
  <2> QED BY <2>1, <2>2
<1>5. IsFiniteSet({y}) /\ Cardinality({y}) = 1
  BY FS_Singleton
<1>6. IsFiniteSet(V) /\ Cardinality(V) = f[y]
  <2>1. IsFiniteSet(V) /\ Cardinality(V) = Cardinality({y}) * Cardinality(1 .. f[y])
    BY <1>4, <1>5, FS_Product
  <2> QED BY <1>1, <1>4, <1>5, <2>1
<1>7. Units(T, f) = U \cup V
  BY <1>1 DEF Units
<1>8. U \cap V = {}
  BY DEF Units
<1> HIDE DEF U, V
<1>9. Cardinality(U \cup V) = Cardinality(U) + Cardinality(V) - Cardinality(U \cap V)
  BY <1>3, <1>6, FS_Union
<1>10. Cardinality(U \cap V) = 0
  BY <1>8, FS_EmptySet
<1> QED BY <1>1, <1>3, <1>6, <1>7, <1>9, <1>10 DEF U

\* Units depend on the values over the set only.
LEMMA UnitsSame ==
  ASSUME NEW T, NEW f, NEW g, \A x \in T : g[x] = f[x]
  PROVE  Units(T, g) = Units(T, f)
  BY DEF Units

\* A non-empty set of positions has a maximum.
LEMMA MaxBelow ==
  ASSUME NEW n \in Nat, NEW T \in SUBSET (1 .. n), T # {}
  PROVE  Max(T) \in T
<1> DEFINE D == {d \in Nat : n - d \in T}
<1>1. PICK x \in T : TRUE
  OBVIOUS
<1>2. x \in Nat /\ n - x \in Nat /\ n - (n - x) = x
  OBVIOUS
<1>3. n - x \in D
  BY <1>1, <1>2
<1>4. D \in SUBSET Nat /\ D # {}
  BY <1>3
<1>5. Min(D) \in D /\ \A d \in D : Min(D) <= d
  BY <1>4, MinOfNats
<1>6. PICK m \in Nat : n - m \in T /\ \A d \in D : m <= d
  BY <1>5
<1>7. ASSUME NEW y \in T PROVE n - m >= y
  <2>1. y \in Nat /\ n - y \in Nat /\ n - (n - y) = y
    OBVIOUS
  <2>2. n - y \in D
    BY <2>1
  <2>3. m <= n - y
    BY <1>6, <2>2
  <2> QED BY <2>1, <2>3
<1> QED BY <1>6, <1>7 DEF Max

\* The recursion of a fold that adds up the numbers r over positions 1 to n.
Sums(n, r, g) ==
  [T \in SUBSET (1 .. n) |->
     IF T = {} THEN 0 ELSE g[T \ {Max(T)}] + r[Max(T)]]

\* The recursion has a solution, and every solution counts the units.
LEMMA SumsAre ==
  ASSUME NEW n \in Nat, NEW r, NEW B \in Nat, \A k \in 1 .. n : r[k] \in 0 .. B
  PROVE  /\ \E g : g = Sums(n, r, g)
         /\ \A g : g = Sums(n, r, g) =>
              g[1 .. n] = Cardinality(Units(1 .. n, r))
<1> DEFINE w == [T \in SUBSET (1 .. n) |-> Cardinality(Units(T, r))]
<1>1. \A T \in SUBSET (1 .. n) : IsFiniteSet(T)
  <2>1. IsFiniteSet(1 .. n)
    BY FS_Interval
  <2> QED BY <2>1, FS_Subset
<1>2. ASSUME NEW T \in SUBSET (1 .. n), T # {}
      PROVE  /\ Max(T) \in T /\ T \ {Max(T)} \in SUBSET (1 .. n)
             /\ w[T] = w[T \ {Max(T)}] + r[Max(T)]
  <2>1. PICK y \in T : y = Max(T)
    BY <1>2, MaxBelow
  <2>2. Cardinality(Units(T, r)) = Cardinality(Units(T \ {y}, r)) + r[y]
    BY <1>1, UnitsSplit
  <2>3. y \in 1 .. n /\ T \ {y} \in SUBSET (1 .. n)
    OBVIOUS
  <2> QED BY <2>1, <2>2, <2>3
<1>3. w[{}] = 0
  <2>1. Units({}, r) = {}
    BY DEF Units
  <2> QED BY <2>1, FS_EmptySet
<1>4. w = [T \in SUBSET (1 .. n) |-> w[T]]
  OBVIOUS
<1>5. w[1 .. n] = Cardinality(Units(1 .. n, r))
  OBVIOUS
<1> HIDE DEF w
<1>6. w = Sums(n, r, w)
  BY <1>2, <1>3, <1>4 DEF Sums
<1>7. ASSUME NEW h, h = Sums(n, r, h)
      PROVE  h[1 .. n] = w[1 .. n]
  <2>1. h[{}] = 0
    BY <1>7 DEF Sums
  <2>2. ASSUME NEW T \in SUBSET (1 .. n), T # {}
        PROVE  h[T] = h[T \ {Max(T)}] + r[Max(T)]
    BY <1>7, <2>2 DEF Sums
  <2> DEFINE Bad == {T \in SUBSET (1 .. n) : h[T] # w[T]}
             Sizes == {Cardinality(T) : T \in Bad}
  <2>3. Bad = {}
    <3> SUFFICES ASSUME Bad # {} PROVE FALSE
      OBVIOUS
    <3>1. Sizes \in SUBSET Nat /\ Sizes # {}
      BY <1>1, FS_CardinalityType
    <3>2. Min(Sizes) \in Sizes /\ \A x \in Sizes : Min(Sizes) <= x
      BY <3>1, MinOfNats
    <3>3. PICK T \in Bad : \A V \in Bad : Cardinality(T) <= Cardinality(V)
      BY <3>2
    <3>4. T \in SUBSET (1 .. n) /\ h[T] # w[T] /\ T # {}
      BY <1>3, <2>1
    <3>5. PICK y \in T : y = Max(T)
      BY <1>2, <3>4
    <3>6. Cardinality(T) \in Nat /\ Cardinality(T \ {y}) = Cardinality(T) - 1
      BY <1>1, <3>4, FS_RemoveElement, FS_CardinalityType
    <3>7. T \ {y} \in SUBSET (1 .. n) /\ T \ {y} \notin Bad
      BY <3>3, <3>4, <3>6
    <3>8. h[T \ {y}] = w[T \ {y}]
      BY <3>7
    <3> QED BY <1>2, <2>2, <3>4, <3>5, <3>8
  <2> QED BY <2>3
<1> QED BY <1>5, <1>6, <1>7

\* The sum TotalIsSum takes over a list.
Summed(s, f) == FoldLeft(LAMBDA acc, o : acc + f[o], 0, s)

\* One unfolding of the recursion in the fold.
Summing(s, f, g) ==
  [T \in SUBSET DOMAIN s |->
     IF T = {} THEN 0 ELSE g[T \ {Max(T)}] + f[s[Max(T)]]]

\* If some function satisfies the recursion, the fold is a value of one.
LEMMA SummedChosen ==
  ASSUME NEW s, NEW f, NEW g, g = Summing(s, f, g)
  PROVE  \E h : h = Summing(s, f, h) /\ Summed(s, f) = h[DOMAIN s]
  BY Zenon DEF Summed, Summing, FoldLeft, MapThenFoldSet

\* The fold counts the units of the positions.
LEMMA SummedIs ==
  ASSUME NEW S, NEW s \in Seq(S), NEW f, NEW B \in Nat,
         \A x \in S : f[x] \in 0 .. B
  PROVE  Summed(s, f) =
           Cardinality(Units(1 .. Len(s), [k \in 1 .. Len(s) |-> f[s[k]]]))
<1>1. PICK n \in Nat : n = Len(s) /\ DOMAIN s = 1 .. n
  BY LenProperties
<1> DEFINE r == [k \in 1 .. n |-> f[s[k]]]
<1>2. \A k \in 1 .. n : r[k] = f[s[k]] /\ r[k] \in 0 .. B
  BY <1>1, ElementOfSeq
<1> HIDE DEF r
<1>3. ASSUME NEW T \in SUBSET (1 .. n), T # {} PROVE f[s[Max(T)]] = r[Max(T)]
  BY <1>2, <1>3, MaxBelow
<1>4. \A g : Summing(s, f, g) = Sums(n, r, g)
  BY <1>1, <1>3 DEF Summing, Sums
<1>5. /\ \E g : g = Sums(n, r, g)
      /\ \A g : g = Sums(n, r, g) =>
           g[1 .. n] = Cardinality(Units(1 .. n, r))
  BY <1>2, SumsAre
<1>6. PICK g : g = Sums(n, r, g)
  BY <1>5
<1>7. g = Summing(s, f, g)
  BY <1>4, <1>6
<1>8. PICK h : h = Summing(s, f, h) /\ Summed(s, f) = h[DOMAIN s]
  BY <1>7, SummedChosen
<1>9. h = Sums(n, r, h)
  BY <1>4, <1>8
<1>10. Summed(s, f) = Cardinality(Units(1 .. n, r))
  BY <1>1, <1>5, <1>8, <1>9
<1> QED BY <1>1, <1>10 DEF r

\* The elements of F before i.
Below(F, i) == {j \in F : j < i}

\* The first element at or after a position follows those before it.
LEMMA RankNext ==
  ASSUME NEW F \in SUBSET Nat, IsFiniteSet(F), NEW i \in F
  PROVE  LET above == {j \in F : i + 1 <= j}
         IN  /\ Cardinality(Below(F, i)) \in Nat
             /\ Cardinality(Below(F, i)) < Cardinality(F)
             /\ above = {} => Cardinality(F) = Cardinality(Below(F, i)) + 1
             /\ above # {} => /\ Min(above) \in F
                              /\ Cardinality(Below(F, Min(above))) =
                                   Cardinality(Below(F, i)) + 1
<1> DEFINE above == {j \in F : i + 1 <= j}
           upto == Below(F, i) \cup {i}
<1>1. /\ IsFiniteSet(Below(F, i)) /\ i \notin Below(F, i)
      /\ Below(F, i) \subseteq F /\ upto \subseteq F
  <2>1. Below(F, i) \subseteq F /\ i \notin Below(F, i)
    BY DEF Below
  <2> QED BY <2>1, FS_Subset
<1>2. /\ Cardinality(Below(F, i)) \in Nat /\ Cardinality(F) \in Nat
      /\ IsFiniteSet(upto)
      /\ Cardinality(upto) = Cardinality(Below(F, i)) + 1
  BY <1>1, FS_CardinalityType, FS_AddElement
<1>3. Cardinality(upto) <= Cardinality(F)
  BY <1>1, FS_Subset
<1>4. ASSUME above = {} PROVE F = upto
  <2>1. ASSUME NEW j \in F PROVE j < i \/ j = i
    <3>1. ~(i + 1 <= j) /\ i \in Nat /\ j \in Nat
      BY <1>4
    <3> QED BY <3>1
  <2> QED BY <1>1, <2>1 DEF Below
<1>5. ASSUME above # {}
      PROVE  Min(above) \in F /\ Below(F, Min(above)) = upto
  <2>1. PICK m \in above : m = Min(above) /\ \A x \in above : m <= x
    BY <1>5, MinOfNats
  <2>2. m \in F /\ m \in Nat /\ i \in Nat /\ i + 1 <= m
    BY <2>1
  <2>3. ASSUME NEW j \in F PROVE j < m <=> (j < i \/ j = i)
    <3>1. j \in Nat /\ (i + 1 <= j => m <= j)
      BY <2>1
    <3> QED BY <2>2, <3>1
  <2> QED BY <1>1, <2>1, <2>2, <2>3 DEF Below
<1> HIDE DEF above, upto
<1>6. above = {} => Cardinality(F) = Cardinality(Below(F, i)) + 1
  BY <1>2, <1>4
<1>7. above # {} => /\ Min(above) \in F
                    /\ Cardinality(Below(F, Min(above))) = Cardinality(Below(F, i)) + 1
  BY <1>2, <1>5
<1>8. Cardinality(Below(F, i)) < Cardinality(F)
  BY <1>2, <1>3
<1> QED BY <1>2, <1>6, <1>7, <1>8 DEF above

\* An element has its own number of elements before it.
LEMMA RankUnique ==
  ASSUME NEW F \in SUBSET Nat, IsFiniteSet(F), NEW i \in F, NEW j \in F,
         Cardinality(Below(F, i)) = Cardinality(Below(F, j))
  PROVE  i = j
<1>1. ASSUME NEW a \in F, NEW b \in F, a < b
      PROVE  Cardinality(Below(F, a)) < Cardinality(Below(F, b))
  <2>1. Below(F, b) \subseteq F /\ Below(F, a) \cup {a} \subseteq Below(F, b)
        /\ Below(F, a) \subseteq F /\ a \notin Below(F, a)
    <3>1. \A x \in F : x < a => x < b
      BY <1>1
    <3>2. ~(a < a)
      <4>1. a \in Nat
        OBVIOUS
      <4> QED BY <4>1
    <3> QED BY <1>1, <3>1, <3>2 DEF Below
  <2>2. IsFiniteSet(Below(F, b)) /\ IsFiniteSet(Below(F, a))
    BY <2>1, FS_Subset
  <2>3. /\ Cardinality(Below(F, a) \cup {a}) = Cardinality(Below(F, a)) + 1
        /\ Cardinality(Below(F, a)) \in Nat /\ Cardinality(Below(F, b)) \in Nat
    BY <2>1, <2>2, FS_AddElement, FS_CardinalityType
  <2>4. Cardinality(Below(F, a) \cup {a}) <= Cardinality(Below(F, b))
    BY <2>1, <2>2, FS_Subset
  <2> QED BY <2>3, <2>4
<1>2. /\ Cardinality(Below(F, i)) \in Nat /\ i \in Nat /\ j \in Nat
  BY RankNext
<1>3. ~(i < j) /\ ~(j < i)
  <2>1. ASSUME i < j PROVE FALSE
    <3>1. Cardinality(Below(F, i)) < Cardinality(Below(F, j))
      BY <1>1, <2>1
    <3> QED BY <1>2, <3>1
  <2>2. ASSUME j < i PROVE FALSE
    <3>1. Cardinality(Below(F, j)) < Cardinality(Below(F, i))
      BY <1>1, <2>2
    <3> QED BY <1>2, <3>1
  <2> QED BY <2>1, <2>2
<1> QED BY <1>2, <1>3

\* There is an element for every rank.
LEMMA RankExists ==
  ASSUME NEW F \in SUBSET Nat, IsFiniteSet(F), NEW k \in 1 .. Cardinality(F)
  PROVE  \E i \in F : Cardinality(Below(F, i)) = k - 1
<1> DEFINE Has(r) == \E i \in F : Cardinality(Below(F, i)) = r - 1
           Bad == {r \in 1 .. Cardinality(F) : ~Has(r)}
<1>0. Cardinality(F) \in Nat
  BY FS_CardinalityType
<1>1. Bad = {}
  <2> SUFFICES ASSUME Bad # {} PROVE FALSE
    OBVIOUS
  <2>1. Bad \in SUBSET Nat
    BY <1>0
  <2>2. PICK m \in Bad : \A x \in Bad : m <= x
    BY <2>1, MinOfNats
  <2>3. m \in 1 .. Cardinality(F) /\ ~Has(m) /\ m \in Nat
    BY <1>0
  <2>4. CASE m = 1
    <3>1. F # {}
      BY <1>0, <2>3, FS_EmptySet
    <3>2. PICK i \in F : \A x \in F : i <= x
      BY <3>1, MinOfNats
    <3>3. Below(F, i) = {}
      <4>1. \A x \in F : x \in Nat /\ i \in Nat /\ ~(x < i)
        BY <3>2
      <4> QED BY <4>1 DEF Below
    <3> QED BY <2>3, <2>4, <3>3, FS_EmptySet
  <2>5. CASE m # 1
    <3>1. m - 1 \in 1 .. Cardinality(F) /\ ~(m <= m - 1)
      BY <1>0, <2>3, <2>5
    <3>2. Has(m - 1)
      BY <2>2, <3>1
    <3>3. PICK i \in F : Cardinality(Below(F, i)) = (m - 1) - 1
      BY <3>2
    <3> DEFINE above == {j \in F : i + 1 <= j}
    <3>4. /\ above = {} => Cardinality(F) = Cardinality(Below(F, i)) + 1
          /\ above # {} => /\ Min(above) \in F
                           /\ Cardinality(Below(F, Min(above))) =
                                Cardinality(Below(F, i)) + 1
      BY RankNext
    <3>5. above # {}
      BY <1>0, <2>3, <3>3, <3>4
    <3>6. PICK c \in F : Cardinality(Below(F, c)) = Cardinality(Below(F, i)) + 1
      BY <3>4, <3>5
    <3>7. Cardinality(Below(F, c)) = m - 1
      BY <2>3, <3>3, <3>6
    <3> QED BY <2>3, <3>7
  <2> QED BY <2>4, <2>5
<1> QED BY <1>1

\* The elements of F at or after an index.
From(F, from) == {j \in F : from <= j}

\* The least element of F above i.
NextAfter(F, i, none) ==
  IF From(F, i + 1) = {} THEN none ELSE Min(From(F, i + 1))

\* The first M + 1 elements of F in ascending order, none where there are no more.
Nth(F, k) == CHOOSE i \in F : Cardinality(Below(F, i)) = k - 1
Ranked(F, M, none) ==
  [k \in 1 .. M + 1 |-> IF k <= Cardinality(F) THEN Nth(F, k) ELSE none]

\* The element in each place.
LEMMA RankedIs ==
  ASSUME NEW F \in SUBSET Nat, IsFiniteSet(F), NEW M \in Nat, NEW none,
         NEW k \in 1 .. M + 1
  PROVE  /\ k <= Cardinality(F) =>
              /\ Ranked(F, M, none)[k] \in F
              /\ Cardinality(Below(F, Ranked(F, M, none)[k])) = k - 1
         /\ ~(k <= Cardinality(F)) => Ranked(F, M, none)[k] = none
<1>1. Ranked(F, M, none)[k] = IF k <= Cardinality(F) THEN Nth(F, k) ELSE none
  BY DEF Ranked
<1>2. ASSUME k <= Cardinality(F)
      PROVE  Nth(F, k) \in F /\ Cardinality(Below(F, Nth(F, k))) = k - 1
  <2>1. k \in 1 .. Cardinality(F)
    BY <1>2, FS_CardinalityType
  <2>2. \E i \in F : Cardinality(Below(F, i)) = k - 1
    BY <2>1, RankExists
  <2> QED BY <2>2 DEF Nth
<1> QED BY <1>1, <1>2

\* The place of an element.
LEMMA RankedAt ==
  ASSUME NEW F \in SUBSET Nat, IsFiniteSet(F), NEW M \in Nat, NEW none,
         NEW k \in 1 .. M + 1, NEW i \in F, Cardinality(Below(F, i)) = k - 1
  PROVE  Ranked(F, M, none)[k] = i
<1>1. k <= Cardinality(F)
  <2>1. Cardinality(Below(F, i)) < Cardinality(F) /\ Cardinality(F) \in Nat
    BY RankNext, FS_CardinalityType
  <2> QED BY <2>1
<1>2. PICK a \in F : /\ a = Ranked(F, M, none)[k]
                     /\ Cardinality(Below(F, a)) = k - 1
  BY <1>1, RankedIs
<1> QED BY <1>2, RankUnique

\* The minimum comes first.
LEMMA RankedFirst ==
  ASSUME NEW F \in SUBSET Nat, IsFiniteSet(F), NEW M \in Nat, NEW none
  PROVE  Ranked(F, M, none)[1] = IF F = {} THEN none ELSE Min(F)
<1>0. 1 \in 1 .. M + 1
  OBVIOUS
<1>1. CASE F = {}
  <2>1. ~(1 <= Cardinality(F))
    BY <1>1, FS_EmptySet
  <2> QED BY <1>0, <1>1, <2>1, RankedIs
<1>2. CASE F # {}
  <2>1. PICK m \in F : m = Min(F) /\ \A x \in F : m <= x
    BY <1>2, MinOfNats
  <2>2. Below(F, m) = {}
    <3>1. \A x \in F : x \in Nat /\ m \in Nat /\ ~(x < m)
      BY <2>1
    <3> QED BY <3>1 DEF Below
  <2>3. Cardinality(Below(F, m)) = 1 - 1
    BY <2>2, FS_EmptySet
  <2>4. Ranked(F, M, none)[1] = m
    BY <1>0, <2>3, RankedAt
  <2> QED BY <1>2, <2>1, <2>4
<1> QED BY <1>1, <1>2

\* After an element comes the least one above it.
LEMMA RankedNext ==
  ASSUME NEW F \in SUBSET Nat, IsFiniteSet(F), NEW M \in Nat, NEW none, none \notin F,
         NEW k \in 1 .. M + 1, k # 1, NEW i, i = Ranked(F, M, none)[k - 1]
  PROVE  /\ i = none \/ i \in F
         /\ i = none => Ranked(F, M, none)[k] = none
         /\ i \in F => Ranked(F, M, none)[k] = NextAfter(F, i, none)
<1>0. PICK p \in 1 .. M + 1 : p = k - 1 /\ k = p + 1
  <2>1. k - 1 \in 1 .. M + 1 /\ k = (k - 1) + 1
    OBVIOUS
  <2> QED BY <2>1
<1>1. i = Ranked(F, M, none)[p]
  BY <1>0
<1>2. PICK c \in Nat : c = Cardinality(F)
  BY FS_CardinalityType
<1>3. /\ p <= c => i \in F /\ Cardinality(Below(F, i)) = p - 1
      /\ ~(p <= c) => i = none
  BY <1>1, <1>2, RankedIs
<1>4. ASSUME i = none PROVE Ranked(F, M, none)[k] = none
  <2>1. ~(k <= c)
    BY <1>0, <1>2, <1>3, <1>4
  <2> QED BY <1>2, <2>1, RankedIs
<1>5. ASSUME i \in F
      PROVE  Ranked(F, M, none)[k] = NextAfter(F, i, none)
  <2>1. Cardinality(Below(F, i)) = p - 1
    BY <1>3, <1>5
  <2> DEFINE above == {j \in F : i + 1 <= j}
  <2>2. /\ above = {} => c = Cardinality(Below(F, i)) + 1
        /\ above # {} => /\ Min(above) \in F
                         /\ Cardinality(Below(F, Min(above))) =
                              Cardinality(Below(F, i)) + 1
    BY <1>2, <1>5, RankNext
  <2>3. above = From(F, i + 1)
    BY DEF From
  <2> HIDE DEF above
  <2>4. CASE above = {}
    <3>1. ~(k <= c)
      BY <1>0, <2>1, <2>2, <2>4
    <3>2. Ranked(F, M, none)[k] = none
      BY <1>2, <3>1, RankedIs
    <3> QED BY <2>3, <2>4, <3>2 DEF NextAfter
  <2>5. CASE above # {}
    <3>1. PICK a \in F : /\ a = Min(above)
                         /\ Cardinality(Below(F, a)) = Cardinality(Below(F, i)) + 1
      BY <2>2, <2>5
    <3>2. Cardinality(Below(F, a)) = k - 1
      BY <1>0, <2>1, <3>1
    <3>3. Ranked(F, M, none)[k] = a
      BY <3>2, RankedAt
    <3>4. Min(above) = Min(From(F, i + 1)) /\ From(F, i + 1) # {}
      BY <2>3, <2>5, Zenon
    <3> QED BY <3>1, <3>3, <3>4 DEF NextAfter
  <2> QED BY <2>4, <2>5
<1> QED BY <1>3, <1>4, <1>5

\* The first n elements of g, as far as there are any.
Cut(g, n, none) == SubSeq(g, 1, Cardinality({k \in 1 .. n : g[k] # none}))

\* As many elements of F lie before the one in place k as there are places before.
InPlace(F, walk) ==
  \A k \in 1 .. Len(walk) : Cardinality(Below(F, walk[k])) = k - 1

\* The first n elements of F.
LEMMA RankedWalk ==
  ASSUME NEW F \in SUBSET Nat, IsFiniteSet(F), NEW M \in Nat, NEW none, none \notin F,
         NEW n \in Nat, n <= M,
         NEW walk, walk = Cut(Ranked(F, M, none), n, none)
  PROVE  /\ walk \in Seq(F) /\ Len(walk) = Min({n, Cardinality(F)})
         /\ Len(walk) <= n /\ Len(walk) <= Cardinality(F)
         /\ Len(walk) \in {n, Cardinality(F)}
         /\ InPlace(F, walk)
<1> DEFINE g == Ranked(F, M, none)
<1>1. PICK c \in Nat : c = Cardinality(F)
  BY FS_CardinalityType
<1>2. PICK l \in Nat : /\ l <= n /\ l <= c /\ l \in {n, c} /\ l = Min({n, c})
  <2>1. Min({n, c}) \in {n, c} /\ \A x \in {n, c} : Min({n, c}) <= x
    BY MinOfNats
  <2> QED BY <2>1
<1>3. ASSUME NEW k \in 1 .. n
      PROVE  /\ k <= c => g[k] \in F /\ Cardinality(Below(F, g[k])) = k - 1
             /\ ~(k <= c) => g[k] = none
  <2>1. k \in 1 .. M + 1
    OBVIOUS
  <2> QED BY <1>1, <2>1, RankedIs
<1>4. {k \in 1 .. n : g[k] # none} = 1 .. l
  <2>1. \A k \in 1 .. n : g[k] # none <=> k <= c
    BY <1>3
  <2> HIDE DEF g
  <2>2. \A k \in 1 .. n : k <= c <=> k <= l
    BY <1>2
  <2>3. \A k \in 1 .. l : k \in 1 .. n
    BY <1>2
  <2> QED BY <2>1, <2>2, <2>3
<1>5. Cardinality(1 .. l) = l
  BY FS_Interval
<1>6. walk = SubSeq(g, 1, l)
  BY <1>4, <1>5 DEF Cut
<1>7. \A k \in 1 .. l : g[k] \in F /\ Cardinality(Below(F, g[k])) = k - 1
  BY <1>2, <1>3
<1> HIDE DEF g
<1>8. /\ walk \in Seq(F) /\ Len(walk) = l /\ \A k \in 1 .. l : walk[k] = g[k]
  BY <1>6, <1>7, SubSeqProperties
<1>9. InPlace(F, walk)
  BY <1>7, <1>8 DEF InPlace
<1> QED BY <1>1, <1>2, <1>8, <1>9

\* A set and its image under a one-to-one function are of the same size.
LEMMA SameSize ==
  ASSUME NEW A, IsFiniteSet(A), NEW B, NEW m \in [A -> B],
         \A x, y \in A : m[x] = m[y] => x = y,
         \A z \in B : \E x \in A : m[x] = z
  PROVE  IsFiniteSet(B) /\ Cardinality(B) = Cardinality(A)
<1>1. m \in Bijection(A, B)
  BY DEF Bijection, Injection, Surjection, IsInjective
<1>2. ExistsBijection(A, B)
  BY <1>1 DEF ExistsBijection
<1> QED BY <1>2, FS_Bijection

\* Renaming the elements summed over does not change the units.
LEMMA UnitsRenamed ==
  ASSUME NEW A, IsFiniteSet(A), NEW C, NEW m \in [A -> C],
         \A x, y \in A : m[x] = m[y] => x = y,
         \A z \in C : \E x \in A : m[x] = z,
         NEW f, NEW g, \A x \in A : f[x] = g[m[x]],
         NEW B \in Nat, \A x \in A : f[x] \in 0 .. B
  PROVE  Cardinality(Units(C, g)) = Cardinality(Units(A, f))
<1> DEFINE U == Units(A, f)
           V == Units(C, g)
           h == [x \in U |-> <<m[x[1]], x[2]>>]
<1>1. IsFiniteSet(U)
  BY UnitsFinite
<1>2. \A x \in U : /\ x[1] \in A /\ x[2] \in Nat /\ x[2] \in 1 .. f[x[1]]
                   /\ x = <<x[1], x[2]>>
  BY DEF Units
<1>3. h \in [U -> V]
  <2>1. ASSUME NEW x \in U PROVE <<m[x[1]], x[2]>> \in V
    BY <1>2 DEF Units
  <2> QED BY <2>1
<1>4. ASSUME NEW x \in U, NEW y \in U, h[x] = h[y] PROVE x = y
  <2>1. m[x[1]] = m[y[1]] /\ x[2] = y[2]
    BY <1>4
  <2>2. x[1] = y[1]
    BY <1>2, <2>1
  <2> QED BY <1>2, <2>1, <2>2
<1>5. ASSUME NEW z \in V PROVE \E x \in U : h[x] = z
  <2>1. z[1] \in C /\ z[2] \in Nat /\ z[2] \in 1 .. g[z[1]] /\ z = <<z[1], z[2]>>
    BY DEF Units
  <2>2. PICK x \in A : m[x] = z[1]
    BY <2>1
  <2>3. <<x, z[2]>> \in U
    BY <2>1, <2>2 DEF Units
  <2>4. h[<<x, z[2]>>] = z
    BY <2>1, <2>2, <2>3
  <2> QED BY <2>3, <2>4
<1> HIDE DEF U, V, h
<1>6. Cardinality(V) = Cardinality(U)
  BY <1>1, <1>3, <1>4, <1>5, SameSize
<1> QED BY <1>6 DEF U, V

\* The recursion of a fold that adds up the numbers r over a set.
SetSums(S, r, g) ==
  [T \in SUBSET S |->
     IF T = {} THEN 0
     ELSE r[CHOOSE x \in T : TRUE] + g[T \ {CHOOSE x \in T : TRUE}]]

\* The recursion has a solution, and every solution counts the units.
LEMMA SetSumsAre ==
  ASSUME NEW S, IsFiniteSet(S), NEW r, NEW B \in Nat, \A x \in S : r[x] \in 0 .. B
  PROVE  /\ \E g : g = SetSums(S, r, g)
         /\ \A g : g = SetSums(S, r, g) => g[S] = Cardinality(Units(S, r))
<1> DEFINE w == [T \in SUBSET S |-> Cardinality(Units(T, r))]
           Pick(T) == CHOOSE x \in T : TRUE
<1>1. \A T \in SUBSET S : IsFiniteSet(T)
  BY FS_Subset
<1>2. ASSUME NEW T \in SUBSET S, T # {}
      PROVE  /\ Pick(T) \in T /\ T \ {Pick(T)} \in SUBSET S
             /\ w[T] = r[Pick(T)] + w[T \ {Pick(T)}]
  <2>1. PICK y \in T : y = Pick(T)
    BY <1>2
  <2>2. /\ Cardinality(Units(T \ {y}, r)) \in Nat
        /\ Cardinality(Units(T, r)) = Cardinality(Units(T \ {y}, r)) + r[y]
    BY <1>1, UnitsSplit
  <2>3. r[y] \in Nat
    OBVIOUS
  <2>4. w[T] = r[y] + w[T \ {y}]
    BY <2>2, <2>3
  <2> QED BY <2>1, <2>4
<1>3. w[{}] = 0
  <2>1. Units({}, r) = {}
    BY DEF Units
  <2> QED BY <2>1, FS_EmptySet
<1>4. w = [T \in SUBSET S |-> w[T]]
  OBVIOUS
<1>5. w[S] = Cardinality(Units(S, r))
  OBVIOUS
<1> HIDE DEF w
<1>6. w = SetSums(S, r, w)
  BY <1>2, <1>3, <1>4 DEF SetSums
<1>7. ASSUME NEW h, h = SetSums(S, r, h)
      PROVE  h[S] = w[S]
  <2>1. h[{}] = 0
    BY <1>7 DEF SetSums
  <2>2. ASSUME NEW T \in SUBSET S, T # {}
        PROVE  h[T] = r[Pick(T)] + h[T \ {Pick(T)}]
    BY <1>7, <2>2 DEF SetSums
  <2> DEFINE Bad == {T \in SUBSET S : h[T] # w[T]}
             Sizes == {Cardinality(T) : T \in Bad}
  <2>3. Bad = {}
    <3> SUFFICES ASSUME Bad # {} PROVE FALSE
      OBVIOUS
    <3>1. Sizes \in SUBSET Nat /\ Sizes # {}
      BY <1>1, FS_CardinalityType
    <3>2. Min(Sizes) \in Sizes /\ \A x \in Sizes : Min(Sizes) <= x
      BY <3>1, MinOfNats
    <3>3. PICK T \in Bad : \A V \in Bad : Cardinality(T) <= Cardinality(V)
      BY <3>2
    <3>4. T \in SUBSET S /\ T # {} /\ h[T] # w[T]
      BY <1>3, <2>1
    <3>5. /\ Pick(T) \in T /\ T \ {Pick(T)} \in SUBSET S
          /\ w[T] = r[Pick(T)] + w[T \ {Pick(T)}]
      BY <1>2, <3>4
    <3>6. /\ Cardinality(T \ {Pick(T)}) = Cardinality(T) - 1
          /\ Cardinality(T) \in Nat
      BY <1>1, <3>4, <3>5, FS_RemoveElement, FS_CardinalityType
    <3>7. h[T \ {Pick(T)}] = w[T \ {Pick(T)}]
      <4>1. ~(Cardinality(T) <= Cardinality(T \ {Pick(T)}))
        BY <3>6
      <4> QED BY <3>3, <3>5, <4>1
    <3>8. h[T] = r[Pick(T)] + h[T \ {Pick(T)}]
      BY <2>2, <3>4
    <3> QED BY <3>4, <3>5, <3>7, <3>8
  <2> QED BY <2>3
<1> QED BY <1>5, <1>6, <1>7
=============================================================================

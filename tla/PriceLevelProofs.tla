-------------------------- MODULE PriceLevelProofs --------------------------
(***************************************************************************)
(* Proofs about the price levels, for every number of levels and orders    *)
(* and every largest quantity.                                             *)
(*                                                                         *)
(* ListsConsistent speaks of what a walk along the pointers meets, which   *)
(* is no induction hypothesis.  ListInv says that each level represents a  *)
(* sequence (Linked): the pointers chain its elements in both directions   *)
(* and its elements are the orders that point at the level.  A walk over   *)
(* such a chain reads the sequence back (WalkReads, BackReads), and each   *)
(* operation turns the chain of s into the chain of Append(s, o) or of s   *)
(* without o.  The aggregate is proved through TotalInv: a sum of natural  *)
(* numbers is the cardinality of a set of units (SummedIs), to which an    *)
(* operation adds, or from which it takes, the units of one order.         *)
(***************************************************************************)
EXTENDS PriceLevel, DataLemmas

\* A sequence without repetition is no longer than the set of orders.
LEMMA InjectiveLen ==
  ASSUME NEW s \in Seq(Orders), IsInjective(s)
  PROVE  Len(s) \in Nat /\ Cardinality(Orders) \in Nat
         /\ Len(s) <= Cardinality(Orders)
<1>1. /\ Len(s) \in Nat /\ s \in [1 .. Len(s) -> Orders]
      /\ DOMAIN s = 1 .. Len(s)
  BY LenProperties
<1>2. s \in Injection(1 .. Len(s), Orders)
  BY <1>1 DEF Injection
<1>3. IsFiniteSet(Orders) /\ Cardinality(Orders) \in Nat
  BY LevelAssumption, FS_CardinalityType
<1>4. Cardinality(1 .. Len(s)) <= Cardinality(Orders)
  BY <1>2, <1>3, FS_Injection
<1>5. Cardinality(1 .. Len(s)) = Len(s)
  BY <1>1, FS_Interval
<1> QED BY <1>1, <1>3, <1>4, <1>5

\* From p the links lead through s and end.
Chained(p, link, s) ==
  /\ p = IF Len(s) = 0 THEN NULL ELSE s[1]
  /\ \A k \in 1 .. Len(s) :
       link[s[k]] = IF k = Len(s) THEN NULL ELSE s[k + 1]

\* One unfolding of the recursion in Nodes.
Along(p, link, f) ==
  [k \in 1 .. Cardinality(Orders) + 1 |->
     IF k = 1 THEN p
     ELSE LET o == f[k - 1] IN IF o = NULL THEN NULL ELSE link[o]]

\* If some function satisfies the recursion, Nodes does.
LEMMA NodesChosen ==
  ASSUME NEW p, NEW link, NEW f, f = Along(p, link, f)
  PROVE  Nodes(p, link) = Along(p, link, Nodes(p, link))
  BY Zenon DEF Nodes, Along

\* Along a chain the nodes are the elements of the sequence, then NULL.
LEMMA NodesAre ==
  ASSUME NEW p, NEW link, NEW s \in Seq(Orders), IsInjective(s),
         Chained(p, link, s)
  PROVE  /\ DOMAIN Nodes(p, link) = 1 .. Cardinality(Orders) + 1
         /\ \A k \in 1 .. Cardinality(Orders) + 1 :
              Nodes(p, link)[k] = IF k <= Len(s) THEN s[k] ELSE NULL
<1>1. PICK n \in Nat, c \in Nat :
        n = Len(s) /\ c = Cardinality(Orders) /\ n <= c
  BY InjectiveLen
<1> DEFINE f == [k \in 1 .. c + 1 |-> IF k <= n THEN s[k] ELSE NULL]
           g == Nodes(p, link)
<1>2. \A k \in 1 .. n : s[k] \in Orders /\ s[k] # NULL
  BY <1>1, LevelAssumption, ElementOfSeq
<1>3. f = Along(p, link, f)
  <2>1. ASSUME NEW k \in 1 .. c + 1
        PROVE  f[k] = IF k = 1 THEN p
                      ELSE IF f[k - 1] = NULL THEN NULL ELSE link[f[k - 1]]
    <3>1. CASE k = 1
      BY <1>1, <3>1 DEF Chained
    <3>2. CASE k # 1
      <4>1. k - 1 \in 1 .. c + 1
        BY <1>1, <3>2
      <4>2. f[k - 1] = IF k - 1 <= n THEN s[k - 1] ELSE NULL
        BY <4>1
      <4>3. CASE k - 1 <= n
        <5>1. k - 1 \in 1 .. n /\ (k - 1) + 1 = k /\ (k - 1 = n <=> ~(k <= n))
          BY <1>1, <4>1, <4>3
        <5>2. f[k - 1] = s[k - 1] /\ f[k - 1] # NULL
          BY <1>2, <4>2, <4>3, <5>1
        <5>3. link[s[k - 1]] = IF k - 1 = n THEN NULL ELSE s[k]
          BY <1>1, <5>1 DEF Chained
        <5> QED BY <3>2, <5>1, <5>2, <5>3
      <4>4. CASE ~(k - 1 <= n)
        <5>1. ~(k <= n)
          BY <1>1, <4>4
        <5> QED BY <3>2, <4>2, <4>4, <5>1
      <4> QED BY <4>3, <4>4
    <3> QED BY <3>1, <3>2
  <2> HIDE DEF f
  <2>2. f = [k \in 1 .. c + 1 |-> f[k]]
    BY DEF f
  <2> QED BY <1>1, <2>1, <2>2 DEF Along
<1>4. g = Along(p, link, g)
  BY <1>3, NodesChosen
<1> HIDE DEF g
<1>8. DOMAIN g = 1 .. c + 1
  BY <1>1, <1>4 DEF Along
<1>5. ASSUME NEW k \in 1 .. c + 1
      PROVE  g[k] = IF k = 1 THEN p
                    ELSE IF g[k - 1] = NULL THEN NULL ELSE link[g[k - 1]]
  BY <1>1, <1>4 DEF Along
<1>6. ASSUME NEW k \in 1 .. c + 1
      PROVE  f[k] = IF k = 1 THEN p
                    ELSE IF f[k - 1] = NULL THEN NULL ELSE link[f[k - 1]]
  BY <1>1, <1>3 DEF Along
<1> DEFINE Bad == {k \in 1 .. c + 1 : g[k] # f[k]}
<1> HIDE DEF f
<1>7. Bad = {}
  <2> SUFFICES ASSUME Bad # {} PROVE FALSE
    OBVIOUS
  <2>1. Bad \in SUBSET Nat
    OBVIOUS
  <2>2. Min(Bad) \in Bad /\ \A x \in Bad : Min(Bad) <= x
    BY <2>1, MinOfNats
  <2>3. PICK m \in 1 .. c + 1 : g[m] # f[m] /\ \A x \in Bad : m <= x
    BY <2>2
  <2>4. m # 1
    BY <1>5, <1>6, <2>3
  <2>5. m - 1 \in 1 .. c + 1 /\ ~(m <= m - 1)
    BY <1>1, <2>3, <2>4
  <2>6. g[m - 1] = f[m - 1]
    BY <2>3, <2>5
  <2> QED BY <1>5, <1>6, <2>3, <2>4, <2>6
<1> QED BY <1>1, <1>7, <1>8 DEF g, f

\* A walk over a chain reads the sequence.
LEMMA WalkReads ==
  ASSUME NEW p, NEW link, NEW s \in Seq(Orders), IsInjective(s),
         Chained(p, link, s)
  PROVE  Walk(p, link) = s
<1>1. PICK n \in Nat, c \in Nat :
        n = Len(s) /\ c = Cardinality(Orders) /\ n <= c
  BY InjectiveLen
<1> DEFINE g == Nodes(p, link)
<1>2. \A k \in 1 .. c + 1 : g[k] = IF k <= n THEN s[k] ELSE NULL
  BY <1>1, NodesAre
<1>3. DOMAIN g = 1 .. c + 1
  BY <1>1, NodesAre
<1>4. \A k \in 1 .. n : s[k] \in Orders /\ s[k] # NULL
  BY <1>1, LevelAssumption, ElementOfSeq
<1>5. Walk(p, link) = SubSeq(g, 1, Cardinality({k \in DOMAIN g : g[k] # NULL}))
  BY DEF Walk
<1> HIDE DEF g
<1>6. {k \in DOMAIN g : g[k] # NULL} = 1 .. n
  BY <1>1, <1>2, <1>3, <1>4
<1>7. Cardinality(1 .. n) = n
  BY FS_Interval
<1>8. \A k \in 1 .. n : g[k] = s[k] /\ g[k] \in Orders
  BY <1>1, <1>2, <1>4
<1>9. /\ SubSeq(g, 1, n) \in Seq(Orders) /\ Len(SubSeq(g, 1, n)) = n
      /\ \A k \in 1 .. n : SubSeq(g, 1, n)[k] = g[k]
  BY <1>8, SubSeqProperties
<1>10. SubSeq(g, 1, n) = s
  BY <1>1, <1>8, <1>9, SeqEqual
<1> QED BY <1>5, <1>6, <1>7, <1>10

\* From p the links lead through s backwards and end.
BackChained(p, link, s) ==
  /\ p = IF Len(s) = 0 THEN NULL ELSE s[Len(s)]
  /\ \A k \in 1 .. Len(s) : link[s[k]] = IF k = 1 THEN NULL ELSE s[k - 1]

\* The reverse of a sequence.
LEMMA ReverseProps ==
  ASSUME NEW s \in Seq(Orders)
  PROVE  /\ Reverse(s) \in Seq(Orders) /\ Len(Reverse(s)) = Len(s)
         /\ \A k \in 1 .. Len(s) : Reverse(s)[k] = s[Len(s) - k + 1]
<1>1. PICK n \in Nat : n = Len(s)
  BY LenProperties
<1>2. \A k \in 1 .. n : (n - k) + 1 \in 1 .. n
  BY <1>1
<1>3. \A k \in 1 .. n : s[(n - k) + 1] \in Orders
  BY <1>1, <1>2, ElementOfSeq
<1>4. Reverse(s) = [k \in 1 .. n |-> s[(n - k) + 1]]
  BY <1>1 DEF Reverse
<1>5. Reverse(s) \in [1 .. n -> Orders]
  BY <1>3, <1>4
<1>6. Reverse(s) \in Seq(Orders) /\ Len(Reverse(s)) = n
  BY <1>4, <1>5, LenProperties, SeqDef
<1> QED BY <1>1, <1>4, <1>6

\* A walk over a backward chain reads the reverse.
LEMMA BackReads ==
  ASSUME NEW p, NEW link, NEW s \in Seq(Orders), IsInjective(s),
         BackChained(p, link, s)
  PROVE  Walk(p, link) = Reverse(s)
<1>1. PICK n \in Nat : n = Len(s)
  BY LenProperties
<1> DEFINE r == Reverse(s)
<1>2. /\ r \in Seq(Orders) /\ Len(r) = n
      /\ \A k \in 1 .. n : r[k] = s[n - k + 1]
  BY <1>1, ReverseProps
<1> HIDE DEF r
<1>3. DOMAIN r = 1 .. n /\ DOMAIN s = 1 .. n
  BY <1>1, <1>2, LenProperties
<1>4. IsInjective(r)
  <2> SUFFICES ASSUME NEW a \in 1 .. n, NEW b \in 1 .. n, r[a] = r[b]
               PROVE  a = b
    BY <1>3 DEF IsInjective
  <2>0. n - a + 1 \in 1 .. n /\ n - b + 1 \in 1 .. n
    OBVIOUS
  <2>1. PICK u \in 1 .. n, v \in 1 .. n : u = n - a + 1 /\ v = n - b + 1
    BY <2>0, Zenon
  <2>2. s[u] = s[v]
    BY <1>2, <2>1
  <2>3. u = v
    BY <1>3, <2>2 DEF IsInjective
  <2> QED BY <2>1, <2>3
<1>5. Chained(p, link, r)
  <2>1. p = IF n = 0 THEN NULL ELSE r[1]
    BY <1>1, <1>2 DEF BackChained
  <2>2. ASSUME NEW k \in 1 .. n
        PROVE  link[r[k]] = IF k = n THEN NULL ELSE r[k + 1]
    <3>0. n - k + 1 \in 1 .. n
      OBVIOUS
    <3>1. PICK u \in 1 .. n : u = n - k + 1
      BY <3>0, Zenon
    <3>2. r[k] = s[u] /\ link[s[u]] = IF u = 1 THEN NULL ELSE s[u - 1]
      BY <1>1, <1>2, <3>1 DEF BackChained
    <3>3. u = 1 <=> k = n
      BY <3>1
    <3>4. k # n => r[k + 1] = s[u - 1]
      <4> HAVE k # n
      <4>1. k + 1 \in 1 .. n /\ n - (k + 1) + 1 = u - 1
        BY <3>1
      <4> QED BY <1>2, <4>1
    <3> QED BY <3>2, <3>3, <3>4
  <2> QED BY <1>2, <2>1, <2>2 DEF Chained
<1> QED BY <1>2, <1>4, <1>5, WalkReads DEF r

\* Linking o behind the last element, forward links.
LEMMA ChainAppend ==
  ASSUME NEW s \in Seq(Orders), NEW o \in Orders, NEW p, NEW q,
         NEW link, NEW new, Chained(p, link, s),
         q = IF Len(s) = 0 THEN o ELSE p, new[o] = NULL,
         \A k \in 1 .. Len(s) :
           new[s[k]] = IF k = Len(s) THEN o ELSE link[s[k]]
  PROVE  Chained(q, new, Append(s, o))
<1>1. PICK n \in Nat : n = Len(s)
  BY LenProperties
<1> DEFINE r == Append(s, o)
<1>2. /\ Len(r) = n + 1 /\ r[n + 1] = o
      /\ \A k \in 1 .. n : r[k] = s[k]
  BY <1>1, AppendProperties
<1> HIDE DEF r
<1>3. q = r[1]
  BY <1>1, <1>2 DEF Chained
<1>4. ASSUME NEW k \in 1 .. n + 1
      PROVE  new[r[k]] = IF k = n + 1 THEN NULL ELSE r[k + 1]
  <2>1. CASE k = n + 1
    BY <1>2, <2>1
  <2>2. CASE k = n /\ n # 0
    BY <1>1, <1>2, <2>2
  <2>3. CASE k \in 1 .. n - 1
    <3>1. k \in 1 .. n /\ k + 1 \in 1 .. n /\ k # n /\ k # n + 1
      BY <2>3
    <3>2. new[s[k]] = s[k + 1]
      BY <1>1, <3>1 DEF Chained
    <3> QED BY <1>2, <3>1, <3>2
  <2> QED BY <2>1, <2>2, <2>3
<1> QED BY <1>1, <1>2, <1>3, <1>4 DEF Chained, r

\* Linking o behind the last element, backward links.
LEMMA BackAppend ==
  ASSUME NEW s \in Seq(Orders), NEW o \in Orders, NEW p,
         NEW link, NEW new, BackChained(p, link, s),
         new[o] = p, \A k \in 1 .. Len(s) : new[s[k]] = link[s[k]]
  PROVE  BackChained(o, new, Append(s, o))
<1>1. PICK n \in Nat : n = Len(s)
  BY LenProperties
<1> DEFINE r == Append(s, o)
<1>2. /\ Len(r) = n + 1 /\ r[n + 1] = o
      /\ \A k \in 1 .. n : r[k] = s[k]
  BY <1>1, AppendProperties
<1> HIDE DEF r
<1>4. ASSUME NEW k \in 1 .. n + 1
      PROVE  new[r[k]] = IF k = 1 THEN NULL ELSE r[k - 1]
  <2>1. CASE k = n + 1
    BY <1>1, <1>2, <2>1 DEF BackChained
  <2>2. CASE k \in 1 .. n
    <3>1. k = 1 \/ (k - 1 \in 1 .. n /\ k # 1)
      BY <2>2
    <3>2. new[s[k]] = IF k = 1 THEN NULL ELSE s[k - 1]
      BY <1>1, <2>2 DEF BackChained
    <3> QED BY <1>2, <2>2, <3>1, <3>2
  <2> QED BY <2>1, <2>2
<1> QED BY <1>1, <1>2, <1>4 DEF BackChained, r

\* Bridging the k-th element, forward links.
LEMMA ChainRemove ==
  ASSUME NEW s \in Seq(Orders), NEW k \in 1 .. Len(s), NEW p, NEW q,
         NEW link, NEW new, Chained(p, link, s),
         q = IF k = 1 THEN link[s[k]] ELSE p,
         \A j \in 1 .. Len(s) : j # k =>
           new[s[j]] = IF j + 1 = k THEN link[s[k]] ELSE link[s[j]]
  PROVE  Chained(q, new, RemoveAt(s, k))
<1>1. PICK n \in Nat : n = Len(s) /\ k \in 1 .. n
  BY LenProperties
<1> DEFINE r == RemoveAt(s, k)
<1>2. /\ Len(r) = n - 1
      /\ \A j \in 1 .. n - 1 : r[j] = IF j < k THEN s[j] ELSE s[j + 1]
  BY <1>1, RemoveAtProps
<1> HIDE DEF r
<1>0. \A j \in 1 .. n : link[s[j]] = IF j = n THEN NULL ELSE s[j + 1]
  BY <1>1 DEF Chained
<1>3. q = IF n - 1 = 0 THEN NULL ELSE r[1]
  BY <1>1, <1>2, <1>0 DEF Chained
<1>4. ASSUME NEW j \in 1 .. n - 1
      PROVE  new[r[j]] = IF j = n - 1 THEN NULL ELSE r[j + 1]
  <2>1. CASE j + 1 < k
    <3>1. j \in 1 .. n /\ j # k /\ j # n /\ j + 1 # k /\ j # n - 1 /\ j < k
          /\ j + 1 \in 1 .. n - 1
      BY <1>1, <2>1
    <3>2. new[s[j]] = s[j + 1]
      BY <1>1, <1>0, <3>1
    <3> QED BY <1>2, <2>1, <3>1, <3>2
  <2>2. CASE j + 1 = k
    <3>1. j \in 1 .. n /\ j # k /\ j < k /\ ~(j + 1 < k)
          /\ (j = n - 1 <=> k = n) /\ j + 1 = k
      BY <1>1, <2>2
    <3>2. new[s[j]] = IF k = n THEN NULL ELSE s[k + 1]
      BY <1>1, <1>0, <3>1
    <3>3. k # n => r[k] = s[k + 1]
      BY <1>1, <1>2
    <3> QED BY <1>2, <3>1, <3>2, <3>3
  <2>3. CASE j + 1 > k
    <3>1. /\ j + 1 \in 1 .. n /\ j + 1 # k /\ (j + 1) + 1 # k /\ ~(j < k)
          /\ ~(j + 1 < k) /\ (j = n - 1 <=> j + 1 = n)
          /\ (j # n - 1 => j + 1 \in 1 .. n - 1)
      BY <1>1, <2>3
    <3>2. new[s[j + 1]] = IF j + 1 = n THEN NULL ELSE s[(j + 1) + 1]
      BY <1>1, <1>0, <3>1
    <3> QED BY <1>2, <3>1, <3>2
  <2> QED BY <1>1, <2>1, <2>2, <2>3
<1> QED BY <1>1, <1>2, <1>3, <1>4 DEF Chained, r

\* Bridging the k-th element, backward links.
LEMMA BackRemove ==
  ASSUME NEW s \in Seq(Orders), NEW k \in 1 .. Len(s), NEW p, NEW q,
         NEW link, NEW new, BackChained(p, link, s),
         q = IF k = Len(s) THEN link[s[k]] ELSE p,
         \A j \in 1 .. Len(s) : j # k =>
           new[s[j]] = IF j = k + 1 THEN link[s[k]] ELSE link[s[j]]
  PROVE  BackChained(q, new, RemoveAt(s, k))
<1>1. PICK n \in Nat : n = Len(s) /\ k \in 1 .. n
  BY LenProperties
<1> DEFINE r == RemoveAt(s, k)
<1>2. /\ Len(r) = n - 1
      /\ \A j \in 1 .. n - 1 : r[j] = IF j < k THEN s[j] ELSE s[j + 1]
  BY <1>1, RemoveAtProps
<1> HIDE DEF r
<1>0. \A j \in 1 .. n : link[s[j]] = IF j = 1 THEN NULL ELSE s[j - 1]
  BY <1>1 DEF BackChained
<1>3. q = IF n - 1 = 0 THEN NULL ELSE r[n - 1]
  BY <1>1, <1>2, <1>0 DEF BackChained
<1>4. ASSUME NEW j \in 1 .. n - 1
      PROVE  new[r[j]] = IF j = 1 THEN NULL ELSE r[j - 1]
  <2>1. CASE j < k
    <3>1. j \in 1 .. n /\ j # k /\ j # k + 1 /\ j - 1 < k
          /\ (j # 1 => j - 1 \in 1 .. n - 1)
      BY <1>1, <2>1
    <3>2. new[s[j]] = IF j = 1 THEN NULL ELSE s[j - 1]
      BY <1>1, <1>0, <3>1
    <3> QED BY <1>2, <2>1, <3>1, <3>2
  <2>2. CASE j = k
    <3>1. j + 1 \in 1 .. n /\ j + 1 # k /\ j + 1 = k + 1 /\ ~(j < k)
          /\ j - 1 < k /\ (j # 1 => j - 1 \in 1 .. n - 1)
      BY <1>1, <2>2
    <3>2. new[s[j + 1]] = IF k = 1 THEN NULL ELSE s[k - 1]
      BY <1>1, <1>0, <3>1
    <3> QED BY <1>2, <2>2, <3>1, <3>2
  <2>3. CASE j > k
    <3>1. /\ j + 1 \in 1 .. n /\ j + 1 # k /\ j + 1 # k + 1 /\ ~(j < k)
          /\ ~(j - 1 < k) /\ j # 1 /\ j - 1 \in 1 .. n - 1 /\ (j - 1) + 1 = j
          /\ (j + 1) - 1 = j /\ j + 1 # 1
      BY <1>1, <2>3
    <3>2. new[s[j + 1]] = s[j]
      BY <1>1, <1>0, <3>1
    <3> QED BY <1>2, <3>1, <3>2
  <2> QED BY <1>1, <2>1, <2>2, <2>3
<1> QED BY <1>1, <1>2, <1>3, <1>4 DEF BackChained, r

\* A header and links that represent s.
ListOf(s, head, tail, n, next, previous) ==
  /\ s \in Seq(Orders) /\ IsInjective(s) /\ n = Len(s)
  /\ Chained(head, next, s)
  /\ BackChained(tail, previous, s)

\* Level l represents s, and s holds exactly the orders that point at l.
Linked(l, s) ==
  /\ ListOf(s, headOrder[l], tailOrder[l], count[l], nextOrder, previousOrder)
  /\ \A o \in Orders : priceLevel[o] = l <=> \E k \in 1 .. Len(s) : s[k] = o

\* Types of the links.
LinkTypes ==
  /\ nextOrder \in [Orders -> Orders \cup {NULL}]
  /\ previousOrder \in [Orders -> Orders \cup {NULL}]
  /\ priceLevel \in [Orders -> Levels \cup {NULL}]
  /\ headOrder \in [Levels -> Orders \cup {NULL}]
  /\ tailOrder \in [Levels -> Orders \cup {NULL}]
  /\ count \in [Levels -> Nat]

\* Inductive invariant of the lists: every level represents some sequence, and an
\* order in no level has no links.
ListInv ==
  /\ LinkTypes
  /\ \A l \in Levels : \E s \in Seq(Orders) : Linked(l, s)
  /\ \A o \in Orders : priceLevel[o] = NULL =>
       previousOrder[o] = NULL /\ nextOrder[o] = NULL

\* Such a list reads the same from both ends.
LEMMA ListReads ==
  ASSUME NEW s, NEW head, NEW tail, NEW n, NEW next, NEW previous,
         ListOf(s, head, tail, n, next, previous)
  PROVE  Walk(head, next) = s /\ Walk(tail, previous) = Reverse(s)
  BY WalkReads, BackReads DEF ListOf

\* Elements of a represented sequence.
LEMMA ListFacts ==
  ASSUME NEW l \in Levels, NEW s, Linked(l, s)
  PROVE  /\ s \in Seq(Orders) /\ Len(s) \in Nat /\ DOMAIN s = 1 .. Len(s)
         /\ \A k \in 1 .. Len(s) : s[k] \in Orders /\ s[k] # NULL
         /\ \A j, k \in 1 .. Len(s) : s[j] = s[k] => j = k
         /\ \A k \in 1 .. Len(s) : priceLevel[s[k]] = l
<1>1. s \in Seq(Orders) /\ IsInjective(s)
  BY DEF Linked, ListOf
<1>2. Len(s) \in Nat /\ DOMAIN s = 1 .. Len(s)
  BY <1>1, LenProperties
<1>3. \A k \in 1 .. Len(s) : s[k] \in Orders /\ s[k] # NULL
  BY <1>1, LevelAssumption, ElementOfSeq
<1>4. \A j, k \in 1 .. Len(s) : s[j] = s[k] => j = k
  BY <1>1, <1>2 DEF IsInjective
<1>5. \A k \in 1 .. Len(s) : priceLevel[s[k]] = l
  BY <1>3 DEF Linked
<1> QED BY <1>1, <1>2, <1>3, <1>4, <1>5

\* A chain depends only on the links of its elements.
LEMMA ChainKept ==
  ASSUME NEW s, NEW p, NEW link, NEW new,
         \A k \in 1 .. Len(s) : new[s[k]] = link[s[k]]
  PROVE  /\ Chained(p, link, s) => Chained(p, new, s)
         /\ BackChained(p, link, s) => BackChained(p, new, s)
  BY DEF Chained, BackChained

\* A level whose header and orders are not touched represents the same sequence.
LEMMA OtherKept ==
  ASSUME NEW m \in Levels, NEW t, Linked(m, t), LinkTypes,
         headOrder'[m] = headOrder[m], tailOrder'[m] = tailOrder[m],
         count'[m] = count[m],
         \A o \in Orders : priceLevel'[o] = m <=> priceLevel[o] = m,
         \A k \in 1 .. Len(t) : /\ nextOrder'[t[k]] = nextOrder[t[k]]
                                /\ previousOrder'[t[k]] = previousOrder[t[k]]
  PROVE  Linked(m, t)'
<1>1. /\ t \in Seq(Orders) /\ IsInjective(t) /\ count'[m] = Len(t)
      /\ Chained(headOrder'[m], nextOrder, t)
      /\ BackChained(tailOrder'[m], previousOrder, t)
  BY DEF Linked, ListOf
<1>2. Chained(headOrder'[m], nextOrder', t)
  BY <1>1, ChainKept
<1>3. BackChained(tailOrder'[m], previousOrder', t)
  BY <1>1, ChainKept
<1>4. \A o \in Orders : priceLevel'[o] = m <=> \E k \in 1 .. Len(t) : t[k] = o
  BY DEF Linked
<1> QED BY <1>1, <1>2, <1>3, <1>4 DEF Linked, ListOf

\* addOrder appends to one level and keeps the others.
LEMMA LinkLastLists ==
  ASSUME LinkTypes, NEW l \in Levels, NEW o \in Orders, LinkLast(l, o),
         priceLevel[o] = NULL, NEW s, Linked(l, s)
  PROVE  /\ Linked(l, Append(s, o))'
         /\ \A m \in Levels, t \in Seq(Orders) :
              m # l /\ Linked(m, t) => Linked(m, t)'
<1> DEFINE last == tailOrder[l]
<1>0. /\ s \in Seq(Orders) /\ Len(s) \in Nat /\ DOMAIN s = 1 .. Len(s)
      /\ \A k \in 1 .. Len(s) : s[k] \in Orders /\ s[k] # NULL
      /\ \A j, k \in 1 .. Len(s) : s[j] = s[k] => j = k
      /\ \A k \in 1 .. Len(s) : priceLevel[s[k]] = l
  BY ListFacts
<1>1. PICK n \in Nat : n = Len(s)
  BY <1>0
<1>2. last = IF n = 0 THEN NULL ELSE s[n]
  BY <1>1 DEF Linked, ListOf, BackChained
<1>3. l # NULL /\ o # NULL
  BY LevelAssumption
<1>4. \A k \in 1 .. n : s[k] # o
  BY <1>0, <1>1, <1>3
<1>5. n # 0 => n \in 1 .. n
  OBVIOUS
<1>6. last # NULL => last \in Orders /\ last # o
  BY <1>0, <1>1, <1>2, <1>4, <1>5
<1>7. \A x \in Orders : nextOrder'[x] = IF x = last THEN o
                                        ELSE IF x = o THEN NULL ELSE nextOrder[x]
  <2>1. CASE last = NULL
    BY <2>1, LevelAssumption DEF LinkLast, Store, LinkTypes
  <2>2. CASE last # NULL
    BY <1>6, <2>2 DEF LinkLast, Store, LinkTypes
  <2> QED BY <2>1, <2>2
<1>8. \A x \in Orders :
        previousOrder'[x] = IF x = o THEN last ELSE previousOrder[x]
  BY DEF LinkLast, LinkTypes
<1>9. \A x \in Orders : priceLevel'[x] = IF x = o THEN l ELSE priceLevel[x]
  BY DEF LinkLast, LinkTypes
<1>10. \A m \in Levels :
         /\ headOrder'[m] = IF m = l /\ last = NULL THEN o ELSE headOrder[m]
         /\ tailOrder'[m] = IF m = l THEN o ELSE tailOrder[m]
         /\ count'[m] = IF m = l THEN count[m] + 1 ELSE count[m]
  BY DEF LinkLast, LinkTypes
<1> HIDE DEF last
<1>11. Linked(l, Append(s, o))'
  <2> DEFINE r == Append(s, o)
  <2>1. /\ r \in Seq(Orders) /\ Len(r) = n + 1 /\ r[n + 1] = o
        /\ \A k \in 1 .. n : r[k] = s[k]
    BY <1>0, <1>1, AppendProperties
  <2>2. DOMAIN r = 1 .. n + 1
    BY <2>1, LenProperties
  <2> HIDE DEF r
  <2>3. IsInjective(r)
    <3> SUFFICES ASSUME NEW a \in 1 .. n + 1, NEW b \in 1 .. n + 1, r[a] = r[b]
                 PROVE  a = b
      BY <2>2 DEF IsInjective
    <3>1. (a \in 1 .. n \/ a = n + 1) /\ (b \in 1 .. n \/ b = n + 1)
      OBVIOUS
    <3> QED BY <1>0, <1>1, <1>4, <2>1, <3>1
  <2>4. Chained(headOrder'[l], nextOrder', r)
    <3>1. Chained(headOrder[l], nextOrder, s)
      BY DEF Linked, ListOf
    <3>2. headOrder'[l] = IF Len(s) = 0 THEN o ELSE headOrder[l]
      BY <1>0, <1>1, <1>2, <1>5, <1>10
    <3>3. nextOrder'[o] = NULL
      BY <1>6, <1>3, <1>7
    <3>4. ASSUME NEW k \in 1 .. Len(s)
          PROVE  nextOrder'[s[k]] = IF k = Len(s) THEN o ELSE nextOrder[s[k]]
      <4>1. s[k] \in Orders /\ s[k] # o /\ n # 0 /\ n \in 1 .. n
        BY <1>0, <1>1, <1>4
      <4>2. s[k] = last <=> k = n
        BY <1>0, <1>1, <1>2, <4>1
      <4> QED BY <1>1, <1>7, <4>1, <4>2
    <3> QED BY <1>0, <3>1, <3>2, <3>3, <3>4, ChainAppend DEF r
  <2>5. BackChained(tailOrder'[l], previousOrder', r)
    <3>1. BackChained(last, previousOrder, s)
      BY DEF Linked, ListOf, last
    <3>2. previousOrder'[o] = last /\ tailOrder'[l] = o
      BY <1>8, <1>10
    <3>3. \A k \in 1 .. Len(s) : previousOrder'[s[k]] = previousOrder[s[k]]
      BY <1>0, <1>1, <1>4, <1>8
    <3>4. BackChained(o, previousOrder', r)
      BY <1>0, <3>1, <3>2, <3>3, BackAppend DEF r
    <3> QED BY <3>2, <3>4
  <2>6. count'[l] = Len(r)
    BY <1>1, <1>10, <2>1 DEF Linked, ListOf
  <2>7. ASSUME NEW x \in Orders
        PROVE  priceLevel'[x] = l <=> \E k \in 1 .. Len(r) : r[k] = x
    <3>1. priceLevel[x] = l <=> \E k \in 1 .. n : s[k] = x
      BY <1>1 DEF Linked
    <3>2. n + 1 \in 1 .. n + 1 /\ \A k \in 1 .. n : k \in 1 .. n + 1
      OBVIOUS
    <3>3. \A k \in 1 .. n + 1 : k \in 1 .. n \/ k = n + 1
      OBVIOUS
    <3> QED BY <1>9, <2>1, <3>1, <3>2, <3>3
  <2> QED BY <2>1, <2>3, <2>4, <2>5, <2>6, <2>7 DEF Linked, ListOf, r
<1>12. ASSUME NEW m \in Levels, NEW t \in Seq(Orders), m # l, Linked(m, t)
       PROVE  Linked(m, t)'
  <2>1. \A k \in 1 .. Len(t) : t[k] \in Orders /\ priceLevel[t[k]] = m
    BY <1>12, ListFacts
  <2>2. ASSUME NEW k \in 1 .. Len(t)
        PROVE  t[k] \in Orders /\ t[k] # o /\ t[k] # last
    <3>1. m # NULL
      BY LevelAssumption
    <3>2. last # NULL => priceLevel[last] = l
      BY <1>0, <1>1, <1>2, <1>5
    <3> QED BY <1>12, <2>1, <3>1, <3>2, LevelAssumption
  <2>3. \A k \in 1 .. Len(t) : /\ nextOrder'[t[k]] = nextOrder[t[k]]
                               /\ previousOrder'[t[k]] = previousOrder[t[k]]
    BY <1>7, <1>8, <2>2
  <2>4. \A x \in Orders : priceLevel'[x] = m <=> priceLevel[x] = m
    BY <1>9, <1>12, LevelAssumption
  <2>5. /\ headOrder'[m] = headOrder[m] /\ tailOrder'[m] = tailOrder[m]
        /\ count'[m] = count[m]
    BY <1>10, <1>12
  <2> QED BY <1>12, <2>3, <2>4, <2>5, OtherKept
<1> QED BY <1>11, <1>12

\* removeOrder takes the order out of its level, wherever it stands, and keeps the
\* others.
LEMMA UnlinkLists ==
  ASSUME LinkTypes, NEW l \in Levels, NEW o \in Orders, RemoveOrder(l, o),
         priceLevel[o] = l, NEW s, Linked(l, s)
  PROVE  /\ \E k \in 1 .. Len(s) : s[k] = o
         /\ Linked(l, RemoveFirst(s, o))'
         /\ previousOrder'[o] = NULL /\ nextOrder'[o] = NULL
         /\ \A m \in Levels, t \in Seq(Orders) :
              m # l /\ Linked(m, t) => Linked(m, t)'
<1> DEFINE p == previousOrder[o]
           q == nextOrder[o]
<1>0. /\ s \in Seq(Orders) /\ Len(s) \in Nat /\ DOMAIN s = 1 .. Len(s)
      /\ \A k \in 1 .. Len(s) : s[k] \in Orders /\ s[k] # NULL
      /\ \A j, k \in 1 .. Len(s) : s[j] = s[k] => j = k
      /\ \A k \in 1 .. Len(s) : priceLevel[s[k]] = l
  BY ListFacts
<1>00. \E k \in 1 .. Len(s) : s[k] = o
  BY DEF Linked
<1>01. PICK n \in Nat : n = Len(s)
  BY <1>0
<1>02. PICK k \in 1 .. n : s[k] = o /\ RemoveFirst(s, o) = RemoveAt(s, k)
  BY <1>0, <1>00, <1>01, RemoveFirstAt
<1>1. n = Len(s) /\ s[k] = o /\ RemoveFirst(s, o) = RemoveAt(s, k)
  BY <1>01, <1>02
<1>2. p = IF k = 1 THEN NULL ELSE s[k - 1]
  BY <1>1 DEF Linked, ListOf, BackChained
<1>3. q = IF k = n THEN NULL ELSE s[k + 1]
  BY <1>1 DEF Linked, ListOf, Chained
<1>4. (k # 1 => k - 1 \in 1 .. n) /\ (k # n => k + 1 \in 1 .. n)
  BY <1>1
<1>5. /\ (p = NULL <=> k = 1) /\ (p # NULL => p \in Orders /\ p # o)
      /\ (q = NULL <=> k = n) /\ (q # NULL => q \in Orders /\ q # o)
  <2>1. k - 1 # k /\ k + 1 # k
    BY <1>1
  <2> QED BY <1>0, <1>1, <1>2, <1>3, <1>4, <2>1
<1>6. /\ p # NULL => priceLevel[p] = l
      /\ q # NULL => priceLevel[q] = l
  BY <1>0, <1>1, <1>2, <1>3, <1>4
<1>7. \A x \in Orders : nextOrder'[x] = IF x = o THEN NULL
                                        ELSE IF x = p THEN q ELSE nextOrder[x]
  <2>1. CASE p = NULL
    BY <2>1, LevelAssumption DEF RemoveOrder, Store, LinkTypes
  <2>2. CASE p # NULL
    BY <1>5, <2>2 DEF RemoveOrder, Store, LinkTypes
  <2> QED BY <2>1, <2>2
<1>8. \A x \in Orders : previousOrder'[x] = IF x = o THEN NULL
                                    ELSE IF x = q THEN p ELSE previousOrder[x]
  <2>1. CASE q = NULL
    BY <2>1, LevelAssumption DEF RemoveOrder, Store, LinkTypes
  <2>2. CASE q # NULL
    BY <1>5, <2>2 DEF RemoveOrder, Store, LinkTypes
  <2> QED BY <2>1, <2>2
<1>9. \A x \in Orders : priceLevel'[x] = IF x = o THEN NULL ELSE priceLevel[x]
  BY DEF RemoveOrder, LinkTypes
<1>10. \A m \in Levels :
         /\ headOrder'[m] = IF m = l /\ p = NULL THEN q ELSE headOrder[m]
         /\ tailOrder'[m] = IF m = l /\ q = NULL THEN p ELSE tailOrder[m]
         /\ count'[m] = IF m = l THEN count[m] - 1 ELSE count[m]
  BY DEF RemoveOrder, LinkTypes
<1>11. Linked(l, RemoveFirst(s, o))'
  <2> DEFINE r == RemoveAt(s, k)
  <2>0. k \in 1 .. Len(s) /\ s \in Seq(Orders)
    BY <1>0, <1>1
  <2>1. /\ r \in Seq(Orders) /\ Len(r) = n - 1
        /\ \A j \in 1 .. n - 1 : r[j] = IF j < k THEN s[j] ELSE s[j + 1]
    BY ONLY <1>1, <2>0, RemoveAtProps
  <2>2. DOMAIN r = 1 .. n - 1
    BY <2>1, LenProperties
  <2> HIDE DEF r
  <2>3. IsInjective(r)
    <3> SUFFICES ASSUME NEW a \in 1 .. n - 1, NEW b \in 1 .. n - 1, r[a] = r[b]
                 PROVE  a = b
      BY <2>2 DEF IsInjective
    <3>1. a \in 1 .. n /\ a + 1 \in 1 .. n /\ b \in 1 .. n /\ b + 1 \in 1 .. n
      OBVIOUS
    <3>2. CASE a < k /\ b < k
      BY <1>0, <1>1, <2>1, <3>1, <3>2
    <3>3. CASE a < k /\ ~(b < k)
      <4>1. s[a] = s[b + 1]
        BY <2>1, <3>3
      <4>2. a = b + 1
        BY <1>0, <1>1, <3>1, <4>1
      <4> QED BY <3>3, <4>2
    <3>4. CASE ~(a < k) /\ b < k
      <4>1. s[a + 1] = s[b]
        BY <2>1, <3>4
      <4>2. a + 1 = b
        BY <1>0, <1>1, <3>1, <4>1
      <4> QED BY <3>4, <4>2
    <3>5. CASE ~(a < k) /\ ~(b < k)
      <4>1. s[a + 1] = s[b + 1]
        BY <2>1, <3>5
      <4>2. a + 1 = b + 1
        BY <1>0, <1>1, <3>1, <4>1
      <4> QED BY <4>2
    <3> QED BY <3>2, <3>3, <3>4, <3>5
  <2>4. Chained(headOrder'[l], nextOrder', r)
    <3>1. Chained(headOrder[l], nextOrder, s) /\ nextOrder[s[k]] = q
      BY <1>1 DEF Linked, ListOf
    <3>2. headOrder'[l] = IF k = 1 THEN nextOrder[s[k]] ELSE headOrder[l]
      BY <1>1, <1>5, <1>10
    <3>3. ASSUME NEW j \in 1 .. Len(s), j # k
          PROVE  nextOrder'[s[j]] = IF j + 1 = k THEN nextOrder[s[k]]
                                    ELSE nextOrder[s[j]]
      <4>1. s[j] \in Orders /\ s[j] # o
        BY <1>0, <1>1, <3>3
      <4>2. s[j] = p <=> j + 1 = k
        <5>1. CASE k = 1
          <6>1. j + 1 # k
            BY <1>1, <5>1
          <6> QED BY <1>0, <1>2, <5>1, <6>1
        <5>2. CASE k # 1
          <6>1. s[j] = s[k - 1] <=> j = k - 1
            BY <1>0, <1>1, <1>4, <5>2
          <6>2. j = k - 1 <=> j + 1 = k
            BY <1>1
          <6> QED BY <1>2, <5>2, <6>1, <6>2
        <5> QED BY <5>1, <5>2
      <4> QED BY <1>1, <1>7, <4>1, <4>2
    <3> QED BY <1>0, <1>1, <3>1, <3>2, <3>3, ChainRemove DEF r
  <2>5. BackChained(tailOrder'[l], previousOrder', r)
    <3>1. BackChained(tailOrder[l], previousOrder, s) /\ previousOrder[s[k]] = p
      BY <1>1 DEF Linked, ListOf
    <3>2. tailOrder'[l] = IF k = Len(s) THEN previousOrder[s[k]] ELSE tailOrder[l]
      BY <1>1, <1>5, <1>10
    <3>3. ASSUME NEW j \in 1 .. Len(s), j # k
          PROVE  previousOrder'[s[j]] = IF j = k + 1 THEN previousOrder[s[k]]
                                        ELSE previousOrder[s[j]]
      <4>1. s[j] \in Orders /\ s[j] # o
        BY <1>0, <1>1, <3>3
      <4>2. s[j] = q <=> j = k + 1
        <5>1. CASE k = n
          <6>1. j # k + 1
            BY <1>1, <5>1
          <6> QED BY <1>0, <1>3, <5>1, <6>1
        <5>2. CASE k # n
          BY <1>0, <1>1, <1>3, <1>4, <5>2
        <5> QED BY <5>1, <5>2
      <4> QED BY <1>1, <1>8, <4>1, <4>2
    <3> QED BY <1>0, <1>1, <3>1, <3>2, <3>3, BackRemove DEF r
  <2>6. count'[l] = Len(r)
    BY <1>1, <1>10, <2>1 DEF Linked, ListOf
  <2>7. ASSUME NEW x \in Orders
        PROVE  priceLevel'[x] = l <=> \E j \in 1 .. Len(r) : r[j] = x
    <3>1. priceLevel[x] = l <=> \E j \in 1 .. n : s[j] = x
      BY <1>1 DEF Linked
    <3>2. l # NULL
      BY LevelAssumption
    <3>3. ASSUME NEW j \in 1 .. n - 1 PROVE r[j] # o
      <4>1. /\ j \in 1 .. n /\ j + 1 \in 1 .. n /\ (j < k => j # k)
            /\ (~(j < k) => j + 1 # k)
        BY <1>1
      <4> QED BY <1>0, <1>1, <2>1, <4>1
    <3>4. ASSUME NEW j \in 1 .. n, j # k, s[j] = x
          PROVE  \E i \in 1 .. n - 1 : r[i] = x
      <4>1. CASE j < k
        <5>1. j \in 1 .. n - 1
          BY <1>1, <4>1
        <5> QED BY <2>1, <3>4, <4>1, <5>1
      <4>2. CASE j > k
        <5>1. j - 1 \in 1 .. n - 1 /\ ~(j - 1 < k) /\ (j - 1) + 1 = j
          BY <1>1, <4>2
        <5>2. r[j - 1] = x
          BY <2>1, <3>4, <5>1
        <5> QED BY <5>1, <5>2
      <4> QED BY <1>1, <3>4, <4>1, <4>2
    <3>5. ASSUME NEW j \in 1 .. n - 1, r[j] = x
          PROVE  \E i \in 1 .. n : s[i] = x
      <4>1. j \in 1 .. n /\ j + 1 \in 1 .. n
        BY <1>1
      <4> QED BY <2>1, <3>5, <4>1
    <3>6. x = o => ~(priceLevel'[x] = l)
      BY <1>9, <3>2
    <3>7. x # o => \A j \in 1 .. n : s[j] = x => j # k
      BY <1>1
    <3> QED BY <1>9, <2>1, <3>1, <3>3, <3>4, <3>5, <3>6, <3>7
  <2> QED BY <1>1, <2>1, <2>3, <2>4, <2>5, <2>6, <2>7 DEF Linked, ListOf, r
<1>12. ASSUME NEW m \in Levels, NEW t \in Seq(Orders), m # l, Linked(m, t)
       PROVE  Linked(m, t)'
  <2>1. \A j \in 1 .. Len(t) : t[j] \in Orders /\ priceLevel[t[j]] = m
    BY <1>12, ListFacts
  <2>2. ASSUME NEW j \in 1 .. Len(t)
        PROVE  t[j] \in Orders /\ t[j] # o /\ t[j] # p /\ t[j] # q
    BY <1>6, <1>12, <2>1, LevelAssumption
  <2>3. \A j \in 1 .. Len(t) : /\ nextOrder'[t[j]] = nextOrder[t[j]]
                               /\ previousOrder'[t[j]] = previousOrder[t[j]]
    BY <1>7, <1>8, <2>2
  <2>4. \A x \in Orders : priceLevel'[x] = m <=> priceLevel[x] = m
    BY <1>9, <1>12, LevelAssumption
  <2>5. /\ headOrder'[m] = headOrder[m] /\ tailOrder'[m] = tailOrder[m]
        /\ count'[m] = count[m]
    BY <1>10, <1>12
  <2> QED BY <1>12, <2>3, <2>4, <2>5, OtherKept
<1>13. previousOrder'[o] = NULL /\ nextOrder'[o] = NULL
  BY <1>7, <1>8
<1> QED BY <1>00, <1>11, <1>12, <1>13

\* The steps that touch a link are accepted additions and removals.
LEMMA StepShape ==
  ASSUME [LevelNext]_levelVars
  PROVE  \/ UNCHANGED linkVars
         \/ \E l \in Levels, o \in Orders :
              LinkLast(l, o) /\ priceLevel[o] = NULL
         \/ \E l \in Levels, o \in Orders :
              RemoveOrder(l, o) /\ priceLevel[o] = l
<1>1. ASSUME NEW what, Refuse(what) PROVE UNCHANGED linkVars
  BY <1>1 DEF Refuse, linkVars
<1>2. CASE UNCHANGED levelVars
  BY <1>2 DEF levelVars
<1>3. ASSUME NEW o \in Orders, NEW l \in Levels, AddOrder(l, o)
      PROVE  \/ UNCHANGED linkVars
             \/ LinkLast(l, o) /\ priceLevel[o] = NULL
  BY <1>1, <1>3 DEF AddOrder
<1>4. ASSUME NEW o \in Orders, NEW l \in Levels, RemoveOrder(l, o)
      PROVE  \/ UNCHANGED linkVars
             \/ RemoveOrder(l, o) /\ priceLevel[o] = l
  BY <1>1, <1>4 DEF RemoveOrder
<1>5. ASSUME NEW o \in Orders, NEW q \in Quantities, Reduce(o, q)
      PROVE  UNCHANGED linkVars
  BY <1>5 DEF Reduce, linkVars
<1>6. ASSUME NEW o \in Orders, NEW l \in Levels, NEW q \in Quantities,
             Create(o, l, q)
      PROVE  UNCHANGED linkVars
  BY <1>6 DEF Create, linkVars
<1> QED BY <1>2, <1>3, <1>4, <1>5, <1>6, Zenon DEF LevelNext

\* Every step keeps the types; a count never goes below zero.
LEMMA LinkTypesStep ==
  ASSUME ListInv, [LevelNext]_levelVars
  PROVE  LinkTypes'
<1>1. CASE UNCHANGED linkVars
  BY <1>1 DEF ListInv, LinkTypes, linkVars
<1>2. ASSUME NEW l \in Levels, NEW o \in Orders, LinkLast(l, o)
      PROVE  LinkTypes'
  <2>1. tailOrder[l] \in Orders \cup {NULL}
    BY DEF ListInv, LinkTypes
  <2>2. count' \in [Levels -> Nat]
    <3>1. count' = [count EXCEPT ![l] = count[l] + 1]
      BY <1>2 DEF LinkLast
    <3>2. count \in [Levels -> Nat] /\ count[l] + 1 \in Nat
      BY DEF ListInv, LinkTypes
    <3> QED BY <3>1, <3>2
  <2>3. /\ nextOrder' \in [Orders -> Orders \cup {NULL}]
        /\ previousOrder' \in [Orders -> Orders \cup {NULL}]
    BY <1>2, <2>1 DEF ListInv, LinkTypes, LinkLast, Store
  <2>4. /\ priceLevel' \in [Orders -> Levels \cup {NULL}]
        /\ headOrder' \in [Levels -> Orders \cup {NULL}]
        /\ tailOrder' \in [Levels -> Orders \cup {NULL}]
    BY <1>2 DEF ListInv, LinkTypes, LinkLast
  <2> QED BY <2>2, <2>3, <2>4 DEF LinkTypes
<1>3. ASSUME NEW l \in Levels, NEW o \in Orders, RemoveOrder(l, o),
             priceLevel[o] = l
      PROVE  LinkTypes'
  <2>1. previousOrder[o] \in Orders \cup {NULL}
        /\ nextOrder[o] \in Orders \cup {NULL}
    BY DEF ListInv, LinkTypes
  <2>2. count[l] \in Nat /\ count[l] # 0
    <3>1. PICK s \in Seq(Orders) : Linked(l, s)
      BY DEF ListInv
    <3>2. \E k \in 1 .. Len(s) : s[k] = o
      BY <1>3, <3>1 DEF Linked
    <3>3. Len(s) \in Nat /\ count[l] = Len(s)
      BY <3>1, LenProperties DEF Linked, ListOf
    <3> QED BY <3>2, <3>3
  <2>3. count' \in [Levels -> Nat]
    <3>1. count' = [count EXCEPT ![l] = count[l] - 1] /\ count[l] - 1 \in Nat
      BY <1>3, <2>2 DEF RemoveOrder
    <3>2. count \in [Levels -> Nat]
      BY DEF ListInv, LinkTypes
    <3> QED BY <3>1, <3>2
  <2>4. /\ nextOrder' \in [Orders -> Orders \cup {NULL}]
        /\ previousOrder' \in [Orders -> Orders \cup {NULL}]
    BY <1>3, <2>1 DEF ListInv, LinkTypes, RemoveOrder, Store
  <2>5. /\ priceLevel' \in [Orders -> Levels \cup {NULL}]
        /\ headOrder' \in [Levels -> Orders \cup {NULL}]
        /\ tailOrder' \in [Levels -> Orders \cup {NULL}]
    BY <1>3, <2>1 DEF ListInv, LinkTypes, RemoveOrder
  <2> QED BY <2>3, <2>4, <2>5 DEF LinkTypes
<1> QED BY <1>1, <1>2, <1>3, StepShape

\* Every step keeps the lists.
LEMMA ListStep ==
  ASSUME ListInv, [LevelNext]_levelVars
  PROVE  ListInv'
<1>0. LinkTypes /\ LinkTypes'
  BY LinkTypesStep DEF ListInv
<1>1. CASE UNCHANGED linkVars
  BY <1>0, <1>1 DEF ListInv, Linked, linkVars
<1>2. ASSUME NEW l \in Levels, NEW o \in Orders, LinkLast(l, o),
             priceLevel[o] = NULL
      PROVE  ListInv'
  <2>1. PICK s \in Seq(Orders) : Linked(l, s)
    BY DEF ListInv
  <2>2. /\ Linked(l, Append(s, o))'
        /\ \A m \in Levels, t \in Seq(Orders) :
             m # l /\ Linked(m, t) => Linked(m, t)'
    BY <1>0, <1>2, <2>1, LinkLastLists
  <2>3. Append(s, o) \in Seq(Orders)
    BY <2>1
  <2>4. \A m \in Levels : \E t \in Seq(Orders) : Linked(m, t)'
    BY <2>2, <2>3, Zenon DEF ListInv
  <2>5. ASSUME NEW x \in Orders, priceLevel'[x] = NULL
        PROVE  previousOrder'[x] = NULL /\ nextOrder'[x] = NULL
    <3>1. x # o /\ priceLevel[x] = NULL
      BY <1>0, <1>2, <2>5, LevelAssumption DEF LinkLast, LinkTypes
    <3>2. x # tailOrder[l]
      <4>1. tailOrder[l] # NULL => priceLevel[tailOrder[l]] = l
        <5>1. Len(s) \in Nat /\ \A k \in 1 .. Len(s) : priceLevel[s[k]] = l
          BY <2>1, ListFacts
        <5>2. tailOrder[l] = IF Len(s) = 0 THEN NULL ELSE s[Len(s)]
          BY <2>1 DEF Linked, ListOf, BackChained
        <5> QED BY <5>1, <5>2
      <4> QED BY <3>1, <4>1, LevelAssumption
    <3>3. previousOrder'[x] = previousOrder[x] /\ nextOrder'[x] = nextOrder[x]
      BY <1>0, <1>2, <3>1, <3>2 DEF LinkLast, Store, LinkTypes
    <3> QED BY <3>1, <3>3 DEF ListInv
  <2> QED BY <1>0, <2>4, <2>5 DEF ListInv
<1>3. ASSUME NEW l \in Levels, NEW o \in Orders, RemoveOrder(l, o),
             priceLevel[o] = l
      PROVE  ListInv'
  <2>1. PICK s \in Seq(Orders) : Linked(l, s)
    BY DEF ListInv
  <2>2. /\ Linked(l, RemoveFirst(s, o))'
        /\ previousOrder'[o] = NULL /\ nextOrder'[o] = NULL
        /\ \A m \in Levels, t \in Seq(Orders) :
             m # l /\ Linked(m, t) => Linked(m, t)'
    BY <1>0, <1>3, <2>1, UnlinkLists
  <2>3. RemoveFirst(s, o) \in Seq(Orders)
    BY <2>2 DEF Linked, ListOf
  <2>4. \A m \in Levels : \E t \in Seq(Orders) : Linked(m, t)'
    BY <2>2, <2>3, Zenon DEF ListInv
  <2>5. ASSUME NEW x \in Orders, priceLevel'[x] = NULL
        PROVE  previousOrder'[x] = NULL /\ nextOrder'[x] = NULL
    <3>1. CASE x = o
      BY <2>2, <3>1
    <3>2. CASE x # o
      <4>1. priceLevel[x] = NULL
        BY <1>0, <1>3, <2>5, <3>2 DEF RemoveOrder, LinkTypes
      <4>2. ASSUME NEW y \in Orders, previousOrder[o] = y \/ nextOrder[o] = y
            PROVE  priceLevel[y] = l
        <5>1. /\ Len(s) \in Nat
              /\ \A k \in 1 .. Len(s) : priceLevel[s[k]] = l
          BY <2>1, ListFacts
        <5>2. PICK k \in 1 .. Len(s) : s[k] = o
          BY <1>3, <2>1 DEF Linked
        <5>3. /\ previousOrder[o] = IF k = 1 THEN NULL ELSE s[k - 1]
              /\ nextOrder[o] = IF k = Len(s) THEN NULL ELSE s[k + 1]
          BY <2>1, <5>2 DEF Linked, ListOf, Chained, BackChained
        <5>4. /\ k # 1 => k - 1 \in 1 .. Len(s)
              /\ k # Len(s) => k + 1 \in 1 .. Len(s)
          BY <5>1
        <5> QED BY <4>2, <5>1, <5>3, <5>4, LevelAssumption
      <4>3. x # previousOrder[o] /\ x # nextOrder[o]
        BY <4>1, <4>2, LevelAssumption
      <4>4. previousOrder'[x] = previousOrder[x] /\ nextOrder'[x] = nextOrder[x]
        BY <1>0, <1>3, <3>2, <4>3 DEF RemoveOrder, Store, LinkTypes
      <4> QED BY <4>1, <4>4 DEF ListInv
    <3> QED BY <3>1, <3>2
  <2> QED BY <1>0, <2>4, <2>5 DEF ListInv
<1> QED BY <1>1, <1>2, <1>3, StepShape

\* Every price level represents a sequence of orders in every reachable state.
THEOREM ListInvariant == LevelSpec => []ListInv
<1>1. LevelInit => ListInv
  <2> SUFFICES ASSUME LevelInit PROVE ListInv
    OBVIOUS
  <2>1. LinkTypes
    BY DEF LevelInit, LinkTypes
  <2>2. ASSUME NEW l \in Levels PROVE Linked(l, <<>>)
    <3>1. <<>> \in Seq(Orders) /\ Len(<<>>) = 0 /\ DOMAIN <<>> = {}
      BY EmptySeq
    <3>2. IsInjective(<<>>)
      BY <3>1 DEF IsInjective
    <3> QED BY <3>1, <3>2, LevelAssumption
            DEF LevelInit, Linked, ListOf, Chained, BackChained
  <2>3. \A o \in Orders : previousOrder[o] = NULL /\ nextOrder[o] = NULL
    BY DEF LevelInit
  <2>4. <<>> \in Seq(Orders)
    BY EmptySeq
  <2> QED BY <2>1, <2>2, <2>3, <2>4, Zenon DEF ListInv
<1>2. ListInv /\ [LevelNext]_levelVars => ListInv'
  BY ListStep
<1> QED BY <1>1, <1>2, PTL DEF LevelSpec

\* PriceLevel: read from either end, a level is the same finite list, its length is
\* the count, and it holds exactly the orders that point at the level.
THEOREM LevelListsConsistent == LevelSpec => []ListsConsistent
<1>1. ListInv => ListsConsistent
  <2> SUFFICES ASSUME ListInv PROVE ListsConsistent
    OBVIOUS
  <2>1. ASSUME NEW l \in Levels
        PROVE  /\ Backward(l) = Reverse(Forward(l))
               /\ Len(Forward(l)) = count[l]
               /\ ToSet(Forward(l)) = {o \in Orders : priceLevel[o] = l}
               /\ IsInjective(Forward(l))
    <3>1. PICK s \in Seq(Orders) : Linked(l, s)
      BY DEF ListInv
    <3>2. Forward(l) = s /\ Backward(l) = Reverse(s)
      BY <3>1, ListReads DEF Linked, Forward, Backward
    <3>3. Len(s) = count[l] /\ IsInjective(s)
      BY <3>1 DEF Linked, ListOf
    <3>4. ToSet(s) = {o \in Orders : priceLevel[o] = l}
      <4>1. DOMAIN s = 1 .. Len(s) /\ \A k \in 1 .. Len(s) : s[k] \in Orders
        BY <3>1, ListFacts
      <4>2. \A o \in Orders :
              priceLevel[o] = l <=> \E k \in 1 .. Len(s) : s[k] = o
        BY <3>1 DEF Linked
      <4> QED BY <4>1, <4>2 DEF ToSet
    <3> QED BY <3>2, <3>3, <3>4
  <2> QED BY <2>1 DEF ListsConsistent, ListInv
<1> QED BY <1>1, ListInvariant, PTL

\* What a walk from the head of a level meets.
LEMMA ReadsNow ==
  ASSUME NEW l \in Levels, NEW s, Linked(l, s)
  PROVE  Forward(l) = s
  BY ListReads DEF Linked, Forward

\* The same in the next state.
LEMMA ReadsNext ==
  ASSUME NEW l \in Levels, NEW s, Linked(l, s)'
  PROVE  Forward(l)' = s
  BY ListReads DEF Linked, Forward

\* Every step is a step of the FIFO queues, or none.
LEMMA QueueStep ==
  ASSUME ListInv, [LevelNext]_levelVars
  PROVE  LQ!QueueNext \/ UNCHANGED [l \in Levels |-> Forward(l)]
<1> DEFINE fifo == [l \in Levels |-> Forward(l)]
<1>0. LinkTypes
  BY DEF ListInv
<1>1. CASE UNCHANGED linkVars
  <2>1. ASSUME NEW m \in Levels PROVE Forward(m)' = Forward(m)
    BY <1>1 DEF linkVars, Forward
  <2> QED BY <2>1
<1>2. ASSUME NEW l \in Levels, NEW o \in Orders, LinkLast(l, o),
             priceLevel[o] = NULL
      PROVE  LQ!QueueNext
  <2>1. PICK s \in Seq(Orders) : Linked(l, s)
    BY DEF ListInv
  <2>2. /\ Linked(l, Append(s, o))'
        /\ \A m \in Levels, t \in Seq(Orders) :
             m # l /\ Linked(m, t) => Linked(m, t)'
    BY <1>0, <1>2, <2>1, LinkLastLists
  <2>3. Forward(l) = s /\ Forward(l)' = Append(s, o)
    BY <2>1, <2>2, ReadsNow, ReadsNext
  <2>4. ASSUME NEW m \in Levels, m # l PROVE Forward(m)' = Forward(m)
    <3>1. PICK t \in Seq(Orders) : Linked(m, t)
      BY DEF ListInv
    <3>2. Linked(m, t)'
      BY <2>2, <2>4, <3>1
    <3> QED BY <3>1, <3>2, ReadsNow, ReadsNext
  <2>5. ASSUME NEW m \in Levels PROVE ~Contains(fifo[m], o)
    <3>1. PICK t \in Seq(Orders) : Linked(m, t)
      BY DEF ListInv
    <3>2. fifo[m] = t
      BY <3>1, ReadsNow
    <3>3. m # NULL
      BY LevelAssumption
    <3>4. \A k \in 1 .. Len(t) : t[k] # o
      BY <1>2, <3>1, <3>3, ListFacts
    <3> QED BY <3>2, <3>4 DEF Contains
  <2>6. fifo' = [fifo EXCEPT ![l] = Append(@, o)]
    BY <2>3, <2>4
  <2>7. LQ!Join(l, o)
    BY <2>5, <2>6 DEF LQ!Join, LQ!Contains, Contains
  <2> QED BY <2>7 DEF LQ!QueueNext
<1>3. ASSUME NEW l \in Levels, NEW o \in Orders, RemoveOrder(l, o),
             priceLevel[o] = l
      PROVE  LQ!QueueNext
  <2>1. PICK s \in Seq(Orders) : Linked(l, s)
    BY DEF ListInv
  <2>2. /\ \E k \in 1 .. Len(s) : s[k] = o
        /\ Linked(l, RemoveFirst(s, o))'
        /\ \A m \in Levels, t \in Seq(Orders) :
             m # l /\ Linked(m, t) => Linked(m, t)'
    BY <1>0, <1>3, <2>1, UnlinkLists
  <2>3. Forward(l) = s /\ Forward(l)' = RemoveFirst(s, o)
    BY <2>1, <2>2, ReadsNow, ReadsNext
  <2>4. ASSUME NEW m \in Levels, m # l PROVE Forward(m)' = Forward(m)
    <3>1. PICK t \in Seq(Orders) : Linked(m, t)
      BY DEF ListInv
    <3>2. Linked(m, t)'
      BY <2>2, <2>4, <3>1
    <3> QED BY <3>1, <3>2, ReadsNow, ReadsNext
  <2>5. Contains(fifo[l], o)
    BY <2>2, <2>3 DEF Contains
  <2>6. fifo' = [fifo EXCEPT ![l] = RemoveFirst(@, o)]
    BY <2>3, <2>4
  <2>7. \A u : LQ!RemoveFirst(u, o) = RemoveFirst(u, o)
    BY Zenon DEF LQ!RemoveFirst, RemoveFirst, LQ!SelectInSeq, SelectInSeq,
                 LQ!RemoveAt, RemoveAt, LQ!Min, Min
  <2>8. LQ!Contains(fifo[l], o)
    BY <2>5, Zenon DEF LQ!Contains, Contains
  <2>9. LQ!Leave(l, o)
    BY <2>6, <2>7, <2>8 DEF LQ!Leave
  <2> QED BY <2>9 DEF LQ!QueueNext
<1> QED BY <1>1, <1>2, <1>3, StepShape

\* PriceLevel: the linked lists implement FIFO queues that an order joins at the back
\* and leaves from anywhere, each order in at most one.
THEOREM LevelRefinesQueue == LevelSpec => ImplementsLevelQueue
<1>1. LevelInit => LQ!QueueInit
  <2> SUFFICES ASSUME LevelInit PROVE LQ!QueueInit
    OBVIOUS
  <2>1. ASSUME NEW l \in Levels PROVE Forward(l) = <<>>
    <3>1. <<>> \in Seq(Orders) /\ Len(<<>>) = 0 /\ DOMAIN <<>> = {}
      BY EmptySeq
    <3>2. IsInjective(<<>>)
      BY <3>1 DEF IsInjective
    <3>3. Chained(headOrder[l], nextOrder, <<>>)
      BY <3>1 DEF LevelInit, Chained
    <3> QED BY <3>1, <3>2, <3>3, WalkReads DEF Forward
  <2> QED BY <2>1 DEF LQ!QueueInit
<1>2. ListInv /\ [LevelNext]_levelVars =>
        [LQ!QueueNext]_([l \in Levels |-> Forward(l)])
  BY QueueStep
<1> QED BY <1>1, <1>2, ListInvariant, PTL
        DEF LevelSpec, ImplementsLevelQueue, LQ!QueueSpec

\* Without repetition, it counts the units of the elements.
LEMMA UnitsAlong ==
  ASSUME NEW s \in Seq(Orders), IsInjective(s), NEW f, NEW B \in Nat,
         \A x \in Orders : f[x] \in 0 .. B
  PROVE  Summed(s, f) = Cardinality(Units(ToSet(s), f))
<1>1. PICK n \in Nat : n = Len(s) /\ DOMAIN s = 1 .. n
  BY LenProperties
<1> DEFINE r == [k \in 1 .. n |-> f[s[k]]]
           U == Units(1 .. n, r)
           V == Units(ToSet(s), f)
           b == [x \in U |-> <<s[x[1]], x[2]>>]
<1>2. \A k \in 1 .. n : s[k] \in Orders
  BY <1>1, ElementOfSeq
<1>3. \A k \in 1 .. n : r[k] = f[s[k]] /\ r[k] \in 0 .. B
  BY <1>2
<1>4. Summed(s, f) = Cardinality(U)
  BY <1>1, SummedIs
<1> HIDE DEF r
<1>5. IsFiniteSet(U)
  <2>1. IsFiniteSet(1 .. n)
    BY FS_Interval
  <2> QED BY <1>3, <2>1, UnitsFinite
<1>6. ToSet(s) = {s[k] : k \in 1 .. n}
  BY <1>1 DEF ToSet
<1>7. b \in [U -> V]
  BY <1>3, <1>6 DEF Units
<1>8. ASSUME NEW x \in U, NEW y \in U, b[x] = b[y]
      PROVE  x = y
  <2>1. x[1] \in 1 .. n /\ y[1] \in 1 .. n /\ x = <<x[1], x[2]>> /\ y = <<y[1], y[2]>>
    BY DEF Units
  <2>2. s[x[1]] = s[y[1]] /\ x[2] = y[2]
    BY <1>8
  <2>3. x[1] = y[1]
    BY <1>1, <2>1, <2>2 DEF IsInjective
  <2> QED BY <2>1, <2>2, <2>3
<1>9. ASSUME NEW z \in V PROVE \E x \in U : b[x] = z
  <2>1. z[1] \in ToSet(s) /\ z[2] \in Nat /\ z[2] \in 1 .. f[z[1]]
        /\ z = <<z[1], z[2]>>
    BY DEF Units
  <2>2. PICK k \in 1 .. n : s[k] = z[1]
    BY <1>6, <2>1
  <2>3. <<k, z[2]>> \in U
    BY <1>3, <2>1, <2>2 DEF Units
  <2>4. b[<<k, z[2]>>] = z
    BY <2>1, <2>2, <2>3
  <2> QED BY <2>3, <2>4
<1> HIDE DEF U, V, b
<1>10. b \in Bijection(U, V)
  BY <1>7, <1>8, <1>9 DEF Bijection, Injection, Surjection, IsInjective
<1>11. ExistsBijection(U, V)
  BY <1>10 DEF ExistsBijection
<1>12. Cardinality(V) = Cardinality(U)
  BY <1>5, <1>11, FS_Bijection
<1> QED BY <1>4, <1>12 DEF V

\* The orders that point at l.
Members(l) == {o \in Orders : priceLevel[o] = l}

\* Inductive invariant of the aggregates: each counts the units of its orders, and
\* fits a quantity.
TotalInv ==
  /\ ListInv
  /\ remaining \in [Orders -> Quantities]
  /\ total \in [Levels -> Quantities]
  /\ \A l \in Levels : total[l] = Cardinality(Units(Members(l), remaining))

\* The units of one order and of the others.
LEMMA OrderUnits ==
  ASSUME NEW M \in SUBSET Orders, NEW f \in [Orders -> Quantities], NEW o \in M
  PROVE  /\ Cardinality(Units(M \ {o}, f)) \in Nat
         /\ Cardinality(Units(M, f)) = Cardinality(Units(M \ {o}, f)) + f[o]
<1>1. IsFiniteSet(M)
  BY LevelAssumption, FS_Subset
<1>2. MaxQuantity \in Nat /\ \A x \in M : f[x] \in 0 .. MaxQuantity
  BY LevelAssumption DEF Quantities
<1> QED BY <1>1, <1>2, UnitsSplit

\* Types of the quantities.
LEMMA MaxFacts ==
  /\ MaxQuantity \in Nat /\ MaxQuantity + 1 \in Nat
  /\ Quantities = 0 .. MaxQuantity
  BY LevelAssumption DEF Quantities

\* addOrder: the guard against overflow makes the addition exact.
LEMMA AddTotal ==
  ASSUME TotalInv, NEW l \in Levels, NEW o \in Orders, LinkLast(l, o),
         priceLevel[o] = NULL, ~(remaining[o] > MaxQuantity - total[l])
  PROVE  /\ remaining' \in [Orders -> Quantities]
         /\ total' \in [Levels -> Quantities]
         /\ \A m \in Levels :
              total'[m] = Cardinality(Units(Members(m)', remaining'))
<1>1. /\ remaining' = remaining
      /\ total' = [total EXCEPT ![l] =
                     ((total[l] + remaining[o]) % (MaxQuantity + 1))]
      /\ priceLevel' = [priceLevel EXCEPT ![o] = l]
  BY DEF LinkLast
<1>2. /\ remaining \in [Orders -> Quantities] /\ total \in [Levels -> Quantities]
      /\ priceLevel \in [Orders -> Levels \cup {NULL}] /\ NULL \notin Levels
  BY LevelAssumption DEF TotalInv, ListInv, LinkTypes
<1>3. PICK t \in Nat, q \in Nat :
        t = total[l] /\ q = remaining[o] /\ t + q <= MaxQuantity
  BY <1>2, MaxFacts
<1>4. ((t + q) % (MaxQuantity + 1)) = t + q /\ t + q \in Quantities
  <2>0. MaxQuantity + 1 \in Nat /\ t + q \in Nat /\ t + q < MaxQuantity + 1
    BY <1>3, MaxFacts
  <2>1. PICK m \in Nat, x \in Nat : m = MaxQuantity + 1 /\ x = t + q /\ x < m
    BY <2>0, Zenon
  <2>2. (x % m) = x
    BY <2>1, SmallMod
  <2> QED BY <1>3, <2>1, <2>2, MaxFacts
<1>5. total' = [total EXCEPT ![l] = t + q]
  BY <1>1, <1>3, <1>4
<1>6. o \notin Members(l) /\ Members(l)' = Members(l) \cup {o}
  BY <1>1, <1>2 DEF Members
<1>7. ASSUME NEW m \in Levels, m # l PROVE Members(m)' = Members(m)
  BY <1>1, <1>2, <1>7 DEF Members
<1>8. total[l] = Cardinality(Units(Members(l), remaining))
  BY DEF TotalInv
<1>9. Cardinality(Units(Members(l)', remaining)) = t + q
  <2>1. Members(l)' \in SUBSET Orders /\ o \in Members(l)'
        /\ Members(l)' \ {o} = Members(l)
    BY <1>6 DEF Members
  <2> QED BY <1>2, <1>3, <1>8, <2>1, OrderUnits
<1>10. ASSUME NEW m \in Levels
       PROVE  total'[m] = Cardinality(Units(Members(m)', remaining'))
  <2>1. CASE m = l
    BY <1>1, <1>2, <1>5, <1>9, <2>1
  <2>2. CASE m # l
    BY <1>1, <1>2, <1>5, <1>7, <2>2 DEF TotalInv
  <2> QED BY <2>1, <2>2
<1> QED BY <1>1, <1>2, <1>4, <1>5, <1>10

\* removeOrder: the aggregate covers the order, so the subtraction is exact.
LEMMA RemoveTotal ==
  ASSUME TotalInv, NEW l \in Levels, NEW o \in Orders, RemoveOrder(l, o),
         priceLevel[o] = l
  PROVE  /\ remaining' \in [Orders -> Quantities]
         /\ total' \in [Levels -> Quantities]
         /\ \A m \in Levels :
              total'[m] = Cardinality(Units(Members(m)', remaining'))
<1>1. /\ remaining' = remaining
      /\ total' = [total EXCEPT ![l] =
                   ((total[l] + MaxQuantity + 1 - remaining[o]) % (MaxQuantity + 1))]
      /\ priceLevel' = [priceLevel EXCEPT ![o] = NULL]
  BY DEF RemoveOrder
<1>2. /\ remaining \in [Orders -> Quantities] /\ total \in [Levels -> Quantities]
      /\ priceLevel \in [Orders -> Levels \cup {NULL}] /\ NULL \notin Levels
  BY LevelAssumption DEF TotalInv, ListInv, LinkTypes
<1>3. o \in Members(l) /\ Members(l)' = Members(l) \ {o}
  BY <1>1, <1>2 DEF Members
<1>4. ASSUME NEW m \in Levels, m # l PROVE Members(m)' = Members(m)
  BY <1>1, <1>2, <1>4 DEF Members
<1>5. PICK u \in Nat, q \in Nat :
        /\ u = Cardinality(Units(Members(l)', remaining)) /\ q = remaining[o]
        /\ total[l] = u + q /\ u + q <= MaxQuantity
  <2>1. Members(l) \in SUBSET Orders
    BY DEF Members
  <2>2. total[l] = Cardinality(Units(Members(l), remaining))
    BY DEF TotalInv
  <2>3. /\ Cardinality(Units(Members(l)', remaining)) \in Nat
        /\ total[l] = Cardinality(Units(Members(l)', remaining)) + remaining[o]
    BY <1>2, <1>3, <2>1, <2>2, OrderUnits
  <2> QED BY <1>2, <2>3, MaxFacts
<1>6. /\ (((u + q) + MaxQuantity + 1 - q) % (MaxQuantity + 1)) = u
      /\ u \in Quantities
  <2>1. (u + q) + MaxQuantity + 1 - q = u + (MaxQuantity + 1)
    BY MaxFacts
  <2>0. PICK m \in Nat : m = MaxQuantity + 1 /\ u < m
    BY <1>5, MaxFacts
  <2>2. ((u + (MaxQuantity + 1)) % (MaxQuantity + 1)) = u
    BY <2>0, SmallMod
  <2> QED BY <1>5, <2>1, <2>2, MaxFacts
<1>7. total' = [total EXCEPT ![l] = u]
  BY <1>1, <1>5, <1>6
<1>8. ASSUME NEW m \in Levels
      PROVE  total'[m] = Cardinality(Units(Members(m)', remaining'))
  <2>1. CASE m = l
    BY <1>1, <1>2, <1>5, <1>7, <2>1
  <2>2. CASE m # l
    BY <1>1, <1>2, <1>4, <1>7, <2>2 DEF TotalInv
  <2> QED BY <2>1, <2>2
<1> QED BY <1>1, <1>2, <1>6, <1>7, <1>8

\* A reduction never exceeds the aggregate.
LEMMA ReduceTotal ==
  ASSUME TotalInv, NEW o \in Orders, NEW q \in Quantities, Reduce(o, q)
  PROVE  /\ remaining' \in [Orders -> Quantities]
         /\ total' \in [Levels -> Quantities]
         /\ \A m \in Levels :
              total'[m] = Cardinality(Units(Members(m)', remaining'))
<1>2. /\ remaining \in [Orders -> Quantities] /\ total \in [Levels -> Quantities]
      /\ priceLevel \in [Orders -> Levels \cup {NULL}] /\ NULL \notin Levels
  BY LevelAssumption DEF TotalInv, ListInv, LinkTypes
<1>1. PICK l \in Levels : l = priceLevel[o]
  BY <1>2 DEF Reduce
<1>3. /\ priceLevel' = priceLevel
      /\ remaining' = [remaining EXCEPT ![o] = remaining[o] - q]
  BY DEF Reduce, linkVars
<1>4. \A m \in Levels : Members(m)' = Members(m)
  BY <1>3 DEF Members
<1>5. o \in Members(l) /\ Members(l) \in SUBSET Orders
  BY <1>1 DEF Members
<1>6. PICK u \in Nat, r \in Nat, c \in Nat :
        /\ u = Cardinality(Units(Members(l) \ {o}, remaining))
        /\ r = remaining[o] /\ c = q /\ c < r
        /\ total[l] = u + r /\ u + r <= MaxQuantity
  <2>2. total[l] = Cardinality(Units(Members(l), remaining))
    BY DEF TotalInv
  <2>3. /\ Cardinality(Units(Members(l) \ {o}, remaining)) \in Nat
        /\ total[l] = Cardinality(Units(Members(l) \ {o}, remaining)) + remaining[o]
    BY <1>2, <1>5, <2>2, OrderUnits
  <2>4. q \in Nat /\ remaining[o] \in Nat /\ q < remaining[o] /\ total[l] <= MaxQuantity
    BY <1>2, MaxFacts DEF Reduce
  <2> QED BY <2>3, <2>4
<1>7. r - c \in Quantities /\ (u + r) - c \in Quantities /\ ~(c > u + r)
  BY <1>6, MaxFacts
<1>8. total' = [total EXCEPT ![l] = (u + r) - c]
  BY <1>1, <1>6, <1>7 DEF Reduce
<1>9. remaining' \in [Orders -> Quantities]
  BY <1>2, <1>3, <1>6, <1>7
<1>10. Cardinality(Units(Members(l), remaining')) = (u + r) - c
  <2>1. Units(Members(l) \ {o}, remaining') = Units(Members(l) \ {o}, remaining)
    <3>1. \A x \in Members(l) \ {o} : remaining'[x] = remaining[x]
      BY <1>2, <1>3, <1>5
    <3> QED BY <3>1, UnitsSame
  <2>2. remaining'[o] = r - c
    BY <1>2, <1>3, <1>6
  <2>3. Cardinality(Units(Members(l), remaining'))
          = Cardinality(Units(Members(l) \ {o}, remaining')) + remaining'[o]
    BY <1>5, <1>9, OrderUnits
  <2> QED BY <1>6, <2>1, <2>2, <2>3
<1>11. ASSUME NEW m \in Levels
       PROVE  total'[m] = Cardinality(Units(Members(m)', remaining'))
  <2>1. CASE m = l
    BY <1>2, <1>4, <1>8, <1>10, <2>1
  <2>2. CASE m # l
    <3>1. \A x \in Members(m) : remaining'[x] = remaining[x]
      BY <1>1, <1>2, <1>3, <2>2 DEF Members
    <3>2. Units(Members(m), remaining') = Units(Members(m), remaining)
      BY <3>1, UnitsSame
    <3> QED BY <1>2, <1>4, <1>8, <2>2, <3>2 DEF TotalInv
  <2> QED BY <2>1, <2>2
<1> QED BY <1>2, <1>7, <1>8, <1>9, <1>11

\* Building an order in a free slot touches no aggregate.
LEMMA CreateTotal ==
  ASSUME TotalInv, NEW o \in Orders, NEW l \in Levels, NEW q \in Quantities,
         Create(o, l, q)
  PROVE  /\ remaining' \in [Orders -> Quantities]
         /\ total' \in [Levels -> Quantities]
         /\ \A m \in Levels :
              total'[m] = Cardinality(Units(Members(m)', remaining'))
<1>1. /\ remaining \in [Orders -> Quantities] /\ total \in [Levels -> Quantities]
      /\ NULL \notin Levels
  BY LevelAssumption DEF TotalInv
<1>2. /\ priceLevel' = priceLevel /\ total' = total /\ priceLevel[o] = NULL
      /\ remaining' = [remaining EXCEPT ![o] = q]
  BY DEF Create, linkVars
<1>3. ASSUME NEW m \in Levels
      PROVE  Cardinality(Units(Members(m)', remaining'))
             = Cardinality(Units(Members(m), remaining))
  <2>1. Members(m)' = Members(m)
    BY <1>2 DEF Members
  <2>2. \A x \in Members(m) : remaining'[x] = remaining[x]
    BY <1>1, <1>2 DEF Members
  <2> QED BY <2>1, <2>2, UnitsSame
<1> QED BY <1>1, <1>2, <1>3 DEF TotalInv

\* Every step keeps the aggregates.
LEMMA TotalStep ==
  ASSUME TotalInv, [LevelNext]_levelVars
  PROVE  TotalInv'
<1>0. ListInv /\ ListInv'
  BY ListStep DEF TotalInv
<1> DEFINE Agree == /\ remaining' \in [Orders -> Quantities]
                    /\ total' \in [Levels -> Quantities]
                    /\ \A m \in Levels :
                         total'[m] = Cardinality(Units(Members(m)', remaining'))
<1>1. ASSUME UNCHANGED <<remaining, total, priceLevel>> PROVE Agree
  <2>1. \A m \in Levels : Members(m)' = Members(m)
    BY <1>1 DEF Members
  <2> QED BY <1>1, <2>1 DEF TotalInv
<1>2. ASSUME UNCHANGED levelVars PROVE Agree
  BY <1>1, <1>2 DEF levelVars, linkVars
<1>3. ASSUME NEW what, Refuse(what) PROVE Agree
  BY <1>1, <1>3 DEF Refuse, linkVars
<1>4. ASSUME NEW o \in Orders, NEW l \in Levels, AddOrder(l, o) PROVE Agree
  BY <1>3, <1>4, AddTotal DEF AddOrder
<1>5. ASSUME NEW o \in Orders, NEW l \in Levels, RemoveOrder(l, o) PROVE Agree
  <2>1. CASE priceLevel[o] = l
    BY <1>5, <2>1, RemoveTotal
  <2>2. CASE priceLevel[o] # l
    BY <1>3, <1>5, <2>2 DEF RemoveOrder
  <2> QED BY <2>1, <2>2
<1>6. ASSUME NEW o \in Orders, NEW q \in Quantities, Reduce(o, q) PROVE Agree
  BY <1>6, ReduceTotal
<1>7. ASSUME NEW o \in Orders, NEW l \in Levels, NEW q \in Quantities,
             Create(o, l, q)
      PROVE  Agree
  BY <1>7, CreateTotal
<1> HIDE DEF Agree
<1>8. Agree
  BY <1>2, <1>4, <1>5, <1>6, <1>7, Zenon DEF LevelNext
<1> QED BY <1>0, <1>8 DEF TotalInv, Agree

\* Every aggregate counts the open quantity of its level in every reachable state.
THEOREM TotalInvariant == LevelSpec => []TotalInv
<1>1. LevelInit /\ ListInv => TotalInv
  <2> SUFFICES ASSUME LevelInit, ListInv PROVE TotalInv
    OBVIOUS
  <2>1. 0 \in Quantities
    BY MaxFacts
  <2>2. ASSUME NEW l \in Levels PROVE Cardinality(Units(Members(l), remaining)) = 0
    <3>1. Members(l) = {}
      BY LevelAssumption DEF LevelInit, Members
    <3>2. Units({}, remaining) = {}
      BY DEF Units
    <3> QED BY <3>1, <3>2, FS_EmptySet
  <2> QED BY <2>1, <2>2 DEF TotalInv, LevelInit
<1>2. TotalInv /\ [LevelNext]_levelVars => TotalInv'
  BY TotalStep
<1> QED BY <1>1, <1>2, ListInvariant, PTL DEF LevelSpec

\* PriceLevel: totalQuantity is the sum of the remaining quantities along the list; no
\* addition to it or subtraction from it wraps.
THEOREM LevelTotalIsSum == LevelSpec => []TotalIsSum
<1>1. TotalInv => TotalIsSum
  <2> SUFFICES ASSUME TotalInv, NEW l \in Levels
               PROVE  total[l] = FoldLeft(LAMBDA acc, o : acc + remaining[o], 0,
                                          Forward(l))
    BY DEF TotalIsSum
  <2>1. PICK s \in Seq(Orders) : Linked(l, s)
    BY DEF TotalInv, ListInv
  <2>2. Forward(l) = s /\ IsInjective(s)
    BY <2>1, ReadsNow DEF Linked, ListOf
  <2>3. ToSet(s) = Members(l)
    <3>1. DOMAIN s = 1 .. Len(s) /\ \A k \in 1 .. Len(s) : s[k] \in Orders
      BY <2>1, ListFacts
    <3>2. \A o \in Orders :
            priceLevel[o] = l <=> \E k \in 1 .. Len(s) : s[k] = o
      BY <2>1 DEF Linked
    <3> QED BY <3>1, <3>2 DEF ToSet, Members
  <2>4. \A x \in Orders : remaining[x] \in 0 .. MaxQuantity
    BY DEF TotalInv, Quantities
  <2>5. Summed(s, remaining) = Cardinality(Units(ToSet(s), remaining))
    BY <2>2, <2>4, MaxFacts, UnitsAlong
  <2>6. total[l] = Summed(Forward(l), remaining)
    BY <2>2, <2>3, <2>5 DEF TotalInv
  <2> QED BY <2>6, Zenon DEF Summed
<1> QED BY <1>1, TotalInvariant, PTL
=============================================================================

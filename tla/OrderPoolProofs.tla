-------------------------- MODULE OrderPoolProofs --------------------------
(***************************************************************************)
(* Proofs about the order pool, for every page size and number of pages.   *)
(*                                                                         *)
(* FreeChainExact and FreePagesExact speak of what a walk along the links  *)
(* meets, which is no induction hypothesis.  TableInv says that the links  *)
(* of each page chain some sequence of its unoccupied slots, and that the  *)
(* links between pages chain some sequence of the pages with a free slot.  *)
(* A walk reads such a sequence back (ChainReads); allocate takes the      *)
(* first element off, release and createPage put one in front.             *)
(***************************************************************************)
EXTENDS OrderPool, DataLemmas

(***************************************************************************)
(* Chains.                                                                 *)
(***************************************************************************)
\* From start the links lead through s and end.
Linked(start, link, end, s) ==
  /\ start = IF Len(s) = 0 THEN end ELSE s[1]
  /\ \A k \in 1 .. Len(s) :
       link[s[k]] = IF k = Len(s) THEN end ELSE s[k + 1]

\* One unfolding of the recursion in Nodes.
Along(start, link, end, n, f) ==
  [k \in 1 .. n |->
     IF k = 1 THEN start
     ELSE LET x == f[k - 1] IN IF x = end THEN end ELSE link[x]]

\* If some function satisfies the recursion, Nodes does.
LEMMA NodesChosen ==
  ASSUME NEW start, NEW link, NEW end, NEW n, NEW f,
         f = Along(start, link, end, n, f)
  PROVE  Nodes(start, link, end, n) =
           Along(start, link, end, n, Nodes(start, link, end, n))
  BY Zenon DEF Nodes, Along

\* A walk over a chain reads the sequence.
LEMMA ChainReads ==
  ASSUME NEW S, NEW s \in Seq(S), NEW end, end \notin S, NEW n \in Nat, Len(s) < n,
         NEW start, NEW link, Linked(start, link, end, s)
  PROVE  Chain(start, link, end, n) = s
<1>1. PICK l \in Nat : l = Len(s) /\ l < n
  BY LenProperties
<1>2. \A k \in 1 .. l : s[k] \in S /\ s[k] # end
  BY <1>1, ElementOfSeq
<1> DEFINE f == [k \in 1 .. n |-> IF k <= l THEN s[k] ELSE end]
           g == Nodes(start, link, end, n)
<1>3. ASSUME NEW k \in 1 .. n
      PROVE  f[k] = IF k = 1 THEN start
                    ELSE IF f[k - 1] = end THEN end ELSE link[f[k - 1]]
  <2>1. CASE k = 1
    BY <1>1, <2>1 DEF Linked
  <2>2. CASE k # 1
    <3>1. k - 1 \in 1 .. n
      BY <2>2
    <3>2. f[k - 1] = IF k - 1 <= l THEN s[k - 1] ELSE end
      BY <3>1
    <3>3. CASE k - 1 <= l
      <4>1. k - 1 \in 1 .. l /\ (k - 1) + 1 = k /\ (k - 1 = l <=> ~(k <= l))
        BY <1>1, <3>1, <3>3
      <4>2. f[k - 1] = s[k - 1] /\ f[k - 1] # end
        BY <1>2, <3>2, <3>3, <4>1
      <4>3. link[s[k - 1]] = IF k - 1 = l THEN end ELSE s[k]
        BY <1>1, <4>1 DEF Linked
      <4> QED BY <2>2, <4>1, <4>2, <4>3
    <3>4. CASE ~(k - 1 <= l)
      <4>1. ~(k <= l)
        BY <1>1, <3>4
      <4> QED BY <2>2, <3>2, <3>4, <4>1
    <3> QED BY <3>3, <3>4
  <2> QED BY <2>1, <2>2
<1>4. f = [k \in 1 .. n |-> f[k]]
  OBVIOUS
<1>5. \A k \in 1 .. n : f[k] = IF k <= l THEN s[k] ELSE end
  OBVIOUS
<1> HIDE DEF f
<1>6. f = Along(start, link, end, n, f)
  BY <1>3, <1>4 DEF Along
<1>7. g = Along(start, link, end, n, g)
  BY <1>6, NodesChosen
<1>8. Chain(start, link, end, n) = SubSeq(g, 1, Cardinality({k \in 1 .. n : g[k] # end}))
  BY DEF Chain
<1> HIDE DEF g
<1>9. ASSUME NEW k \in 1 .. n
      PROVE  g[k] = IF k = 1 THEN start
                    ELSE IF g[k - 1] = end THEN end ELSE link[g[k - 1]]
  BY <1>7 DEF Along
<1> DEFINE Bad == {k \in 1 .. n : g[k] # f[k]}
<1>10. Bad = {}
  <2> SUFFICES ASSUME Bad # {} PROVE FALSE
    OBVIOUS
  <2>1. Bad \in SUBSET Nat
    OBVIOUS
  <2>2. Min(Bad) \in Bad /\ \A x \in Bad : Min(Bad) <= x
    BY <2>1, MinOfNats
  <2>3. PICK m \in 1 .. n : g[m] # f[m] /\ \A x \in Bad : m <= x
    BY <2>2
  <2>4. m # 1
    BY <1>3, <1>9, <2>3
  <2>5. m - 1 \in 1 .. n /\ ~(m <= m - 1)
    BY <2>3, <2>4
  <2>6. g[m - 1] = f[m - 1]
    BY <2>3, <2>5
  <2> QED BY <1>3, <1>9, <2>3, <2>4, <2>6
<1>11. \A k \in 1 .. n : g[k] = IF k <= l THEN s[k] ELSE end
  BY <1>5, <1>10
<1>12. {k \in 1 .. n : g[k] # end} = 1 .. l
  BY <1>1, <1>2, <1>11
<1>13. Cardinality(1 .. l) = l
  BY FS_Interval
<1>14. \A k \in 1 .. l : g[k] = s[k] /\ g[k] \in S
  BY <1>1, <1>2, <1>11
<1>15. /\ SubSeq(g, 1, l) \in Seq(S) /\ Len(SubSeq(g, 1, l)) = l
       /\ \A k \in 1 .. l : SubSeq(g, 1, l)[k] = g[k]
  BY <1>14, SubSeqProperties
<1>16. SubSeq(g, 1, l) = s
  BY <1>1, <1>14, <1>15, SeqEqual
<1> QED BY <1>8, <1>12, <1>13, <1>16

\* An element in front of a sequence.
Push(x, s) == <<x>> \o s

\* Its elements.
LEMMA PushProps ==
  ASSUME NEW S, NEW s \in Seq(S), NEW x \in S
  PROVE  /\ Push(x, s) \in Seq(S) /\ Len(Push(x, s)) = Len(s) + 1
         /\ Push(x, s)[1] = x
         /\ \A k \in 1 .. Len(s) : Push(x, s)[k + 1] = s[k]
         /\ \A k \in 2 .. Len(s) + 1 : Push(x, s)[k] = s[k - 1]
         /\ ToSet(Push(x, s)) = ToSet(s) \cup {x}
<1>1. PICK n \in Nat : n = Len(s)
  BY LenProperties
<1>2. <<x>> \in Seq(S) /\ Len(<<x>>) = 1 /\ <<x>>[1] = x
  OBVIOUS
<1> DEFINE r == Push(x, s)
<1>3. /\ r \in Seq(S) /\ Len(r) = 1 + n
      /\ \A k \in 1 .. 1 + n : r[k] = IF k <= 1 THEN <<x>>[k] ELSE s[k - 1]
  BY <1>1, <1>2, ConcatProperties DEF Push
<1> HIDE DEF r
<1>4. r[1] = x
  BY <1>2, <1>3
<1>5. \A k \in 2 .. n + 1 : r[k] = s[k - 1]
  BY <1>3
<1>6. \A k \in 1 .. n : r[k + 1] = s[k]
  BY <1>5
<1>7. DOMAIN r = 1 .. n + 1 /\ DOMAIN s = 1 .. n
  BY <1>1, <1>3, LenProperties
<1>8. ToSet(r) = ToSet(s) \cup {x}
  <2>1. ASSUME NEW k \in 1 .. n + 1 PROVE r[k] \in ToSet(s) \cup {x}
    <3>1. k = 1 \/ (k \in 2 .. n + 1 /\ k - 1 \in 1 .. n)
      OBVIOUS
    <3> QED BY <1>4, <1>5, <1>7, <3>1 DEF ToSet
  <2>2. ASSUME NEW k \in 1 .. n PROVE \E j \in 1 .. n + 1 : r[j] = s[k]
    <3>1. k + 1 \in 1 .. n + 1
      OBVIOUS
    <3> QED BY <1>6, <3>1
  <2>3. 1 \in 1 .. n + 1
    OBVIOUS
  <2>4. \A y : y \in ToSet(r) <=> \E k \in 1 .. n + 1 : r[k] = y
    BY <1>7 DEF ToSet
  <2>5. \A y : y \in ToSet(s) <=> \E k \in 1 .. n : s[k] = y
    BY <1>7 DEF ToSet
  <2>6. \A y : y \in ToSet(r) <=> y \in ToSet(s) \/ y = x
    BY <1>4, <2>1, <2>2, <2>3, <2>4, <2>5
  <2> QED BY <2>6
<1> QED BY <1>1, <1>3, <1>4, <1>5, <1>6, <1>8 DEF r

\* The same, without the positions.
Pushed(S, s, x) ==
  /\ Push(x, s) \in Seq(S) /\ Len(Push(x, s)) = Len(s) + 1
  /\ ToSet(Push(x, s)) = ToSet(s) \cup {x}

\* A pushed element joins the set of elements.
LEMMA PushSet ==
  ASSUME NEW S, NEW s \in Seq(S), NEW x \in S
  PROVE  Pushed(S, s, x)
  BY PushProps DEF Pushed

\* A new element in front leaves the elements distinct.
LEMMA PushInjective ==
  ASSUME NEW S, NEW s \in Seq(S), NEW x \in S, x \notin ToSet(s), IsInjective(s)
  PROVE  IsInjective(Push(x, s))
<1> DEFINE r == Push(x, s)
<1>1. PICK n \in Nat :
        /\ n = Len(s) /\ r \in Seq(S) /\ Len(r) = n + 1 /\ r[1] = x
        /\ \A k \in 2 .. n + 1 : r[k] = s[k - 1]
  BY LenProperties, PushProps
<1> HIDE DEF r
<1>2. DOMAIN r = 1 .. n + 1 /\ DOMAIN s = 1 .. n
  BY <1>1, LenProperties
<1>3. ASSUME NEW a \in 1 .. n + 1, NEW b \in 1 .. n + 1, r[a] = r[b], a < b
      PROVE  FALSE
  <2>1. b \in 2 .. n + 1 /\ b - 1 \in 1 .. n
    BY <1>3
  <2>2. r[b] = s[b - 1] /\ r[b] \in ToSet(s)
    BY <1>1, <1>2, <2>1 DEF ToSet
  <2>3. a # 1
    BY <1>1, <1>3, <2>2
  <2>4. a \in 2 .. n + 1 /\ a - 1 \in 1 .. n
    BY <2>3
  <2>5. s[a - 1] = s[b - 1]
    BY <1>1, <1>3, <2>2, <2>4
  <2>6. a - 1 = b - 1
    BY <1>2, <2>1, <2>4, <2>5 DEF IsInjective
  <2> QED BY <1>3, <2>6
<1>4. \A a, b \in 1 .. n + 1 : a < b \/ b < a \/ a = b
  OBVIOUS
<1> QED BY <1>2, <1>3, <1>4 DEF IsInjective, r


\* Taking the first element off.
LEMMA PopProps ==
  ASSUME NEW S, NEW s \in Seq(S), Len(s) # 0, IsInjective(s)
  PROVE  /\ Tail(s) \in Seq(S) /\ Len(Tail(s)) = Len(s) - 1
         /\ \A k \in 1 .. Len(s) - 1 : Tail(s)[k] = s[k + 1]
         /\ s[1] \in S /\ s[1] \in ToSet(s)
         /\ ToSet(Tail(s)) = ToSet(s) \ {s[1]}
         /\ IsInjective(Tail(s))
<1>1. PICK n \in Nat \ {0} : n = Len(s)
  BY LenProperties
<1>2. s # <<>>
  BY <1>1
<1> DEFINE r == Tail(s)
<1>3. r \in Seq(S) /\ Len(r) = n - 1 /\ \A k \in 1 .. n - 1 : r[k] = s[k + 1]
  BY <1>1, <1>2, HeadTailProperties
<1> HIDE DEF r
<1>4. DOMAIN r = 1 .. n - 1 /\ DOMAIN s = 1 .. n
  BY <1>1, <1>3, LenProperties
<1>5. 1 \in 1 .. n /\ s[1] \in S /\ s[1] \in ToSet(s)
  BY <1>1, <1>4, ElementOfSeq DEF ToSet
<1>6. \A a, b \in 1 .. n : s[a] = s[b] => a = b
  BY <1>4 DEF IsInjective
<1>7. ToSet(r) = ToSet(s) \ {s[1]}
  <2>1. ASSUME NEW k \in 1 .. n - 1 PROVE r[k] \in ToSet(s) \ {s[1]}
    <3>1. k + 1 \in 1 .. n /\ k + 1 # 1
      OBVIOUS
    <3> QED BY <1>3, <1>4, <1>5, <1>6, <3>1 DEF ToSet
  <2>2. ASSUME NEW k \in 1 .. n, s[k] # s[1] PROVE \E j \in 1 .. n - 1 : r[j] = s[k]
    <3>1. k - 1 \in 1 .. n - 1 /\ (k - 1) + 1 = k
      BY <2>2
    <3> QED BY <1>3, <3>1
  <2>3. \A y : y \in ToSet(r) <=> \E k \in 1 .. n - 1 : r[k] = y
    BY <1>4 DEF ToSet
  <2>4. \A y : y \in ToSet(s) <=> \E k \in 1 .. n : s[k] = y
    BY <1>4 DEF ToSet
  <2>5. \A y : y \in ToSet(r) <=> y \in ToSet(s) /\ y # s[1]
    BY <2>1, <2>2, <2>3, <2>4
  <2> QED BY <2>5
<1>8. IsInjective(r)
  <2> SUFFICES ASSUME NEW a \in 1 .. n - 1, NEW b \in 1 .. n - 1, r[a] = r[b]
               PROVE  a = b
    BY <1>4 DEF IsInjective
  <2>1. a + 1 \in 1 .. n /\ b + 1 \in 1 .. n
    OBVIOUS
  <2>2. a + 1 = b + 1
    BY <1>3, <1>6, <2>1
  <2> QED BY <2>2
<1> QED BY <1>1, <1>3, <1>5, <1>7, <1>8 DEF r

\* The chain with x linked in front.
LEMMA LinkedPush ==
  ASSUME NEW S, NEW s \in Seq(S), NEW x \in S, NEW end, NEW start, NEW link, NEW new,
         Linked(start, link, end, s), new[x] = start,
         \A y \in ToSet(s) : new[y] = link[y]
  PROVE  Linked(x, new, end, Push(x, s))
<1>1. PICK n \in Nat : n = Len(s) /\ DOMAIN s = 1 .. n
  BY LenProperties
<1> DEFINE r == Push(x, s)
<1>2. Len(r) = n + 1 /\ r[1] = x /\ \A k \in 2 .. n + 1 : r[k] = s[k - 1]
  BY <1>1, PushProps
<1> HIDE DEF r
<1>3. /\ start = IF n = 0 THEN end ELSE s[1]
      /\ \A k \in 1 .. n : link[s[k]] = IF k = n THEN end ELSE s[k + 1]
  BY <1>1 DEF Linked
<1>4. \A k \in 1 .. n : new[s[k]] = link[s[k]]
  BY <1>1 DEF ToSet
<1>5. ASSUME NEW k \in 1 .. n + 1
      PROVE  new[r[k]] = IF k = n + 1 THEN end ELSE r[k + 1]
  <2>1. CASE k = 1
    <3>1. n # 0 => 2 \in 2 .. n + 1
      OBVIOUS
    <3>2. n # 0 => r[2] = s[1]
      BY <1>2, <3>1
    <3> QED BY <1>2, <1>3, <2>1, <3>2
  <2>2. CASE k # 1
    <3>1. /\ k \in 2 .. n + 1 /\ k - 1 \in 1 .. n /\ (k - 1) + 1 = k
          /\ (k - 1 = n <=> k = n + 1)
      BY <2>2
    <3>2. k # n + 1 => k + 1 \in 2 .. n + 1 /\ (k + 1) - 1 = k
      BY <2>2
    <3>3. new[r[k]] = IF k = n + 1 THEN end ELSE s[k]
      BY <1>2, <1>3, <1>4, <3>1
    <3>4. k # n + 1 => r[k + 1] = s[k]
      BY <1>2, <3>2
    <3> QED BY <3>3, <3>4
  <2> QED BY <2>1, <2>2
<1> QED BY <1>1, <1>2, <1>5 DEF Linked, r

\* The chain without its first element.
LEMMA LinkedPop ==
  ASSUME NEW S, NEW s \in Seq(S), Len(s) # 0, IsInjective(s), NEW end, NEW start,
         NEW link, NEW new, Linked(start, link, end, s),
         \A y \in ToSet(s) \ {start} : new[y] = link[y]
  PROVE  start = s[1] /\ Linked(link[start], new, end, Tail(s))
<1>1. PICK n \in Nat \ {0} : n = Len(s) /\ DOMAIN s = 1 .. n
  BY LenProperties
<1> DEFINE r == Tail(s)
<1>2. Len(r) = n - 1 /\ \A k \in 1 .. n - 1 : r[k] = s[k + 1]
  BY <1>1, PopProps
<1> HIDE DEF r
<1>3. /\ start = s[1]
      /\ \A k \in 1 .. n : link[s[k]] = IF k = n THEN end ELSE s[k + 1]
  BY <1>1 DEF Linked
<1>4. \A k \in 2 .. n : new[s[k]] = link[s[k]]
  <2>1. ASSUME NEW k \in 2 .. n PROVE new[s[k]] = link[s[k]]
    <3>1. k \in 1 .. n /\ 1 \in 1 .. n /\ k # 1
      BY <1>1
    <3>2. s[k] \in ToSet(s) /\ s[k] # s[1]
      BY <1>1, <3>1 DEF ToSet, IsInjective
    <3> QED BY <1>3, <3>2
  <2> QED BY <2>1
<1>5. link[start] = IF n - 1 = 0 THEN end ELSE r[1]
  <2>1. 1 \in 1 .. n /\ (n - 1 = 0 <=> 1 = n) /\ (n # 1 => 1 \in 1 .. n - 1)
    BY <1>1
  <2> QED BY <1>2, <1>3, <2>1
<1>6. ASSUME NEW k \in 1 .. n - 1
      PROVE  new[r[k]] = IF k = n - 1 THEN end ELSE r[k + 1]
  <2>1. /\ k + 1 \in 2 .. n /\ k + 1 \in 1 .. n /\ (k + 1 = n <=> k = n - 1)
        /\ (k # n - 1 => k + 1 \in 1 .. n - 1)
    BY <1>1
  <2>2. new[r[k]] = IF k = n - 1 THEN end ELSE s[(k + 1) + 1]
    BY <1>2, <1>3, <1>4, <2>1
  <2> QED BY <1>2, <2>1, <2>2
<1> QED BY <1>1, <1>2, <1>3, <1>5, <1>6 DEF Linked, r

(***************************************************************************)
(* The free slots of one page.                                             *)
(***************************************************************************)
\* What a page record holds.
PageRecord ==
  [nextFree : [SlotIds -> 0 .. SlotsPerPage], occupied : [SlotIds -> BOOLEAN],
   firstFree : 0 .. SlotsPerPage, freeCount : Nat,
   prev : PageIds \cup {NULL}, next : PageIds \cup {NULL}, onList : BOOLEAN]

\* s is the free chain of a page with these fields.
FreeList(nextFree, occupied, firstFree, freeCount, s) ==
  /\ s \in Seq(SlotIds) /\ IsInjective(s) /\ Len(s) = freeCount
  /\ \A i \in SlotIds : i \in ToSet(s) <=> ~occupied[i]
  /\ Linked(firstFree, nextFree, SlotsPerPage, s)

HasChain(r) == \E s : FreeList(r.nextFree, r.occupied, r.firstFree, r.freeCount, s)

\* Two records differ in their links between pages only.
SameSlots(r, q) ==
  /\ q.nextFree = r.nextFree /\ q.occupied = r.occupied
  /\ q.firstFree = r.firstFree /\ q.freeCount = r.freeCount

\* A new page is a record with all of its slots in order.
LEMMA FreshChain == FreshPage \in PageRecord /\ HasChain(FreshPage)
<1>1. PICK n \in Nat \ {0} : n = SlotsPerPage /\ SlotIds = 0 .. n - 1
  BY PoolAssumption DEF SlotIds
<1>2. FreshPage \in PageRecord
  BY <1>1 DEF FreshPage, PageRecord
<1> DEFINE s == [k \in 1 .. n |-> k - 1]
<1>3. s \in [1 .. n -> SlotIds]
  BY <1>1
<1>4. s \in Seq(SlotIds) /\ Len(s) = n /\ DOMAIN s = 1 .. n
  BY <1>3
<1>5. \A k \in 1 .. n : s[k] = k - 1
  OBVIOUS
<1> HIDE DEF s
<1>6. IsInjective(s)
  BY <1>4, <1>5 DEF IsInjective
<1>7. ASSUME NEW i \in SlotIds PROVE i \in ToSet(s)
  <2>1. i + 1 \in 1 .. n /\ (i + 1) - 1 = i
    BY <1>1
  <2> QED BY <1>4, <1>5, <2>1 DEF ToSet
<1>8. Linked(0, FreshPage.nextFree, SlotsPerPage, s)
  <2>1. 1 \in 1 .. n
    OBVIOUS
  <2>2. s[1] = 0
    BY <1>5, <2>1
  <2>3. ASSUME NEW k \in 1 .. n
        PROVE  FreshPage.nextFree[s[k]] = IF k = n THEN n ELSE s[k + 1]
    <3>1. k - 1 \in SlotIds /\ (k # n => k + 1 \in 1 .. n)
      BY <1>1
    <3>2. FreshPage.nextFree[k - 1] = k
      BY <3>1 DEF FreshPage
    <3>3. k # n => s[k + 1] = k
      BY <1>5, <3>1
    <3> QED BY <1>5, <3>2, <3>3
  <2> QED BY <1>1, <1>4, <2>2, <2>3 DEF Linked
<1>9. FreeList(FreshPage.nextFree, FreshPage.occupied, FreshPage.firstFree,
               FreshPage.freeCount, s)
  BY <1>1, <1>4, <1>6, <1>7, <1>8 DEF FreeList, FreshPage
<1> QED BY <1>2, <1>9 DEF HasChain

\* The free chain of a page with a free slot begins at an unoccupied slot, and
\* goes on without it.
LEMMA TakeChain ==
  ASSUME NEW r \in PageRecord, HasChain(r), r.freeCount # 0, NEW q,
         q.nextFree = r.nextFree, q.firstFree = r.nextFree[r.firstFree],
         q.freeCount = r.freeCount - 1,
         q.occupied = [r.occupied EXCEPT ![r.firstFree] = TRUE]
  PROVE  r.firstFree \in SlotIds /\ ~r.occupied[r.firstFree] /\ HasChain(q)
<1>1. PICK s : FreeList(r.nextFree, r.occupied, r.firstFree, r.freeCount, s)
  BY DEF HasChain
<1>2. /\ s \in Seq(SlotIds) /\ IsInjective(s) /\ Len(s) = r.freeCount /\ Len(s) # 0
      /\ \A i \in SlotIds : i \in ToSet(s) <=> ~r.occupied[i]
      /\ Linked(r.firstFree, r.nextFree, SlotsPerPage, s)
  BY <1>1 DEF FreeList
<1>3. /\ Tail(s) \in Seq(SlotIds) /\ Len(Tail(s)) = Len(s) - 1
      /\ s[1] \in SlotIds /\ s[1] \in ToSet(s)
      /\ ToSet(Tail(s)) = ToSet(s) \ {s[1]} /\ IsInjective(Tail(s))
  BY <1>2, PopProps
<1>4. /\ r.firstFree = s[1]
      /\ Linked(r.nextFree[r.firstFree], q.nextFree, SlotsPerPage, Tail(s))
  <2>1. \A y \in ToSet(s) \ {r.firstFree} : q.nextFree[y] = r.nextFree[y]
    OBVIOUS
  <2> QED BY <1>2, <2>1, LinkedPop
<1>5. r.firstFree \in SlotIds /\ ~r.occupied[r.firstFree]
  BY <1>2, <1>3, <1>4
<1>6. \A i \in SlotIds : i \in ToSet(Tail(s)) <=> ~q.occupied[i]
  BY <1>2, <1>3, <1>4 DEF PageRecord
<1>7. FreeList(q.nextFree, q.occupied, q.firstFree, q.freeCount, Tail(s))
  BY <1>2, <1>3, <1>4, <1>6 DEF FreeList
<1> QED BY <1>5, <1>7 DEF HasChain

\* Releasing an occupied slot puts it in front.
LEMMA ReleaseChain ==
  ASSUME NEW r \in PageRecord, HasChain(r), NEW i \in SlotIds, r.occupied[i]
  PROVE  \E s : FreeList([r.nextFree EXCEPT ![i] = r.firstFree],
                        [r.occupied EXCEPT ![i] = FALSE], i, r.freeCount + 1, s)
<1> DEFINE next == [r.nextFree EXCEPT ![i] = r.firstFree]
           used == [r.occupied EXCEPT ![i] = FALSE]
<1>1. PICK s : FreeList(r.nextFree, r.occupied, r.firstFree, r.freeCount, s)
  BY DEF HasChain
<1>2. /\ s \in Seq(SlotIds) /\ IsInjective(s) /\ Len(s) = r.freeCount
      /\ \A j \in SlotIds : j \in ToSet(s) <=> ~r.occupied[j]
      /\ Linked(r.firstFree, r.nextFree, SlotsPerPage, s)
  BY <1>1 DEF FreeList
<1>3. i \notin ToSet(s) /\ ToSet(s) \subseteq SlotIds
  <2>1. DOMAIN s = 1 .. Len(s) /\ \A k \in 1 .. Len(s) : s[k] \in SlotIds
    BY <1>2, LenProperties, ElementOfSeq
  <2> QED BY <1>2, <2>1 DEF ToSet
<1>4. /\ Push(i, s) \in Seq(SlotIds) /\ Len(Push(i, s)) = Len(s) + 1
      /\ ToSet(Push(i, s)) = ToSet(s) \cup {i} /\ IsInjective(Push(i, s))
  <2>1. IsInjective(Push(i, s))
    BY <1>2, <1>3, PushInjective
  <2>2. Pushed(SlotIds, s, i)
    BY <1>2, PushSet
  <2> QED BY <2>1, <2>2, Zenon DEF Pushed
<1>5. next[i] = r.firstFree /\ \A y \in ToSet(s) : next[y] = r.nextFree[y]
  BY <1>3 DEF PageRecord
<1>6. \A j \in SlotIds : j \in ToSet(Push(i, s)) <=> ~used[j]
  BY <1>2, <1>4 DEF PageRecord
<1> HIDE DEF next, used
<1>7. Linked(i, next, SlotsPerPage, Push(i, s))
  BY <1>2, <1>5, LinkedPush
<1>8. FreeList(next, used, i, r.freeCount + 1, Push(i, s))
  BY <1>2, <1>4, <1>6, <1>7 DEF FreeList
<1> QED BY <1>8 DEF next, used

(***************************************************************************)
(* The list of pages with a free slot.                                     *)
(***************************************************************************)
\* s is the list of a table of n pages whose head is first.
PageList(table, first, n, s) ==
  /\ s \in Seq(PageIds) /\ IsInjective(s)
  /\ Linked(first, [p \in PageIds |-> table[p].next], NULL, s)
  /\ \A k \in 1 .. Len(s) : table[s[k]].prev = IF k = 1 THEN NULL ELSE s[k - 1]
  /\ \A p \in PageIds :
       /\ p \in ToSet(s) <=> table[p].onList
       /\ table[p].onList <=> p <= n /\ table[p].freeCount > 0

\* A page that is not on the list becomes its head.
LEMMA PushPage ==
  ASSUME NEW t, NEW u, NEW first, NEW n, NEW m, NEW s, PageList(t, first, n, s),
         NEW p \in PageIds, ~t[p].onList,
         u[p].next = first, u[p].prev = NULL, u[p].onList,
         p <= m, u[p].freeCount > 0,
         \A q \in PageIds \ {p} :
           /\ u[q].next = t[q].next /\ u[q].onList = t[q].onList
           /\ u[q].prev = IF q = first THEN p ELSE t[q].prev
           /\ u[q].freeCount = t[q].freeCount /\ (q <= m <=> q <= n)
  PROVE  PageList(u, p, m, Push(p, s))
<1> DEFINE old == [q \in PageIds |-> t[q].next]
           new == [q \in PageIds |-> u[q].next]
<1>1. /\ s \in Seq(PageIds) /\ IsInjective(s) /\ Linked(first, old, NULL, s)
      /\ \A k \in 1 .. Len(s) : t[s[k]].prev = IF k = 1 THEN NULL ELSE s[k - 1]
      /\ \A q \in PageIds : q \in ToSet(s) <=> t[q].onList
      /\ \A q \in PageIds : t[q].onList <=> q <= n /\ t[q].freeCount > 0
  BY DEF PageList
<1>2. PICK l \in Nat :
        /\ l = Len(s) /\ DOMAIN s = 1 .. l
        /\ \A k \in 1 .. l : s[k] \in PageIds /\ s[k] \in ToSet(s)
  BY <1>1, LenProperties, ElementOfSeq DEF ToSet
<1>3. p \notin ToSet(s) /\ ToSet(s) \subseteq PageIds
  BY <1>1, <1>2 DEF ToSet
<1> DEFINE r == Push(p, s)
<1>4. /\ r \in Seq(PageIds) /\ Len(r) = l + 1 /\ r[1] = p
      /\ \A k \in 2 .. l + 1 : r[k] = s[k - 1]
      /\ ToSet(r) = ToSet(s) \cup {p} /\ IsInjective(r)
  <2>1. IsInjective(r)
    BY <1>1, <1>3, PushInjective
  <2>2. ToSet(r) = ToSet(s) \cup {p}
    <3>1. Pushed(PageIds, s, p)
      BY <1>1, PushSet
    <3> QED BY <3>1, Zenon DEF Pushed, r
  <2>3. /\ r \in Seq(PageIds) /\ Len(r) = l + 1 /\ r[1] = p
        /\ \A k \in 2 .. l + 1 : r[k] = s[k - 1]
    BY <1>1, <1>2, PushProps
  <2> QED BY <2>1, <2>2, <2>3, Zenon
<1>5. Linked(p, new, NULL, r)
  <2>1. new[p] = first /\ \A y \in ToSet(s) : new[y] = old[y]
    BY <1>3
  <2> HIDE DEF old, new
  <2> QED BY <1>1, <2>1, LinkedPush
<1> HIDE DEF r
<1>6. ASSUME NEW k \in 1 .. l + 1
      PROVE  u[r[k]].prev = IF k = 1 THEN NULL ELSE r[k - 1]
  <2>1. CASE k = 1
    BY <1>4, <2>1
  <2>2. CASE k # 1
    <3>1. PICK j \in 1 .. l : j = k - 1 /\ k \in 2 .. l + 1
      BY <2>2
    <3>2. r[k] = s[j] /\ s[j] \in PageIds \ {p}
      BY <1>2, <1>3, <1>4, <3>1
    <3>3. u[s[j]].prev = IF s[j] = first THEN p ELSE t[s[j]].prev
      BY <3>2
    <3>4. first = s[1] /\ 1 \in 1 .. l
      BY <1>1, <1>2, <3>1 DEF Linked
    <3>5. s[j] = first <=> j = 1
      BY <1>1, <1>2, <3>4 DEF IsInjective
    <3>6. CASE j = 1
      BY <1>4, <2>2, <3>1, <3>2, <3>3, <3>5, <3>6
    <3>7. CASE j # 1
      <4>1. k - 1 \in 2 .. l + 1
        BY <3>1, <3>7
      <4>2. r[k - 1] = s[j - 1]
        BY <1>4, <3>1, <4>1
      <4>3. t[s[j]].prev = s[j - 1]
        BY <1>1, <1>2, <3>7
      <4> QED BY <2>2, <3>2, <3>3, <3>5, <3>7, <4>2, <4>3
    <3> QED BY <3>6, <3>7
  <2> QED BY <2>1, <2>2
<1>7. \A q \in PageIds : q \in ToSet(r) <=> u[q].onList
  BY <1>1, <1>4
<1>8. \A q \in PageIds : u[q].onList <=> q <= m /\ u[q].freeCount > 0
  BY <1>1
<1> QED BY <1>4, <1>5, <1>6, <1>7, <1>8 DEF PageList, r

\* u is t with its first page unlinked and full.
WithoutHead(t, u, first) ==
  /\ ~u[first].onList /\ ~(u[first].freeCount > 0)
  /\ \A q \in PageIds \ {first} :
       /\ u[q].next = t[q].next /\ u[q].onList = t[q].onList
       /\ u[q].prev = IF q = t[first].next THEN NULL ELSE t[q].prev
       /\ u[q].freeCount = t[q].freeCount

\* The head leaves the list.
LEMMA PopPage ==
  ASSUME NEW t, NEW first \in PageIds, NEW n, NEW s, PageList(t, first, n, s)
  PROVE  /\ t[first].onList /\ t[first].prev = NULL
         /\ t[first].freeCount > 0 /\ first <= n
         /\ \A u : WithoutHead(t, u, first) => PageList(u, t[first].next, n, Tail(s))
<1> DEFINE old == [q \in PageIds |-> t[q].next]
<1>1. /\ s \in Seq(PageIds) /\ IsInjective(s) /\ Linked(first, old, NULL, s)
      /\ \A k \in 1 .. Len(s) : t[s[k]].prev = IF k = 1 THEN NULL ELSE s[k - 1]
      /\ \A q \in PageIds : q \in ToSet(s) <=> t[q].onList
      /\ \A q \in PageIds : t[q].onList <=> q <= n /\ t[q].freeCount > 0
  BY DEF PageList
<1>2. PICK l \in Nat \ {0} :
        /\ l = Len(s) /\ DOMAIN s = 1 .. l
        /\ \A k \in 1 .. l : s[k] \in PageIds /\ s[k] \in ToSet(s)
  <2>1. first # NULL
    BY PoolAssumption DEF PageIds
  <2>2. Len(s) \in Nat /\ Len(s) # 0
    BY <1>1, <2>1, LenProperties DEF Linked
  <2> QED BY <1>1, <2>2, LenProperties, ElementOfSeq DEF ToSet
<1>3. first = s[1] /\ 1 \in 1 .. l
  BY <1>1, <1>2 DEF Linked
<1>4. t[first].onList /\ t[first].prev = NULL /\ t[first].freeCount > 0 /\ first <= n
  BY <1>1, <1>2, <1>3
<1> DEFINE r == Tail(s)
<1>5. /\ r \in Seq(PageIds) /\ Len(r) = l - 1 /\ IsInjective(r)
      /\ \A k \in 1 .. l - 1 : r[k] = s[k + 1]
      /\ ToSet(r) = ToSet(s) \ {first}
  BY <1>1, <1>2, <1>3, PopProps
<1>6. ASSUME NEW u, ~u[first].onList, ~(u[first].freeCount > 0),
             \A q \in PageIds \ {first} :
               /\ u[q].next = t[q].next /\ u[q].onList = t[q].onList
               /\ u[q].prev = IF q = t[first].next THEN NULL ELSE t[q].prev
               /\ u[q].freeCount = t[q].freeCount
      PROVE  PageList(u, t[first].next, n, r)
  <2> DEFINE new == [q \in PageIds |-> u[q].next]
  <2>1. Linked(t[first].next, new, NULL, r)
    <3>1. \A y \in ToSet(s) \ {first} : new[y] = old[y]
      <4>1. ToSet(s) \subseteq PageIds
        BY <1>2 DEF ToSet
      <4> QED BY <1>6, <4>1
    <3>2. old[first] = t[first].next
      OBVIOUS
    <3>3. Len(s) # 0
      BY <1>2
    <3> HIDE DEF old, new
    <3>4. Linked(old[first], new, NULL, r)
      BY <1>1, <3>1, <3>3, LinkedPop
    <3> QED BY <3>2, <3>4
  <2> HIDE DEF r
  <2>2. ASSUME NEW k \in 1 .. l - 1
        PROVE  u[r[k]].prev = IF k = 1 THEN NULL ELSE r[k - 1]
    <3>1. PICK j \in 1 .. l : j = k + 1 /\ j # 1
      BY <1>2
    <3>2. r[k] = s[j] /\ s[j] \in PageIds /\ s[j] # first
      BY <1>1, <1>2, <1>3, <1>5, <3>1 DEF IsInjective
    <3>3. u[s[j]].prev = IF s[j] = t[first].next THEN NULL ELSE t[s[j]].prev
      BY <1>6, <3>2
    <3>4. t[first].next = s[2] /\ 2 \in 1 .. l
      <4>1. 2 \in 1 .. l /\ 1 # l
        BY <1>2, <3>1
      <4>2. old[s[1]] = IF 1 = l THEN NULL ELSE s[1 + 1]
        BY <1>1, <1>2, <1>3 DEF Linked
      <4> QED BY <1>3, <4>1, <4>2
    <3>5. s[j] = t[first].next <=> k = 1
      BY <1>1, <1>2, <3>1, <3>4 DEF IsInjective
    <3>6. CASE k = 1
      BY <3>2, <3>3, <3>5, <3>6
    <3>7. CASE k # 1
      <4>1. k - 1 \in 1 .. l - 1 /\ (k - 1) + 1 = j - 1
        BY <3>1, <3>7
      <4>2. r[k - 1] = s[j - 1]
        BY <1>5, <4>1
      <4>3. t[s[j]].prev = s[j - 1]
        BY <1>1, <1>2, <3>1
      <4> QED BY <3>2, <3>3, <3>5, <3>7, <4>2, <4>3
    <3> QED BY <3>6, <3>7
  <2>3. \A q \in PageIds : q \in ToSet(r) <=> u[q].onList
    BY <1>1, <1>5, <1>6
  <2>4. \A q \in PageIds : u[q].onList <=> q <= n /\ u[q].freeCount > 0
    BY <1>1, <1>6
  <2> QED BY <1>5, <2>1, <2>2, <2>3, <2>4 DEF PageList
<1> QED BY <1>4, <1>6 DEF WithoutHead

\* Changes within a page that leave it with a free slot do not affect the list.
LEMMA SamePages ==
  ASSUME NEW t, NEW u, NEW first, NEW n, NEW s, PageList(t, first, n, s),
         \A q \in PageIds :
           /\ u[q].next = t[q].next /\ u[q].prev = t[q].prev
           /\ u[q].onList = t[q].onList /\ (u[q].freeCount > 0 <=> t[q].freeCount > 0)
  PROVE  PageList(u, first, n, s)
<1>1. [q \in PageIds |-> u[q].next] = [q \in PageIds |-> t[q].next]
  OBVIOUS
<1>2. s \in Seq(PageIds)
  BY DEF PageList
<1>3. \A k \in 1 .. Len(s) : s[k] \in PageIds
  BY <1>2, ElementOfSeq
<1> QED BY <1>1, <1>3 DEF PageList

(***************************************************************************)
(* What the calls do to the fields of the pages.                           *)
(***************************************************************************)
Tables == [PageIds -> PageRecord]

\* u is t with p put in front of the list headed by first.
Added(t, u, first, p) ==
  /\ u \in Tables /\ \A q \in PageIds : SameSlots(t[q], u[q])
  /\ u[p].next = first /\ u[p].prev = NULL /\ u[p].onList
  /\ \A q \in PageIds \ {p} :
       /\ u[q].next = t[q].next /\ u[q].onList = t[q].onList
       /\ u[q].prev = IF q = first THEN p ELSE t[q].prev

\* addToFreePageList does that, when p is not the head already.
LEMMA AddFields ==
  ASSUME NEW t \in Tables, NEW p \in PageIds, ~t[p].onList,
         firstPage \in PageIds \cup {NULL}, firstPage # p
  PROVE  Added(t, AddToFreePageList(t, p), firstPage, p)
<1>1. t \in [PageIds -> PageRecord]
  BY DEF Tables
<1> DEFINE v == [t EXCEPT ![p].prev = NULL, ![p].next = firstPage, ![p].onList = TRUE]
<1>2. v \in [PageIds -> PageRecord]
  BY <1>1 DEF PageRecord
<1>3. /\ \A q \in PageIds : SameSlots(t[q], v[q])
      /\ v[p].next = firstPage /\ v[p].prev = NULL /\ v[p].onList
      /\ \A q \in PageIds \ {p} : v[q] = t[q]
  BY <1>1 DEF PageRecord, SameSlots
<1> HIDE DEF v
<1>4. CASE firstPage = NULL
  <2>1. AddToFreePageList(t, p) = v
    BY <1>4 DEF AddToFreePageList, v
  <2>2. \A q \in PageIds : q # firstPage
    BY <1>4, PoolAssumption DEF PageIds
  <2> QED BY <1>2, <1>3, <2>1, <2>2 DEF Added, Tables
<1>5. CASE firstPage \in PageIds
  <2> DEFINE u == [v EXCEPT ![firstPage].prev = p]
  <2>1. AddToFreePageList(t, p) = u
    BY <1>5, PoolAssumption DEF AddToFreePageList, v, PageIds
  <2>2. u \in [PageIds -> PageRecord]
    BY <1>2 DEF PageRecord
  <2>3. /\ \A q \in PageIds : SameSlots(v[q], u[q])
        /\ \A q \in PageIds : u[q].next = v[q].next /\ u[q].onList = v[q].onList
        /\ \A q \in PageIds : u[q].prev = IF q = firstPage THEN p ELSE v[q].prev
    BY <1>2, <1>5 DEF PageRecord, SameSlots
  <2> HIDE DEF u
  <2> QED BY <1>3, <2>1, <2>2, <2>3 DEF Added, Tables, SameSlots
<1> QED BY <1>4, <1>5

\* u is t without p, the head of the list.
Removed(t, u, p) ==
  /\ u \in Tables /\ \A q \in PageIds : SameSlots(t[q], u[q])
  /\ ~u[p].onList
  /\ \A q \in PageIds \ {p} :
       /\ u[q].next = t[q].next /\ u[q].onList = t[q].onList
       /\ u[q].prev = IF q = t[p].next THEN NULL ELSE t[q].prev

\* Clearing the links of a page leaves its slots and the other pages alone.
LEMMA Unlink ==
  ASSUME NEW w \in [PageIds -> PageRecord], NEW p \in PageIds, NEW u,
         u = [w EXCEPT ![p].prev = NULL, ![p].next = NULL, ![p].onList = FALSE]
  PROVE  /\ u \in [PageIds -> PageRecord] /\ \A q \in PageIds : SameSlots(w[q], u[q])
         /\ ~u[p].onList /\ \A q \in PageIds \ {p} : u[q] = w[q]
<1>1. w[p] \in PageRecord
  OBVIOUS
<1>2. u[p] = [[[w[p] EXCEPT !.prev = NULL] EXCEPT !.next = NULL] EXCEPT !.onList = FALSE]
  OBVIOUS
<1>3. u[p] \in PageRecord
  <2>1. \A r \in PageRecord : [r EXCEPT !.prev = NULL] \in PageRecord
    BY DEF PageRecord
  <2>2. \A r \in PageRecord : [r EXCEPT !.next = NULL] \in PageRecord
    BY DEF PageRecord
  <2>3. \A r \in PageRecord : [r EXCEPT !.onList = FALSE] \in PageRecord
    BY DEF PageRecord
  <2> QED BY <1>1, <1>2, <2>1, <2>2, <2>3
<1>4. u \in [PageIds -> PageRecord]
  BY <1>3
<1>5. \A q \in PageIds \ {p} : u[q] = w[q]
  OBVIOUS
<1>6. SameSlots(w[p], u[p]) /\ ~u[p].onList
  BY DEF SameSlots, PageRecord
<1> QED BY <1>4, <1>5, <1>6 DEF SameSlots

\* removeFromFreePageList does that, and the next page becomes the head.
LEMMA RemoveFields ==
  ASSUME NEW t \in Tables, NEW p \in PageIds, t[p].onList, t[p].prev = NULL, NEW first
  PROVE  /\ Removed(t, RemoveFromFreePageList(t, p), p)
         /\ HeadAfterRemoval(t, first, p) = t[p].next
<1>1. t \in [PageIds -> PageRecord] /\ t[p].next \in PageIds \cup {NULL}
  BY DEF Tables, PageRecord
<1>2. HeadAfterRemoval(t, first, p) = t[p].next
  BY DEF HeadAfterRemoval
<1> DEFINE a == t[p].next
           v == IF a = NULL THEN t ELSE [t EXCEPT ![a].prev = NULL]
<1>3. RemoveFromFreePageList(t, p) =
        [v EXCEPT ![p].prev = NULL, ![p].next = NULL, ![p].onList = FALSE]
  BY DEF RemoveFromFreePageList
<1>4. /\ v \in [PageIds -> PageRecord] /\ \A q \in PageIds : SameSlots(t[q], v[q])
      /\ \A q \in PageIds : v[q].next = t[q].next /\ v[q].onList = t[q].onList
      /\ \A q \in PageIds : v[q].prev = IF q = a THEN NULL ELSE t[q].prev
  <2>1. CASE a = NULL
    <3>1. \A q \in PageIds : q # a
      BY <2>1, PoolAssumption DEF PageIds
    <3>2. v = t
      BY <2>1
    <3> QED BY <1>1, <3>1, <3>2 DEF SameSlots
  <2>2. CASE a # NULL
    <3>1. v = [t EXCEPT ![a].prev = NULL] /\ a \in PageIds
      BY <1>1, <2>2
    <3> HIDE DEF v, a
    <3> QED BY <1>1, <3>1 DEF SameSlots, PageRecord
  <2> QED BY <2>1, <2>2
<1>5. PICK w \in [PageIds -> PageRecord] : w = v
  BY <1>4
<1> HIDE DEF v
<1> DEFINE u == [w EXCEPT ![p].prev = NULL, ![p].next = NULL, ![p].onList = FALSE]
<1>6. /\ u \in [PageIds -> PageRecord] /\ \A q \in PageIds : SameSlots(w[q], u[q])
      /\ ~u[p].onList /\ \A q \in PageIds \ {p} : u[q] = w[q]
  BY Unlink
<1>7. RemoveFromFreePageList(t, p) = u
  BY <1>3, <1>5
<1> HIDE DEF u
<1>8. Removed(t, u, p)
  BY <1>4, <1>5, <1>6 DEF Removed, Tables, SameSlots
<1> QED BY <1>2, <1>7, <1>8

SameLinks(r, q) == q.prev = r.prev /\ q.next = r.next /\ q.onList = r.onList

\* u is t with the first free slot of p taken.
Taken(t, u, p) ==
  /\ u \in Tables /\ \A q \in PageIds \ {p} : u[q] = t[q]
  /\ SameLinks(t[p], u[p])
  /\ u[p].nextFree = t[p].nextFree
  /\ u[p].firstFree = t[p].nextFree[t[p].firstFree]
  /\ u[p].freeCount = t[p].freeCount - 1
  /\ u[p].occupied = [t[p].occupied EXCEPT ![t[p].firstFree] = TRUE]

\* The assignments of allocate do that.
LEMMA TakeFields ==
  ASSUME NEW t \in Tables, NEW p \in PageIds, t[p].freeCount > 0,
         t[p].firstFree \in SlotIds
  PROVE  Taken(t, [t EXCEPT ![p].firstFree = t[p].nextFree[t[p].firstFree],
                            ![p].freeCount = @ - 1,
                            ![p].occupied[t[p].firstFree] = TRUE], p)
<1> DEFINE i == t[p].firstFree
           u == [t EXCEPT ![p].firstFree = t[p].nextFree[i], ![p].freeCount = @ - 1,
                          ![p].occupied[i] = TRUE]
<1>1. t \in [PageIds -> PageRecord] /\ t[p] \in PageRecord
  BY DEF Tables
<1>2. /\ t[p].nextFree[i] \in 0 .. SlotsPerPage /\ t[p].freeCount - 1 \in Nat
      /\ [t[p].occupied EXCEPT ![i] = TRUE] \in [SlotIds -> BOOLEAN]
  BY <1>1 DEF PageRecord
<1>3. u[p] = [[[t[p] EXCEPT !.firstFree = t[p].nextFree[i]]
                     EXCEPT !.freeCount = t[p].freeCount - 1]
                     EXCEPT !.occupied = [t[p].occupied EXCEPT ![i] = TRUE]]
  BY <1>1 DEF PageRecord
<1>4. u[p] \in PageRecord
  <2>1. \A r \in PageRecord, v \in 0 .. SlotsPerPage :
          [r EXCEPT !.firstFree = v] \in PageRecord
    BY DEF PageRecord
  <2>2. \A r \in PageRecord, v \in Nat : [r EXCEPT !.freeCount = v] \in PageRecord
    BY DEF PageRecord
  <2>3. \A r \in PageRecord, v \in [SlotIds -> BOOLEAN] :
          [r EXCEPT !.occupied = v] \in PageRecord
    BY DEF PageRecord
  <2> QED BY <1>1, <1>2, <1>3, <2>1, <2>2, <2>3
<1>5. u \in Tables /\ \A q \in PageIds \ {p} : u[q] = t[q]
  BY <1>1, <1>4 DEF Tables
<1>6. /\ SameLinks(t[p], u[p]) /\ u[p].nextFree = t[p].nextFree
      /\ u[p].firstFree = t[p].nextFree[i] /\ u[p].freeCount = t[p].freeCount - 1
      /\ u[p].occupied = [t[p].occupied EXCEPT ![i] = TRUE]
  BY <1>1, <1>3 DEF SameLinks, PageRecord
<1> QED BY <1>5, <1>6 DEF Taken

\* u is t with slot i of p released, its free count and its links aside.
Freed(t, u, p, i) ==
  /\ u \in Tables /\ \A q \in PageIds \ {p} : u[q] = t[q]
  /\ SameLinks(t[p], u[p])
  /\ u[p].nextFree = [t[p].nextFree EXCEPT ![i] = t[p].firstFree]
  /\ u[p].occupied = [t[p].occupied EXCEPT ![i] = FALSE]
  /\ u[p].firstFree = i /\ u[p].freeCount = t[p].freeCount

\* The assignments of release do that.
LEMMA FreeFields ==
  ASSUME NEW t \in Tables, NEW p \in PageIds, NEW i \in SlotIds
  PROVE  Freed(t, [t EXCEPT ![p].occupied[i] = FALSE,
                            ![p].nextFree[i] = t[p].firstFree,
                            ![p].firstFree = i], p, i)
<1> DEFINE u == [t EXCEPT ![p].occupied[i] = FALSE,
                          ![p].nextFree[i] = t[p].firstFree, ![p].firstFree = i]
<1>1. t \in [PageIds -> PageRecord] /\ t[p] \in PageRecord
  BY DEF Tables
<1>2. /\ [t[p].nextFree EXCEPT ![i] = t[p].firstFree] \in [SlotIds -> 0 .. SlotsPerPage]
      /\ [t[p].occupied EXCEPT ![i] = FALSE] \in [SlotIds -> BOOLEAN]
      /\ i \in 0 .. SlotsPerPage
  BY <1>1, PoolAssumption DEF PageRecord, SlotIds
<1>3. u[p] = [[[t[p] EXCEPT !.occupied = [t[p].occupied EXCEPT ![i] = FALSE]]
                     EXCEPT !.nextFree = [t[p].nextFree EXCEPT ![i] = t[p].firstFree]]
                     EXCEPT !.firstFree = i]
  BY <1>1 DEF PageRecord
<1>4. u[p] \in PageRecord
  <2>1. \A r \in PageRecord, v \in 0 .. SlotsPerPage :
          [r EXCEPT !.firstFree = v] \in PageRecord
    BY DEF PageRecord
  <2>2. \A r \in PageRecord, v \in [SlotIds -> 0 .. SlotsPerPage] :
          [r EXCEPT !.nextFree = v] \in PageRecord
    BY DEF PageRecord
  <2>3. \A r \in PageRecord, v \in [SlotIds -> BOOLEAN] :
          [r EXCEPT !.occupied = v] \in PageRecord
    BY DEF PageRecord
  <2> QED BY <1>1, <1>2, <1>3, <2>1, <2>2, <2>3
<1>5. u \in Tables /\ \A q \in PageIds \ {p} : u[q] = t[q]
  BY <1>1, <1>4 DEF Tables
<1>6. /\ SameLinks(t[p], u[p]) /\ u[p].freeCount = t[p].freeCount
      /\ u[p].nextFree = [t[p].nextFree EXCEPT ![i] = t[p].firstFree]
      /\ u[p].firstFree = i
      /\ u[p].occupied = [t[p].occupied EXCEPT ![i] = FALSE]
  BY <1>1, <1>3 DEF SameLinks, PageRecord
<1> QED BY <1>5, <1>6 DEF Freed

\* u is t with one more free slot counted in p.
Counted(t, u, p) ==
  /\ u \in Tables /\ \A q \in PageIds \ {p} : u[q] = t[q]
  /\ SameLinks(t[p], u[p])
  /\ u[p].nextFree = t[p].nextFree /\ u[p].occupied = t[p].occupied
  /\ u[p].firstFree = t[p].firstFree /\ u[p].freeCount = t[p].freeCount + 1

\* The last assignment of release does that.
LEMMA CountFields ==
  ASSUME NEW t \in Tables, NEW p \in PageIds
  PROVE  Counted(t, [t EXCEPT ![p].freeCount = @ + 1], p)
<1>1. t \in [PageIds -> PageRecord] /\ t[p] \in PageRecord /\ t[p].freeCount + 1 \in Nat
  BY DEF Tables, PageRecord
<1> QED BY <1>1 DEF Counted, Tables, PageRecord, SameLinks

(***************************************************************************)
(* The table of pages.                                                     *)
(***************************************************************************)
\* The table of a pool of n pages whose list begins at first.
TableInv(t, first, n) ==
  /\ t \in Tables /\ first \in PageIds \cup {NULL} /\ n \in 0 .. MaxPages
  /\ \A p \in PageIds : HasChain(t[p])
  /\ \E s : PageList(t, first, n, s)
  /\ \A p \in PageIds : p > n => SameSlots(FreshPage, t[p])

LiveIn(t) == {a \in PageIds \X SlotIds : t[a[1]].occupied[a[2]]}

\* The free chain depends on the slot fields only.
LEMMA SameChain ==
  ASSUME NEW r, NEW q, SameSlots(r, q), HasChain(r)
  PROVE  HasChain(q)
  BY DEF SameSlots, HasChain

\* The head of the list is a created page that is on the list.
LEMMA HeadOnList ==
  ASSUME NEW t, NEW first \in PageIds, NEW n, TableInv(t, first, n)
  PROVE  /\ t[first].onList /\ t[first].prev = NULL
         /\ t[first].freeCount > 0 /\ first <= n
<1>1. PICK s : PageList(t, first, n, s)
  BY DEF TableInv
<1> QED BY <1>1, PopPage

\* A created page becomes the head of the list, and no order lives on it.
LEMMA AddFresh ==
  ASSUME NEW n, TableInv(page, firstPage, n), n < MaxPages
  PROVE  /\ TableInv(AddToFreePageList(page, n + 1), n + 1, n + 1)
         /\ n + 1 \in PageIds
         /\ LiveIn(AddToFreePageList(page, n + 1)) = LiveIn(page)
<1>1. /\ page \in Tables /\ firstPage \in PageIds \cup {NULL} /\ n \in 0 .. MaxPages
      /\ \A p \in PageIds : HasChain(page[p])
      /\ \A p \in PageIds : p > n => SameSlots(FreshPage, page[p])
  BY DEF TableInv
<1>2. PICK s : PageList(page, firstPage, n, s)
  BY DEF TableInv
<1>3. PICK p \in PageIds : p = n + 1 /\ p > n /\ ~(p <= n)
  BY <1>1, PoolAssumption DEF PageIds
<1>4. firstPage # p
  <2>1. CASE firstPage \in PageIds
    BY <1>3, <2>1, HeadOnList
  <2>2. CASE firstPage = NULL
    BY <2>2, PoolAssumption DEF PageIds
  <2> QED BY <1>1, <2>1, <2>2
<1>5. ~page[p].onList
  BY <1>2, <1>3 DEF PageList
<1> DEFINE u == AddToFreePageList(page, p)
<1>6. Added(page, u, firstPage, p)
  BY <1>1, <1>4, <1>5, AddFields
<1> HIDE DEF u
<1>7. \A q \in PageIds : HasChain(u[q])
  BY <1>1, <1>6, SameChain DEF Added
<1>8. PageList(u, p, p, Push(p, s))
  <2>1. /\ u[p].next = firstPage /\ u[p].prev = NULL /\ u[p].onList
        /\ \A q \in PageIds \ {p} :
             /\ u[q].next = page[q].next /\ u[q].onList = page[q].onList
             /\ u[q].prev = IF q = firstPage THEN p ELSE page[q].prev
        /\ \A q \in PageIds : u[q].freeCount = page[q].freeCount
    BY <1>6 DEF Added, SameSlots
  <2>2. \A q \in PageIds \ {p} : q <= p <=> q <= n
    BY <1>1, <1>3 DEF PageIds
  <2>3. p <= p /\ u[p].freeCount > 0
    <3>1. u[p].freeCount = SlotsPerPage
      <4>1. FreshPage.freeCount = SlotsPerPage
        BY DEF FreshPage
      <4>2. SameSlots(FreshPage, page[p])
        BY <1>1, <1>3
      <4> QED BY <2>1, <4>1, <4>2 DEF SameSlots
    <3> QED BY <3>1, PoolAssumption DEF PageIds
  <2> QED BY <1>2, <1>5, <2>1, <2>2, <2>3, PushPage
<1>9. \A q \in PageIds : q > p => SameSlots(FreshPage, u[q])
  <2>1. \A q \in PageIds : q > p => q > n
    BY <1>1, <1>3 DEF PageIds
  <2> QED BY <1>1, <1>6, <2>1 DEF Added, SameSlots
<1>10. TableInv(u, p, p)
  <2>1. p \in 0 .. MaxPages
    BY DEF PageIds
  <2> QED BY <1>6, <1>7, <1>8, <1>9, <2>1 DEF TableInv, Added
<1>11. LiveIn(u) = LiveIn(page)
  BY <1>6 DEF LiveIn, Added, SameSlots
<1> QED BY <1>3, <1>10, <1>11 DEF u

\* Taking the head page's first free slot: one order more lives, where none did.
LEMMA TakeKeeps ==
  ASSUME NEW t, NEW p \in PageIds, NEW n, TableInv(t, p, n), TakeSlot(t, p, p)
  PROVE  /\ TableInv(page', firstPage', n)
         /\ liveCount' = liveCount + 1 /\ target' = target
         /\ \E a \in (PageIds \X SlotIds) \ LiveIn(t) :
              LiveIn(page') = LiveIn(t) \cup {a} /\ result' = a
<1>1. /\ t \in Tables /\ n \in 0 .. MaxPages
      /\ \A q \in PageIds : HasChain(t[q])
      /\ \A q \in PageIds : q > n => SameSlots(FreshPage, t[q])
  BY DEF TableInv
<1>2. PICK s : PageList(t, p, n, s)
  BY DEF TableInv
<1>3. t[p].onList /\ t[p].prev = NULL /\ t[p].freeCount > 0 /\ p <= n
  BY HeadOnList
<1>4. t[p] \in PageRecord /\ HasChain(t[p]) /\ t[p].freeCount # 0
  BY <1>1, <1>3 DEF Tables
<1>5. PICK i : i = t[p].firstFree
  OBVIOUS
<1>6. i \in SlotIds /\ ~t[p].occupied[i]
  <2> DEFINE q == [nextFree |-> t[p].nextFree,
                   firstFree |-> t[p].nextFree[t[p].firstFree],
                   freeCount |-> t[p].freeCount - 1,
                   occupied |-> [t[p].occupied EXCEPT ![t[p].firstFree] = TRUE]]
  <2>1. /\ q.nextFree = t[p].nextFree /\ q.firstFree = t[p].nextFree[t[p].firstFree]
        /\ q.freeCount = t[p].freeCount - 1
        /\ q.occupied = [t[p].occupied EXCEPT ![t[p].firstFree] = TRUE]
    OBVIOUS
  <2> HIDE DEF q
  <2> QED BY <1>4, <1>5, <2>1, TakeChain
<1> DEFINE v == [t EXCEPT ![p].firstFree = t[p].nextFree[t[p].firstFree],
                          ![p].freeCount = @ - 1, ![p].occupied[t[p].firstFree] = TRUE]
<1>7. Taken(t, v, p)
  BY <1>1, <1>3, <1>5, <1>6, TakeFields
<1>8. /\ page' = IF v[p].freeCount = 0 THEN RemoveFromFreePageList(v, p) ELSE v
      /\ firstPage' = IF v[p].freeCount = 0 THEN HeadAfterRemoval(v, p, p) ELSE p
      /\ liveCount' = liveCount + 1 /\ target' = target /\ result' = <<p, i>>
  BY <1>5 DEF TakeSlot
<1> HIDE DEF v
<1>9. \A q \in PageIds : HasChain(v[q])
  <2>1. HasChain(v[p])
    BY <1>4, <1>7, TakeChain DEF Taken
  <2> QED BY <1>1, <1>7, <2>1 DEF Taken
<1>10. \A q \in PageIds : q > n => SameSlots(FreshPage, v[q])
  <2>1. \A q \in PageIds : q > n => q # p
    BY <1>1, <1>3 DEF PageIds
  <2> QED BY <1>1, <1>7, <2>1 DEF Taken
<1>11. <<p, i>> \in (PageIds \X SlotIds) \ LiveIn(t)
  BY <1>6 DEF LiveIn
<1>12. LiveIn(v) = LiveIn(t) \cup {<<p, i>>}
  <2>1. ASSUME NEW q \in PageIds, NEW j \in SlotIds
        PROVE  v[q].occupied[j] <=> t[q].occupied[j] \/ (q = p /\ j = i)
    BY <1>4, <1>5, <1>6, <1>7, <2>1 DEF Taken, PageRecord
  <2>2. \A q \in PageIds, j \in SlotIds :
          <<q, j>> \in LiveIn(v) <=> <<q, j>> \in LiveIn(t) \/ <<q, j>> = <<p, i>>
    BY <2>1 DEF LiveIn
  <2>3. /\ LiveIn(v) \subseteq PageIds \X SlotIds
        /\ LiveIn(t) \subseteq PageIds \X SlotIds /\ <<p, i>> \in PageIds \X SlotIds
    BY <1>6 DEF LiveIn
  <2> QED BY <2>2, <2>3
<1>13. TableInv(page', firstPage', n) /\ LiveIn(page') = LiveIn(v)
  <2>1. CASE v[p].freeCount # 0
    <3>1. page' = v /\ firstPage' = p
      BY <1>8, <2>1
    <3>2. v[p].freeCount > 0
      <4>1. v \in [PageIds -> PageRecord]
        BY <1>7 DEF Taken, Tables
      <4>2. v[p].freeCount \in Nat
        BY <4>1 DEF PageRecord
      <4> QED BY <2>1, <4>2
    <3>3. \A q \in PageIds :
            /\ v[q].next = t[q].next /\ v[q].prev = t[q].prev
            /\ v[q].onList = t[q].onList /\ (v[q].freeCount > 0 <=> t[q].freeCount > 0)
      BY <1>3, <1>7, <3>2 DEF Taken, SameLinks
    <3>4. PageList(v, p, n, s)
      BY <1>2, <3>3, SamePages
    <3>5. TableInv(v, p, n)
      BY <1>1, <1>7, <1>9, <1>10, <3>4 DEF TableInv, Taken
    <3> QED BY <3>1, <3>5
  <2>2. CASE v[p].freeCount = 0
    <3>1. v \in Tables /\ v[p].onList /\ v[p].prev = NULL /\ v[p].next = t[p].next
      BY <1>3, <1>7 DEF Taken, SameLinks
    <3> DEFINE u == RemoveFromFreePageList(v, p)
    <3>2. Removed(v, u, p) /\ HeadAfterRemoval(v, p, p) = v[p].next
      BY <3>1, RemoveFields
    <3>3. page' = u /\ firstPage' = t[p].next
      BY <1>8, <2>2, <3>1, <3>2
    <3> HIDE DEF u
    <3>4. WithoutHead(t, u, p)
      <4>1. ~u[p].onList /\ ~(u[p].freeCount > 0)
        BY <2>2, <3>2 DEF Removed, SameSlots
      <4>2. ASSUME NEW q \in PageIds \ {p}
            PROVE  /\ u[q].next = t[q].next /\ u[q].onList = t[q].onList
                   /\ u[q].prev = IF q = t[p].next THEN NULL ELSE t[q].prev
                   /\ u[q].freeCount = t[q].freeCount
        BY <1>7, <3>1, <3>2 DEF Removed, SameSlots, Taken
      <4> QED BY <4>1, <4>2 DEF WithoutHead
    <3>5. PageList(u, t[p].next, n, Tail(s))
      BY <1>2, <3>4, PopPage
    <3>6. \A q \in PageIds : HasChain(u[q])
      BY <1>9, <3>2, SameChain DEF Removed
    <3>7. \A q \in PageIds : q > n => SameSlots(FreshPage, u[q])
      BY <1>10, <3>2 DEF Removed, SameSlots
    <3>8. t[p].next \in PageIds \cup {NULL}
      BY <1>4 DEF PageRecord
    <3>9. TableInv(u, t[p].next, n)
      BY <1>1, <3>2, <3>5, <3>6, <3>7, <3>8 DEF TableInv, Removed
    <3>10. LiveIn(u) = LiveIn(v)
      BY <3>2 DEF LiveIn, Removed, SameSlots
    <3> QED BY <3>3, <3>9, <3>10
  <2> QED BY <2>1, <2>2
<1>14. LiveIn(page') = LiveIn(t) \cup {<<p, i>>} /\ result' = <<p, i>>
  BY <1>8, <1>12, <1>13
<1> QED BY <1>8, <1>11, <1>13, <1>14

\* Releasing a live order: it alone is gone, and its page heads the list if it
\* had been full.
LEMMA ReleaseKeeps ==
  ASSUME TableInv(page, firstPage, pages), NEW p \in PageIds, NEW i \in SlotIds,
         Release(p, i), p <= pages, page[p].occupied[i]
  PROVE  /\ TableInv(page', firstPage', pages')
         /\ liveCount' = liveCount - 1 /\ target' = target /\ pages' = pages
         /\ \E a \in LiveIn(page) : LiveIn(page') = LiveIn(page) \ {a}
<1>1. /\ page \in Tables /\ firstPage \in PageIds \cup {NULL} /\ pages \in 0 .. MaxPages
      /\ \A q \in PageIds : HasChain(page[q])
      /\ \A q \in PageIds : q > pages => SameSlots(FreshPage, page[q])
  BY DEF TableInv
<1>2. PICK s : PageList(page, firstPage, pages, s)
  BY DEF TableInv
<1>3. page[p] \in PageRecord /\ HasChain(page[p]) /\ page[p].freeCount \in Nat
  BY <1>1 DEF Tables, PageRecord
<1>4. ~(p > pages)
  BY <1>1 DEF PageIds
<1> DEFINE f == [page EXCEPT ![p].occupied[i] = FALSE,
                             ![p].nextFree[i] = page[p].firstFree, ![p].firstFree = i]
           g == IF page[p].freeCount = 0 THEN AddToFreePageList(f, p) ELSE f
           u == [g EXCEPT ![p].freeCount = @ + 1]
<1>5. /\ page' = u /\ firstPage' = IF page[p].freeCount = 0 THEN p ELSE firstPage
      /\ liveCount' = liveCount - 1 /\ target' = target /\ pages' = pages
  BY <1>4 DEF Release
<1>6. Freed(page, f, p, i)
  BY <1>1, FreeFields
<1> HIDE DEF f
\* The slots of the page, whatever happens to the list.
<1>7. ASSUME g \in Tables, \A q \in PageIds : SameSlots(f[q], g[q])
      PROVE  /\ Counted(g, u, p) /\ u[p].freeCount = page[p].freeCount + 1
             /\ \A q \in PageIds : HasChain(u[q])
             /\ \A q \in PageIds : q > pages => SameSlots(FreshPage, u[q])
             /\ LiveIn(u) = LiveIn(page) \ {<<p, i>>}
  <2>1. Counted(g, u, p)
    BY <1>7, CountFields
  <2> HIDE DEF g, u
  <2>2. /\ u[p].nextFree = [page[p].nextFree EXCEPT ![i] = page[p].firstFree]
        /\ u[p].occupied = [page[p].occupied EXCEPT ![i] = FALSE]
        /\ u[p].firstFree = i /\ u[p].freeCount = page[p].freeCount + 1
    BY <1>6, <1>7, <2>1 DEF Freed, Counted, SameSlots
  <2>3. \A q \in PageIds \ {p} : SameSlots(page[q], u[q])
    BY <1>6, <1>7, <2>1 DEF Freed, Counted, SameSlots
  <2>4. HasChain(u[p])
    <3>1. PICK z : FreeList([page[p].nextFree EXCEPT ![i] = page[p].firstFree],
                           [page[p].occupied EXCEPT ![i] = FALSE], i,
                           page[p].freeCount + 1, z)
      BY <1>3, ReleaseChain
    <3> QED BY <2>2, <3>1, Zenon DEF HasChain
  <2>5. \A q \in PageIds : HasChain(u[q])
    BY <1>1, <2>3, <2>4, SameChain
  <2>6. \A q \in PageIds : q > pages => SameSlots(FreshPage, u[q])
    BY <1>1, <1>4, <2>3 DEF SameSlots
  <2>7. ASSUME NEW q \in PageIds, NEW j \in SlotIds
        PROVE  u[q].occupied[j] <=> page[q].occupied[j] /\ ~(q = p /\ j = i)
    BY <1>3, <2>2, <2>3 DEF SameSlots, PageRecord
  <2>8. \A q \in PageIds, j \in SlotIds :
          <<q, j>> \in LiveIn(u) <=> <<q, j>> \in LiveIn(page) /\ <<q, j>> # <<p, i>>
    BY <2>7 DEF LiveIn
  <2>9. /\ LiveIn(u) \subseteq PageIds \X SlotIds
        /\ LiveIn(page) \subseteq PageIds \X SlotIds
    BY DEF LiveIn
  <2>10. LiveIn(u) = LiveIn(page) \ {<<p, i>>}
    BY <2>8, <2>9
  <2> QED BY <2>1, <2>2, <2>5, <2>6, <2>10
<1>8. <<p, i>> \in LiveIn(page)
  BY DEF LiveIn
<1>9. ASSUME g \in Tables, \A q \in PageIds : SameSlots(f[q], g[q]),
             NEW r, PageList(u, firstPage', pages, r)
      PROVE  /\ TableInv(page', firstPage', pages')
             /\ LiveIn(page') = LiveIn(page) \ {<<p, i>>}
  <2>1. /\ u \in Tables /\ \A q \in PageIds : HasChain(u[q])
        /\ \A q \in PageIds : q > pages => SameSlots(FreshPage, u[q])
        /\ LiveIn(u) = LiveIn(page) \ {<<p, i>>}
    BY <1>7, <1>9 DEF Counted
  <2> HIDE DEF g, u
  <2>2. firstPage' \in PageIds \cup {NULL}
    BY <1>1, <1>5
  <2>3. TableInv(u, firstPage', pages)
    BY <1>1, <1>9, <2>1, <2>2 DEF TableInv
  <2> QED BY <1>5, <2>1, <2>3
<1>10. CASE page[p].freeCount = 0
  <2>1. ~page[p].onList /\ firstPage # p
    <3>1. ~page[p].onList
      BY <1>2, <1>10 DEF PageList
    <3>2. CASE firstPage \in PageIds
      BY <3>1, <3>2, HeadOnList
    <3>3. CASE firstPage = NULL
      BY <3>1, <3>3, PoolAssumption DEF PageIds
    <3> QED BY <1>1, <3>1, <3>2, <3>3
  <2>2. f \in Tables /\ ~f[p].onList
    BY <1>6, <2>1 DEF Freed, SameLinks
  <2>3. g = AddToFreePageList(f, p)
    BY <1>10
  <2>4. Added(f, g, firstPage, p)
    BY <1>1, <2>1, <2>2, <2>3, AddFields
  <2>5. g \in Tables /\ \A q \in PageIds : SameSlots(f[q], g[q])
    BY <2>4 DEF Added
  <2>6. Counted(g, u, p) /\ u[p].freeCount = page[p].freeCount + 1
    BY <1>7, <2>5
  <2> HIDE DEF g, u
  <2>7. u[p].next = firstPage /\ u[p].prev = NULL /\ u[p].onList
    BY <2>4, <2>6 DEF Added, Counted, SameLinks
  <2>8. p <= pages /\ u[p].freeCount > 0
    BY <1>10, <2>6
  <2>9. \A q \in PageIds \ {p} :
          /\ u[q].next = page[q].next /\ u[q].onList = page[q].onList
          /\ u[q].prev = IF q = firstPage THEN p ELSE page[q].prev
          /\ u[q].freeCount = page[q].freeCount /\ (q <= pages <=> q <= pages)
    BY <1>6, <2>4, <2>6 DEF Freed, Added, Counted, SameSlots
  <2>10. PageList(u, p, pages, Push(p, s))
    BY <1>2, <2>1, <2>7, <2>8, <2>9, PushPage
  <2>11. firstPage' = p
    BY <1>5, <1>10
  <2> QED BY <1>5, <1>8, <1>9, <2>5, <2>10, <2>11
<1>11. CASE page[p].freeCount # 0
  <2>1. g = f
    BY <1>11
  <2>2. g \in Tables /\ \A q \in PageIds : SameSlots(f[q], g[q])
    BY <1>6, <2>1 DEF Freed, SameSlots
  <2>3. Counted(g, u, p) /\ u[p].freeCount = page[p].freeCount + 1
    BY <1>7, <2>2
  <2> HIDE DEF g, u
  <2>4. u[p].freeCount > 0 /\ page[p].freeCount > 0
    BY <1>3, <1>11, <2>3
  <2>5. \A q \in PageIds :
          /\ u[q].next = page[q].next /\ u[q].prev = page[q].prev
          /\ u[q].onList = page[q].onList
          /\ (u[q].freeCount > 0 <=> page[q].freeCount > 0)
    BY <1>6, <2>1, <2>3, <2>4 DEF Freed, Counted, SameLinks
  <2>6. PageList(u, firstPage, pages, s)
    BY <1>2, <2>5, SamePages
  <2>7. firstPage' = firstPage
    BY <1>5, <1>11
  <2> QED BY <1>5, <1>8, <1>9, <2>2, <2>6, <2>7
<1> QED BY <1>10, <1>11

(***************************************************************************)
(* The pool.                                                               *)
(***************************************************************************)
\* The inductive invariant.
PoolInv ==
  /\ TableInv(page, firstPage, pages)
  /\ liveCount = Cardinality(Live)
  /\ target \in 0 .. MaxPages /\ (target # 0 => pages < target)

\* What a step does to the live orders.
LiveStep ==
  \/ liveCount' = liveCount /\ Live' = Live
  \/ /\ liveCount' = liveCount + 1
     /\ \E a \in (PageIds \X SlotIds) \ Live : Live' = Live \cup {a} /\ result' = a
  \/ /\ liveCount' = liveCount - 1
     /\ \E a \in Live : Live' = Live \ {a}

\* An empty pool satisfies the invariant.
LEMMA PoolInitInv == PoolInit => PoolInv
<1> SUFFICES ASSUME PoolInit PROVE PoolInv
  OBVIOUS
<1>1. /\ pages = 0 /\ firstPage = NULL /\ liveCount = 0 /\ target = 0
      /\ page = [p \in PageIds |-> FreshPage]
  BY DEF PoolInit
<1>2. page \in Tables /\ \A p \in PageIds : page[p] = FreshPage
  BY <1>1, FreshChain DEF Tables
<1>3. \A p \in PageIds : HasChain(page[p]) /\ SameSlots(FreshPage, page[p])
  BY <1>2, FreshChain DEF SameSlots
<1>4. PageList(page, NULL, 0, <<>>)
  <2>1. /\ <<>> \in Seq(PageIds) /\ Len(<<>>) = 0 /\ ToSet(<<>>) = {}
        /\ IsInjective(<<>>)
    BY DEF ToSet, IsInjective
  <2>2. \A p \in PageIds : ~page[p].onList /\ ~(p <= 0)
    <3>1. ~FreshPage.onList
      BY DEF FreshPage
    <3> QED BY <1>2, <3>1 DEF PageIds
  <2> QED BY <2>1, <2>2 DEF PageList, Linked
<1>5. TableInv(page, firstPage, pages)
  <2>1. 0 \in 0 .. MaxPages
    BY PoolAssumption
  <2> QED BY <1>1, <1>2, <1>3, <1>4, <2>1 DEF TableInv
<1>6. Live = {}
  <2>1. \A i \in SlotIds : ~FreshPage.occupied[i]
    BY DEF FreshPage
  <2> QED BY <1>2, <2>1 DEF Live
<1>7. target \in 0 .. MaxPages
  BY <1>1, PoolAssumption
<1> QED BY <1>1, <1>5, <1>6, <1>7, FS_EmptySet DEF PoolInv

\* The live orders can be counted.
LEMMA LiveFinite == IsFiniteSet(Live)
<1>1. IsFiniteSet(PageIds) /\ IsFiniteSet(SlotIds)
  BY FS_Interval, PoolAssumption DEF PageIds, SlotIds
<1>2. IsFiniteSet(PageIds \X SlotIds)
  BY <1>1, FS_Product
<1>3. Live \in SUBSET (PageIds \X SlotIds)
  BY DEF Live
<1> QED BY <1>2, <1>3, FS_Subset

\* Every step keeps the table and changes the live orders by at most one.
LEMMA PoolStep ==
  ASSUME PoolInv, PoolNext
  PROVE  /\ TableInv(page', firstPage', pages') /\ LiveStep
         /\ target' \in 0 .. MaxPages /\ (target' # 0 => pages' < target')
<1>1. /\ TableInv(page, firstPage, pages) /\ pages \in 0 .. MaxPages
      /\ firstPage \in PageIds \cup {NULL}
      /\ target \in 0 .. MaxPages /\ (target # 0 => pages < target)
  BY DEF PoolInv, TableInv
<1>2. Live = LiveIn(page) /\ Live' = LiveIn(page')
  BY DEF Live, LiveIn
<1>3. CASE Allocate
  <2>1. target = 0
    BY <1>3 DEF Allocate
  <2>2. CASE firstPage # NULL
    <3>1. firstPage \in PageIds /\ TakeSlot(page, firstPage, firstPage) /\ pages' = pages
      BY <1>1, <1>3, <2>2 DEF Allocate
    <3>2. /\ TableInv(page', firstPage', pages)
          /\ liveCount' = liveCount + 1 /\ target' = target
          /\ \E a \in (PageIds \X SlotIds) \ LiveIn(page) :
               LiveIn(page') = LiveIn(page) \cup {a} /\ result' = a
      BY <1>1, <3>1, TakeKeeps
    <3>3. LiveStep
      BY <1>2, <3>2 DEF LiveStep
    <3> QED BY <1>1, <2>1, <3>1, <3>2, <3>3
  <2>3. CASE firstPage = NULL
    <3>1. PICK t, p :
            /\ p = pages + 1 /\ pages < MaxPages /\ pages' = p
            /\ t = AddToFreePageList(page, p) /\ TakeSlot(t, p, p)
      BY <1>3, <2>3 DEF Allocate
    <3>2. TableInv(t, p, p) /\ p \in PageIds /\ LiveIn(t) = LiveIn(page)
      BY <1>1, <3>1, AddFresh
    <3>3. /\ TableInv(page', firstPage', p)
          /\ liveCount' = liveCount + 1 /\ target' = target
          /\ \E a \in (PageIds \X SlotIds) \ LiveIn(t) :
               LiveIn(page') = LiveIn(t) \cup {a} /\ result' = a
      BY <3>1, <3>2, TakeKeeps
    <3>4. LiveStep
      BY <1>2, <3>2, <3>3 DEF LiveStep
    <3> QED BY <1>1, <2>1, <3>1, <3>3, <3>4
  <2> QED BY <2>2, <2>3
<1>4. CASE AllocateFails
  BY <1>1, <1>2, <1>4 DEF AllocateFails, LiveStep
<1>5. ASSUME NEW k \in 0 .. SlotsPerPage * MaxPages, Reserve(k)
      PROVE  /\ TableInv(page', firstPage', pages') /\ LiveStep
             /\ target' \in 0 .. MaxPages /\ (target' # 0 => pages' < target')
  <2>1. PICK needed :
          /\ needed = (k + SlotsPerPage - 1) \div SlotsPerPage
          /\ needed <= MaxPages /\ target' = IF pages < needed THEN needed ELSE 0
          /\ UNCHANGED <<pages, page, firstPage, liveCount>>
    BY <1>5 DEF Reserve
  <2>2. needed \in Int
    BY <2>1, PoolAssumption
  <2>3. target' \in 0 .. MaxPages /\ (target' # 0 => pages' < target')
    BY <1>1, <2>1, <2>2, PoolAssumption
  <2> QED BY <1>1, <1>2, <2>1, <2>3 DEF LiveStep
<1>6. CASE ReserveStep
  <2>1. target # 0 /\ liveCount' = liveCount
    BY <1>6 DEF ReserveStep
  <2>2. CASE /\ pages' = pages + 1 /\ page' = AddToFreePageList(page, pages + 1)
             /\ firstPage' = pages + 1
             /\ target' = IF pages + 1 < target THEN target ELSE 0
    <3>1. pages < MaxPages
      BY <1>1, <2>1, PoolAssumption
    <3>2. /\ TableInv(page', firstPage', pages') /\ LiveIn(page') = LiveIn(page)
      BY <1>1, <2>2, <3>1, AddFresh
    <3>3. target' \in 0 .. MaxPages /\ (target' # 0 => pages' < target')
      BY <1>1, <2>2, PoolAssumption
    <3> QED BY <1>2, <2>1, <3>2, <3>3 DEF LiveStep
  <2>3. CASE target' = 0 /\ UNCHANGED <<pages, page, firstPage>>
    <3>1. 0 \in 0 .. MaxPages
      BY PoolAssumption
    <3> QED BY <1>1, <1>2, <2>1, <2>3, <3>1 DEF LiveStep
  <2> QED BY <1>6, <2>2, <2>3 DEF ReserveStep
<1>7. ASSUME NEW p \in PageIds, NEW i \in SlotIds, Release(p, i)
      PROVE  /\ TableInv(page', firstPage', pages') /\ LiveStep
             /\ target' \in 0 .. MaxPages /\ (target' # 0 => pages' < target')
  <2>1. CASE p > pages \/ ~page[p].occupied[i]
    <3>1. UNCHANGED <<pages, page, firstPage, liveCount, target>>
      BY <1>7, <2>1 DEF Release
    <3> QED BY <1>1, <1>2, <3>1 DEF LiveStep
  <2>2. CASE ~(p > pages) /\ page[p].occupied[i]
    <3>1. p <= pages
      BY <1>1, <2>2 DEF PageIds
    <3>2. /\ TableInv(page', firstPage', pages')
          /\ liveCount' = liveCount - 1 /\ target' = target /\ pages' = pages
          /\ \E a \in LiveIn(page) : LiveIn(page') = LiveIn(page) \ {a}
      BY <1>1, <1>7, <2>2, <3>1, ReleaseKeeps
    <3> QED BY <1>1, <1>2, <3>2 DEF LiveStep
  <2> QED BY <2>1, <2>2
<1> QED BY <1>3, <1>4, <1>5, <1>6, <1>7 DEF PoolNext

\* Every call, and every step of reserve, keeps the invariant.
LEMMA PoolNextInv == PoolInv /\ [PoolNext]_poolVars => PoolInv'
<1> SUFFICES ASSUME PoolInv, [PoolNext]_poolVars PROVE PoolInv'
  OBVIOUS
<1>1. CASE PoolNext
  <2>1. /\ TableInv(page', firstPage', pages') /\ LiveStep
        /\ target' \in 0 .. MaxPages /\ (target' # 0 => pages' < target')
    BY <1>1, PoolStep
  <2>2. liveCount = Cardinality(Live) /\ Cardinality(Live) \in Nat /\ IsFiniteSet(Live)
    BY LiveFinite, FS_CardinalityType DEF PoolInv
  <2>3. liveCount' = Cardinality(Live')
    <3>1. CASE liveCount' = liveCount /\ Live' = Live
      BY <2>2, <3>1
    <3>2. CASE /\ liveCount' = liveCount + 1
               /\ \E a \in (PageIds \X SlotIds) \ Live :
                    Live' = Live \cup {a} /\ result' = a
      BY <2>2, <3>2, FS_AddElement
    <3>3. CASE liveCount' = liveCount - 1 /\ \E a \in Live : Live' = Live \ {a}
      BY <2>2, <3>3, FS_RemoveElement
    <3> QED BY <2>1, <3>1, <3>2, <3>3 DEF LiveStep
  <2> QED BY <2>1, <2>3 DEF PoolInv
<1>2. CASE UNCHANGED poolVars
  BY <1>2 DEF PoolInv, poolVars, Live, TableInv, PageList
<1> QED BY <1>1, <1>2

(***************************************************************************)
(* What the invariant says of a walk along the links.                      *)
(***************************************************************************)
\* Distinct elements of a finite set make a sequence no longer than the set.
LEMMA DistinctBound ==
  ASSUME NEW S, IsFiniteSet(S), NEW s \in Seq(S), IsInjective(s)
  PROVE  Len(s) \in Nat /\ Len(s) <= Cardinality(S)
<1>1. PICK l \in Nat : l = Len(s) /\ DOMAIN s = 1 .. l
  BY LenProperties
<1>2. s \in [1 .. l -> S]
  BY <1>1
<1>3. s \in Injection(1 .. l, S)
  BY <1>2 DEF Injection
<1>4. Cardinality(1 .. l) <= Cardinality(S)
  BY <1>3, FS_Injection
<1>5. Cardinality(1 .. l) = l
  BY FS_Interval
<1> QED BY <1>1, <1>4, <1>5

\* A walk along the free chain of a page meets its unoccupied slots.
LEMMA SlotsRead ==
  ASSUME PoolInv, NEW p \in PageIds
  PROVE  /\ IsInjective(FreeSlots(p))
         /\ ToSet(FreeSlots(p)) = {i \in SlotIds : ~page[p].occupied[i]}
         /\ page[p].freeCount = Len(FreeSlots(p))
<1>1. HasChain(page[p])
  BY DEF PoolInv, TableInv
<1>2. PICK s : FreeList(page[p].nextFree, page[p].occupied, page[p].firstFree,
                        page[p].freeCount, s)
  BY <1>1 DEF HasChain
<1>3. /\ s \in Seq(SlotIds) /\ IsInjective(s) /\ Len(s) = page[p].freeCount
      /\ \A i \in SlotIds : i \in ToSet(s) <=> ~page[p].occupied[i]
      /\ Linked(page[p].firstFree, page[p].nextFree, SlotsPerPage, s)
  BY <1>2 DEF FreeList
<1>4. PICK n \in Nat : n = SlotsPerPage + 1
  BY PoolAssumption
<1>5. IsFiniteSet(SlotIds) /\ Cardinality(SlotIds) = SlotsPerPage
  BY FS_Interval, PoolAssumption DEF SlotIds
<1>6. SlotsPerPage \notin SlotIds
  BY PoolAssumption DEF SlotIds
<1>7. Len(s) < n
  <2>1. Len(s) \in Nat /\ Len(s) <= Cardinality(SlotIds)
    BY <1>3, <1>5, DistinctBound
  <2> QED BY <1>4, <1>5, <2>1, PoolAssumption
<1>8. FreeSlots(p) = s
  <2>1. Chain(page[p].firstFree, page[p].nextFree, SlotsPerPage, n) = s
    BY <1>3, <1>6, <1>7, ChainReads
  <2> QED BY <1>4, <2>1 DEF FreeSlots
<1>9. ToSet(s) \subseteq SlotIds
  <2>1. DOMAIN s = 1 .. Len(s) /\ \A k \in 1 .. Len(s) : s[k] \in SlotIds
    BY <1>3, LenProperties, ElementOfSeq
  <2> QED BY <2>1 DEF ToSet
<1>10. ToSet(s) = {i \in SlotIds : ~page[p].occupied[i]}
  BY <1>3, <1>9
<1> QED BY <1>3, <1>8, <1>10

\* A walk along the page list meets the pages with a free slot.
LEMMA PagesRead ==
  ASSUME PoolInv
  PROVE  FreePagesExact
<1>1. PICK s : PageList(page, firstPage, pages, s)
  BY DEF PoolInv, TableInv
<1> DEFINE link == [p \in PageIds |-> page[p].next]
<1>2. /\ s \in Seq(PageIds) /\ IsInjective(s)
      /\ Linked(firstPage, link, NULL, s)
      /\ \A k \in 1 .. Len(s) : page[s[k]].prev = IF k = 1 THEN NULL ELSE s[k - 1]
      /\ \A p \in PageIds : p \in ToSet(s) <=> page[p].onList
      /\ \A p \in PageIds : page[p].onList <=> p <= pages /\ page[p].freeCount > 0
  BY <1>1 DEF PageList
<1>3. PICK n \in Nat : n = MaxPages + 1
  BY PoolAssumption
<1>4. IsFiniteSet(PageIds) /\ Cardinality(PageIds) = MaxPages /\ NULL \notin PageIds
  BY FS_Interval, PoolAssumption DEF PageIds
<1>5. Len(s) < n
  <2>1. Len(s) \in Nat /\ Len(s) <= Cardinality(PageIds)
    BY <1>2, <1>4, DistinctBound
  <2> QED BY <1>3, <1>4, <2>1, PoolAssumption
<1>6. FreePages = s
  <2>1. FreePages = Chain(firstPage, link, NULL, n)
    BY <1>3 DEF FreePages
  <2> HIDE DEF link
  <2>2. Chain(firstPage, link, NULL, n) = s
    BY <1>2, <1>4, <1>5, ChainReads
  <2> QED BY <2>1, <2>2
<1>7. ToSet(s) \subseteq PageIds
  <2>1. DOMAIN s = 1 .. Len(s) /\ \A k \in 1 .. Len(s) : s[k] \in PageIds
    BY <1>2, LenProperties, ElementOfSeq
  <2> QED BY <2>1 DEF ToSet
<1>8. pages \in 0 .. MaxPages
  BY DEF PoolInv, TableInv
<1>9. \A p : p \in 1 .. pages <=> p \in PageIds /\ p <= pages
  BY <1>8, PoolAssumption DEF PageIds
<1>10. ToSet(s) = {p \in 1 .. pages : page[p].freeCount > 0}
  BY <1>2, <1>7, <1>9
<1>11. \A p \in 1 .. pages : page[p].onList <=> page[p].freeCount > 0
  BY <1>2, <1>9
<1> QED BY <1>2, <1>6, <1>10, <1>11 DEF FreePagesExact

\* Every reachable state satisfies the inductive invariant: the links of each
\* page chain its unoccupied slots, those between pages chain the pages with a
\* free slot.
THEOREM PoolInvariant == PoolSpec => []PoolInv
<1>1. PoolInit => PoolInv
  BY PoolInitInv
<1>2. PoolInv /\ [PoolNext]_poolVars => PoolInv'
  BY PoolNextInv
<1> QED BY <1>1, <1>2, PTL DEF PoolSpec

\* FreeChainExact: after any sequence of allocate, release and reserve, failed
\* ones included, a walk of a page's nextFree links meets exactly its
\* unoccupied slots, once each, and freeCount and liveOrderCount agree.
THEOREM PoolFreeChainExact == PoolSpec => []FreeChainExact
<1>1. PoolInv => FreeChainExact
  <2> SUFFICES ASSUME PoolInv PROVE FreeChainExact
    OBVIOUS
  <2>1. \A p \in 1 .. pages : p \in PageIds
    BY PoolAssumption DEF PoolInv, TableInv, PageIds
  <2>2. liveCount = Cardinality(Live)
    BY DEF PoolInv
  <2> QED BY <2>1, <2>2, SlotsRead DEF FreeChainExact
<1> QED BY <1>1, PoolInvariant, PTL

\* FreePagesExact: the doubly-linked page list holds exactly the created pages
\* with a free slot, once each, and its back links agree.
THEOREM PoolFreePagesExact == PoolSpec => []FreePagesExact
<1>1. PoolInv => FreePagesExact
  BY PagesRead
<1> QED BY <1>1, PoolInvariant, PTL

\* OrdersStable: allocate returns an address no live order has, and no call
\* moves, reuses or drops the address of another live order.
THEOREM PoolOrdersStable == PoolSpec => OrdersStable
<1> DEFINE Act ==
      /\ liveCount' = liveCount => Live' = Live
      /\ liveCount' > liveCount =>
           \E a \in (PageIds \X SlotIds) \ Live : Live' = Live \cup {a} /\ result' = a
      /\ liveCount' < liveCount => \E a \in Live : Live' = Live \ {a}
<1>1. PoolInv /\ [PoolNext]_poolVars => [Act]_poolVars
  <2> SUFFICES ASSUME PoolInv, PoolNext PROVE Act
    BY Zenon
  <2>1. liveCount \in Nat
    BY LiveFinite, FS_CardinalityType DEF PoolInv
  <2>2. LiveStep
    BY PoolStep
  <2>3. CASE liveCount' = liveCount /\ Live' = Live
    BY <2>1, <2>3
  <2>4. CASE /\ liveCount' = liveCount + 1
             /\ \E a \in (PageIds \X SlotIds) \ Live :
                  Live' = Live \cup {a} /\ result' = a
    <3>1. liveCount' # liveCount /\ ~(liveCount' < liveCount)
      BY <2>1, <2>4
    <3> QED BY <2>4, <3>1, Zenon
  <2>5. CASE liveCount' = liveCount - 1 /\ \E a \in Live : Live' = Live \ {a}
    <3>1. liveCount' # liveCount /\ ~(liveCount' > liveCount)
      BY <2>1, <2>5
    <3> QED BY <2>5, <3>1, Zenon
  <2> QED BY <2>2, <2>3, <2>4, <2>5 DEF LiveStep
<1>2. PoolSpec => []PoolInv
  BY PoolInvariant
<1> HIDE DEF Act
<1>3. PoolSpec => [][Act]_poolVars
  BY <1>1, <1>2, PTL DEF PoolSpec
<1> QED BY <1>3 DEF OrdersStable, Act
=============================================================================

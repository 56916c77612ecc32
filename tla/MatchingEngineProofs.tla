------------------------ MODULE MatchingEngineProofs ------------------------
(***************************************************************************)
(* Proofs about the order book and the matching engine that owns it, for   *)
(* every ladder, pool, set of orders and requests and length of run.       *)
(***************************************************************************)
EXTENDS MatchingEngine, OrderBookHistory, DataLemmas

(***************************************************************************)
(* Part I: the order book, with its history variable.                      *)
(***************************************************************************)

(***************************************************************************)
(* Arithmetic of the ladder.                                               *)
(***************************************************************************)
\* Unsigned subtraction stays in the range of a quantity.
LEMMA MinusType ==
  ASSUME NEW a \in Quantities, NEW b \in Quantities
  PROVE  Minus(a, b) \in Quantities
  BY InputAssumption, SMT DEF Minus, Quantities

\* An offset that passes the tick test of indexOf is the tick times its index.
LEMMA DivExact ==
  ASSUME NEW x \in Nat, NEW t \in Nat \ {0}, x % t = 0
  PROVE  x \div t \in Nat /\ (x \div t) * t = x
  BY SMT

\* Levels further down the ladder are more ticks away.
LEMMA TimesMono ==
  ASSUME NEW x \in Nat, NEW y \in Nat, NEW t \in Nat \ {0}, x < y
  PROVE  x * t < y * t
  BY SMT

\* An offset within the ladder gives an index within the level array.
LEMMA TimesMono2 ==
  ASSUME NEW x \in Nat, NEW y \in Nat, NEW t \in Nat \ {0}, x * t <= y * t
  PROVE  x <= y
  BY SMT

\* A price that indexOf accepts maps to an index of the ladder, and the level
\* at that index has that price.
LEMMA IndexOfInverse ==
  ASSUME NEW side \in Sides, NEW price \in Nat,
         InRange(price), OnTick(side, price)
  PROVE  /\ IndexOf(side, price) \in Levels
         /\ PriceAt(side, IndexOf(side, price)) = price
<1> DEFINE off == Offset(side, price)
           n == LevelCount - 1
<1>1. n \in Nat /\ TickSize \in Nat \ {0} /\ MinPrice \in Nat
  BY LadderAssumption
<1>2. n * TickSize \in Nat
  BY <1>1
<1>3. off \in Nat /\ off <= n * TickSize /\ off % TickSize = 0
  BY <1>1, <1>2 DEF Offset, InRange, OnTick, MaxPrice, Sides
<1>4. off \div TickSize \in Nat /\ (off \div TickSize) * TickSize = off
  BY <1>1, <1>3, DivExact
<1>5. off \div TickSize <= n
  <2> HIDE DEF off, n
  <2> QED BY <1>1, <1>3, <1>4, TimesMono2
<1>6. IndexOf(side, price) = off \div TickSize
  BY DEF IndexOf
<1>7. IndexOf(side, price) \in Levels
  BY <1>1, <1>4, <1>5, <1>6, LadderAssumption DEF Levels
<1>8. PriceAt(side, IndexOf(side, price)) = price
  BY <1>1, <1>2, <1>4, <1>6 DEF PriceAt, Offset, Sides, MaxPrice
<1> QED BY <1>7, <1>8

\* Going outward from the touch prices get strictly worse.
LEMMA PriceAtMonotone ==
  ASSUME NEW i \in Levels, NEW j \in Levels, i < j
  PROVE  /\ PriceAt("SELL", i) < PriceAt("SELL", j)
         /\ PriceAt("BUY", j) < PriceAt("BUY", i)
<1>1. i \in Nat /\ j \in Nat /\ TickSize \in Nat \ {0} /\ MinPrice \in Nat
      /\ LevelCount \in Nat \ {0}
  BY LadderAssumption DEF Levels
<1>2. i * TickSize < j * TickSize
  BY <1>1, TimesMono
<1>3. i * TickSize \in Nat /\ j * TickSize \in Nat /\ MaxPrice \in Nat
  BY <1>1 DEF MaxPrice
<1> QED BY <1>1, <1>2, <1>3 DEF PriceAt

(***************************************************************************)
(* Taking an order out of a queue.                                         *)
(***************************************************************************)
\* Unlinking leaves a queue of orders, whether or not the order was in it.
LEMMA RemoveFirstType ==
  ASSUME NEW S, NEW q \in Seq(S), NEW s
  PROVE  RemoveFirst(q, s) \in Seq(S)
  BY RemoveFirstAt, RemoveAtProps

\* Appending an order that is not in the queue.
LEMMA AppendSet ==
  ASSUME NEW S, NEW q \in Seq(S), NEW s \in S, s \notin ToSet(q),
         IsInjective(q)
  PROVE  /\ Append(q, s) \in Seq(S)
         /\ Append(q, s) # <<>>
         /\ ToSet(Append(q, s)) = ToSet(q) \cup {s}
         /\ IsInjective(Append(q, s))
<1> DEFINE r == Append(q, s)
           n == Len(q)
<1>1. /\ n \in Nat
      /\ DOMAIN q = 1 .. n
      /\ r \in Seq(S)
      /\ r # <<>>
      /\ DOMAIN r = 1 .. n + 1
      /\ \A j \in 1 .. n : r[j] = q[j]
      /\ r[n + 1] = s
  BY LenProperties, AppendProperties
<1> HIDE DEF r, n
<1>2. ToSet(r) = ToSet(q) \cup {s}
  BY <1>1 DEF ToSet
<1>3. IsInjective(r)
  BY <1>1 DEF ToSet, IsInjective
<1> QED BY <1>1, <1>2, <1>3 DEF r

\* Taking an order out of a queue that holds it once.
LEMMA RemoveSet ==
  ASSUME NEW S, NEW q \in Seq(S), NEW s \in ToSet(q), IsInjective(q)
  PROVE  /\ RemoveFirst(q, s) \in Seq(S)
         /\ ToSet(RemoveFirst(q, s)) = ToSet(q) \ {s}
         /\ IsInjective(RemoveFirst(q, s))
<1>1. Len(q) \in Nat /\ DOMAIN q = 1 .. Len(q)
  BY LenProperties
<1>2. PICK k \in 1 .. Len(q) :
             q[k] = s /\ RemoveFirst(q, s) = RemoveAt(q, k)
  BY <1>1, RemoveFirstAt DEF ToSet
<1> DEFINE r == RemoveFirst(q, s)
           n == Len(q)
<1>3. /\ r \in Seq(S)
      /\ Len(r) = n - 1
      /\ \A j \in 1 .. n - 1 : r[j] = IF j < k THEN q[j] ELSE q[j + 1]
  BY <1>2, RemoveAtProps
<1>4. DOMAIN r = 1 .. n - 1
  BY <1>3, LenProperties
<1> HIDE DEF r, n
<1>n. n \in Nat /\ DOMAIN q = 1 .. n /\ k \in 1 .. n
  BY <1>1 DEF n
<1>5. ToSet(r) \subseteq ToSet(q) \ {s}
  <2> SUFFICES ASSUME NEW j \in 1 .. n - 1
               PROVE  r[j] \in ToSet(q) \ {s}
    BY <1>4 DEF ToSet
  <2>1. CASE j < k
    <3>1. j \in 1 .. n /\ j # k
      BY <1>n, <2>1
    <3>2. r[j] = q[j]
      BY <1>3, <2>1
    <3> QED BY <1>2, <1>n, <3>1, <3>2 DEF ToSet, IsInjective
  <2>2. CASE ~(j < k)
    <3>1. j + 1 \in 1 .. n /\ j + 1 # k
      BY <1>n, <2>2
    <3>2. r[j] = q[j + 1]
      BY <1>3, <2>2
    <3> QED BY <1>2, <1>n, <3>1, <3>2 DEF ToSet, IsInjective
  <2> QED BY <2>1, <2>2
<1>6. ToSet(q) \ {s} \subseteq ToSet(r)
  <2> SUFFICES ASSUME NEW j \in 1 .. n, q[j] # s
               PROVE  q[j] \in ToSet(r)
    BY <1>n DEF ToSet
  <2>1. CASE j < k
    <3>1. j \in 1 .. n - 1 /\ r[j] = q[j]
      BY <1>3, <1>n, <2>1
    <3> QED BY <1>4, <3>1 DEF ToSet
  <2>2. CASE j > k
    <3>1. j - 1 \in 1 .. n - 1 /\ ~(j - 1 < k) /\ (j - 1) + 1 = j
      BY <1>n, <2>2
    <3>2. r[j - 1] = q[j]
      BY <1>3, <3>1
    <3> QED BY <1>4, <3>1, <3>2 DEF ToSet
  <2> QED BY <1>2, <1>n, <2>1, <2>2
<1>7. IsInjective(r)
  <2> SUFFICES ASSUME NEW i \in 1 .. n - 1, NEW j \in 1 .. n - 1, r[i] = r[j]
               PROVE  i = j
    BY <1>4 DEF IsInjective
  <2> DEFINE up(m) == IF m < k THEN m ELSE m + 1
  <2>1. up(i) \in 1 .. n /\ up(j) \in 1 .. n
    BY <1>n
  <2>2. r[i] = q[up(i)] /\ r[j] = q[up(j)]
    BY <1>3
  <2>3. up(i) = up(j)
    BY <1>n, <2>1, <2>2, Zenon DEF IsInjective
  <2> QED BY <1>n, <2>3
<1> QED BY <1>3, <1>5, <1>6, <1>7 DEF r

\* PriceLevel::isEmpty: a queue is empty exactly when no order is in it.
LEMMA EmptyIff ==
  ASSUME NEW S, NEW q \in Seq(S)
  PROVE  q = <<>> <=> ToSet(q) = {}
<1>1. Len(q) \in Nat /\ DOMAIN q = 1 .. Len(q)
  BY LenProperties
<1>2. q = <<>> <=> Len(q) = 0
  BY EmptySeq, SeqEqual, LenProperties
<1>3. ASSUME Len(q) # 0
      PROVE  ToSet(q) # {}
  <2>1. 1 \in DOMAIN q
    BY <1>1, <1>3
  <2> QED BY <2>1 DEF ToSet
<1>4. ASSUME Len(q) = 0
      PROVE  ToSet(q) = {}
  <2>1. DOMAIN q = {}
    BY <1>1, <1>4
  <2> QED BY <2>1 DEF ToSet
<1> QED BY <1>2, <1>3, <1>4

(***************************************************************************)
(* The cached best index.                                                  *)
(***************************************************************************)
\* markOccupied keeps it exact.
LEMMA OccupyTouch ==
  ASSUME NEW bits \in SUBSET Levels, NEW b \in Levels \cup {NPos},
         IsTouch(bits, b), NEW i \in Levels
  PROVE  IsTouch(bits \cup {i}, IF bits = {} \/ i < b THEN i ELSE b)
  BY LadderAssumption DEF IsTouch, Levels, NPos

\* The forward scan finds the lowest bit at or above from.
LEMMA NextSetBitProps ==
  ASSUME NEW bits \in SUBSET Levels, NEW from \in Nat
  PROVE  /\ NextSetBit(bits, from) \in Levels \cup {NPos}
         /\ (\E i \in bits : i >= from) =>
              /\ NextSetBit(bits, from) \in bits
              /\ NextSetBit(bits, from) >= from
              /\ \A i \in bits : i >= from => NextSetBit(bits, from) <= i
<1> DEFINE above == {i \in bits : i >= from}
<1>0. Levels \subseteq Nat
  BY LadderAssumption DEF Levels
<1>1. above \in SUBSET Nat /\ above \subseteq bits /\ bits \subseteq Levels
  BY <1>0
<1>2. CASE above = {}
  <2>1. NextSetBit(bits, from) = NPos
    BY <1>2 DEF NextSetBit
  <2>2. ~ \E i \in bits : i >= from
    BY <1>2
  <2> QED BY <2>1, <2>2
<1>3. CASE above # {}
  <2> HIDE DEF above
  <2>1. Min(above) \in above /\ \A x \in above : Min(above) <= x
    BY <1>1, <1>3, MinOfNats
  <2>2. NextSetBit(bits, from) = Min(above)
    BY <1>3 DEF NextSetBit, above
  <2> QED BY <1>1, <2>1, <2>2 DEF above
<1> QED BY <1>2, <1>3

\* The value markEmpty gives the cached best index.
LEMMA EmptyTouch ==
  ASSUME NEW bits \in SUBSET Levels, NEW b \in Levels \cup {NPos},
         IsTouch(bits, b), NEW i \in bits
  PROVE  LET left == bits \ {i}
             new == IF i # b THEN b
                    ELSE IF left = {} THEN NPos ELSE NextSetBit(left, i + 1)
         IN  new \in Levels \cup {NPos} /\ IsTouch(left, new)
<1> DEFINE left == bits \ {i}
           next == NextSetBit(left, i + 1)
<1>1. left \in SUBSET Levels /\ i \in Nat /\ i + 1 \in Nat
      /\ \A j \in bits : j \in Nat
  BY DEF Levels
<1>2. CASE i # b
  BY <1>2 DEF IsTouch
<1>3. CASE i = b /\ left = {}
  BY <1>3 DEF IsTouch
<1>4. CASE i = b /\ left # {}
  <2>1. \A j \in left : j >= i + 1
    BY <1>1, <1>4 DEF IsTouch
  <2>2. /\ next \in left
        /\ next \in Levels \cup {NPos}
        /\ \A j \in left : j >= i + 1 => next <= j
    <3> HIDE DEF left
    <3> QED BY <1>1, <1>4, <2>1, NextSetBitProps
  <2>3. \A j \in left : next <= j
    BY <2>1, <2>2
  <2>4. IsTouch(left, next)
    <3> HIDE DEF left, next
    <3> QED BY <1>4, <2>2, <2>3 DEF IsTouch
  <2> QED BY <1>4, <2>2, <2>4
<1> QED BY <1>2, <1>3, <1>4

(***************************************************************************)
(* What linking an order into a level does to the four structures.         *)
(***************************************************************************)
LEMMA AppendStep ==
  ASSUME BookTypeOK, QueuesMatchOrders, TouchExact,
         NEW side \in Sides, NEW i \in Levels, NEW s \in Slots,
         s \notin ToSet(queue[side][i]),
         total[side][i] + order[s].rem <= MaxQuantity,
         AppendToLevel(s, side, i)
  PROVE  /\ queue' \in [Sides -> [Levels -> Seq(Slots)]]
         /\ total' \in [Sides -> [Levels -> Quantities]]
         /\ occ' \in [Sides -> SUBSET Levels]
         /\ best' \in [Sides -> Levels \cup {NPos}]
         /\ TouchExact'
         /\ \A sd \in Sides, j \in Levels : IsInjective(queue'[sd][j])
         /\ ToSet(queue'[side][i]) = ToSet(queue[side][i]) \cup {s}
         /\ \A sd \in Sides, j \in Levels :
              sd # side \/ j # i => queue'[sd][j] = queue[sd][j]
<1> DEFINE q == queue[side][i]
<1>1. q \in Seq(Slots) /\ IsInjective(q)
  BY DEF BookTypeOK, QueuesMatchOrders
<1>2. /\ Append(q, s) \in Seq(Slots)
      /\ Append(q, s) # <<>>
      /\ ToSet(Append(q, s)) = ToSet(q) \cup {s}
      /\ IsInjective(Append(q, s))
  <2> HIDE DEF q
  <2> QED BY <1>1, AppendSet DEF q
<1>3. queue' = [queue EXCEPT ![side] = [queue[side] EXCEPT ![i] = Append(q, s)]]
  BY DEF AppendToLevel
<1>4. \A sd \in Sides, j \in Levels :
        queue'[sd][j] = IF sd = side /\ j = i THEN Append(q, s)
                                              ELSE queue[sd][j]
  BY <1>3 DEF BookTypeOK
<1>5. queue' \in [Sides -> [Levels -> Seq(Slots)]]
  BY <1>2, <1>3 DEF BookTypeOK
<1>6. total' \in [Sides -> [Levels -> Quantities]]
  <2>1. total[side][i] \in Quantities /\ order[s].rem \in Quantities
    BY DEF BookTypeOK, Order
  <2>2. total[side][i] + order[s].rem \in Quantities
    BY <2>1, InputAssumption DEF Quantities
  <2> QED BY <2>2 DEF AppendToLevel, BookTypeOK
<1>7. /\ \A sd \in Sides, j \in Levels : IsInjective(queue'[sd][j])
      /\ ToSet(queue'[side][i]) = ToSet(queue[side][i]) \cup {s}
      /\ \A sd \in Sides, j \in Levels :
           sd # side \/ j # i => queue'[sd][j] = queue[sd][j]
  BY <1>2, <1>4 DEF QueuesMatchOrders
<1>8. /\ occ' \in [Sides -> SUBSET Levels]
      /\ best' \in [Sides -> Levels \cup {NPos}]
      /\ TouchExact'
  <2> DEFINE nb == IF occ[side] = {} \/ i < best[side] THEN i ELSE best[side]
  <2>0. occ[side] \in SUBSET Levels /\ best[side] \in Levels \cup {NPos}
        /\ IsTouch(occ[side], best[side])
        /\ occ[side] = {j \in Levels : queue[side][j] # <<>>}
    BY DEF BookTypeOK, TouchExact
  <2>1. CASE q = <<>>
    <3>1. /\ occ' = [occ EXCEPT ![side] = occ[side] \cup {i}]
          /\ best' = [best EXCEPT ![side] = nb]
      BY <2>1 DEF AppendToLevel, MarkOccupied
    <3>2. IsTouch(occ[side] \cup {i}, nb)
      BY <2>0, OccupyTouch
    <3>3. nb \in Levels \cup {NPos}
      BY <2>0
    <3> HIDE DEF nb
    <3>4. \A sd \in Sides :
            /\ occ'[sd] = IF sd = side THEN occ[side] \cup {i} ELSE occ[sd]
            /\ best'[sd] = IF sd = side THEN nb ELSE best[sd]
      BY <3>1 DEF BookTypeOK
    <3>5. occ[side] \cup {i} = {j \in Levels : queue'[side][j] # <<>>}
      BY <1>2, <1>4, <2>0
    <3>6. \A sd \in Sides : sd # side =>
            {j \in Levels : queue'[sd][j] # <<>>} =
            {j \in Levels : queue[sd][j] # <<>>}
      BY <1>4
    <3>7. TouchExact'
      BY <3>2, <3>4, <3>5, <3>6 DEF TouchExact
    <3> QED BY <2>0, <3>1, <3>3, <3>7 DEF BookTypeOK
  <2>2. CASE q # <<>>
    <3>1. occ' = occ /\ best' = best
      BY <2>2 DEF AppendToLevel
    <3>2. \A sd \in Sides, j \in Levels :
            queue'[sd][j] # <<>> <=> queue[sd][j] # <<>>
      BY <1>2, <1>4, <2>2
    <3> QED BY <3>1, <3>2 DEF BookTypeOK, TouchExact
  <2> QED BY <2>1, <2>2
<1> QED BY <1>5, <1>6, <1>7, <1>8

(***************************************************************************)
(* What unlinking an order does: cancellation, a full fill and rollback.   *)
(***************************************************************************)
\* A linked order is in the queue of the level its price maps to.
LEMMA LinkedOrder ==
  ASSUME BookTypeOK, QueuesMatchOrders, NEW s \in live \ Unlinked
  PROVE  /\ s \in Slots
         /\ order[s].side \in Sides
         /\ order[s].level \in Levels
         /\ order[s].level = IndexOf(order[s].side, order[s].price)
         /\ PriceAt(order[s].side, order[s].level) = order[s].price
         /\ s \in ToSet(queue[order[s].side][order[s].level])
<1>1. s \in Slots /\ order[s] \in Order
  BY DEF BookTypeOK
<1>2. order[s].side \in Sides /\ order[s].price \in Nat
  BY <1>1, InputAssumption DEF Order
<1>3. /\ InRange(order[s].price)
      /\ OnTick(order[s].side, order[s].price)
      /\ order[s].level = IndexOf(order[s].side, order[s].price)
  BY DEF QueuesMatchOrders
<1>4. /\ order[s].level \in Levels
      /\ PriceAt(order[s].side, order[s].level) = order[s].price
  BY <1>2, <1>3, IndexOfInverse
<1>5. s \in ToSet(queue[order[s].side][order[s].level])
  BY <1>2, <1>4 DEF QueuesMatchOrders
<1> QED BY <1>1, <1>2, <1>3, <1>4, <1>5

\* PriceLevel::removeOrder with the markEmpty that follows it: the order leaves
\* its queue and no other, and the occupancy and cached best index stay exact.
LEMMA RemoveStep ==
  ASSUME BookTypeOK, QueuesMatchOrders, TouchExact,
         NEW s \in live \ Unlinked, NEW remaining \in Quantities,
         RemoveFromLevel(s, remaining)
  PROVE  /\ queue' \in [Sides -> [Levels -> Seq(Slots)]]
         /\ total' \in [Sides -> [Levels -> Quantities]]
         /\ occ' \in [Sides -> SUBSET Levels]
         /\ best' \in [Sides -> Levels \cup {NPos}]
         /\ TouchExact'
         /\ \A sd \in Sides, j \in Levels :
              /\ IsInjective(queue'[sd][j])
              /\ ToSet(queue'[sd][j]) = ToSet(queue[sd][j]) \ {s}
<1> DEFINE side == order[s].side
           i == order[s].level
           q == queue[side][i]
           rest == RemoveFirst(q, s)
<1>0. /\ s \in Slots /\ side \in Sides /\ i \in Levels
      /\ i = IndexOf(side, order[s].price) /\ s \in ToSet(q)
  BY LinkedOrder
<1>1. q \in Seq(Slots) /\ IsInjective(q)
  BY <1>0 DEF BookTypeOK, QueuesMatchOrders
<1>2. /\ rest \in Seq(Slots)
      /\ ToSet(rest) = ToSet(q) \ {s}
      /\ IsInjective(rest)
  <2> HIDE DEF q
  <2> QED BY <1>0, <1>1, RemoveSet
<1>3. queue' = [queue EXCEPT ![side] = [queue[side] EXCEPT ![i] = rest]]
  BY DEF RemoveFromLevel
<1>t. total' = [total EXCEPT ![side] =
                  [total[side] EXCEPT ![i] = Minus(total[side][i], remaining)]]
  BY DEF RemoveFromLevel
<1>o. IF rest = <<>> THEN MarkEmpty(side, i) ELSE UNCHANGED <<occ, best>>
  BY <1>0 DEF RemoveFromLevel
<1>4. \A sd \in Sides, j \in Levels :
        queue'[sd][j] = IF sd = side /\ j = i THEN rest ELSE queue[sd][j]
  <2> HIDE DEF rest, side, i
  <2> QED BY <1>0, <1>3 DEF BookTypeOK
<1>5. queue' \in [Sides -> [Levels -> Seq(Slots)]]
  <2> HIDE DEF rest, side, i
  <2> QED BY <1>0, <1>2, <1>3 DEF BookTypeOK
<1>6. total' \in [Sides -> [Levels -> Quantities]]
  <2>1. total[side][i] \in Quantities
    BY <1>0 DEF BookTypeOK
  <2>2. Minus(total[side][i], remaining) \in Quantities
    BY <2>1, MinusType
  <2> HIDE DEF side, i
  <2> QED BY <1>0, <1>t, <2>2 DEF BookTypeOK
<1>7. ASSUME NEW sd \in Sides, NEW j \in Levels, sd # side \/ j # i
      PROVE  s \notin ToSet(queue[sd][j])
  BY <1>7 DEF QueuesMatchOrders
<1>8. \A sd \in Sides, j \in Levels :
        /\ IsInjective(queue'[sd][j])
        /\ ToSet(queue'[sd][j]) = ToSet(queue[sd][j]) \ {s}
  <2> SUFFICES ASSUME NEW sd \in Sides, NEW j \in Levels
               PROVE  /\ IsInjective(queue'[sd][j])
                      /\ ToSet(queue'[sd][j]) = ToSet(queue[sd][j]) \ {s}
    OBVIOUS
  <2>1. CASE sd = side /\ j = i
    <3> HIDE DEF rest
    <3> QED BY <1>2, <1>4, <2>1
  <2>2. CASE ~(sd = side /\ j = i)
    <3>1. queue'[sd][j] = queue[sd][j]
      BY <1>4, <2>2
    <3>2. s \notin ToSet(queue[sd][j])
      BY <1>7, <2>2
    <3>3. IsInjective(queue[sd][j])
      BY DEF QueuesMatchOrders
    <3> QED BY <3>1, <3>2, <3>3
  <2> QED BY <2>1, <2>2
<1>9. /\ occ' \in [Sides -> SUBSET Levels]
      /\ best' \in [Sides -> Levels \cup {NPos}]
      /\ TouchExact'
  <2>0. /\ occ[side] \in SUBSET Levels /\ best[side] \in Levels \cup {NPos}
        /\ IsTouch(occ[side], best[side])
        /\ occ[side] = {j \in Levels : queue[side][j] # <<>>}
    BY <1>0 DEF BookTypeOK, TouchExact
  <2>q. q # <<>>
    <3> HIDE DEF q
    <3> QED BY <1>0, <1>1, EmptyIff
  <2>i. i \in occ[side]
    BY <1>0, <2>0, <2>q
  <2> DEFINE left == occ[side] \ {i}
             nb == IF i # best[side] THEN best[side]
                   ELSE IF left = {} THEN NPos ELSE NextSetBit(left, i + 1)
  <2> HIDE DEF side, i, rest
  <2>1. CASE rest = <<>>
    <3>1. /\ occ' = [occ EXCEPT ![side] = left]
          /\ best' = [best EXCEPT ![side] = nb]
      BY <1>o, <2>1 DEF MarkEmpty
    <3>2. nb \in Levels \cup {NPos} /\ IsTouch(left, nb)
      BY <2>0, <2>i, EmptyTouch
    <3> HIDE DEF nb
    <3>4. \A sd \in Sides :
            /\ occ'[sd] = IF sd = side THEN left ELSE occ[sd]
            /\ best'[sd] = IF sd = side THEN nb ELSE best[sd]
      BY <3>1 DEF BookTypeOK
    <3>5. left = {j \in Levels : queue'[side][j] # <<>>}
      BY <1>0, <1>4, <2>0, <2>1
    <3>6. \A sd \in Sides : sd # side =>
            {j \in Levels : queue'[sd][j] # <<>>} =
            {j \in Levels : queue[sd][j] # <<>>}
      BY <1>4
    <3>7. TouchExact'
      BY <3>2, <3>4, <3>5, <3>6 DEF TouchExact
    <3> QED BY <1>0, <2>0, <3>1, <3>2, <3>7 DEF BookTypeOK
  <2>2. CASE rest # <<>>
    <3>1. occ' = occ /\ best' = best
      BY <1>o, <2>2
    <3>2. \A sd \in Sides, j \in Levels :
            queue'[sd][j] # <<>> <=> queue[sd][j] # <<>>
      BY <1>4, <2>2, <2>q DEF q
    <3> QED BY <3>1, <3>2 DEF BookTypeOK, TouchExact
  <2> QED BY <2>1, <2>2
<1> QED BY <1>5, <1>6, <1>8, <1>9

(***************************************************************************)
(* The inductive invariant, action by action.                              *)
(***************************************************************************)
LEMMA BlankTypes == Blank \in Order /\ NoRequest \in Request
<1>1. NPos \in Levels \cup {NPos} /\ 0 \in Quantities /\ 0 \in Sequences64
  BY InputAssumption DEF Quantities, Sequences64
<1> QED BY <1>1, InputAssumption
        DEF Blank, NoRequest, Order, Request, AnyId, Sides

\* A new book satisfies the invariant.
LEMMA BookInitInv == BookInit => BookInv
<1> SUFFICES ASSUME BookInit PROVE BookInv
  OBVIOUS
<1> USE DEF BookInit
<1>1. BookTypeOK
  <2>1. NPos \in Levels \cup {NPos} /\ 0 \in Quantities /\ "ok" \in Outcomes
        /\ "idle" \in Steps /\ <<>> \in Seq(Slots)
    BY InputAssumption DEF Quantities, Outcomes, Steps
  <2> QED BY <2>1, BlankTypes DEF BookTypeOK
<1>2. IndexMatchesPool
  BY DEF IndexMatchesPool, InFlight
<1>3. QueuesMatchOrders
  <2>1. IsInjective(<<>>) /\ ToSet(<<>>) = {}
    BY DEF IsInjective, ToSet
  <2> QED BY <2>1 DEF QueuesMatchOrders
<1>4. TouchExact
  BY DEF TouchExact, IsTouch
<1>5. RemainingInBounds /\ CallOK
  BY DEF RemainingInBounds, CallOK
<1> QED BY <1>1, <1>2, <1>3, <1>4, <1>5 DEF BookInv

\* A step that leaves the four structures alone and has no order in flight.
LEMMA BookUnchangedInv ==
  ASSUME BookInv, UNCHANGED bookVars,
         pc \notin {"link", "index", "unlink", "release"},
         pc' \in {"idle", "match", "alloc"},
         req' \in Request, slot' \in Slots \cup {NULL}, result' \in Outcomes,
         pc' = "alloc" => 0 < req'.rem /\ req'.rem <= req'.orig
  PROVE  BookInv'
<1> USE DEF BookInv, bookVars
<1>1. InFlight = {} /\ InFlight' = {} /\ Unlinked = {} /\ Unlinked' = {}
  BY DEF InFlight, Unlinked
<1>2. BookTypeOK'
  BY DEF BookTypeOK, Steps
<1>3. IndexMatchesPool'
  BY <1>1 DEF IndexMatchesPool
<1>4. QueuesMatchOrders'
  BY <1>1 DEF QueuesMatchOrders
<1>5. TouchExact' /\ RemainingInBounds' /\ CallOK'
  BY DEF TouchExact, RemainingInBounds, CallOK
<1> QED BY <1>2, <1>3, <1>4, <1>5

\* A call that is refused, or finds nothing to do, keeps the invariant.
LEMMA ReturnInv ==
  ASSUME BookInv, pc \notin {"link", "index", "unlink", "release"},
         NEW outcome \in Outcomes, Return(outcome)
  PROVE  BookInv'
  BY BlankTypes, BookUnchangedInv DEF Return, Finish

\* Building the Order object: it is in flight, in no level and not indexed.
LEMMA AllocateInv ==
  ASSUME BookInv, Allocate
  PROVE  BookInv'
<1> USE DEF BookInv, Allocate
<1>1. PICK s \in Slots \ live :
        /\ live' = live \cup {s}
        /\ order' = [order EXCEPT ![s] = NewOrder(req)]
        /\ slot' = s
  OBVIOUS
<1>2. /\ InFlight = {} /\ InFlight' = {s}
      /\ Unlinked = {} /\ Unlinked' = {s}
  BY <1>1 DEF InFlight, Unlinked
<1>3. /\ NewOrder(req) \in Order
      /\ NewOrder(req).level = NPos
      /\ NewOrder(req).id = req.id
      /\ NewOrder(req).rem = req.rem
      /\ NewOrder(req).orig = req.orig
  BY DEF BookTypeOK, Request, Order, NewOrder
<1>4. /\ order'[s] = NewOrder(req)
      /\ \A t \in live : order'[t] = order[t]
  BY <1>1 DEF BookTypeOK
<1>5. BookTypeOK'
  BY <1>1, <1>3 DEF BookTypeOK, Steps
<1>6. IndexMatchesPool'
  BY <1>1, <1>2, <1>4 DEF IndexMatchesPool
<1>7. QueuesMatchOrders'
  BY <1>1, <1>2, <1>3, <1>4 DEF QueuesMatchOrders
<1>8. TouchExact'
  BY DEF TouchExact
<1>9. RemainingInBounds' /\ CallOK'
  BY <1>1, <1>3, <1>4 DEF RemainingInBounds, CallOK
<1> QED BY <1>5, <1>6, <1>7, <1>8, <1>9

\* Linking at the back of the level its price maps to (levelAt, addOrder,
\* markOccupied).
LEMMA LinkInv ==
  ASSUME BookInv, Link
  PROVE  BookInv'
<1> DEFINE o == order[slot]
           i == IndexOf(o.side, o.price)
<1> USE DEF BookInv
<1>1. /\ pc = "link" /\ pc' = "index" /\ LinkError = "ok"
      /\ AppendToLevel(slot, o.side, i)
      /\ order' = [order EXCEPT ![slot].level = i]
      /\ UNCHANGED <<live, index, req, slot, result>>
  BY DEF Link
<1>2. /\ InFlight = {slot} /\ InFlight' = {slot}
      /\ Unlinked = {slot} /\ Unlinked' = {}
  BY <1>1 DEF InFlight, Unlinked
<1>3. /\ slot \in live /\ slot \in Slots /\ o \in Order
      /\ o.id = req.id /\ o.side \in Sides /\ o.price \in Nat
      /\ o.rem \in Nat
  BY <1>1, InputAssumption DEF CallOK, BookTypeOK, Order, Quantities
<1>4. /\ o.id # InvalidId /\ InRange(o.price) /\ OnTick(o.side, o.price)
      /\ ~(o.rem > MaxQuantity - total[o.side][i])
  BY <1>1 DEF LinkError
<1>5. i \in Levels /\ PriceAt(o.side, i) = o.price
  BY <1>3, <1>4, IndexOfInverse
<1>6. total[o.side][i] + o.rem <= MaxQuantity
  <2>1. total[o.side][i] \in Quantities
    BY <1>3, <1>5 DEF BookTypeOK
  <2> QED BY <1>3, <1>4, <2>1, InputAssumption DEF Quantities
<1>7. \A sd \in Sides, j \in Levels : slot \notin ToSet(queue[sd][j])
  BY <1>2 DEF QueuesMatchOrders
<1>8. /\ queue' \in [Sides -> [Levels -> Seq(Slots)]]
      /\ total' \in [Sides -> [Levels -> Quantities]]
      /\ occ' \in [Sides -> SUBSET Levels]
      /\ best' \in [Sides -> Levels \cup {NPos}]
      /\ TouchExact'
      /\ \A sd \in Sides, j \in Levels : IsInjective(queue'[sd][j])
      /\ ToSet(queue'[o.side][i]) = ToSet(queue[o.side][i]) \cup {slot}
      /\ \A sd \in Sides, j \in Levels :
           sd # o.side \/ j # i => queue'[sd][j] = queue[sd][j]
  <2> HIDE DEF i
  <2>1. slot \notin ToSet(queue[o.side][i])
    BY <1>3, <1>5, <1>7
  <2>2. /\ BookTypeOK /\ QueuesMatchOrders /\ TouchExact
        /\ o.side \in Sides /\ i \in Levels /\ slot \in Slots
        /\ total[o.side][i] + order[slot].rem <= MaxQuantity
    BY <1>1, <1>3, <1>5, <1>6
  <2> QED BY <1>1, <2>1, <2>2, AppendStep
<1> HIDE DEF i
<1>9. /\ order' \in [Slots -> Order]
      /\ order'[slot].level = i
      /\ \A s \in Slots :
           /\ order'[s].id = order[s].id /\ order'[s].side = order[s].side
           /\ order'[s].price = order[s].price
           /\ order'[s].rem = order[s].rem /\ order'[s].orig = order[s].orig
           /\ s # slot => order'[s].level = order[s].level
  BY <1>1, <1>3, <1>5 DEF BookTypeOK, Order
<1>10. BookTypeOK'
  BY <1>1, <1>8, <1>9 DEF BookTypeOK, Steps
<1>11. IndexMatchesPool'
  BY <1>1, <1>2, <1>9 DEF IndexMatchesPool, BookTypeOK
<1>12. QueuesMatchOrders'
  <2>1. \A sd \in Sides, j \in Levels :
          /\ IsInjective(queue'[sd][j])
          /\ ToSet(queue'[sd][j]) =
               {s \in live : order'[s].side = sd /\ order'[s].level = j}
    <3> SUFFICES ASSUME NEW sd \in Sides, NEW j \in Levels
                 PROVE  ToSet(queue'[sd][j]) =
                    {s \in live : order'[s].side = sd /\ order'[s].level = j}
      BY <1>8
    <3>1. ToSet(queue[sd][j]) =
            {s \in live \ {slot} : order[s].side = sd /\ order[s].level = j}
      BY <1>2 DEF QueuesMatchOrders
    <3>2. live \subseteq Slots
      BY DEF BookTypeOK
    <3>3. ToSet(queue'[sd][j]) =
            IF sd = o.side /\ j = i THEN ToSet(queue[sd][j]) \cup {slot}
                                    ELSE ToSet(queue[sd][j])
      BY <1>8
    <3>4. ASSUME NEW s \in live \ {slot}
          PROVE  s \in ToSet(queue'[sd][j]) <=>
                   order'[s].side = sd /\ order'[s].level = j
      BY <1>9, <3>1, <3>2, <3>3
    <3>5. slot \in ToSet(queue'[sd][j]) <=>
            order'[slot].side = sd /\ order'[slot].level = j
      BY <1>3, <1>9, <3>1, <3>3
    <3>6. ToSet(queue'[sd][j]) \subseteq live
      BY <1>3, <3>1, <3>3
    <3> QED BY <3>4, <3>5, <3>6
  <2>2. \A s \in live :
          /\ InRange(order'[s].price)
          /\ OnTick(order'[s].side, order'[s].price)
          /\ order'[s].level = IndexOf(order'[s].side, order'[s].price)
    <3> SUFFICES ASSUME NEW s \in live
                 PROVE  /\ InRange(order'[s].price)
                        /\ OnTick(order'[s].side, order'[s].price)
                        /\ order'[s].level =
                             IndexOf(order'[s].side, order'[s].price)
      OBVIOUS
    <3>1. s \in Slots
      BY DEF BookTypeOK
    <3>2. CASE s = slot
      BY <1>3, <1>4, <1>9, <3>1, <3>2 DEF i
    <3>3. CASE s # slot
      BY <1>2, <1>9, <3>1, <3>3 DEF QueuesMatchOrders
    <3> QED BY <3>2, <3>3
  <2> QED BY <1>1, <1>2, <2>1, <2>2 DEF QueuesMatchOrders
<1>13. RemainingInBounds'
  BY <1>1, <1>9 DEF RemainingInBounds, BookTypeOK
<1>14. CallOK'
  BY <1>1, <1>3, <1>4, <1>9 DEF CallOK, Order, AnyId
<1> QED BY <1>8, <1>10, <1>11, <1>12, <1>13, <1>14

\* isValid, indexOf or PriceLevel::addOrder throws: nothing to unlink.
LEMMA LinkThrowsInv ==
  ASSUME BookInv, LinkThrows
  PROVE  BookInv'
<1> USE DEF BookInv, LinkThrows, bookVars
<1>1. InFlight' = InFlight /\ Unlinked' = Unlinked
  BY DEF InFlight, Unlinked
<1>2. BookTypeOK'
  BY DEF BookTypeOK, Steps, LinkError, Outcomes
<1>3. IndexMatchesPool' /\ QueuesMatchOrders'
  BY <1>1 DEF IndexMatchesPool, QueuesMatchOrders
<1>4. TouchExact' /\ RemainingInBounds' /\ CallOK'
  BY DEF TouchExact, RemainingInBounds, CallOK
<1> QED BY <1>2, <1>3, <1>4

\* OrderIndex::addOrder succeeds and the order is no longer in flight.
LEMMA AddToIndexInv ==
  ASSUME BookInv, AddToIndex
  PROVE  BookInv'
<1> USE DEF BookInv, AddToIndex, Finish
<1>1. /\ InFlight = {slot} /\ InFlight' = {}
      /\ Unlinked = {} /\ Unlinked' = {}
  BY DEF InFlight, Unlinked
<1>2. slot \in live /\ order[slot].id = req.id /\ req.id \in OrderIds
      /\ slot \in Slots /\ slot # NULL
  BY NameAssumption DEF CallOK, BookTypeOK
<1>3. BookTypeOK'
  BY <1>2, BlankTypes DEF BookTypeOK, Steps, Outcomes
<1>4. IndexMatchesPool'
  <2>1. \A id \in OrderIds :
          index'[id] = IF id = req.id THEN slot ELSE index[id]
    BY DEF BookTypeOK
  <2>2. \A id \in OrderIds : index'[id] # NULL =>
          index'[id] \in live /\ order[index'[id]].id = id
    BY <1>2, <2>1 DEF IndexMatchesPool
  <2>3. ASSUME NEW s \in live
        PROVE  order[s].id \in OrderIds /\ index'[order[s].id] = s
    <3>1. CASE s = slot
      BY <1>2, <2>1, <3>1
    <3>2. CASE s # slot
      <4>1. order[s].id \in OrderIds /\ index[order[s].id] = s
        BY <1>1, <3>2 DEF IndexMatchesPool
      <4>2. s \in Slots /\ s # NULL
        BY NameAssumption DEF BookTypeOK
      <4>3. order[s].id # req.id
        BY <4>1, <4>2
      <4> QED BY <2>1, <4>1, <4>3
    <3> QED BY <3>1, <3>2
  <2> QED BY <1>1, <2>2, <2>3 DEF IndexMatchesPool
<1>5. QueuesMatchOrders'
  BY <1>1 DEF QueuesMatchOrders
<1>6. TouchExact' /\ RemainingInBounds' /\ CallOK'
  BY DEF TouchExact, RemainingInBounds, CallOK
<1> QED BY <1>3, <1>4, <1>5, <1>6

\* OrderIndex::addOrder throws with the order already linked.
LEMMA AddToIndexThrowsInv ==
  ASSUME BookInv, AddToIndexThrows
  PROVE  BookInv'
<1> USE DEF BookInv, AddToIndexThrows, bookVars
<1>1. InFlight' = InFlight /\ Unlinked' = Unlinked
  BY DEF InFlight, Unlinked
<1>2. BookTypeOK'
  BY DEF BookTypeOK, Steps, Outcomes
<1>3. IndexMatchesPool' /\ QueuesMatchOrders'
  BY <1>1 DEF IndexMatchesPool, QueuesMatchOrders
<1>4. TouchExact' /\ RemainingInBounds' /\ CallOK'
  BY DEF TouchExact, RemainingInBounds, CallOK
<1> QED BY <1>2, <1>3, <1>4

\* The catch block unlinks the order, and its level if that is now empty.
LEMMA RollbackLevelInv ==
  ASSUME BookInv, RollbackLevel
  PROVE  BookInv'
<1> USE DEF BookInv
<1>1. /\ pc = "unlink" /\ pc' = "release"
      /\ RemoveFromLevel(slot, order[slot].rem)
      /\ order' = [order EXCEPT ![slot].level = NPos]
      /\ UNCHANGED <<live, index, req, slot, result>>
  BY DEF RollbackLevel
<1>2. /\ InFlight = {slot} /\ InFlight' = {slot}
      /\ Unlinked = {} /\ Unlinked' = {slot}
  BY <1>1 DEF InFlight, Unlinked
<1>3. /\ slot \in live /\ slot \in Slots /\ order[slot].id = req.id
      /\ order[slot].rem \in Quantities
  BY <1>1 DEF CallOK, BookTypeOK, Order
<1>4. /\ queue' \in [Sides -> [Levels -> Seq(Slots)]]
      /\ total' \in [Sides -> [Levels -> Quantities]]
      /\ occ' \in [Sides -> SUBSET Levels]
      /\ best' \in [Sides -> Levels \cup {NPos}]
      /\ TouchExact'
      /\ \A sd \in Sides, j \in Levels :
           /\ IsInjective(queue'[sd][j])
           /\ ToSet(queue'[sd][j]) = ToSet(queue[sd][j]) \ {slot}
  BY <1>1, <1>2, <1>3, RemoveStep
<1>5. /\ order' \in [Slots -> Order]
      /\ order'[slot].level = NPos
      /\ \A s \in Slots :
           /\ order'[s].id = order[s].id /\ order'[s].side = order[s].side
           /\ order'[s].price = order[s].price
           /\ order'[s].rem = order[s].rem /\ order'[s].orig = order[s].orig
           /\ s # slot => order'[s].level = order[s].level
  BY <1>1, <1>3 DEF BookTypeOK, Order
<1>6. BookTypeOK'
  BY <1>1, <1>4, <1>5 DEF BookTypeOK, Steps
<1>7. IndexMatchesPool'
  BY <1>1, <1>2, <1>5 DEF IndexMatchesPool, BookTypeOK
<1>8. QueuesMatchOrders'
  <2>0. live \subseteq Slots
    BY DEF BookTypeOK
  <2>1. ASSUME NEW sd \in Sides, NEW j \in Levels
        PROVE  ToSet(queue'[sd][j]) =
          {s \in live \ {slot} : order'[s].side = sd /\ order'[s].level = j}
    <3>1. ToSet(queue[sd][j]) =
            {s \in live : order[s].side = sd /\ order[s].level = j}
      BY <1>2 DEF QueuesMatchOrders
    <3>2. ToSet(queue'[sd][j]) = ToSet(queue[sd][j]) \ {slot}
      BY <1>4
    <3> QED BY <1>5, <2>0, <3>1, <3>2
  <2>2. \A s \in live \ {slot} :
          /\ InRange(order'[s].price)
          /\ OnTick(order'[s].side, order'[s].price)
          /\ order'[s].level = IndexOf(order'[s].side, order'[s].price)
    BY <1>2, <1>5, <2>0 DEF QueuesMatchOrders
  <2> QED BY <1>1, <1>2, <1>4, <1>5, <2>1, <2>2 DEF QueuesMatchOrders
<1>9. RemainingInBounds' /\ CallOK'
  BY <1>1, <1>3, <1>5 DEF RemainingInBounds, CallOK, BookTypeOK
<1> QED BY <1>4, <1>6, <1>7, <1>8, <1>9

\* The catch block releases the order and rethrows.
LEMMA RollbackPoolInv ==
  ASSUME BookInv, RollbackPool
  PROVE  BookInv'
<1> USE DEF BookInv, RollbackPool, Release, Finish
<1>1. /\ InFlight = {slot} /\ InFlight' = {}
      /\ Unlinked = {slot} /\ Unlinked' = {}
  BY DEF InFlight, Unlinked
<1>2. \A s \in live' : s \in Slots /\ s # slot /\ order'[s] = order[s]
  BY DEF BookTypeOK
<1>3. BookTypeOK'
  BY BlankTypes DEF BookTypeOK, Steps
<1>4. IndexMatchesPool'
  BY <1>1, <1>2 DEF IndexMatchesPool
<1>5. QueuesMatchOrders'
  <2>1. ASSUME NEW sd \in Sides, NEW j \in Levels
        PROVE  ToSet(queue[sd][j]) =
                 {s \in live' : order'[s].side = sd /\ order'[s].level = j}
    <3>1. ToSet(queue[sd][j]) =
            {s \in live \ {slot} : order[s].side = sd /\ order[s].level = j}
      BY <1>1 DEF QueuesMatchOrders
    <3> QED BY <1>2, <3>1
  <2> QED BY <1>1, <1>2, <2>1 DEF QueuesMatchOrders
<1>6. TouchExact' /\ RemainingInBounds' /\ CallOK'
  BY <1>2 DEF TouchExact, RemainingInBounds, CallOK
<1> QED BY <1>3, <1>4, <1>5, <1>6

\* Every step of an insertion, its failures and its rollback included.
LEMMA InsertStepInv ==
  ASSUME BookInv, InsertStep
  PROVE  BookInv'
<1>1. CASE AllocateFails
  BY <1>1, ReturnInv DEF AllocateFails, Outcomes
<1> QED BY <1>1, AllocateInv, LinkInv, LinkThrowsInv, AddToIndexInv,
           AddToIndexThrowsInv, RollbackLevelInv, RollbackPoolInv DEF InsertStep

\* The single removal path, as a cancellation and a full fill use it.
LEMMA RemoveOrderInv ==
  ASSUME BookInv, pc \in {"idle", "match"}, pc' \in {"idle", "match"},
         req' \in Request, slot' \in Slots \cup {NULL}, result' \in Outcomes,
         NEW s \in live, NEW remaining \in Quantities,
         RemoveOrder(s, remaining)
  PROVE  BookInv'
<1> USE DEF BookInv
<1>1. /\ InFlight = {} /\ InFlight' = {}
      /\ Unlinked = {} /\ Unlinked' = {}
  BY DEF InFlight, Unlinked
<1>2. /\ RemoveFromLevel(s, remaining)
      /\ index' = [index EXCEPT ![order[s].id] = NULL]
      /\ live' = live \ {s}
      /\ order' = [order EXCEPT ![s] = Blank]
  BY DEF RemoveOrder, Release
<1>3. s \in Slots /\ order[s].id \in OrderIds /\ index[order[s].id] = s
  BY <1>1 DEF BookTypeOK, IndexMatchesPool
<1>4. /\ queue' \in [Sides -> [Levels -> Seq(Slots)]]
      /\ total' \in [Sides -> [Levels -> Quantities]]
      /\ occ' \in [Sides -> SUBSET Levels]
      /\ best' \in [Sides -> Levels \cup {NPos}]
      /\ TouchExact'
      /\ \A sd \in Sides, j \in Levels :
           /\ IsInjective(queue'[sd][j])
           /\ ToSet(queue'[sd][j]) = ToSet(queue[sd][j]) \ {s}
  BY <1>1, <1>2, RemoveStep
<1>5. \A t \in live' : t \in Slots /\ t \in live /\ t # s /\ order'[t] = order[t]
  BY <1>2 DEF BookTypeOK
<1>6. BookTypeOK'
  BY <1>2, <1>3, <1>4, BlankTypes DEF BookTypeOK, Steps
<1>7. IndexMatchesPool'
  <2>1. \A id \in OrderIds :
          index'[id] = IF id = order[s].id THEN NULL ELSE index[id]
    BY <1>2, <1>3 DEF BookTypeOK
  <2>2. ASSUME NEW id \in OrderIds, index'[id] # NULL
        PROVE  index'[id] \in live' /\ order'[index'[id]].id = id
    <3>1. id # order[s].id /\ index'[id] = index[id]
      BY <2>1, <2>2
    <3>2. index[id] \in live /\ order[index[id]].id = id
      BY <1>1, <2>2, <3>1 DEF IndexMatchesPool
    <3>3. index[id] # s
      BY <3>1, <3>2
    <3> QED BY <1>2, <1>5, <3>1, <3>2, <3>3
  <2>3. ASSUME NEW t \in live'
        PROVE  order'[t].id \in OrderIds /\ index'[order'[t].id] = t
    <3>1. order[t].id \in OrderIds /\ index[order[t].id] = t
      BY <1>1, <1>5 DEF IndexMatchesPool
    <3> QED BY <1>3, <1>5, <2>1, <3>1
  <2> QED BY <1>1, <2>2, <2>3 DEF IndexMatchesPool
<1>8. QueuesMatchOrders'
  <2>1. ASSUME NEW sd \in Sides, NEW j \in Levels
        PROVE  ToSet(queue'[sd][j]) =
                 {t \in live' : order'[t].side = sd /\ order'[t].level = j}
    <3>1. ToSet(queue[sd][j]) =
            {t \in live : order[t].side = sd /\ order[t].level = j}
      BY <1>1 DEF QueuesMatchOrders
    <3>2. ToSet(queue'[sd][j]) = ToSet(queue[sd][j]) \ {s}
      BY <1>4
    <3> QED BY <1>2, <1>5, <3>1, <3>2
  <2>2. \A t \in live' :
          /\ InRange(order'[t].price)
          /\ OnTick(order'[t].side, order'[t].price)
          /\ order'[t].level = IndexOf(order'[t].side, order'[t].price)
    BY <1>1, <1>5 DEF QueuesMatchOrders
  <2> QED BY <1>1, <1>4, <2>1, <2>2 DEF QueuesMatchOrders
<1>9. RemainingInBounds' /\ CallOK'
  BY <1>5 DEF RemainingInBounds, CallOK
<1> QED BY <1>4, <1>6, <1>7, <1>8, <1>9

\* A reduction or a partial fill: less than everything is taken.
LEMMA ShrinkInv ==
  ASSUME BookInv, pc \in {"idle", "match"}, pc' \in {"idle", "match"},
         req' \in Request, slot' \in Slots \cup {NULL}, result' \in Outcomes,
         NEW s \in live, NEW amount \in Nat, amount < order[s].rem,
         Shrink(s, amount)
  PROVE  BookInv'
<1> USE DEF BookInv
<1>1. /\ InFlight = {} /\ InFlight' = {}
      /\ Unlinked = {} /\ Unlinked' = {}
  BY DEF InFlight, Unlinked
<1>2. /\ s \in Slots /\ order[s].side \in Sides /\ order[s].level \in Levels
      /\ order[s].rem \in Quantities
  BY <1>1, LinkedOrder DEF BookTypeOK, Order
<1>3. order[s].rem - amount \in Quantities /\ 0 < order[s].rem - amount
  BY <1>2, InputAssumption DEF Quantities
<1>4. /\ order' = [order EXCEPT ![s].rem = order[s].rem - amount]
      /\ UNCHANGED <<live, queue, occ, best, index>>
  BY DEF Shrink
<1>5. /\ order' \in [Slots -> Order]
      /\ \A t \in Slots :
           /\ order'[t].id = order[t].id /\ order'[t].side = order[t].side
           /\ order'[t].price = order[t].price
           /\ order'[t].level = order[t].level
           /\ order'[t].orig = order[t].orig
           /\ t # s => order'[t].rem = order[t].rem
      /\ order'[s].rem = order[s].rem - amount
  BY <1>2, <1>3, <1>4 DEF BookTypeOK, Order
<1>6. total' \in [Sides -> [Levels -> Quantities]]
  <2>1. CASE ~CanReduceTotal(s, amount)
    BY <2>1 DEF Shrink, BookTypeOK
  <2>2. CASE CanReduceTotal(s, amount)
    <3> DEFINE sd == order[s].side
               l == order[s].level
    <3>1. total[sd][l] \in Quantities
      BY <1>2 DEF BookTypeOK
    <3>2. total[sd][l] - amount \in Quantities
      BY <2>2, <3>1, InputAssumption DEF CanReduceTotal, Quantities
    <3>3. total' = [total EXCEPT ![sd] =
                      [total[sd] EXCEPT ![l] = total[sd][l] - amount]]
      BY <2>2 DEF Shrink
    <3> HIDE DEF sd, l
    <3> QED BY <3>2, <3>3 DEF BookTypeOK
  <2> QED BY <2>1, <2>2
<1>7. BookTypeOK'
  BY <1>4, <1>5, <1>6 DEF BookTypeOK, Steps
<1>8. IndexMatchesPool'
  BY <1>1, <1>4, <1>5 DEF IndexMatchesPool, BookTypeOK
<1>9. QueuesMatchOrders'
  <2>0. live \subseteq Slots
    BY DEF BookTypeOK
  <2>1. ASSUME NEW sd \in Sides, NEW j \in Levels
        PROVE  ToSet(queue[sd][j]) =
                 {t \in live : order'[t].side = sd /\ order'[t].level = j}
    <3>1. ToSet(queue[sd][j]) =
            {t \in live : order[t].side = sd /\ order[t].level = j}
      BY <1>1 DEF QueuesMatchOrders
    <3> QED BY <1>5, <2>0, <3>1
  <2> QED BY <1>1, <1>4, <1>5, <2>0, <2>1 DEF QueuesMatchOrders
<1>10. TouchExact'
  BY <1>4 DEF TouchExact
<1>11. RemainingInBounds' /\ CallOK'
  <2>1. order[s].rem \in Nat /\ order[s].orig \in Nat /\ live \subseteq Slots
    BY <1>2 DEF BookTypeOK, Order, Quantities
  <2> QED BY <1>3, <1>4, <1>5, <2>1 DEF RemainingInBounds, CallOK
<1> QED BY <1>7, <1>8, <1>9, <1>10, <1>11

\* cancelOrder keeps the invariant.
LEMMA CancelOrderInv ==
  ASSUME BookInv, NEW id \in OrderIds, CancelOrder(id)
  PROVE  BookInv'
<1>1. pc = "idle"
  BY DEF CancelOrder
<1>2. CASE index[id] = NULL \/ ~Removable(index[id])
  BY <1>1, <1>2, ReturnInv DEF CancelOrder, Outcomes
<1>3. CASE index[id] # NULL /\ Removable(index[id])
  <2>1. index[id] \in live /\ order[index[id]].rem \in Quantities
    BY <1>1, <1>3 DEF BookInv, IndexMatchesPool, BookTypeOK, Order
  <2>2. RemoveOrder(index[id], order[index[id]].rem) /\ Finish("ok")
    BY <1>3 DEF CancelOrder
  <2>3. /\ pc' = "idle" /\ req' \in Request /\ slot' \in Slots \cup {NULL}
        /\ result' \in Outcomes
    BY <2>2, BlankTypes DEF Finish, Outcomes
  <2> QED BY <1>1, <2>1, <2>2, <2>3, RemoveOrderInv
<1> QED BY <1>2, <1>3

\* reduceOrder keeps the invariant, also when reduceTotalQuantity throws.
LEMMA ReduceOrderInv ==
  ASSUME BookInv, NEW id \in OrderIds, NEW target \in Quantities,
         ReduceOrder(id, target)
  PROVE  BookInv'
<1> DEFINE s == index[id]
           r == order[s].rem
<1>1. pc = "idle"
  BY DEF ReduceOrder
<1>2. CASE s = NULL \/ target = 0 \/ target > r \/ target = r
  BY <1>1, <1>2, ReturnInv DEF ReduceOrder, Outcomes
<1>3. CASE ~(s = NULL \/ target = 0 \/ target > r \/ target = r)
  <2>1. s \in live /\ r \in Quantities
    BY <1>1, <1>3 DEF BookInv, IndexMatchesPool, BookTypeOK, Order
  <2>2. r - target \in Nat /\ r - target < r
    BY <1>3, <2>1 DEF Quantities
  <2>3. Shrink(s, r - target) /\ Finish(IF CanReduceTotal(s, r - target)
                                          THEN "ok" ELSE "invalid_argument")
    BY <1>3 DEF ReduceOrder
  <2>4. /\ pc' = "idle" /\ req' \in Request /\ slot' \in Slots \cup {NULL}
        /\ result' \in Outcomes
    BY <2>3, BlankTypes DEF Finish, Outcomes
  <2> QED BY <1>1, <2>1, <2>2, <2>3, <2>4, ShrinkInv
<1> QED BY <1>2, <1>3

\* addOrder and addRestingRemainder up to the allocation.
LEMMA AddOrderInv ==
  ASSUME BookInv, NEW r \in Requests, AddOrder(r)
  PROVE  BookInv'
<1>1. pc = "idle" /\ r \in Request
  BY RequestAssumption DEF AddOrder
<1>2. CASE r.type # "LIMIT" \/ r.orig = 0 \/ r.rem = 0 \/ r.rem > r.orig
  BY <1>1, <1>2, ReturnInv DEF AddOrder, Outcomes
<1>3. CASE ~(r.type # "LIMIT" \/ r.orig = 0 \/ r.rem = 0 \/ r.rem > r.orig)
  <2>1. /\ UNCHANGED bookVars /\ pc' = "alloc" /\ req' = r /\ slot' = NULL
        /\ result' \in Outcomes
    BY <1>3 DEF AddOrder, Outcomes
  <2>2. 0 < r.rem /\ r.rem <= r.orig
    BY <1>1, <1>3 DEF Request, Quantities
  <2> QED BY <1>1, <2>1, <2>2, BookUnchangedInv
<1> QED BY <1>2, <1>3

\* Every call of a client and every step of a running insertion.
LEMMA BookNextInv == BookInv /\ [BookNext]_<<bookVars, callVars>> => BookInv'
<1> SUFFICES ASSUME BookInv, [BookNext]_<<bookVars, callVars>>
             PROVE  BookInv'
  OBVIOUS
<1>1. CASE UNCHANGED <<bookVars, callVars>>
  BY <1>1 DEF bookVars, callVars, BookInv, BookTypeOK, IndexMatchesPool,
              QueuesMatchOrders, TouchExact, RemainingInBounds, CallOK,
              InFlight, Unlinked
<1>2. CASE BookNext
  BY <1>2, AddOrderInv, CancelOrderInv, ReduceOrderInv, InsertStepInv
     DEF BookNext
<1> QED BY <1>1, <1>2

\* The book alone, under any sequence of calls: the index, the pool, the
\* queues, the occupancy bits and the cached best index always agree, in the
\* middle of an insertion and of its rollback too.
THEOREM BookInvariant == BookSpec => []BookInv
  BY BookInitInv, BookNextInv, PTL DEF BookSpec

\* Type correctness of the book, for every instance.
THEOREM BookTypeCorrect == BookSpec => []BookTypeOK
<1>1. BookInv => BookTypeOK
  BY DEF BookInv
<1> QED BY <1>1, BookInvariant, PTL

\* No index entry dangles and no order leaks, whichever step of an insertion
\* threw.
THEOREM BookIndexMatchesPool == BookSpec => []IndexMatchesPool
<1>1. BookInv => IndexMatchesPool
  BY DEF BookInv
<1> QED BY <1>1, BookInvariant, PTL

\* Every queue holds, once each, exactly the orders whose price maps to it.
THEOREM BookQueuesMatchOrders == BookSpec => []QueuesMatchOrders
<1>1. BookInv => QueuesMatchOrders
  BY DEF BookInv
<1> QED BY <1>1, BookInvariant, PTL

(***************************************************************************)
(* The aggregate of a level, as a count of the units its orders have open. *)
(***************************************************************************)
\* What the orders of a queue have open together, f giving what each has.
Open(q, f) == Cardinality(Units(ToSet(q), f))

\* A queue holds finitely many orders.
LEMMA QueueFinite ==
  ASSUME NEW S, NEW q \in Seq(S)
  PROVE  IsFiniteSet(ToSet(q)) /\ ToSet(q) \subseteq S
<1>1. Len(q) \in Nat /\ DOMAIN q = 1 .. Len(q) /\ q \in [1 .. Len(q) -> S]
  BY LenProperties
<1>2. ToSet(q) \subseteq S
  BY <1>1 DEF ToSet
<1>3. IsFiniteSet(1 .. Len(q))
  BY <1>1, FS_Interval
<1>4. q \in Surjection(1 .. Len(q), ToSet(q))
  BY <1>1 DEF Surjection, ToSet
<1> QED BY <1>2, <1>3, <1>4, FS_Surjection

\* What is open is a number, and covers each order of the queue.
LEMMA OpenFacts ==
  ASSUME NEW S, NEW q \in Seq(S), NEW f, NEW B \in Nat,
         \A x \in S : f[x] \in 0 .. B
  PROVE  /\ Open(q, f) \in Nat
         /\ \A s \in ToSet(q) : f[s] <= Open(q, f)
         /\ q = <<>> => Open(q, f) = 0
<1>1. IsFiniteSet(ToSet(q)) /\ \A x \in ToSet(q) : f[x] \in 0 .. B
  BY QueueFinite
<1>2. Open(q, f) \in Nat
  BY <1>1, UnitsFinite DEF Open
<1>3. ASSUME NEW s \in ToSet(q) PROVE f[s] <= Open(q, f)
  <2>1. /\ Cardinality(Units(ToSet(q) \ {s}, f)) \in Nat
        /\ Open(q, f) = Cardinality(Units(ToSet(q) \ {s}, f)) + f[s]
    BY <1>1, UnitsSplit DEF Open
  <2> QED BY <1>1, <2>1
<1>4. ASSUME q = <<>> PROVE Open(q, f) = 0
  <2>1. ToSet(q) = {}
    BY <1>4 DEF ToSet
  <2>2. Units(ToSet(q), f) = {}
    BY <2>1 DEF Units
  <2> QED BY <2>2, FS_EmptySet DEF Open
<1> QED BY <1>2, <1>3, <1>4

\* An order that joins adds what it has open.
LEMMA OpenAppend ==
  ASSUME NEW S, NEW q \in Seq(S), IsInjective(q), NEW f, NEW B \in Nat,
         \A x \in S : f[x] \in 0 .. B, NEW s \in S, s \notin ToSet(q)
  PROVE  Open(Append(q, s), f) = Open(q, f) + f[s]
<1> DEFINE r == Append(q, s)
<1>1. r \in Seq(S) /\ ToSet(r) = ToSet(q) \cup {s}
  BY AppendSet
<1> HIDE DEF r
<1>2. IsFiniteSet(ToSet(r)) /\ (\A x \in ToSet(r) : f[x] \in 0 .. B) /\ s \in ToSet(r)
  BY <1>1, QueueFinite
<1>3. ToSet(r) \ {s} = ToSet(q)
  BY <1>1
<1>4. Open(r, f) = Open(q, f) + f[s]
  BY <1>2, <1>3, UnitsSplit DEF Open
<1> QED BY <1>4 DEF r

\* An order that leaves takes what it has open.
LEMMA OpenRemove ==
  ASSUME NEW S, NEW q \in Seq(S), IsInjective(q), NEW f, NEW B \in Nat,
         \A x \in S : f[x] \in 0 .. B, NEW s \in ToSet(q)
  PROVE  Open(q, f) = Open(RemoveFirst(q, s), f) + f[s]
<1>1. ToSet(RemoveFirst(q, s)) = ToSet(q) \ {s}
  BY RemoveSet
<1>2. IsFiniteSet(ToSet(q)) /\ \A x \in ToSet(q) : f[x] \in 0 .. B
  BY QueueFinite
<1> QED BY <1>1, <1>2, UnitsSplit DEF Open

\* What is open depends on the orders of the queue only.
LEMMA OpenSame ==
  ASSUME NEW q, NEW f, NEW g, \A x \in ToSet(q) : g[x] = f[x]
  PROVE  Open(q, g) = Open(q, f)
  BY UnitsSame DEF Open

\* An order that shrinks takes off what it loses.
LEMMA OpenShrink ==
  ASSUME NEW S, NEW q \in Seq(S), NEW f, NEW g, NEW B \in Nat,
         \A x \in S : f[x] \in 0 .. B, NEW s \in ToSet(q), NEW a \in 0 .. f[s],
         g[s] = f[s] - a, \A x \in ToSet(q) \ {s} : g[x] = f[x]
  PROVE  Open(q, f) = Open(q, g) + a
<1>1. IsFiniteSet(ToSet(q)) /\ \A x \in ToSet(q) : f[x] \in 0 .. B
  BY QueueFinite
<1>2. g[s] \in Nat /\ a \in Nat /\ f[s] \in Nat
  BY <1>1
<1>3. \A x \in ToSet(q) : g[x] \in 0 .. B
  BY <1>1, <1>2
<1> DEFINE U(h) == Cardinality(Units(ToSet(q) \ {s}, h))
<1>4. U(f) \in Nat /\ Open(q, f) = U(f) + f[s]
  <2>1. Cardinality(Units(ToSet(q) \ {s}, f)) \in Nat
    BY <1>1, UnitsSplit
  <2>2. Cardinality(Units(ToSet(q), f))
          = Cardinality(Units(ToSet(q) \ {s}, f)) + f[s]
    BY <1>1, UnitsSplit
  <2> QED BY <2>1, <2>2 DEF Open
<1>5. U(g) \in Nat /\ Open(q, g) = U(g) + g[s]
  <2>1. Cardinality(Units(ToSet(q) \ {s}, g)) \in Nat
    BY <1>1, <1>3, UnitsSplit
  <2>2. Cardinality(Units(ToSet(q), g))
          = Cardinality(Units(ToSet(q) \ {s}, g)) + g[s]
    BY <1>1, <1>3, UnitsSplit
  <2> QED BY <2>1, <2>2 DEF Open
<1>6. U(g) = U(f)
  BY UnitsSame
<1> QED BY <1>2, <1>4, <1>5, <1>6

\* What each order has open.
Rem == [s \in Slots |-> order[s].rem]

\* What a step may do to a level: its queue q, what the orders have open f, and its
\* aggregate t, before and after.  An order that leaves has its amount taken off the
\* aggregate, which is all it has open in the mode "exact".
LevelStep(q, f, t, qn, fn, tn, mode) ==
  \/ qn = q /\ tn = t /\ \A x \in ToSet(q) : fn[x] = f[x]
  \/ \E s \in Slots \ ToSet(q) :
       /\ qn = Append(q, s) /\ tn = t + f[s]
       /\ \A x \in ToSet(q) \cup {s} : fn[x] = f[x]
  \/ \E s \in ToSet(q), a \in Quantities :
       /\ a <= f[s] /\ (mode = "exact" => a = f[s])
       /\ qn = RemoveFirst(q, s) /\ tn = Minus(t, a)
       /\ \A x \in ToSet(q) \ {s} : fn[x] = f[x]
  \/ \E s \in ToSet(q), a \in Quantities :
       /\ a <= f[s] /\ fn[s] = f[s] - a
       /\ qn = q /\ tn = IF a <= t THEN t - a ELSE t
       /\ \A x \in ToSet(q) \ {s} : fn[x] = f[x]

\* Such a step keeps an aggregate that covers the orders covering, and an exact one
\* exact.
LEMMA LevelStepKeeps ==
  ASSUME NEW q \in Seq(Slots), IsInjective(q), NEW f, NEW fn,
         \A x \in Slots : f[x] \in Quantities,
         NEW t \in Quantities, NEW qn, NEW tn, NEW mode,
         LevelStep(q, f, t, qn, fn, tn, mode), Open(q, f) <= t
  PROVE  /\ Open(qn, fn) <= tn
         /\ mode = "exact" /\ Open(q, f) = t => Open(qn, fn) = tn
<1>0. MaxQuantity \in Nat /\ \A x \in Slots : f[x] \in 0 .. MaxQuantity
  BY InputAssumption DEF Quantities
<1>1. /\ Open(q, f) \in Nat /\ t \in Nat
      /\ \A s \in ToSet(q) : f[s] <= Open(q, f) /\ f[s] \in Nat /\ s \in Slots
  BY <1>0, OpenFacts, QueueFinite DEF Quantities
<1>2. CASE qn = q /\ tn = t /\ \A x \in ToSet(q) : fn[x] = f[x]
  BY <1>2, OpenSame
<1>3. ASSUME NEW s \in Slots \ ToSet(q),
             qn = Append(q, s), tn = t + f[s],
             \A x \in ToSet(q) \cup {s} : fn[x] = f[x]
      PROVE  /\ Open(qn, fn) <= tn
             /\ mode = "exact" /\ Open(q, f) = t => Open(qn, fn) = tn
  <2>1. Open(Append(q, s), f) = Open(q, f) + f[s]
    BY <1>0, OpenAppend
  <2>2. ToSet(Append(q, s)) = ToSet(q) \cup {s}
    BY AppendSet
  <2>3. Open(qn, fn) = Open(Append(q, s), f)
    BY <1>3, <2>2, OpenSame
  <2>4. f[s] \in Nat
    BY <1>0
  <2> QED BY <1>1, <1>3, <2>1, <2>3, <2>4
<1>4. ASSUME NEW s \in ToSet(q), NEW a \in Quantities,
             a <= f[s] /\ (mode = "exact" => a = f[s]),
             qn = RemoveFirst(q, s), tn = Minus(t, a),
             \A x \in ToSet(q) \ {s} : fn[x] = f[x]
      PROVE  /\ Open(qn, fn) <= tn
             /\ mode = "exact" /\ Open(q, f) = t => Open(qn, fn) = tn
  <2>1. Open(q, f) = Open(qn, f) + f[s]
    BY <1>0, <1>4, OpenRemove
  <2>2. qn \in Seq(Slots) /\ ToSet(qn) = ToSet(q) \ {s}
    BY <1>4, RemoveSet
  <2>3. Open(qn, fn) = Open(qn, f) /\ Open(qn, f) \in Nat
    BY <1>0, <1>4, <2>2, OpenSame, OpenFacts
  <2>4. PICK d \in Nat : d = t - a /\ d < MaxQuantity + 1
    BY <1>0, <1>1, <1>4 DEF Quantities
  <2>5. tn = d
    BY <1>0, <1>4, <2>4, SmallMod DEF Minus
  <2>6. a \in Nat /\ f[s] \in Nat
    BY <1>0, <1>1 DEF Quantities
  <2> QED BY <1>1, <1>4, <2>1, <2>3, <2>4, <2>5, <2>6
<1>5. ASSUME NEW s \in ToSet(q), NEW a \in Quantities,
             a <= f[s] /\ fn[s] = f[s] - a,
             qn = q /\ tn = IF a <= t THEN t - a ELSE t,
             \A x \in ToSet(q) \ {s} : fn[x] = f[x]
      PROVE  /\ Open(qn, fn) <= tn
             /\ mode = "exact" /\ Open(q, f) = t => Open(qn, fn) = tn
  <2>1. a \in 0 .. f[s] /\ a \in Nat /\ a <= t
    BY <1>1, <1>5 DEF Quantities
  <2>2. Open(q, f) = Open(q, fn) + a
    BY <1>0, <1>5, <2>1, OpenShrink
  <2>3. Open(q, fn) \in Nat
    <3>1. \A x \in ToSet(q) : fn[x] \in 0 .. MaxQuantity
      BY <1>0, <1>1, <1>5, <2>1
    <3> QED BY <1>0, <3>1, QueueFinite, UnitsFinite DEF Open
  <2> QED BY <1>1, <1>5, <2>1, <2>2, <2>3
<1> QED BY <1>2, <1>3, <1>4, <1>5 DEF LevelStep

\* What a step does to the level at j of side sd.
LevelStepAt(sd, j, mode) ==
  LevelStep(queue[sd][j], Rem, total[sd][j],
            queue'[sd][j], Rem', total'[sd][j], mode)

\* A step that leaves the levels and what is open in them alone.
LEMMA StepQuiet ==
  ASSUME BookTypeOK, QueuesMatchOrders, UNCHANGED <<queue, total>>,
         \A x \in live \ Unlinked : order'[x].rem = order[x].rem,
         NEW sd \in Sides, NEW j \in Levels, NEW mode
  PROVE  LevelStepAt(sd, j, mode)
<1>1. \A x \in ToSet(queue[sd][j]) : x \in live \ Unlinked /\ x \in Slots
  BY DEF QueuesMatchOrders, BookTypeOK
<1>2. \A x \in ToSet(queue[sd][j]) : Rem'[x] = Rem[x]
  BY <1>1 DEF Rem
<1> QED BY <1>2 DEF LevelStepAt, LevelStep

\* PriceLevel::removeOrder of an order, whatever remains of it by then.
LEMMA StepUnlink ==
  ASSUME BookTypeOK, QueuesMatchOrders, NEW s \in live \ Unlinked,
         NEW remaining \in Quantities, NEW mode,
         remaining <= order[s].rem, mode = "exact" => remaining = order[s].rem,
         RemoveFromLevel(s, remaining),
         \A x \in Slots \ {s} : order'[x].rem = order[x].rem,
         NEW sd \in Sides, NEW j \in Levels
  PROVE  LevelStepAt(sd, j, mode)
<1> DEFINE side == order[s].side
           i == order[s].level
           rest == RemoveFirst(queue[side][i], s)
           left == Minus(total[side][i], remaining)
<1>1. side \in Sides /\ i \in Levels /\ s \in ToSet(queue[side][i]) /\ s \in Slots
  BY LinkedOrder
<1>2. /\ queue' = [queue EXCEPT ![side] = [queue[side] EXCEPT ![i] = rest]]
      /\ total' = [total EXCEPT ![side] = [total[side] EXCEPT ![i] = left]]
  BY DEF RemoveFromLevel
<1>3. /\ queue'[sd][j] = IF sd = side /\ j = i THEN rest ELSE queue[sd][j]
      /\ total'[sd][j] = IF sd = side /\ j = i THEN left ELSE total[sd][j]
  <2> HIDE DEF side, i, rest, left
  <2> QED BY <1>1, <1>2 DEF BookTypeOK
<1>4. \A x \in Slots \ {s} : Rem'[x] = Rem[x]
  BY DEF Rem
<1>5. Rem[s] = order[s].rem
  BY <1>1 DEF Rem
<1>6. ToSet(queue[sd][j]) \subseteq Slots
  BY QueueFinite DEF BookTypeOK
<1>7. CASE sd = side /\ j = i
  <2>1. queue'[sd][j] = RemoveFirst(queue[sd][j], s)
        /\ total'[sd][j] = Minus(total[sd][j], remaining)
    BY <1>3, <1>7
  <2>2. /\ s \in ToSet(queue[sd][j]) /\ remaining <= Rem[s]
        /\ mode = "exact" => remaining = Rem[s]
        /\ \A x \in ToSet(queue[sd][j]) \ {s} : Rem'[x] = Rem[x]
    BY <1>1, <1>4, <1>5, <1>6, <1>7
  <2> QED BY <2>1, <2>2 DEF LevelStepAt, LevelStep
<1>8. CASE ~(sd = side /\ j = i)
  <2>1. s \notin ToSet(queue[sd][j])
    BY <1>8 DEF QueuesMatchOrders
  <2> QED BY <1>3, <1>4, <1>6, <1>8, <2>1 DEF LevelStepAt, LevelStep
<1> QED BY <1>7, <1>8

\* A partial fill or a REDUCE.
LEMMA StepShrink ==
  ASSUME BookTypeOK, QueuesMatchOrders, NEW s \in live \ Unlinked,
         NEW amount \in Quantities, amount <= order[s].rem, Shrink(s, amount),
         NEW sd \in Sides, NEW j \in Levels, NEW mode
  PROVE  LevelStepAt(sd, j, mode)
<1> DEFINE side == order[s].side
           i == order[s].level
           t == total[side][i]
           left == IF amount <= t THEN t - amount ELSE t
<1>1. side \in Sides /\ i \in Levels /\ s \in ToSet(queue[side][i]) /\ s \in Slots
  BY LinkedOrder
<1>2. /\ queue' = queue
      /\ total' = [total EXCEPT ![side] = [total[side] EXCEPT ![i] = left]]
      /\ order' = [order EXCEPT ![s].rem = order[s].rem - amount]
  <2>1. queue' = queue /\ order' = [order EXCEPT ![s].rem = order[s].rem - amount]
    BY DEF Shrink
  <2>2. CASE amount <= t
    BY <2>2 DEF Shrink, CanReduceTotal
  <2>3. CASE ~(amount <= t)
    <3>1. total' = total
      BY <2>3 DEF Shrink, CanReduceTotal
    <3> HIDE DEF side, i
    <3> QED BY <1>1, <2>1, <2>3, <3>1 DEF BookTypeOK
  <2> QED BY <2>1, <2>2, <2>3
<1>3. total'[sd][j] = IF sd = side /\ j = i THEN left ELSE total[sd][j]
  <2> HIDE DEF side, i, left
  <2> QED BY <1>1, <1>2 DEF BookTypeOK
<1>4. /\ Rem[s] = order[s].rem /\ Rem'[s] = order[s].rem - amount
      /\ \A x \in Slots \ {s} : Rem'[x] = Rem[x]
  BY <1>1, <1>2 DEF Rem, BookTypeOK, Order
<1>5. ToSet(queue[sd][j]) \subseteq Slots
  BY QueueFinite DEF BookTypeOK
<1>6. CASE sd = side /\ j = i
  <2>1. total'[sd][j] =
          IF amount <= total[sd][j] THEN total[sd][j] - amount ELSE total[sd][j]
    BY <1>3, <1>6
  <2>2. /\ s \in ToSet(queue[sd][j]) /\ amount <= Rem[s]
        /\ Rem'[s] = Rem[s] - amount /\ queue'[sd][j] = queue[sd][j]
        /\ \A x \in ToSet(queue[sd][j]) \ {s} : Rem'[x] = Rem[x]
    BY <1>1, <1>2, <1>4, <1>5, <1>6
  <2> QED BY <2>1, <2>2, Zenon DEF LevelStepAt, LevelStep
<1>7. CASE ~(sd = side /\ j = i)
  <2>1. s \notin ToSet(queue[sd][j])
    BY <1>7 DEF QueuesMatchOrders
  <2> QED BY <1>2, <1>3, <1>4, <1>5, <1>7, <2>1 DEF LevelStepAt, LevelStep
<1> QED BY <1>6, <1>7

\* The steps of an insertion and of its rollback.
LEMMA StepInsertion ==
  ASSUME BookInv, InsertStep, NEW sd \in Sides, NEW j \in Levels
  PROVE  LevelStepAt(sd, j, "exact")
<1> USE DEF BookInv
<1>1. CASE Allocate
  <2>1. PICK s \in Slots \ live : order' = [order EXCEPT ![s] = NewOrder(req)]
    BY <1>1 DEF Allocate
  <2>2. \A x \in live : order'[x] = order[x]
    BY <2>1 DEF BookTypeOK
  <2> QED BY <1>1, <2>2, StepQuiet DEF Allocate
<1>2. CASE AllocateFails \/ LinkThrows \/ AddToIndex \/ AddToIndexThrows
  BY <1>2, StepQuiet
     DEF AllocateFails, LinkThrows, AddToIndex, AddToIndexThrows, Return, bookVars
<1>3. CASE Link
  <2> DEFINE o == order[slot]
             i == IndexOf(o.side, o.price)
  <2>1. /\ queue' = [queue EXCEPT ![o.side] =
                       [queue[o.side] EXCEPT ![i] = Append(queue[o.side][i], slot)]]
        /\ total' = [total EXCEPT ![o.side] =
                       [total[o.side] EXCEPT ![i] = total[o.side][i] + o.rem]]
        /\ order' = [order EXCEPT ![slot].level = i]
    BY <1>3 DEF Link, AppendToLevel
  <2>2. pc = "link" /\ slot \in live /\ slot \in Slots /\ Unlinked = {slot}
    BY <1>3 DEF Link, CallOK, Unlinked, BookTypeOK
  <2>3. slot \notin ToSet(queue[sd][j])
    BY <2>2 DEF QueuesMatchOrders
  <2>4. \A x \in Slots : Rem'[x] = Rem[x]
    <3> HIDE DEF i
    <3> QED BY <2>1 DEF Rem, BookTypeOK, Order
  <2>5. Rem[slot] = o.rem
    BY <2>2 DEF Rem
  <2>6. ToSet(queue[sd][j]) \subseteq Slots
    BY QueueFinite DEF BookTypeOK
  <2>7. \/ queue'[sd][j] = queue[sd][j] /\ total'[sd][j] = total[sd][j]
        \/ /\ queue'[sd][j] = Append(queue[sd][j], slot)
           /\ total'[sd][j] = total[sd][j] + o.rem
    <3> HIDE DEF o, i
    <3> QED BY <2>1 DEF BookTypeOK
  <2> QED BY <2>2, <2>3, <2>4, <2>5, <2>6, <2>7 DEF LevelStepAt, LevelStep
<1>4. CASE RollbackLevel
  <2>1. /\ slot \in live \ Unlinked /\ RemoveFromLevel(slot, order[slot].rem)
        /\ order' = [order EXCEPT ![slot].level = NPos] /\ slot \in Slots
    BY <1>4 DEF RollbackLevel, Unlinked, CallOK, BookTypeOK
  <2>2. order[slot].rem \in Quantities /\ order[slot].rem <= order[slot].rem
    BY <2>1, InputAssumption DEF BookTypeOK, Order, Quantities
  <2>3. \A x \in Slots \ {slot} : order'[x].rem = order[x].rem
    BY <2>1 DEF BookTypeOK
  <2> QED BY <2>1, <2>2, <2>3, StepUnlink
<1>5. CASE RollbackPool
  <2>1. order' = [order EXCEPT ![slot] = Blank] /\ Unlinked = {slot}
        /\ UNCHANGED <<queue, total>>
    BY <1>5 DEF RollbackPool, Release, Unlinked
  <2>2. \A x \in live \ Unlinked : order'[x] = order[x]
    BY <2>1 DEF BookTypeOK
  <2> QED BY <2>1, <2>2, StepQuiet
<1> QED BY <1>1, <1>2, <1>3, <1>4, <1>5 DEF InsertStep

\* Every level's aggregate covers what its orders have open: all that an
\* engine whose fills stay in the aggregate can promise.
Covered ==
  \A side \in Sides, i \in Levels : Open(queue[side][i], Rem) <= total[side][i]
\* The aggregate is what the orders of the level have open and nothing more:
\* what a book promises that is changed by its own calls only.
Exact ==
  \A side \in Sides, i \in Levels : Open(queue[side][i], Rem) = total[side][i]

\* The two are kept by steps that treat each level so.
LEMMA AggregateKept ==
  ASSUME BookTypeOK, QueuesMatchOrders, NEW mode,
         \A sd \in Sides, j \in Levels : LevelStepAt(sd, j, mode)
  PROVE  /\ Covered => Covered'
         /\ mode = "exact" /\ Exact => Exact'
<1>1. ASSUME NEW sd \in Sides, NEW j \in Levels
      PROVE  /\ queue[sd][j] \in Seq(Slots) /\ IsInjective(queue[sd][j])
             /\ total[sd][j] \in Quantities
             /\ \A x \in Slots : Rem[x] \in Quantities
             /\ LevelStepAt(sd, j, mode)
  BY DEF BookTypeOK, QueuesMatchOrders, Rem, Order
<1>2. ASSUME Covered PROVE Covered'
  <2>1. ASSUME NEW sd \in Sides, NEW j \in Levels
        PROVE  Open(queue'[sd][j], Rem') <= total'[sd][j]
    <3>1. Open(queue[sd][j], Rem) <= total[sd][j]
      BY <1>2 DEF Covered
    <3>2. LevelStep(queue[sd][j], Rem, total[sd][j],
                    queue'[sd][j], Rem', total'[sd][j], mode)
      BY <1>1 DEF LevelStepAt
    <3> QED BY <1>1, <3>1, <3>2, LevelStepKeeps
  <2> QED BY <2>1 DEF Covered
<1>3. ASSUME mode = "exact", Exact PROVE Exact'
  <2>1. ASSUME NEW sd \in Sides, NEW j \in Levels
        PROVE  Open(queue'[sd][j], Rem') = total'[sd][j]
    <3>1. Open(queue[sd][j], Rem) = total[sd][j] /\ total[sd][j] \in Nat
      BY <1>1, <1>3, InputAssumption DEF Exact, Quantities
    <3>2. LevelStep(queue[sd][j], Rem, total[sd][j],
                    queue'[sd][j], Rem', total'[sd][j], mode)
      BY <1>1 DEF LevelStepAt
    <3>3. Open(queue[sd][j], Rem) <= total[sd][j]
      BY <3>1
    <3>4. mode = "exact" /\ Open(queue[sd][j], Rem) = total[sd][j]
            => Open(queue'[sd][j], Rem') = total'[sd][j]
      BY <1>1, <3>2, <3>3, LevelStepKeeps
    <3> QED BY <1>3, <3>1, <3>4
  <2> QED BY <2>1 DEF Exact
<1> QED BY <1>2, <1>3

\* The fold over a queue is what its orders have open.
OpenSumming(q, g) ==
  [T \in SUBSET DOMAIN q |->
     IF T = {} THEN 0 ELSE g[T \ {Max(T)}] + order[q[Max(T)]].rem]

\* If some function satisfies the recursion of the fold, the fold is a value of one.
LEMMA OpenChosen ==
  ASSUME NEW q, NEW g, g = OpenSumming(q, g)
  PROVE  \E h : /\ h = OpenSumming(q, h)
                /\ FoldLeft(LAMBDA acc, s : acc + order[s].rem, 0, q) = h[DOMAIN q]
  BY Zenon DEF OpenSumming, FoldLeft, MapThenFoldSet

\* OpenQuantity of a queue without repetitions counts the units its orders have open.
LEMMA OpenIsFold ==
  ASSUME BookTypeOK, NEW q \in Seq(Slots), IsInjective(q)
  PROVE  FoldLeft(LAMBDA acc, s : acc + order[s].rem, 0, q) = Open(q, Rem)
<1>1. PICK n \in Nat : n = Len(q) /\ DOMAIN q = 1 .. n /\ q \in [1 .. n -> Slots]
  BY LenProperties
<1> DEFINE r == [k \in 1 .. n |-> Rem[q[k]]]
           fold == FoldLeft(LAMBDA acc, s : acc + order[s].rem, 0, q)
<1>2. MaxQuantity \in Nat /\ \A s \in Slots : Rem[s] \in 0 .. MaxQuantity
  BY InputAssumption DEF BookTypeOK, Order, Rem, Quantities
<1>3. \A k \in 1 .. n : /\ q[k] \in Slots /\ r[k] = Rem[q[k]]
                        /\ r[k] = order[q[k]].rem /\ r[k] \in 0 .. MaxQuantity
  BY <1>1, <1>2 DEF Rem
<1>4. r \in [1 .. n -> 0 .. MaxQuantity]
  BY <1>3
<1> HIDE DEF r
<1>5. ASSUME NEW T \in SUBSET (1 .. n), T # {}
      PROVE  order[q[Max(T)]].rem = r[Max(T)]
  BY <1>3, <1>5, MaxBelow
<1>6. \A g : OpenSumming(q, g) = Sums(n, r, g)
  BY <1>1, <1>5 DEF OpenSumming, Sums
<1>7. /\ \E g : g = Sums(n, r, g)
      /\ \A g : g = Sums(n, r, g) => g[1 .. n] = Cardinality(Units(1 .. n, r))
  BY <1>2, <1>3, SumsAre
<1>8. PICK g : g = Sums(n, r, g)
  BY <1>7
<1>9. g = OpenSumming(q, g)
  BY <1>6, <1>8
<1>10. PICK h : h = OpenSumming(q, h) /\ fold = h[DOMAIN q]
  BY <1>9, OpenChosen
<1>11. h = Sums(n, r, h)
  BY <1>6, <1>10
<1>12. fold = Cardinality(Units(1 .. n, r))
  BY <1>1, <1>7, <1>10, <1>11
<1>13. Cardinality(Units(1 .. n, r)) = Cardinality(Units(ToSet(q), Rem))
  <2> DEFINE A == Units(1 .. n, r)
             B == Units(ToSet(q), Rem)
             m == [x \in A |-> <<q[x[1]], x[2]>>]
  <2>1. IsFiniteSet(A)
    <3>1. IsFiniteSet(1 .. n)
      BY FS_Interval
    <3> QED BY <1>2, <1>3, <3>1, UnitsFinite
  <2>2. \A x \in A : x[1] \in 1 .. n /\ x[2] \in Nat /\ x[2] \in 1 .. r[x[1]]
                     /\ x = <<x[1], x[2]>>
    BY DEF Units
  <2>3. \A k \in 1 .. n : q[k] \in ToSet(q)
    BY <1>1 DEF ToSet
  <2>4. m \in [A -> B]
    <3>1. ASSUME NEW x \in A PROVE <<q[x[1]], x[2]>> \in B
      BY <1>3, <2>2, <2>3 DEF Units
    <3> QED BY <3>1
  <2>5. ASSUME NEW x \in A, NEW y \in A, m[x] = m[y] PROVE x = y
    <3>1. q[x[1]] = q[y[1]] /\ x[2] = y[2]
      BY <2>5
    <3>2. x[1] = y[1]
      BY <1>1, <2>2, <3>1 DEF IsInjective
    <3> QED BY <2>2, <3>1, <3>2
  <2>6. ASSUME NEW y \in B PROVE \E x \in A : m[x] = y
    <3>1. y[1] \in ToSet(q) /\ y[2] \in Nat /\ y[2] \in 1 .. Rem[y[1]]
          /\ y = <<y[1], y[2]>>
      BY DEF Units
    <3>2. PICK k \in 1 .. n : q[k] = y[1]
      BY <1>1, <3>1 DEF ToSet
    <3>3. <<k, y[2]>> \in A
      BY <1>3, <3>1, <3>2 DEF Units
    <3>4. m[<<k, y[2]>>] = y
      BY <3>1, <3>2, <3>3
    <3> QED BY <3>3, <3>4
  <2> HIDE DEF A, B, m
  <2>7. m \in Bijection(A, B)
    BY <2>4, <2>5, <2>6 DEF Bijection, Injection, Surjection, IsInjective
  <2>8. ExistsBijection(A, B)
    BY <2>7 DEF ExistsBijection
  <2> QED BY <2>1, <2>8, FS_Bijection DEF A, B
<1> QED BY <1>12, <1>13 DEF Open

\* CANCEL of an indexed order.
LEMMA StepCancel ==
  ASSUME BookInv, pc = "idle", NEW id \in OrderIds, index[id] # NULL,
         RemoveOrder(index[id], order[index[id]].rem),
         NEW sd \in Sides, NEW j \in Levels
  PROVE  LevelStepAt(sd, j, "exact")
<1> DEFINE s == index[id]
<1>1. s \in live \ Unlinked /\ s \in Slots /\ order[s].rem \in Quantities
  BY DEF BookInv, IndexMatchesPool, Unlinked, BookTypeOK, Order
<1>2. /\ RemoveFromLevel(s, order[s].rem)
      /\ order' = [order EXCEPT ![s] = Blank]
  BY DEF RemoveOrder, Release
<1>3. order[s].rem <= order[s].rem
  BY <1>1, InputAssumption DEF Quantities
<1>4. \A x \in Slots \ {s} : order'[x].rem = order[x].rem
  BY <1>2 DEF BookInv, BookTypeOK
<1> HIDE DEF s
<1> QED BY <1>1, <1>2, <1>3, <1>4, StepUnlink DEF BookInv

\* REDUCE, whatever it finds.
LEMMA StepReduce ==
  ASSUME BookInv, NEW id \in OrderIds, NEW target \in Quantities,
         ReduceOrder(id, target), NEW sd \in Sides, NEW j \in Levels
  PROVE  LevelStepAt(sd, j, "exact")
<1> USE DEF BookInv
<1> DEFINE s == index[id]
           amount == order[s].rem - target
<1>1. CASE UNCHANGED bookVars
  BY <1>1, StepQuiet DEF bookVars
<1>2. CASE /\ pc = "idle" /\ s # NULL
           /\ target # 0 /\ ~(target > order[s].rem)
           /\ Shrink(s, amount)
  <2>1. s \in live \ Unlinked /\ order[s].rem \in Quantities
    BY <1>2 DEF IndexMatchesPool, Unlinked, BookTypeOK, Order
  <2>2. amount \in Quantities /\ amount <= order[s].rem
    BY <1>2, <2>1, InputAssumption DEF Quantities
  <2> HIDE DEF s, amount
  <2> QED BY <1>2, <2>1, <2>2, StepShrink
<1> QED BY <1>1, <1>2 DEF ReduceOrder, Return

\* Every call of the book treats every level so.
LEMMA StepBook ==
  ASSUME BookInv, BookNext, NEW sd \in Sides, NEW j \in Levels
  PROVE  LevelStepAt(sd, j, "exact")
<1> USE DEF BookInv
<1>1. CASE InsertStep
  BY <1>1, StepInsertion
<1>2. CASE UNCHANGED bookVars
  BY <1>2, StepQuiet DEF bookVars
<1>3. CASE \E r \in Requests : AddOrder(r)
  <2>1. UNCHANGED bookVars
    BY <1>3 DEF AddOrder, Return
  <2> QED BY <1>2, <2>1
<1>4. ASSUME NEW id \in OrderIds, CancelOrder(id)
      PROVE  LevelStepAt(sd, j, "exact")
  BY <1>2, <1>4, StepCancel DEF CancelOrder, Return
<1>5. ASSUME NEW id \in OrderIds, NEW target \in Quantities, ReduceOrder(id, target)
      PROVE  LevelStepAt(sd, j, "exact")
  BY <1>5, StepReduce
<1> QED BY <1>1, <1>3, <1>4, <1>5 DEF BookNext

\* A level that is empty has nothing open.
LEMMA AggregateInit ==
  BookInit => Exact
<1> SUFFICES ASSUME BookInit PROVE Exact
  OBVIOUS
<1>1. BookTypeOK
  BY BookInitInv DEF BookInv
<1>2. ASSUME NEW sd \in Sides, NEW j \in Levels
      PROVE  Open(queue[sd][j], Rem) = total[sd][j]
  <2>1. queue[sd][j] = <<>> /\ total[sd][j] = 0
    BY DEF BookInit
  <2>2. Open(<<>>, Rem) = 0
    <3>1. <<>> \in Seq(Slots)
      BY EmptySeq
    <3>2. MaxQuantity \in Nat /\ \A s \in Slots : Rem[s] \in 0 .. MaxQuantity
      BY <1>1, InputAssumption DEF BookTypeOK, Order, Rem, Quantities
    <3> QED BY <3>1, <3>2, OpenFacts
  <2> QED BY <2>1, <2>2
<1> QED BY <1>2 DEF Exact

\* Every level keeps the exact aggregate while only the book's calls run.
LEMMA BookExact == BookSpec => []Exact
<1>1. BookInv /\ Exact /\ [BookNext]_<<bookVars, callVars>> => Exact'
  <2> SUFFICES ASSUME BookInv, Exact, [BookNext]_<<bookVars, callVars>>
               PROVE  Exact'
    OBVIOUS
  <2>1. CASE BookNext
    <3>1. \A sd \in Sides, j \in Levels : LevelStepAt(sd, j, "exact")
      BY <2>1, StepBook
    <3> QED BY <3>1, AggregateKept DEF BookInv
  <2>2. CASE UNCHANGED <<bookVars, callVars>>
    BY <2>2 DEF Exact, Rem, bookVars
  <2> QED BY <2>1, <2>2
<1> QED BY <1>1, AggregateInit, BookInvariant, PTL DEF BookSpec

\* The aggregate of every level of a book used through its own calls is the sum of
\* what its orders have open, in the middle of an insertion or a rollback too: only
\* the engine's fills can make it stale.
THEOREM BookAggregateExact == BookSpec => []AggregateExact
<1>1. BookInv /\ Exact => AggregateExact
  <2> SUFFICES ASSUME BookInv, Exact, NEW sd \in Sides, NEW j \in Levels
               PROVE  total[sd][j] = OpenQuantity(sd, j)
    BY DEF AggregateExact
  <2>1. queue[sd][j] \in Seq(Slots) /\ IsInjective(queue[sd][j])
    BY DEF BookInv, BookTypeOK, QueuesMatchOrders
  <2>2. OpenQuantity(sd, j) = Open(queue[sd][j], Rem)
    BY <2>1, OpenIsFold DEF OpenQuantity, BookInv
  <2> QED BY <2>2 DEF Exact
<1> QED BY <1>1, BookExact, BookInvariant, PTL

(***************************************************************************)
(* captureSnapshot: the walk over a ladder and what it copies.             *)
(***************************************************************************)
\* The occupied levels of one side are finitely many indices below NPos.
LEMMA OccupiedFacts ==
  ASSUME BookTypeOK, NEW sd \in Sides
  PROVE  /\ LevelCount \in Nat \ {0} /\ occ[sd] \subseteq Levels
         /\ occ[sd] \in SUBSET Nat /\ IsFiniteSet(occ[sd]) /\ NPos \notin occ[sd]
<1>1. LevelCount \in Nat \ {0} /\ occ[sd] \subseteq 0 .. LevelCount - 1
  BY LadderAssumption DEF BookTypeOK, Levels
<1>2. IsFiniteSet(0 .. LevelCount - 1)
  BY <1>1, FS_Interval
<1>3. IsFiniteSet(occ[sd])
  BY <1>1, <1>2, FS_Subset
<1> QED BY <1>1, <1>3 DEF NPos, Levels

\* The scan from behind an occupied level meets the next one.
LEMMA NextSetBitAfter ==
  ASSUME NEW F \in SUBSET Nat, NEW i \in Nat
  PROVE  NextSetBit(F, i + 1) = NextAfter(F, i, NPos)
<1> DEFINE above == {j \in F : j >= i + 1}
<1>1. above = From(F, i + 1)
  BY DEF From
<1>2. NextSetBit(F, i + 1) = IF above = {} THEN NPos ELSE Min(above)
  BY DEF NextSetBit
<1> HIDE DEF above
<1> QED BY <1>1, <1>2, Zenon DEF NextAfter

\* One unfolding of the recursion in Visits.
Visiting(sd, g) ==
  [k \in 1 .. LevelCount + 1 |->
     IF k = 1 THEN best[sd]
     ELSE IF g[k - 1] = NPos THEN NPos
     ELSE NextSetBit(occ[sd], g[k - 1] + 1)]

\* If some function satisfies the recursion, Visits does.
LEMMA VisitsChosen ==
  ASSUME NEW sd, NEW g, g = Visiting(sd, g)
  PROVE  Visits(sd) = Visiting(sd, Visits(sd))
<1>1. Visits(sd) = CHOOSE h : h = Visiting(sd, h)
  BY Zenon DEF Visits, Visiting
<1> QED BY <1>1, Zenon

\* The walk meets the occupied levels in ascending order of their indices.
LEMMA VisitsAre ==
  ASSUME BookTypeOK, TouchExact, NEW sd \in Sides
  PROVE  Visits(sd) = Ranked(occ[sd], LevelCount, NPos)
<1>1. PICK M \in Nat : M = LevelCount
  BY LadderAssumption
<1>2. /\ occ[sd] \in SUBSET Nat /\ IsFiniteSet(occ[sd]) /\ NPos \notin occ[sd]
  BY OccupiedFacts
<1>3. best[sd] = IF occ[sd] = {} THEN NPos ELSE Min(occ[sd])
  <2>1. IsTouch(occ[sd], best[sd])
    BY DEF TouchExact
  <2>2. CASE occ[sd] = {}
    BY <2>1, <2>2 DEF IsTouch
  <2>3. CASE occ[sd] # {}
    <3>1. Min(occ[sd]) \in occ[sd] /\ \A x \in occ[sd] : Min(occ[sd]) <= x
      BY <1>2, <2>3, MinOfNats
    <3>2. best[sd] \in occ[sd] /\ \A x \in occ[sd] : best[sd] <= x
      BY <2>1, <2>3 DEF IsTouch
    <3>3. best[sd] = Min(occ[sd])
      BY <1>2, <3>1, <3>2
    <3> QED BY <2>3, <3>3
  <2> QED BY <2>2, <2>3
<1> DEFINE f == Ranked(occ[sd], M, NPos)
<1>4. ASSUME NEW i \in occ[sd]
      PROVE  NextSetBit(occ[sd], i + 1) = NextAfter(occ[sd], i, NPos)
  <2>1. i \in Nat
    BY <1>2
  <2> QED BY <1>2, <2>1, NextSetBitAfter
<1>5. ASSUME NEW r \in 1 .. M + 1
      PROVE  f[r] = IF r = 1 THEN best[sd]
                    ELSE IF f[r - 1] = NPos THEN NPos
                    ELSE NextSetBit(occ[sd], f[r - 1] + 1)
  <2>1. CASE r = 1
    <3>1. f[1] = IF occ[sd] = {} THEN NPos ELSE Min(occ[sd])
      BY <1>2, RankedFirst
    <3> QED BY <1>3, <2>1, <3>1
  <2>2. CASE r # 1
    <3>1. PICK i : i = f[r - 1]
      OBVIOUS
    <3>2. /\ i = NPos \/ i \in occ[sd]
          /\ i = NPos => f[r] = NPos
          /\ i \in occ[sd] => f[r] = NextAfter(occ[sd], i, NPos)
      BY <1>2, <2>2, <3>1, RankedNext
    <3> HIDE DEF f
    <3> QED BY <1>2, <1>4, <2>2, <3>1, <3>2
  <2> QED BY <2>1, <2>2
<1>6. f = [r \in 1 .. M + 1 |-> f[r]]
  BY DEF Ranked
<1> HIDE DEF f
<1>7. f = Visiting(sd, f)
  BY <1>1, <1>5, <1>6 DEF Visiting
<1> DEFINE g == Visits(sd)
<1>8. g = Visiting(sd, g)
  BY <1>7, VisitsChosen
<1> HIDE DEF g
<1>9. g = [r \in 1 .. M + 1 |-> g[r]]
  BY <1>1, <1>8 DEF Visiting
<1>10. ASSUME NEW r \in 1 .. M + 1
       PROVE  g[r] = IF r = 1 THEN best[sd]
                     ELSE IF g[r - 1] = NPos THEN NPos
                     ELSE NextSetBit(occ[sd], g[r - 1] + 1)
  BY <1>1, <1>8 DEF Visiting
<1> DEFINE Bad == {r \in 1 .. M + 1 : g[r] # f[r]}
<1>11. Bad = {}
  <2> SUFFICES ASSUME Bad # {} PROVE FALSE
    OBVIOUS
  <2>1. Bad \in SUBSET Nat
    OBVIOUS
  <2>2. PICK m \in 1 .. M + 1 : g[m] # f[m] /\ \A x \in Bad : m <= x
    <3>1. Min(Bad) \in Bad /\ \A x \in Bad : Min(Bad) <= x
      BY <2>1, MinOfNats
    <3> QED BY <3>1
  <2>3. m # 1
    BY <1>5, <1>10, <2>2
  <2>4. m - 1 \in 1 .. M + 1 /\ ~(m <= m - 1)
    BY <1>1, <2>2, <2>3
  <2>5. g[m - 1] = f[m - 1]
    BY <2>2, <2>4
  <2> QED BY <1>5, <1>10, <2>2, <2>3, <2>5
<1>12. g = f
  BY <1>6, <1>9, <1>11
<1> QED BY <1>1, <1>12 DEF g, f

\* A capture of some depth walks over that many of the occupied levels, or all.
LEMMA WalkIs ==
  ASSUME BookTypeOK, TouchExact, NEW sd \in Sides, NEW depth \in 0 .. LevelCount
  PROVE  LET walk == ForEachOccupied(sd, depth)
         IN  /\ walk \in Seq(occ[sd]) /\ Len(walk) \in Nat
             /\ Len(walk) <= depth /\ Len(walk) <= Cardinality(occ[sd])
             /\ Len(walk) \in {depth, Cardinality(occ[sd])}
             /\ \A k \in 1 .. Len(walk) :
                  /\ walk[k] \in occ[sd]
                  /\ Cardinality(Below(occ[sd], walk[k])) = k - 1
<1> DEFINE walk == ForEachOccupied(sd, depth)
           F == occ[sd]
<1>1. /\ LevelCount \in Nat /\ depth \in Nat /\ depth <= LevelCount
      /\ F \in SUBSET Nat /\ IsFiniteSet(F) /\ NPos \notin F
  BY OccupiedFacts
<1>2. walk = Cut(Visits(sd), depth, NPos)
  BY DEF ForEachOccupied, Cut
<1>3. walk = Cut(Ranked(F, LevelCount, NPos), depth, NPos)
  BY <1>2, VisitsAre, Zenon
<1> HIDE DEF walk, F
<1>4. /\ walk \in Seq(F)
      /\ Len(walk) <= depth /\ Len(walk) <= Cardinality(F)
      /\ Len(walk) \in {depth, Cardinality(F)}
      /\ InPlace(F, walk)
  BY <1>1, <1>3, RankedWalk
<1>5. Len(walk) \in Nat /\ \A k \in 1 .. Len(walk) : walk[k] \in F
  BY <1>4, LenProperties, ElementOfSeq
<1> QED BY <1>4, <1>5 DEF walk, F, InPlace

\* Between calls the indexed orders of a side are those in its queues.
LEMMA RestingLinked ==
  ASSUME BookInv, pc = "idle", NEW sd \in Sides
  PROVE  /\ \A id \in RestingIds(sd) :
              /\ id \in OrderIds /\ index[id] \in Slots
              /\ order[index[id]].id = id
              /\ order[index[id]].level \in occ[sd]
              /\ PriceAt(sd, order[index[id]].level) = order[index[id]].price
              /\ index[id] \in ToSet(queue[sd][order[index[id]].level])
         /\ \A i \in Levels : \A s \in ToSet(queue[sd][i]) :
              /\ s \in Slots /\ order[s].id \in RestingIds(sd)
              /\ index[order[s].id] = s
              /\ order[s].level = i /\ order[s].price = PriceAt(sd, i)
<1> USE DEF BookInv
<1>1. InFlight = {} /\ Unlinked = {}
  BY DEF InFlight, Unlinked
<1>2. ASSUME NEW id \in RestingIds(sd)
      PROVE  /\ id \in OrderIds /\ index[id] \in Slots
             /\ order[index[id]].id = id
             /\ order[index[id]].level \in occ[sd]
             /\ PriceAt(sd, order[index[id]].level) = order[index[id]].price
             /\ index[id] \in ToSet(queue[sd][order[index[id]].level])
  <2>1. /\ id \in OrderIds /\ index[id] # NULL
        /\ order[index[id]].side = sd
    BY DEF RestingIds
  <2>2. index[id] \in live \ Unlinked /\ order[index[id]].id = id
    BY <1>1, <2>1 DEF IndexMatchesPool
  <2>3. PICK s \in live \ Unlinked : s = index[id]
    BY <2>2
  <2>4. /\ s \in Slots /\ order[s].level \in Levels
        /\ PriceAt(sd, order[s].level) = order[s].price
        /\ s \in ToSet(queue[sd][order[s].level])
    BY <2>1, <2>3, LinkedOrder
  <2>5. queue[sd][order[s].level] # <<>>
    BY <2>4 DEF ToSet
  <2>6. order[s].level \in occ[sd]
    BY <2>4, <2>5 DEF TouchExact
  <2> QED BY <2>1, <2>2, <2>3, <2>4, <2>6
<1>3. ASSUME NEW i \in Levels, NEW s \in ToSet(queue[sd][i])
      PROVE  /\ s \in Slots /\ order[s].id \in RestingIds(sd)
             /\ index[order[s].id] = s
             /\ order[s].level = i /\ order[s].price = PriceAt(sd, i)
  <2>1. /\ s \in live \ Unlinked /\ s \in live \ InFlight
        /\ order[s].side = sd /\ order[s].level = i
    BY <1>1 DEF QueuesMatchOrders
  <2>2. order[s].id \in OrderIds /\ index[order[s].id] = s
    BY <2>1 DEF IndexMatchesPool
  <2>3. s \in Slots /\ s # NULL /\ order[s].price = PriceAt(sd, i)
    BY <2>1, LinkedOrder, NameAssumption
  <2> QED BY <2>1, <2>2, <2>3 DEF RestingIds
<1> QED BY <1>2, <1>3

\* p is a better price than q on side sd.
Better(sd, p, q) == IF sd = "BUY" THEN p > q ELSE p < q

\* The prices of the ladder are positive and a level is better than another when
\* its index is lower.
LEMMA PriceOrder ==
  ASSUME NEW sd \in Sides
  PROVE  /\ \A i \in Levels : PriceAt(sd, i) \in Nat \ {0}
         /\ \A i, j \in Levels : /\ Better(sd, PriceAt(sd, i), PriceAt(sd, j)) <=> i < j
                                 /\ PriceAt(sd, i) = PriceAt(sd, j) => i = j
<1>1. ASSUME NEW i \in Levels PROVE PriceAt(sd, i) \in Nat \ {0}
  <2>1. PICK t \in Nat \ {0}, low \in Nat \ {0}, n \in Nat, k \in Nat :
          t = TickSize /\ low = MinPrice /\ n = LevelCount - 1 /\ k = i /\ k <= n
    BY LadderAssumption DEF Levels
  <2>2. PICK kt \in Nat, nt \in Nat : kt = k * t /\ nt = n * t /\ kt <= nt
    <3>1. k * t \in Nat /\ n * t \in Nat
      OBVIOUS
    <3>2. k = n \/ k < n
      BY <2>1
    <3>3. k * t <= n * t
      BY <3>1, <3>2, TimesMono
    <3> QED BY <3>1, <3>3
  <2>3. PriceAt(sd, i) = IF sd = "BUY" THEN low + nt - kt ELSE low + kt
    BY <2>1, <2>2 DEF PriceAt, MaxPrice
  <2> QED BY <2>2, <2>3
<1>2. ASSUME NEW i \in Levels, NEW j \in Levels
      PROVE  /\ Better(sd, PriceAt(sd, i), PriceAt(sd, j)) <=> i < j
             /\ PriceAt(sd, i) = PriceAt(sd, j) => i = j
  <2>1. /\ i < j => Better(sd, PriceAt(sd, i), PriceAt(sd, j))
        /\ j < i => Better(sd, PriceAt(sd, j), PriceAt(sd, i))
    BY <1>1, PriceAtMonotone DEF Better, Sides
  <2>2. PriceAt(sd, i) \in Nat /\ PriceAt(sd, j) \in Nat
    BY <1>1
  <2>3. PICK p \in Nat, q \in Nat : p = PriceAt(sd, i) /\ q = PriceAt(sd, j)
    BY <2>2
  <2>4. i \in Nat /\ j \in Nat
    BY LadderAssumption DEF Levels
  <2> QED BY <2>1, <2>3, <2>4 DEF Better
<1> QED BY <1>1, <1>2

\* Between calls the prices of the resting orders are those of the occupied levels.
LEMMA RestingPricesAre ==
  ASSUME BookInv, pc = "idle", NEW sd \in Sides
  PROVE  /\ \A i \in occ[sd] : PriceAt(sd, i) \in RestingPrices(sd)
         /\ \A p \in RestingPrices(sd) : \E i \in occ[sd] : p = PriceAt(sd, i)
<1>1. ASSUME NEW i \in occ[sd] PROVE PriceAt(sd, i) \in RestingPrices(sd)
  <2>1. i \in Levels /\ queue[sd][i] # <<>> /\ queue[sd][i] \in Seq(Slots)
    BY DEF BookInv, BookTypeOK, TouchExact
  <2>2. PICK s \in ToSet(queue[sd][i]) : TRUE
    BY <2>1, EmptyIff
  <2>3. /\ order[s].id \in RestingIds(sd) /\ index[order[s].id] = s
        /\ order[s].price = PriceAt(sd, i)
    BY <2>1, RestingLinked
  <2> QED BY <2>3 DEF RestingPrices
<1>2. ASSUME NEW p \in RestingPrices(sd) PROVE \E i \in occ[sd] : p = PriceAt(sd, i)
  <2>1. PICK id \in RestingIds(sd) : p = order[index[id]].price
    BY DEF RestingPrices
  <2> QED BY <2>1, RestingLinked
<1> QED BY <1>1, <1>2

\* There are as many prices as occupied levels, and as many better ones as levels
\* before.
LEMMA PriceCounts ==
  ASSUME BookInv, pc = "idle", NEW sd \in Sides
  PROVE  /\ Cardinality(RestingPrices(sd)) = Cardinality(occ[sd])
         /\ \A i \in occ[sd] :
              /\ Cardinality(BetterPrices(sd, PriceAt(sd, i))) =
                   Cardinality(Below(occ[sd], i))
              /\ Below(occ[sd], i) = {} => BetterPrices(sd, PriceAt(sd, i)) = {}
<1>1. occ[sd] \subseteq Levels /\ IsFiniteSet(occ[sd])
  BY OccupiedFacts DEF BookInv
<1>2. ASSUME NEW A \in SUBSET occ[sd], NEW P,
             \A i \in A : PriceAt(sd, i) \in P,
             \A p \in P : \E i \in A : p = PriceAt(sd, i)
      PROVE  Cardinality(P) = Cardinality(A)
  <2> DEFINE m == [i \in A |-> PriceAt(sd, i)]
  <2>1. IsFiniteSet(A) /\ A \subseteq Levels
    BY <1>1, FS_Subset
  <2>2. m \in [A -> P]
    BY <1>2
  <2>3. \A x, y \in A : m[x] = m[y] => x = y
    BY <2>1, PriceOrder
  <2>4. \A z \in P : \E x \in A : m[x] = z
    BY <1>2
  <2> HIDE DEF m
  <2> QED BY <2>1, <2>2, <2>3, <2>4, SameSize
<1>3. Cardinality(RestingPrices(sd)) = Cardinality(occ[sd])
  BY <1>2, RestingPricesAre
<1>4. ASSUME NEW i \in occ[sd]
      PROVE  /\ Cardinality(BetterPrices(sd, PriceAt(sd, i))) =
                   Cardinality(Below(occ[sd], i))
             /\ Below(occ[sd], i) = {} => BetterPrices(sd, PriceAt(sd, i)) = {}
  <2> DEFINE P == BetterPrices(sd, PriceAt(sd, i))
             A == Below(occ[sd], i)
  <2>1. A \in SUBSET occ[sd]
    BY DEF Below
  <2>2. \A q : q \in P <=> q \in RestingPrices(sd) /\ Better(sd, q, PriceAt(sd, i))
    BY DEF BetterPrices, Better
  <2>3. \A j : j \in A <=> j \in occ[sd] /\ j < i
    BY DEF Below
  <2> HIDE DEF A, P
  <2>4. ASSUME NEW j \in A PROVE PriceAt(sd, j) \in P
    BY <1>1, <2>2, <2>3, PriceOrder, RestingPricesAre
  <2>5. ASSUME NEW p \in P PROVE \E j \in A : p = PriceAt(sd, j)
    <3>1. PICK j \in occ[sd] : p = PriceAt(sd, j)
      BY <2>2, RestingPricesAre
    <3>2. j < i
      BY <1>1, <2>2, <3>1, PriceOrder
    <3> QED BY <2>3, <3>1, <3>2
  <2>6. Cardinality(P) = Cardinality(A)
    BY <1>2, <2>1, <2>4, <2>5
  <2> QED BY <2>5, <2>6 DEF A, P
<1> QED BY <1>3, <1>4

\* One unfolding of the recursion in OpenOf.
IdSumming(ids, g) ==
  [T \in SUBSET ids |->
     IF T = {} THEN 0
     ELSE order[index[CHOOSE x \in T : TRUE]].rem + g[T \ {CHOOSE x \in T : TRUE}]]

\* If some function satisfies the recursion, OpenOf is a value of one.
LEMMA OpenOfChosen ==
  ASSUME NEW ids, NEW g, g = IdSumming(ids, g)
  PROVE  \E h : h = IdSumming(ids, h) /\ OpenOf(ids) = h[ids]
  BY Zenon DEF OpenOf, IdSumming, MapThenSumSet, MapThenFoldSet

\* OpenOf counts the units of the orders.
LEMMA OpenOfIs ==
  ASSUME NEW ids, IsFiniteSet(ids), NEW B \in Nat,
         \A id \in ids : order[index[id]].rem \in 0 .. B
  PROVE  OpenOf(ids) =
           Cardinality(Units(ids, [id \in ids |-> order[index[id]].rem]))
<1> DEFINE r == [id \in ids |-> order[index[id]].rem]
           Pick(T) == CHOOSE x \in T : TRUE
<1>1. \A id \in ids : r[id] \in 0 .. B /\ order[index[id]].rem = r[id]
  OBVIOUS
<1>2. ASSUME NEW T \in SUBSET ids, T # {}
      PROVE  order[index[Pick(T)]].rem = r[Pick(T)]
  <2>1. Pick(T) \in ids
    BY <1>2
  <2> QED BY <1>1, <2>1
<1> HIDE DEF r
<1>3. \A g : IdSumming(ids, g) = SetSums(ids, r, g)
  BY <1>2 DEF IdSumming, SetSums
<1>4. /\ \E g : g = SetSums(ids, r, g)
      /\ \A g : g = SetSums(ids, r, g) => g[ids] = Cardinality(Units(ids, r))
  BY <1>1, SetSumsAre
<1>5. PICK g : g = SetSums(ids, r, g)
  BY <1>4
<1>6. g = IdSumming(ids, g)
  BY <1>3, <1>5
<1>7. PICK h : h = IdSumming(ids, h) /\ OpenOf(ids) = h[ids]
  BY <1>6, OpenOfChosen
<1>8. h = SetSums(ids, r, h)
  BY <1>3, <1>7
<1> QED BY <1>4, <1>7, <1>8 DEF r

\* Between calls the orders indexed at the price of a level are those in its queue:
\* as many, and with as much open.
LEMMA LevelOrders ==
  ASSUME BookInv, pc = "idle", NEW sd \in Sides, NEW i \in Levels
  PROVE  /\ Cardinality(IdsAt(sd, PriceAt(sd, i))) = Len(queue[sd][i])
         /\ OpenOf(IdsAt(sd, PriceAt(sd, i))) = Open(queue[sd][i], Rem)
<1> DEFINE q == queue[sd][i]
           ids == IdsAt(sd, PriceAt(sd, i))
           m == [s \in ToSet(q) |-> order[s].id]
           f == [s \in ToSet(q) |-> order[s].rem]
           g == [id \in ids |-> order[index[id]].rem]
<1>1. q \in Seq(Slots) /\ IsInjective(q)
  BY DEF BookInv, BookTypeOK, QueuesMatchOrders
<1>2. IsFiniteSet(ToSet(q)) /\ ToSet(q) \subseteq Slots
  BY <1>1, QueueFinite
<1>3. \A s \in ToSet(q) :
        /\ order[s].id \in RestingIds(sd) /\ index[order[s].id] = s
        /\ order[s].price = PriceAt(sd, i)
  BY RestingLinked
<1>4. m \in [ToSet(q) -> ids]
  BY <1>3 DEF IdsAt
<1>5. \A x, y \in ToSet(q) : m[x] = m[y] => x = y
  <2>1. ASSUME NEW x \in ToSet(q), NEW y \in ToSet(q), m[x] = m[y] PROVE x = y
    <3>1. order[x].id = order[y].id
      BY <2>1
    <3> QED BY <1>3, <3>1
  <2> QED BY <2>1
<1>6. ASSUME NEW id \in ids
      PROVE  index[id] \in ToSet(q) /\ m[index[id]] = id
  <2>1. id \in RestingIds(sd) /\ order[index[id]].price = PriceAt(sd, i)
    BY DEF IdsAt
  <2>2. PICK j \in Levels : /\ j = order[index[id]].level
                            /\ PriceAt(sd, j) = PriceAt(sd, i)
                            /\ index[id] \in ToSet(queue[sd][j])
    BY <2>1, RestingLinked, OccupiedFacts DEF BookInv
  <2>3. j = i
    BY <2>2, PriceOrder
  <2>4. order[index[id]].id = id
    BY <2>1, RestingLinked
  <2> QED BY <2>2, <2>3, <2>4
<1>7. \A id \in ids : \E x \in ToSet(q) : m[x] = id
  BY <1>6
<1>8. PICK B \in Nat : B = MaxQuantity /\ \A s \in Slots : order[s].rem \in 0 .. B
  BY InputAssumption DEF BookInv, BookTypeOK, Order, Quantities
<1>9. \A id \in ids : order[index[id]].rem \in 0 .. B
  BY <1>2, <1>6, <1>8
<1>10. \A s \in ToSet(q) : f[s] = g[m[s]] /\ f[s] \in 0 .. B /\ f[s] = Rem[s]
  <2>1. ASSUME NEW s \in ToSet(q)
        PROVE  f[s] = g[m[s]] /\ f[s] \in 0 .. B /\ f[s] = Rem[s]
    <3>1. m[s] = order[s].id /\ m[s] \in ids /\ index[m[s]] = s
      BY <1>3, <1>4
    <3>2. g[m[s]] = order[s].rem
      BY <3>1
    <3> QED BY <1>2, <1>8, <3>2 DEF Rem
  <2> QED BY <2>1
<1>11. OpenOf(ids) = Cardinality(Units(ids, g)) /\ IsFiniteSet(ids)
       /\ Cardinality(ids) = Cardinality(ToSet(q))
  <2> HIDE DEF m, ids
  <2>1. IsFiniteSet(ids) /\ Cardinality(ids) = Cardinality(ToSet(q))
    BY <1>2, <1>4, <1>5, <1>7, SameSize
  <2> QED BY <1>9, <2>1, OpenOfIs
<1>12. Cardinality(Units(ids, g)) = Cardinality(Units(ToSet(q), f))
  <2> HIDE DEF m, f, g, ids
  <2> QED BY <1>2, <1>4, <1>5, <1>7, <1>10, UnitsRenamed
<1>13. Units(ToSet(q), Rem) = Units(ToSet(q), f)
  <2> HIDE DEF f
  <2> QED BY <1>10, UnitsSame
<1>14. OpenOf(ids) = Open(q, Rem)
  <2> HIDE DEF f, g, ids
  <2> QED BY <1>11, <1>12, <1>13 DEF Open
<1>15. Cardinality(ToSet(q)) = Len(q)
  <2> HIDE DEF q
  <2>1. Len(q) \in Nat /\ DOMAIN q = 1 .. Len(q) /\ q \in [1 .. Len(q) -> Slots]
    BY <1>1, LenProperties
  <2>2. /\ q \in [1 .. Len(q) -> ToSet(q)]
        /\ \A z \in ToSet(q) : \E k \in 1 .. Len(q) : q[k] = z
    BY <2>1 DEF ToSet
  <2>3. \A x, y \in 1 .. Len(q) : q[x] = q[y] => x = y
    BY <1>1, <2>1 DEF IsInjective
  <2>4. IsFiniteSet(1 .. Len(q)) /\ Cardinality(1 .. Len(q)) = Len(q)
    BY <2>1, FS_Interval
  <2> QED BY <2>2, <2>3, <2>4, SameSize
<1> QED BY <1>11, <1>14, <1>15

\* The prices to show are those of the levels walked over, in their order.
LEMMA ShownWalk ==
  ASSUME BookInv, pc = "idle", NEW sd \in Sides, NEW depth \in 0 .. LevelCount
  PROVE  LET walk == ForEachOccupied(sd, depth)
             shown == ShownPrices(sd, depth)
         IN  /\ Len(walk) \in Nat /\ Len(walk) = Cardinality(shown)
             /\ \A k \in 1 .. Len(walk) :
                  /\ walk[k] \in occ[sd] /\ PriceAt(sd, walk[k]) \in shown
                  /\ Cardinality(BetterPrices(sd, PriceAt(sd, walk[k]))) = k - 1
             /\ \A p \in shown : \E k \in 1 .. Len(walk) :
                  /\ p = PriceAt(sd, walk[k])
                  /\ k = Cardinality(BetterPrices(sd, p)) + 1
<1> DEFINE walk == ForEachOccupied(sd, depth)
           shown == ShownPrices(sd, depth)
           F == occ[sd]
<1>1. /\ Len(walk) \in Nat /\ Len(walk) <= depth /\ Len(walk) <= Cardinality(F)
      /\ Len(walk) \in {depth, Cardinality(F)}
      /\ \A k \in 1 .. Len(walk) :
           walk[k] \in F /\ Cardinality(Below(F, walk[k])) = k - 1
  BY WalkIs DEF BookInv
<1>2. F \in SUBSET Nat /\ IsFiniteSet(F) /\ F \subseteq Levels /\ depth \in Nat
  BY OccupiedFacts DEF BookInv
<1>3. \A i \in F : /\ PriceAt(sd, i) \in RestingPrices(sd)
                    /\ Cardinality(BetterPrices(sd, PriceAt(sd, i))) =
                         Cardinality(Below(F, i))
  BY PriceCounts, RestingPricesAre
<1>4. \A p : p \in shown <=> /\ p \in RestingPrices(sd)
                             /\ Cardinality(BetterPrices(sd, p)) < depth
  BY DEF ShownPrices
<1> HIDE DEF walk, shown, F
<1>5. ASSUME NEW k \in 1 .. Len(walk)
      PROVE  /\ walk[k] \in F /\ PriceAt(sd, walk[k]) \in shown
             /\ Cardinality(BetterPrices(sd, PriceAt(sd, walk[k]))) = k - 1
  <2>1. PICK i \in F : i = walk[k] /\ Cardinality(Below(F, i)) = k - 1
    BY <1>1
  <2>2. k - 1 < depth
    BY <1>1, <1>2
  <2> QED BY <1>3, <1>4, <2>1, <2>2
<1>6. ASSUME NEW p \in shown
      PROVE  \E k \in 1 .. Len(walk) : /\ p = PriceAt(sd, walk[k])
                                       /\ k = Cardinality(BetterPrices(sd, p)) + 1
  <2>1. PICK i \in F : p = PriceAt(sd, i)
    BY <1>4, RestingPricesAre DEF F
  <2>2. PICK r \in Nat : r = Cardinality(Below(F, i)) /\ r < Cardinality(F)
    BY <1>2, RankNext
  <2>3. r = Cardinality(BetterPrices(sd, p)) /\ r < depth
    BY <1>3, <1>4, <2>1, <2>2
  <2>4. r + 1 \in 1 .. Len(walk)
    BY <1>1, <1>2, <2>2, <2>3
  <2>5. PICK k \in 1 .. Len(walk) : k = r + 1
    BY <2>4
  <2>6. PICK j \in F : j = walk[k] /\ Cardinality(Below(F, j)) = r
    BY <1>1, <2>5
  <2>7. Cardinality(Below(F, j)) = Cardinality(Below(F, i))
    BY <2>2, <2>6
  <2>8. j = i
    BY <1>2, <2>7, RankUnique
  <2> QED BY <2>1, <2>3, <2>5, <2>6, <2>8
<1>7. Len(walk) = Cardinality(shown)
  <2> DEFINE K == 1 .. Len(walk)
             m == [k \in K |-> PriceAt(sd, walk[k])]
  <2>1. IsFiniteSet(K) /\ Cardinality(K) = Len(walk)
    <3>1. PICK l \in Nat : l = Len(walk)
      BY <1>1
    <3>2. IsFiniteSet(1 .. l) /\ Cardinality(1 .. l) = l
      BY FS_Interval
    <3> QED BY <3>1, <3>2
  <2>2. m \in [K -> shown]
    BY <1>5
  <2>3. ASSUME NEW x \in K, NEW y \in K, m[x] = m[y] PROVE x = y
    <3>1. PriceAt(sd, walk[x]) = PriceAt(sd, walk[y])
      BY <2>3
    <3>2. x - 1 = y - 1
      BY <1>5, <3>1
    <3> QED BY <1>1, <3>2
  <2>4. \A z \in shown : \E x \in K : m[x] = z
    BY <1>6
  <2> HIDE DEF m, K
  <2> QED BY <2>1, <2>2, <2>3, <2>4, SameSize
<1> QED BY <1>1, <1>5, <1>6, <1>7 DEF walk, shown, F

\* What the invariants give for one side of one capture.
LEMMA SnapshotOf ==
  ASSUME BookInv, Exact, pc = "idle",
         NEW sd \in Sides, NEW depth \in 0 .. LevelCount
  PROVE  LET snap == CaptureSnapshot(depth)[sd]
             shown == ShownPrices(sd, depth)
         IN  /\ snap.levelCount = Cardinality(RestingPrices(sd))
             /\ Len(snap.levels) = Cardinality(shown)
             /\ \A p \in shown :
                  snap.levels[Cardinality(BetterPrices(sd, p)) + 1] =
                    [price |-> p, orderCount |-> Cardinality(IdsAt(sd, p)),
                     quantity |-> OpenOf(IdsAt(sd, p))]
             /\ snap.bestRaw = 0 <=> shown = {}
             /\ snap.bestRaw # 0 =>
                  /\ snap.bestRaw \in RestingPrices(sd)
                  /\ BetterPrices(sd, snap.bestRaw) = {}
<1> DEFINE walk == ForEachOccupied(sd, depth)
           shown == ShownPrices(sd, depth)
           snap == CaptureSnapshot(depth)[sd]
           n == Len(walk)
           entry(i) == [price |-> PriceAt(sd, i), quantity |-> total[sd][i],
                        orderCount |-> Len(queue[sd][i])]
           levels == [k \in 1 .. n |-> entry(walk[k])]
<1>1. /\ n \in Nat /\ n = Cardinality(shown)
      /\ \A k \in 1 .. n :
           /\ walk[k] \in occ[sd] /\ PriceAt(sd, walk[k]) \in shown
           /\ Cardinality(BetterPrices(sd, PriceAt(sd, walk[k]))) = k - 1
      /\ \A p \in shown : \E k \in 1 .. n :
           p = PriceAt(sd, walk[k]) /\ k = Cardinality(BetterPrices(sd, p)) + 1
  BY ShownWalk
<1>2. snap = [levels |-> levels,
              bestRaw |-> IF levels = <<>> THEN 0 ELSE levels[1].price,
              levelCount |-> Cardinality(occ[sd])]
  BY DEF CaptureSnapshot
<1>3. occ[sd] \subseteq Levels /\ IsFiniteSet(occ[sd])
  BY OccupiedFacts DEF BookInv
<1>4. \A p \in shown : p \in RestingPrices(sd)
  BY DEF ShownPrices
<1> HIDE DEF walk, shown, snap, n
<1>5. ASSUME NEW i \in occ[sd]
      PROVE  entry(i) = [price |-> PriceAt(sd, i),
                         orderCount |-> Cardinality(IdsAt(sd, PriceAt(sd, i))),
                         quantity |-> OpenOf(IdsAt(sd, PriceAt(sd, i)))]
  <2>1. i \in Levels
    BY <1>3
  <2>2. total[sd][i] = Open(queue[sd][i], Rem)
    BY <2>1 DEF Exact
  <2>3. /\ Cardinality(IdsAt(sd, PriceAt(sd, i))) = Len(queue[sd][i])
        /\ OpenOf(IdsAt(sd, PriceAt(sd, i))) = Open(queue[sd][i], Rem)
    BY <2>1, LevelOrders
  <2> QED BY <2>2, <2>3
<1> HIDE DEF entry
<1>6. Len(levels) = n /\ (levels = <<>> <=> n = 0)
  <2>1. Len(levels) = n
    BY <1>1
  <2>2. levels = <<>> => n = 0
    BY <1>1, <2>1
  <2>3. n = 0 => levels = <<>>
    BY <1>1
  <2> QED BY <2>1, <2>2, <2>3
<1>7. ASSUME NEW p \in shown
      PROVE  levels[Cardinality(BetterPrices(sd, p)) + 1] =
               [price |-> p, orderCount |-> Cardinality(IdsAt(sd, p)),
                quantity |-> OpenOf(IdsAt(sd, p))]
  <2>1. PICK k \in 1 .. n :
          p = PriceAt(sd, walk[k]) /\ k = Cardinality(BetterPrices(sd, p)) + 1
    BY <1>1
  <2>2. PICK i \in occ[sd] : i = walk[k]
    BY <1>1
  <2>3. levels[k] = entry(i)
    BY <2>2
  <2> QED BY <1>5, <2>1, <2>2, <2>3
<1>8. shown = {} <=> n = 0
  BY <1>1
<1>9. ASSUME n # 0
      PROVE  /\ levels[1].price \in RestingPrices(sd) /\ levels[1].price # 0
             /\ BetterPrices(sd, levels[1].price) = {}
  <2>1. 1 \in 1 .. n
    BY <1>1, <1>9
  <2>2. PICK i \in occ[sd] : i = walk[1]
    BY <1>1, <2>1
  <2>3. /\ PriceAt(sd, i) \in RestingPrices(sd)
        /\ Cardinality(BetterPrices(sd, PriceAt(sd, i))) = 0
    BY <1>1, <1>4, <2>1, <2>2
  <2>4. levels[1].price = PriceAt(sd, i)
    BY <2>1, <2>2 DEF entry
  <2>5. PriceAt(sd, i) # 0
    BY <1>3, PriceOrder
  <2>6. BetterPrices(sd, PriceAt(sd, i)) = {}
    <3>1. Cardinality(Below(occ[sd], i)) = 0
      BY <2>3, PriceCounts
    <3>2. IsFiniteSet(Below(occ[sd], i))
      <4>1. Below(occ[sd], i) \subseteq occ[sd]
        BY DEF Below
      <4> QED BY <1>3, <4>1, FS_Subset
    <3>3. Below(occ[sd], i) = {}
      BY <3>1, <3>2, FS_EmptySet
    <3> QED BY <3>3, PriceCounts
  <2> QED BY <2>3, <2>4, <2>5, <2>6
<1>10. Cardinality(occ[sd]) = Cardinality(RestingPrices(sd))
  BY PriceCounts
<1> HIDE DEF levels
<1>11. /\ snap.levels = levels /\ snap.levelCount = Cardinality(occ[sd])
       /\ snap.bestRaw = IF n = 0 THEN 0 ELSE levels[1].price
  BY <1>2, <1>6
<1>12. /\ snap.levelCount = Cardinality(RestingPrices(sd))
       /\ Len(snap.levels) = Cardinality(shown)
  BY <1>1, <1>6, <1>10, <1>11
<1>13. \A p \in shown :
         snap.levels[Cardinality(BetterPrices(sd, p)) + 1] =
           [price |-> p, orderCount |-> Cardinality(IdsAt(sd, p)),
            quantity |-> OpenOf(IdsAt(sd, p))]
  BY <1>7, <1>11
<1>14. snap.bestRaw = 0 <=> shown = {}
  BY <1>8, <1>9, <1>11
<1>15. snap.bestRaw # 0 => /\ snap.bestRaw \in RestingPrices(sd)
                          /\ BetterPrices(sd, snap.bestRaw) = {}
  BY <1>9, <1>11
<1> QED BY <1>12, <1>13, <1>14, <1>15 DEF snap, shown

\* captureSnapshot: what a viewer is shown between two calls of a book, at any
\* depth, is its resting orders: their prices best first, none left out, with the
\* number of orders and the quantity open at each.
THEOREM BookSnapshotExact == BookSpec => []SnapshotExact
<1>1. BookInv /\ Exact => SnapshotExact
  BY SnapshotOf DEF SnapshotExact
<1> QED BY <1>1, BookInvariant, BookExact, PTL

(***************************************************************************)
(* The strong exception guarantee of OrderBook::addOrderWithQuantities     *)
(* (src/src/book/order_book.cpp), for every number of identifiers, slots,  *)
(* levels and prices: an insertion that fails, at whatever step, ends in   *)
(* the very book it started from.                                          *)
(*                                                                         *)
(* The saved book is compared component by component while the call runs.  *)
(* The pool, the queues, the aggregates and the index are undone step by   *)
(* step, so HistInv says exactly how far each of them is from the saved    *)
(* one.  The occupancy bits and the cached best index are not: they are    *)
(* re-derived when a level fills or empties, and are the saved ones again  *)
(* because the queues determine them (SameLadders).                        *)
(***************************************************************************)

\* The components of the saved book, in the order of bookVars.
orderBefore == before[1]
liveBefore == before[2]
queueBefore == before[3]
totalBefore == before[4]
occBefore == before[5]
bestBefore == before[6]
indexBefore == before[7]

\* A slot outside the live orders holds the blank order: releasing the slot of
\* a failed insertion restores its contents because they were blank before.
FreeBlank == \A s \in Slots \ live : order[s] = Blank

\* The saved book is well typed, its bits are those of its queues and its best
\* indices are the lowest bits: what the proof needs to know of an old state.
SavedOK ==
  /\ before = <<orderBefore, liveBefore, queueBefore, totalBefore, occBefore,
                bestBefore, indexBefore>>
  /\ queueBefore \in [Sides -> [Levels -> Seq(Slots)]]
  /\ totalBefore \in [Sides -> [Levels -> Quantities]]
  /\ occBefore \in [Sides -> SUBSET Levels]
  /\ bestBefore \in [Sides -> Levels \cup {NPos}]
  /\ \A side \in Sides :
       /\ occBefore[side] = {i \in Levels : queueBefore[side][i] # <<>>}
       /\ IsTouch(occBefore[side], bestBefore[side])

\* Since the book was saved, one slot has been allocated and nothing indexed.
Inserting ==
  /\ SavedOK
  /\ slot \notin liveBefore /\ live = liveBefore \cup {slot}
  /\ orderBefore = [order EXCEPT ![slot] = Blank]
  /\ indexBefore = index

\* The order has also joined the back of its queue, with its quantity.
LinkedSince ==
  LET side == order[slot].side
      i == order[slot].level
  IN  /\ queue = [queueBefore EXCEPT ![side][i] = Append(@, slot)]
      /\ total = [totalBefore EXCEPT ![side][i] = @ + order[slot].rem]

\* The inductive invariant: how far the book is from the saved one, by step of
\* the running call.
HistInv ==
  /\ BookInv
  /\ FreeBlank
  /\ pc # "match"
  /\ pc \in {"idle", "alloc"} => before = bookVars
  /\ pc \in {"link", "index", "unlink", "release"} => Inserting
  /\ pc \in {"link", "release"} => queue = queueBefore /\ total = totalBefore
  /\ pc \in {"index", "unlink"} => LinkedSince

\* Two indices that are both the touch of a set of bits are the same.
LEMMA TouchUnique ==
  ASSUME NEW bits \in SUBSET Levels, NEW a \in Levels \cup {NPos},
         NEW b \in Levels \cup {NPos}, IsTouch(bits, a), IsTouch(bits, b)
  PROVE  a = b
  BY LadderAssumption DEF IsTouch, Levels, NPos

\* Bits and best indices are functions of the queues: equal queues, equal
\* ladders, whatever was marked occupied and empty in between.
LEMMA SameLadders ==
  ASSUME BookTypeOK, TouchExact, SavedOK, queue = queueBefore
  PROVE  occ = occBefore /\ best = bestBefore
<1>1. occ = occBefore
  <2>1. \A side \in Sides : occ[side] = occBefore[side]
    BY DEF TouchExact, SavedOK
  <2> QED BY <2>1 DEF BookTypeOK, SavedOK
<1>2. ASSUME NEW side \in Sides PROVE best[side] = bestBefore[side]
  BY <1>1, TouchUnique DEF TouchExact, SavedOK, BookTypeOK
<1> QED BY <1>1, <1>2 DEF BookTypeOK, SavedOK

\* Removing the order that was appended last gives the queue back.
LEMMA AppendRemove ==
  ASSUME NEW S, NEW q \in Seq(S), NEW s \in S, IsInjective(Append(q, s))
  PROVE  RemoveFirst(Append(q, s), s) = q
<1> DEFINE r == Append(q, s)
           n == Len(q)
<1>1. /\ n \in Nat /\ r \in Seq(S) /\ Len(r) = n + 1
      /\ DOMAIN r = 1 .. n + 1 /\ DOMAIN q = 1 .. n
      /\ \A j \in 1 .. n : r[j] = q[j]
      /\ r[n + 1] = s
  BY LenProperties, AppendProperties
<1> HIDE DEF r, n
<1>2. n + 1 \in 1 .. n + 1
  BY <1>1
<1>3. PICK k \in 1 .. Len(r) : r[k] = s /\ RemoveFirst(r, s) = RemoveAt(r, k)
  BY <1>1, <1>2, RemoveFirstAt
<1>4. IsInjective(r)
  BY DEF r
<1>5. k = n + 1
  BY <1>1, <1>2, <1>3, <1>4 DEF IsInjective
<1> DEFINE t == RemoveAt(r, k)
<1>6. /\ t \in Seq(S) /\ Len(t) = Len(r) - 1
      /\ \A j \in 1 .. Len(r) - 1 : t[j] = IF j < k THEN r[j] ELSE r[j + 1]
  BY <1>1, <1>3, RemoveAtProps
<1> HIDE DEF t
<1>7. Len(t) = n /\ \A j \in 1 .. n : t[j] = q[j]
  BY <1>1, <1>5, <1>6
<1>8. t = q
  BY <1>6, <1>7, SeqEqual DEF n
<1> QED BY <1>3, <1>8 DEF r, t

\* The current book, once saved, has the facts SavedOK lists.
LEMMA SavedNow ==
  ASSUME BookInv, before = bookVars
  PROVE  SavedOK
  BY DEF SavedOK, bookVars, BookInv, BookTypeOK, TouchExact, orderBefore,
     liveBefore, queueBefore, totalBefore, occBefore, bestBefore, indexBefore

\* No operation writes into a free slot, and release blanks the one it frees.
LEMMA FreeBlankStep ==
  ASSUME BookInv, FreeBlank, BookNext
  PROVE  FreeBlank'
<1>0. order \in [Slots -> Order] /\ live \subseteq Slots
  BY DEF BookInv, BookTypeOK
<1>1. CASE UNCHANGED <<order, live>>
  BY <1>1 DEF FreeBlank
<1>2. ASSUME NEW s \in Slots, Release(s) PROVE FreeBlank'
  BY <1>0, <1>2 DEF FreeBlank, Release
<1>3. ASSUME NEW s \in live, NEW o, order' = [order EXCEPT ![s] = o],
             live' = live
      PROVE  FreeBlank'
  BY <1>0, <1>3 DEF FreeBlank
<1>4. ASSUME NEW r \in Requests, AddOrder(r) PROVE FreeBlank'
  BY <1>1, <1>4 DEF AddOrder, Return, bookVars
<1>5. ASSUME NEW id \in OrderIds, CancelOrder(id) PROVE FreeBlank'
  <2>1. index[id] # NULL => index[id] \in Slots
    BY DEF BookInv, BookTypeOK
  <2> QED BY <1>1, <1>2, <1>5, <2>1 DEF CancelOrder, Return, bookVars,
     RemoveOrder
<1>6. ASSUME NEW id \in OrderIds, NEW target \in Quantities,
             ReduceOrder(id, target)
      PROVE  FreeBlank'
  <2>1. index[id] # NULL => index[id] \in live
    BY DEF BookInv, IndexMatchesPool
  <2>2. CASE UNCHANGED bookVars
    BY <1>1, <2>2 DEF bookVars
  <2>3. ASSUME index[id] # NULL, NEW a, Shrink(index[id], a) PROVE FreeBlank'
    BY <1>3, <2>1, <2>3 DEF Shrink
  <2> QED BY <1>6, <2>2, <2>3 DEF ReduceOrder, Return
<1>7. ASSUME InsertStep PROVE FreeBlank'
  <2>0. pc \in {"link", "index", "unlink", "release"} => slot \in live
    BY DEF BookInv, CallOK
  <2>1. CASE Allocate
    BY <1>0, <2>1 DEF Allocate, FreeBlank
  <2>2. CASE AllocateFails \/ LinkThrows \/ AddToIndex \/ AddToIndexThrows
    BY <1>1, <2>2 DEF AllocateFails, LinkThrows, AddToIndex, AddToIndexThrows,
       Return,
       bookVars
  <2>3. CASE Link
    BY <1>3, <2>0, <2>3 DEF Link
  <2>4. CASE RollbackLevel
    BY <1>3, <2>0, <2>4 DEF RollbackLevel
  <2>5. CASE RollbackPool
    BY <1>0, <1>2, <2>0, <2>5 DEF RollbackPool
  <2> QED BY <1>7, <2>1, <2>2, <2>3, <2>4, <2>5 DEF InsertStep
<1> QED BY <1>4, <1>5, <1>6, <1>7 DEF BookNext

\* Linking the order extends the difference by its queue and its aggregate.
LEMMA HistLink ==
  ASSUME HistInv, Link, BookInv', FreeBlank', before' = before
  PROVE  HistInv'
<1> DEFINE sd == order[slot].side
           i == IndexOf(sd, order[slot].price)
<1>1. /\ pc = "link" /\ pc' = "index" /\ slot' = slot /\ live' = live
      /\ index' = index
      /\ order' = [order EXCEPT ![slot].level = i]
      /\ queue' = [queue EXCEPT ![sd][i] = Append(@, slot)]
      /\ total' = [total EXCEPT ![sd][i] = @ + order[slot].rem]
  BY DEF Link, AppendToLevel
<1>2. /\ Inserting /\ queue = queueBefore /\ total = totalBefore
      /\ slot \in Slots /\ order \in [Slots -> Order]
  BY <1>1 DEF HistInv, BookInv, CallOK, BookTypeOK
<1>3. /\ order'[slot].side = sd /\ order'[slot].level = i
      /\ order'[slot].rem = order[slot].rem
      /\ [order' EXCEPT ![slot] = Blank] = [order EXCEPT ![slot] = Blank]
  BY <1>1, <1>2 DEF Order
<1>4. SavedOK'
  BY <1>2 DEF Inserting, SavedOK, orderBefore, liveBefore, queueBefore,
     totalBefore,
     occBefore, bestBefore, indexBefore
<1>5. Inserting'
  BY <1>1, <1>2, <1>3, <1>4 DEF Inserting, orderBefore, liveBefore, indexBefore
<1> HIDE DEF sd, i
<1>6. LinkedSince'
  BY <1>1, <1>2, <1>3 DEF LinkedSince, queueBefore, totalBefore
<1> QED BY <1>1, <1>5, <1>6 DEF HistInv

\* The first rollback step takes exactly that difference back.
LEMMA HistUnlink ==
  ASSUME HistInv, RollbackLevel, BookInv', FreeBlank', before' = before
  PROVE  HistInv'
<1> DEFINE sd == order[slot].side
           i == order[slot].level
           rem == order[slot].rem
<1>1. /\ pc = "unlink" /\ pc' = "release" /\ slot' = slot /\ live' = live
      /\ index' = index
      /\ order' = [order EXCEPT ![slot].level = NPos]
      /\ queue' = [queue EXCEPT ![sd][i] = RemoveFirst(queue[sd][i], slot)]
      /\ total' = [total EXCEPT ![sd][i] = Minus(@, rem)]
  BY DEF RollbackLevel, RemoveFromLevel
<1>2. /\ Inserting /\ LinkedSince
      /\ slot \in Slots /\ order \in [Slots -> Order]
      /\ BookTypeOK /\ QueuesMatchOrders /\ slot \in live \ Unlinked
  BY <1>1 DEF HistInv, BookInv, CallOK, BookTypeOK, Unlinked
<1>3. sd \in Sides /\ i \in Levels
  BY <1>2, LinkedOrder
<1>4. [order' EXCEPT ![slot] = Blank] = [order EXCEPT ![slot] = Blank]
  BY <1>1, <1>2
<1>5. rem \in Quantities
  BY <1>2 DEF Order
<1> HIDE DEF sd, i, rem
<1>6. /\ queueBefore \in [Sides -> [Levels -> Seq(Slots)]]
      /\ totalBefore \in [Sides -> [Levels -> Quantities]]
  BY <1>2 DEF Inserting, SavedOK
<1>7. /\ queue = [queueBefore EXCEPT ![sd][i] = Append(@, slot)]
      /\ total = [totalBefore EXCEPT ![sd][i] = @ + rem]
  BY <1>2 DEF LinkedSince, sd, i, rem
<1> DEFINE q == queueBefore[sd][i]
           t == totalBefore[sd][i]
<1>8. q \in Seq(Slots) /\ t \in Quantities
  BY <1>3, <1>6
<1>9. queue[sd][i] = Append(q, slot) /\ total[sd][i] = t + rem
  BY <1>3, <1>6, <1>7
<1> HIDE DEF q
<1>10. IsInjective(Append(q, slot))
  <2>1. IsInjective(queue[sd][i])
    BY <1>2, <1>3 DEF QueuesMatchOrders
  <2> QED BY <1>9, <2>1
<1>11. RemoveFirst(Append(q, slot), slot) = q
  BY <1>2, <1>8, <1>10, AppendRemove
<1>12. Minus(t + rem, rem) = t
  <2> HIDE DEF t
  <2> QED BY <1>5, <1>8, InputAssumption, SMT DEF Minus, Quantities
<1>13. queue' = queueBefore
  <2>1. queue' = [queue EXCEPT ![sd][i] = q]
    BY <1>1, <1>9, <1>11
  <2> QED BY <1>3, <1>6, <1>7, <2>1 DEF q
<1>14. total' = totalBefore
  <2>1. total' = [total EXCEPT ![sd][i] = t]
    BY <1>1, <1>3, <1>6, <1>7, <1>9, <1>12
  <2> QED BY <1>3, <1>6, <1>7, <2>1
<1>15. SavedOK'
  BY <1>2 DEF Inserting, SavedOK, orderBefore, liveBefore, queueBefore,
     totalBefore,
     occBefore, bestBefore, indexBefore
<1>16. Inserting'
  BY <1>1, <1>2, <1>4, <1>15 DEF Inserting, orderBefore, liveBefore,
     indexBefore
<1> QED BY <1>1, <1>13, <1>14, <1>16 DEF HistInv, queueBefore, totalBefore

\* The second one ends in the saved book.
LEMMA HistRelease ==
  ASSUME HistInv, RollbackPool
  PROVE  bookVars' = before
<1>1. /\ pc = "release"
      /\ live' = live \ {slot} /\ order' = [order EXCEPT ![slot] = Blank]
      /\ UNCHANGED <<queue, total, occ, best, index>>
  BY DEF RollbackPool, Release
<1>2. /\ Inserting /\ SavedOK /\ queue = queueBefore /\ total = totalBefore
      /\ BookTypeOK /\ TouchExact
  BY <1>1 DEF HistInv, Inserting, BookInv
<1>3. occ = occBefore /\ best = bestBefore
  BY <1>2, SameLadders
<1>4. live' = liveBefore /\ order' = orderBefore /\ index = indexBefore
  BY <1>1, <1>2 DEF Inserting
<1>5. bookVars' = <<orderBefore, liveBefore, queueBefore, totalBefore,
                    occBefore, bestBefore, indexBefore>>
  BY <1>1, <1>2, <1>3, <1>4 DEF bookVars
<1> QED BY <1>2, <1>5 DEF SavedOK

\* Allocation starts the difference with the new slot.
LEMMA HistAllocate ==
  ASSUME HistInv, Allocate, BookInv', FreeBlank', before' = before
  PROVE  HistInv'
<1>1. /\ pc = "alloc" /\ pc' = "link" /\ before = bookVars
      /\ UNCHANGED <<queue, total, occ, best, index>>
      /\ slot' \in Slots \ live /\ live' = live \cup {slot'}
      /\ order' = [order EXCEPT ![slot'] = NewOrder(req)]
  BY DEF Allocate, HistInv
<1>2. SavedOK
  BY <1>1, SavedNow DEF HistInv
<1>3. SavedOK'
  BY <1>2 DEF SavedOK, orderBefore, liveBefore, queueBefore, totalBefore,
     occBefore, bestBefore, indexBefore
<1>4. order[slot'] = Blank /\ order \in [Slots -> Order]
  BY <1>1 DEF HistInv, FreeBlank, BookInv, BookTypeOK
<1>5. [order' EXCEPT ![slot'] = Blank] = order
  BY <1>1, <1>4
<1>6. /\ orderBefore = order /\ liveBefore = live /\ queueBefore = queue
      /\ totalBefore = total /\ indexBefore = index
  BY <1>1 DEF bookVars, orderBefore, liveBefore, queueBefore, totalBefore,
     indexBefore
<1>7. Inserting'
  BY <1>1, <1>3, <1>5, <1>6 DEF Inserting, orderBefore, liveBefore, indexBefore
<1>8. queue' = queueBefore' /\ total' = totalBefore'
  BY <1>1, <1>6 DEF queueBefore, totalBefore
<1> QED BY <1>1, <1>7, <1>8 DEF HistInv

\* Every step of the order book keeps the invariant.
LEMMA HistNextInv ==
  HistInv /\ [HistNext]_<<bookVars, callVars, before>> => HistInv'
<1> SUFFICES ASSUME HistInv, [HistNext]_<<bookVars, callVars, before>>
             PROVE  HistInv'
  OBVIOUS
<1>1. BookInv'
  <2>1. [BookNext]_<<bookVars, callVars>>
    BY DEF HistNext
  <2> QED BY <2>1, BookNextInv DEF HistInv
<1>2. CASE UNCHANGED <<bookVars, callVars, before>>
  BY <1>1, <1>2 DEF HistInv, FreeBlank, Inserting, SavedOK, LinkedSince,
     bookVars,
     callVars, orderBefore, liveBefore, queueBefore, totalBefore, occBefore,
     bestBefore, indexBefore
<1>3. CASE HistNext
  <2>0. BookNext /\ FreeBlank'
    BY <1>3, FreeBlankStep DEF HistNext, HistInv
  <2>1. ASSUME pc' \in {"idle", "alloc"} PROVE HistInv'
    BY <1>1, <1>3, <2>0, <2>1 DEF HistNext, HistInv
  <2>2. ASSUME pc' \notin {"idle", "alloc"} PROVE before' = before
    BY <1>3, <2>2 DEF HistNext
  <2>3. CASE Allocate
    BY <1>1, <2>0, <2>2, <2>3, HistAllocate DEF Allocate
  <2>4. CASE Link
    BY <1>1, <2>0, <2>2, <2>4, HistLink DEF Link
  <2>5. CASE RollbackLevel
    BY <1>1, <2>0, <2>2, <2>5, HistUnlink DEF RollbackLevel
  <2>6. CASE LinkThrows \/ AddToIndexThrows
    <3>1. /\ UNCHANGED <<bookVars, req, slot>>
          /\ \/ pc = "link" /\ pc' = "release"
             \/ pc = "index" /\ pc' = "unlink"
      BY <2>6 DEF LinkThrows, AddToIndexThrows
    <3>2. before' = before
      BY <3>1, <2>2
    <3>3. Inserting
      BY <3>1 DEF HistInv
    <3>4. Inserting' /\ (LinkedSince => LinkedSince')
      BY <3>1, <3>2, <3>3 DEF Inserting, SavedOK, LinkedSince, bookVars,
         orderBefore,
         liveBefore, queueBefore, totalBefore, occBefore, bestBefore, indexBefore
    <3> QED BY <1>1, <2>0, <3>1, <3>2, <3>4 DEF HistInv, bookVars,
       queueBefore, totalBefore
  <2>7. CASE AllocateFails \/ AddToIndex \/ RollbackPool
    BY <2>1, <2>7 DEF AllocateFails, AddToIndex, RollbackPool, Return, Finish
  <2>8. ASSUME NEW r \in Requests, AddOrder(r) PROVE HistInv'
    BY <2>1, <2>8 DEF AddOrder, Return, Finish
  <2>9. ASSUME NEW id \in OrderIds, CancelOrder(id) PROVE HistInv'
    BY <2>1, <2>9 DEF CancelOrder, Return, Finish
  <2>10. ASSUME NEW id \in OrderIds, NEW target \in Quantities,
                ReduceOrder(id, target)
         PROVE  HistInv'
    BY <2>1, <2>10 DEF ReduceOrder, Return, Finish
  <2> QED BY <2>0, <2>3, <2>4, <2>5, <2>6, <2>7, <2>8, <2>9, <2>10
             DEF BookNext, InsertStep
<1> QED BY <1>2, <1>3

\* While an insertion runs, the book differs from the saved one by exactly the
\* slot, the queue entry and the quantity that the rollback of
\* addOrderWithQuantities takes back.
THEOREM HistoryInvariant == HistSpec => []HistInv
<1>1. HistInit => HistInv
  <2> SUFFICES ASSUME HistInit PROVE HistInv
    OBVIOUS
  <2>1. BookInv
    BY BookInitInv DEF HistInit
  <2>2. FreeBlank /\ pc = "idle" /\ before = bookVars
    BY DEF HistInit, BookInit, FreeBlank
  <2> QED BY <2>1, <2>2 DEF HistInv
<1> QED BY <1>1, HistNextInv, PTL DEF HistSpec

\* An insertion that throws from the pool, the level or the index leaves queue
\* order, aggregates, occupancy, cached best, index and pool exactly as it
\* found them.
THEOREM BookFailedAddRestores == HistSpec => FailedAddRestoresBook
<1>1. ASSUME HistInv, [HistNext]_<<bookVars, callVars, before>>
      PROVE  [pc # "idle" /\ pc' = "idle" /\ result' # "ok"
                => bookVars' = before]_<<bookVars, callVars, before>>
  <2> SUFFICES ASSUME HistNext, pc # "idle", pc' = "idle", result' # "ok"
               PROVE  bookVars' = before
    BY <1>1
  <2>1. InsertStep
    BY DEF HistNext, BookNext, AddOrder, CancelOrder, ReduceOrder
  <2>2. AllocateFails \/ RollbackPool
    BY <2>1 DEF InsertStep, Allocate, Link, LinkThrows, AddToIndex,
       AddToIndexThrows,
       RollbackLevel, Finish
  <2>3. CASE AllocateFails
    BY <1>1, <2>3 DEF AllocateFails, Return, HistInv
  <2>4. CASE RollbackPool
    BY <1>1, <2>4, HistRelease
  <2> QED BY <2>2, <2>3, <2>4
<1> QED BY <1>1, HistoryInvariant, PTL DEF HistSpec, FailedAddRestoresBook

(***************************************************************************)
(* Part II: the matching engine.                                           *)
(***************************************************************************)

(***************************************************************************)
(* Facts about single states.                                              *)
(***************************************************************************)
\* What a caller can see is what is linked.
LEMMA RestingIsLinked ==
  ASSUME BookInv
  PROVE  Resting = live \ Unlinked
<1>1. NPos \notin Levels
  BY LadderAssumption DEF NPos, Levels
<1>2. \A s \in live \ Unlinked : order[s].level \in Levels
  BY LinkedOrder DEF BookInv
<1>3. \A s \in live : s \in Unlinked => order[s].level = NPos
  BY DEF BookInv, QueuesMatchOrders
<1> QED BY <1>1, <1>2, <1>3 DEF Resting

\* While the loop goes on, the head of the opposing touch is a live order of
\* that side, at the touch's price, linked and indexed.
LEMMA TouchHead ==
  ASSUME BookInv, pc = "match", best[Opposite(req.side)] # NPos
  PROVE  LET side == Opposite(req.side)
             q == queue[side][best[side]]
         IN  /\ side \in Sides
             /\ best[side] \in Levels
             /\ q \in Seq(Slots)
             /\ q # <<>>
             /\ Head(q) \in live
             /\ Head(q) = q[1]
             /\ order[Head(q)].side = side
             /\ order[Head(q)].level = best[side]
             /\ Removable(Head(q))
<1> DEFINE side == Opposite(req.side)
           b == best[side]
           q == queue[side][b]
           s == Head(q)
<1>1. side \in Sides /\ Unlinked = {} /\ InFlight = {}
  BY DEF Opposite, Sides, Unlinked, InFlight
<1>2. IsTouch(occ[side], b)
      /\ occ[side] = {i \in Levels : queue[side][i] # <<>>}
  BY <1>1 DEF BookInv, TouchExact
<1>3. b \in Levels /\ q # <<>>
  BY <1>2 DEF IsTouch
<1>4. q \in Seq(Slots)
  BY <1>1, <1>3 DEF BookInv, BookTypeOK
<1>5. s = q[1] /\ s \in ToSet(q)
  <2> HIDE DEF q
  <2>1. s = q[1]
    BY <1>3, <1>4, HeadTailProperties
  <2>2. Len(q) \in Nat /\ DOMAIN q = 1 .. Len(q) /\ Len(q) # 0
    BY <1>3, <1>4, LenProperties, EmptySeq, SeqEqual
  <2>3. 1 \in DOMAIN q
    BY <2>2
  <2> QED BY <2>1, <2>3 DEF ToSet
<1>6. s \in live /\ order[s].side = side /\ order[s].level = b
  <2> HIDE DEF s
  <2> QED BY <1>1, <1>3, <1>5 DEF BookInv, QueuesMatchOrders
<1>7. Removable(s)
  <2>1. index[order[s].id] = s
    BY <1>1, <1>6 DEF BookInv, IndexMatchesPool
  <2>2. b # NPos
    OBVIOUS
  <2> QED BY <1>6, <2>1, <2>2 DEF Removable
<1> QED BY <1>1, <1>3, <1>4, <1>5, <1>6, <1>7

\* No resting order of the touch's side has a better price than the touch.
LEMMA TouchIsBest ==
  ASSUME BookInv, pc = "match", NEW s \in live,
         order[s].side = Opposite(req.side)
  PROVE  /\ best[Opposite(req.side)] # NPos
         /\ IF req.side = "BUY" THEN Touch <= order[s].price
                                ELSE Touch >= order[s].price
<1> DEFINE side == Opposite(req.side)
           b == best[side]
<1>1. side \in Sides /\ Unlinked = {} /\ req.side \in Sides
  BY DEF Opposite, Sides, Unlinked, BookInv, BookTypeOK, Request
<1>2. /\ s \in Slots
      /\ order[s].level \in Levels
      /\ PriceAt(side, order[s].level) = order[s].price
      /\ s \in ToSet(queue[side][order[s].level])
  BY <1>1, LinkedOrder DEF BookInv
<1>3. queue[side][order[s].level] # <<>>
  BY <1>2 DEF ToSet
<1>4. order[s].level \in occ[side] /\ IsTouch(occ[side], b)
  BY <1>1, <1>2, <1>3 DEF BookInv, TouchExact
<1>5. b \in Levels /\ b <= order[s].level /\ b \in Nat /\ order[s].level \in Nat
  BY <1>1, <1>2, <1>4, LadderAssumption
     DEF IsTouch, BookInv, BookTypeOK, Levels
<1>6. b # NPos
  BY <1>5, LadderAssumption DEF NPos, Levels
<1>7. b = order[s].level \/ b < order[s].level
  BY <1>5
<1>8. order[s].price \in Nat
  BY <1>2, InputAssumption DEF BookInv, BookTypeOK, Order
<1>9. IF req.side = "BUY" THEN PriceAt(side, b) <= order[s].price
                          ELSE PriceAt(side, b) >= order[s].price
  <2>1. CASE b = order[s].level
    BY <1>2, <1>8, <2>1
  <2>2. CASE b < order[s].level
    <3> HIDE DEF b
    <3>1. /\ PriceAt("SELL", b) < PriceAt("SELL", order[s].level)
          /\ PriceAt("BUY", order[s].level) < PriceAt("BUY", b)
      BY <1>2, <1>5, <2>2, PriceAtMonotone
    <3>2. /\ req.side = "BUY" => side = "SELL"
          /\ req.side # "BUY" => side = "BUY"
      BY <1>1 DEF Opposite, Sides
    <3>3. PriceAt(side, b) \in Int
      BY <1>5, LadderAssumption DEF PriceAt, MaxPrice
    <3> QED BY <1>2, <1>8, <3>1, <3>2, <3>3
  <2> QED BY <1>7, <2>1, <2>2
<1> QED BY <1>6, <1>9 DEF Touch

(***************************************************************************)
(* Queues in the order of the sequence numbers.                            *)
(***************************************************************************)
\* The orders of queue q, under the given records, have rising numbers.
Ascending(q, orders) ==
  \A j, k \in 1 .. Len(q) : j < k => orders[q[j]].seq < orders[q[k]].seq

\* A later order joins behind the earlier ones of its level.
LEMMA AscendingAppend ==
  ASSUME NEW q \in Seq(Slots), NEW orders, NEW s \in Slots,
         Ascending(q, orders),
         \A t \in ToSet(q) : orders[t].seq < orders[s].seq
  PROVE  Ascending(Append(q, s), orders)
<1> DEFINE r == Append(q, s)
           n == Len(q)
<1>1. /\ n \in Nat /\ DOMAIN q = 1 .. n /\ Len(r) = n + 1
      /\ \A j \in 1 .. n : r[j] = q[j]
      /\ r[n + 1] = s
  BY LenProperties, AppendProperties
<1> HIDE DEF r, n
<1>2. ASSUME NEW j \in 1 .. n + 1, NEW k \in 1 .. n + 1, j < k
      PROVE  orders[r[j]].seq < orders[r[k]].seq
  <2>1. j \in 1 .. n
    BY <1>1, <1>2
  <2>2. CASE k = n + 1
    <3>1. q[j] \in ToSet(q)
      BY <1>1, <2>1 DEF ToSet
    <3> QED BY <1>1, <2>1, <2>2, <3>1
  <2>3. CASE k # n + 1
    <3>1. k \in 1 .. n
      BY <1>1, <2>3
    <3> QED BY <1>1, <1>2, <2>1, <3>1 DEF Ascending, n
  <2> QED BY <2>2, <2>3
<1>3. Ascending(r, orders)
  BY <1>1, <1>2 DEF Ascending
<1> QED BY <1>3 DEF r

\* Unlinking keeps the others in the order of their sequence numbers.
LEMMA AscendingRemove ==
  ASSUME NEW q \in Seq(Slots), NEW orders, NEW s, Ascending(q, orders)
  PROVE  Ascending(RemoveFirst(q, s), orders)
<1>1. CASE \A j \in 1 .. Len(q) : q[j] # s
  BY <1>1, RemoveFirstAt
<1>2. CASE \E j \in 1 .. Len(q) : q[j] = s
  <2>1. PICK k \in 1 .. Len(q) :
               q[k] = s /\ RemoveFirst(q, s) = RemoveAt(q, k)
    BY <1>2, RemoveFirstAt
  <2> DEFINE r == RemoveFirst(q, s)
             n == Len(q)
             up(m) == IF m < k THEN m ELSE m + 1
  <2>2. /\ Len(r) = n - 1
        /\ \A j \in 1 .. n - 1 : r[j] = IF j < k THEN q[j] ELSE q[j + 1]
    BY <2>1, RemoveAtProps
  <2>3. n \in Nat /\ k \in 1 .. n
    BY LenProperties
  <2> HIDE DEF r
  <2>4. ASSUME NEW i \in 1 .. n - 1, NEW j \in 1 .. n - 1, i < j
        PROVE  orders[r[i]].seq < orders[r[j]].seq
    <3>1. up(i) \in 1 .. n /\ up(j) \in 1 .. n /\ up(i) < up(j)
      BY <2>3, <2>4
    <3>2. r[i] = q[up(i)] /\ r[j] = q[up(j)]
      BY <2>2
    <3> QED BY <3>1, <3>2 DEF Ascending
  <2>5. Ascending(r, orders)
    BY <2>2, <2>4 DEF Ascending
  <2> QED BY <2>5 DEF r
<1> QED BY <1>1, <1>2

\* A fill or reduction changes no sequence number.
LEMMA AscendingSame ==
  ASSUME NEW q \in Seq(Slots), NEW orders, NEW new, Ascending(q, orders),
         \A t \in ToSet(q) : new[t].seq = orders[t].seq
  PROVE  Ascending(q, new)
<1>1. Len(q) \in Nat /\ DOMAIN q = 1 .. Len(q)
  BY LenProperties
<1>2. \A j \in 1 .. Len(q) : q[j] \in ToSet(q)
  BY <1>1 DEF ToSet
<1> QED BY <1>2 DEF Ascending

\* Time priority, level by level.
LEMMA TimePriorityIsAscending ==
  TimePriority <=>
    \A side \in Sides, i \in Levels : Ascending(queue[side][i], order)
  BY DEF TimePriority, Ascending

\* Unlinking changes one queue, by taking the order out of it.
LEMMA RemoveQueueShape ==
  ASSUME BookTypeOK, QueuesMatchOrders, NEW s \in live \ Unlinked,
         NEW remaining, RemoveFromLevel(s, remaining),
         NEW sd \in Sides, NEW j \in Levels
  PROVE  \/ queue'[sd][j] = queue[sd][j]
         \/ queue'[sd][j] = RemoveFirst(queue[sd][j], s)
<1> DEFINE side == order[s].side
           i == order[s].level
           rest == RemoveFirst(queue[side][i], s)
<1>1. side \in Sides /\ i \in Levels
  BY LinkedOrder
<1>2. queue' = [queue EXCEPT ![side] = [queue[side] EXCEPT ![i] = rest]]
  BY DEF RemoveFromLevel
<1>3. queue'[sd][j] = IF sd = side /\ j = i THEN rest ELSE queue[sd][j]
  <2> HIDE DEF side, i, rest
  <2> QED BY <1>1, <1>2 DEF BookTypeOK
<1> QED BY <1>3

(***************************************************************************)
(* The inductive invariant, action by action.                              *)
(***************************************************************************)
\* A step that adds no order: it may take orders out of the book and change
\* what remains of others.  Cancellations, reductions, executions, refused
\* events and events that end.
LEMMA FewerOrdersInv ==
  ASSUME EngineInv, BookInv',
         pc \in {"idle", "match", "alloc"}, pc' \in {"idle", "match"},
         pc' = "match" =>
           /\ pc = "match" /\ req'.seq = req.seq /\ req'.id = req.id
           /\ req'.rem <= req'.orig,
         live' \subseteq live,
         \A t \in live' :
           /\ order'[t].side = order[t].side /\ order'[t].price = order[t].price
           /\ order'[t].seq = order[t].seq,
         \A sd \in Sides, j \in Levels :
           \/ queue'[sd][j] = queue[sd][j]
           \/ \E s \in Slots : queue'[sd][j] = RemoveFirst(queue[sd][j], s),
         out' \in Seq(Execution), seqno' \in Sequences64, seqno <= seqno'
  PROVE  EngineInv'
<1> USE DEF EngineInv
<1>1. /\ InFlight = {} /\ InFlight' = {}
      /\ Unlinked = {} /\ Unlinked' = {}
  BY DEF InFlight, Unlinked
<1>2. seqno \in Nat /\ seqno' \in Nat /\ req.seq \in Nat
      /\ \A t \in live : order[t].seq \in Nat
  BY InputAssumption DEF Sequences64, BookInv, BookTypeOK, Order, Request
<1>3. SequencesBehind'
  <2>1. ASSUME NEW t \in live' PROVE order'[t].seq <= seqno'
    BY <1>2 DEF SequencesBehind
  <2>2. ASSUME pc' # "idle"
        PROVE  /\ req'.id \in OrderIds
               /\ req'.seq <= seqno'
               /\ \A t \in live' : order'[t].seq < req'.seq
    BY <1>1, <1>2, <2>2 DEF SequencesBehind
  <2> QED BY <1>1, <2>1, <2>2 DEF SequencesBehind
<1>4. RemainderDoesNotCross'
  BY DEF RemainderDoesNotCross
<1>5. NotCrossed'
  <2>1. Resting = live /\ Resting' = live'
    <3>1. (BookInv => Resting = live \ Unlinked)'
      BY RestingIsLinked, PTL
    <3> QED BY <1>1, <3>1, RestingIsLinked
  <2> QED BY <2>1 DEF NotCrossed
<1>6. TimePriority'
  <2>1. ASSUME NEW sd \in Sides, NEW j \in Levels
        PROVE  Ascending(queue'[sd][j], order')
    <3>1. Ascending(queue[sd][j], order) /\ queue[sd][j] \in Seq(Slots)
      BY TimePriorityIsAscending DEF BookInv, BookTypeOK
    <3>2. Ascending(queue'[sd][j], order)
      <4>1. CASE queue'[sd][j] = queue[sd][j]
        BY <3>1, <4>1
      <4>2. CASE \E s \in Slots : queue'[sd][j] = RemoveFirst(queue[sd][j], s)
        BY <3>1, <4>2, AscendingRemove
      <4> QED BY <4>1, <4>2
    <3>3. queue'[sd][j] \in Seq(Slots) /\ ToSet(queue'[sd][j]) \subseteq live'
      BY DEF BookInv, BookTypeOK, QueuesMatchOrders
    <3> QED BY <3>2, <3>3, AscendingSame
  <2> QED BY <2>1 DEF TimePriority, Ascending
<1>7. RequestBounded'
  BY DEF RequestBounded
<1> QED BY <1>3, <1>4, <1>5, <1>6, <1>7

\* An event that ends without touching the book.
LEMMA EngineReturnInv ==
  ASSUME EngineInv, pc \in {"idle", "match", "alloc"},
         NEW outcome \in Outcomes, Return(outcome),
         out' \in Seq(Execution), seqno' = seqno
  PROVE  EngineInv'
<1>1. BookInv'
  BY ReturnInv DEF EngineInv
<1>2. seqno \in Nat /\ seqno' \in Sequences64
  BY InputAssumption DEF EngineInv, Sequences64
<1> QED BY <1>1, <1>2, FewerOrdersInv DEF Return, Finish, bookVars

\* OrderBook::removeOrder within an event, for a cancellation or a full fill.
LEMMA EngineRemoveInv ==
  ASSUME EngineInv, pc \in {"idle", "match"}, pc' \in {"idle", "match"},
         pc' = "match" =>
           /\ pc = "match" /\ req'.seq = req.seq /\ req'.id = req.id
           /\ req'.rem <= req'.orig,
         req' \in Request, slot' \in Slots \cup {NULL}, result' \in Outcomes,
         NEW s \in live, NEW remaining \in Quantities,
         RemoveOrder(s, remaining), out' \in Seq(Execution), seqno' = seqno
  PROVE  EngineInv'
<1>1. BookInv'
  BY RemoveOrderInv DEF EngineInv
<1>2. seqno \in Nat /\ seqno' \in Sequences64
  BY InputAssumption DEF EngineInv, Sequences64
<1>3. Unlinked = {} /\ s \in Slots
  BY DEF Unlinked, EngineInv, BookInv, BookTypeOK
<1>4. /\ RemoveFromLevel(s, remaining) /\ live' = live \ {s}
      /\ order' = [order EXCEPT ![s] = Blank]
  BY DEF RemoveOrder, Release
<1>5. \A t \in live' : order'[t] = order[t]
  BY <1>4 DEF EngineInv, BookInv, BookTypeOK
<1>6. ASSUME NEW sd \in Sides, NEW j \in Levels
      PROVE  \/ queue'[sd][j] = queue[sd][j]
             \/ queue'[sd][j] = RemoveFirst(queue[sd][j], s)
  BY <1>3, <1>4, RemoveQueueShape DEF EngineInv, BookInv
<1>7. live' \subseteq live
  BY <1>4
<1> QED BY <1>1, <1>2, <1>3, <1>5, <1>6, <1>7, FewerOrdersInv

\* A partial fill or a REDUCE within an event.
LEMMA EngineShrinkInv ==
  ASSUME EngineInv, pc \in {"idle", "match"}, pc' \in {"idle", "match"},
         pc' = "match" =>
           /\ pc = "match" /\ req'.seq = req.seq /\ req'.id = req.id
           /\ req'.rem <= req'.orig,
         req' \in Request, slot' \in Slots \cup {NULL}, result' \in Outcomes,
         NEW s \in live, NEW amount \in Nat, amount < order[s].rem,
         Shrink(s, amount), out' \in Seq(Execution), seqno' = seqno
  PROVE  EngineInv'
<1>1. BookInv'
  BY ShrinkInv DEF EngineInv
<1>2. seqno \in Nat /\ seqno' \in Sequences64
  BY InputAssumption DEF EngineInv, Sequences64
<1>3. /\ order' = [order EXCEPT ![s].rem = order[s].rem - amount]
      /\ live' = live /\ queue' = queue
  BY DEF Shrink
<1>4. \A t \in live' :
        /\ order'[t].side = order[t].side /\ order'[t].price = order[t].price
        /\ order'[t].seq = order[t].seq
  BY <1>3 DEF EngineInv, BookInv, BookTypeOK, Order
<1> QED BY <1>1, <1>2, <1>3, <1>4, FewerOrdersInv

\* The engine's view of an insertion step.
LEMMA EngineAllocateInv ==
  ASSUME EngineInv, Allocate, UNCHANGED <<out, seqno>>
  PROVE  EngineInv'
<1> USE DEF EngineInv
<1>0. BookInv'
  BY AllocateInv
<1>1. PICK s \in Slots \ live :
        /\ live' = live \cup {s}
        /\ order' = [order EXCEPT ![s] = NewOrder(req)]
        /\ slot' = s
        /\ pc = "alloc" /\ pc' = "link" /\ req' = req /\ queue' = queue
  BY DEF Allocate
<1>2. /\ InFlight = {} /\ InFlight' = {s}
      /\ Unlinked = {} /\ Unlinked' = {s}
  BY <1>1 DEF InFlight, Unlinked
<1>3. /\ order'[s] = NewOrder(req)
      /\ \A t \in live : order'[t] = order[t]
  BY <1>1 DEF BookInv, BookTypeOK
<1>4. SequencesBehind'
  BY <1>1, <1>2, <1>3 DEF SequencesBehind, NewOrder
<1>5. RemainderDoesNotCross'
  BY <1>1, <1>2, <1>3 DEF RemainderDoesNotCross
<1>6. NotCrossed'
  <2>1. Resting = live /\ Resting' = live
    <3>1. (BookInv => Resting = live \ Unlinked)'
      BY RestingIsLinked, PTL
    <3> QED BY <1>0, <1>1, <1>2, <3>1, RestingIsLinked
  <2> QED BY <1>3, <2>1 DEF NotCrossed
<1>7. TimePriority'
  <2>1. ASSUME NEW sd \in Sides, NEW j \in Levels
        PROVE  Ascending(queue'[sd][j], order')
    <3> DEFINE q == queue[sd][j]
    <3>1. /\ Ascending(q, order) /\ q \in Seq(Slots)
          /\ ToSet(q) \subseteq live
      BY TimePriorityIsAscending DEF BookInv, BookTypeOK, QueuesMatchOrders
    <3>2. queue'[sd][j] = q
      BY <1>1
    <3>3. \A t \in ToSet(q) : order'[t].seq = order[t].seq
      BY <1>3, <3>1
    <3> HIDE DEF q
    <3> QED BY <3>1, <3>2, <3>3, AscendingSame
  <2> QED BY <2>1 DEF TimePriority, Ascending
<1>8. RequestBounded'
  BY <1>1 DEF RequestBounded
<1> QED BY <1>0, <1>4, <1>5, <1>6, <1>7, <1>8

\* Linking the remainder: it is the latest of its level and crosses nothing.
LEMMA EngineLinkInv ==
  ASSUME EngineInv, Link, UNCHANGED <<out, seqno>>
  PROVE  EngineInv'
<1> USE DEF EngineInv
<1> DEFINE o == order[slot]
           i == IndexOf(o.side, o.price)
<1>0. BookInv'
  BY LinkInv
<1>1. /\ pc = "link" /\ pc' = "index"
      /\ queue' = [queue EXCEPT ![o.side] =
                     [queue[o.side] EXCEPT ![i] = Append(queue[o.side][i], slot)]]
      /\ order' = [order EXCEPT ![slot].level = i]
      /\ UNCHANGED <<live, req, slot>>
  BY DEF Link, AppendToLevel
<1>2. /\ InFlight = {slot} /\ InFlight' = {slot}
      /\ Unlinked = {slot} /\ Unlinked' = {}
  BY <1>1 DEF InFlight, Unlinked
<1>3. slot \in live /\ slot \in Slots /\ live \subseteq Slots
  BY <1>1 DEF BookInv, CallOK, BookTypeOK
<1> HIDE DEF i
<1>4. \A t \in Slots :
        /\ order'[t].side = order[t].side /\ order'[t].price = order[t].price
        /\ order'[t].seq = order[t].seq
  BY <1>1, <1>3 DEF BookInv, BookTypeOK, Order
<1>5. SequencesBehind'
  BY <1>1, <1>2, <1>3, <1>4 DEF SequencesBehind
<1>6. RemainderDoesNotCross'
  BY <1>1 DEF RemainderDoesNotCross
<1>7. NotCrossed'
  <2>1. Resting = live \ {slot} /\ Resting' = live
    <3>1. (BookInv => Resting = live \ Unlinked)'
      BY RestingIsLinked, PTL
    <3> QED BY <1>0, <1>1, <1>2, <3>1, RestingIsLinked
  <2>2. /\ \A b, a \in live \ {slot} :
             order[b].side = "BUY" /\ order[a].side = "SELL" =>
               order[b].price < order[a].price
        /\ order[slot].side = req.side /\ order[slot].price = req.price
        /\ \A t \in live \ {slot} :
             order[t].side # req.side =>
               IF req.side = "BUY" THEN req.price < order[t].price
                                   ELSE order[t].price < req.price
    BY <1>1, <1>2, <2>1
       DEF NotCrossed, SequencesBehind, RemainderDoesNotCross
  <2>3. ASSUME NEW b \in live, NEW a \in live,
               order[b].side = "BUY", order[a].side = "SELL"
        PROVE  order[b].price < order[a].price
    BY <2>2, <2>3
  <2> QED BY <1>3, <1>4, <2>1, <2>3 DEF NotCrossed
<1>8. TimePriority'
  <2>1. ASSUME NEW sd \in Sides, NEW j \in Levels
        PROVE  Ascending(queue'[sd][j], order')
    <3> DEFINE q == queue[sd][j]
    <3>1. /\ Ascending(q, order) /\ q \in Seq(Slots)
          /\ ToSet(q) \subseteq live \ {slot}
      BY <1>2, TimePriorityIsAscending DEF BookInv, BookTypeOK, QueuesMatchOrders
    <3>2. queue'[sd][j] = q \/ queue'[sd][j] = Append(q, slot)
      BY <1>1 DEF BookInv, BookTypeOK
    <3>3. \A t \in ToSet(q) : order[t].seq < order[slot].seq
      BY <1>1, <1>2, <3>1 DEF SequencesBehind
    <3> HIDE DEF q
    <3>4. Ascending(queue'[sd][j], order)
      BY <1>3, <3>1, <3>2, <3>3, AscendingAppend
    <3>5. /\ queue'[sd][j] \in Seq(Slots)
          /\ ToSet(queue'[sd][j]) \subseteq live'
      BY <1>0 DEF BookInv, BookTypeOK, QueuesMatchOrders
    <3>6. \A t \in ToSet(queue'[sd][j]) : order'[t].seq = order[t].seq
      BY <1>1, <1>3, <1>4, <3>5
    <3> QED BY <3>4, <3>5, <3>6, AscendingSame
  <2> QED BY <2>1 DEF TimePriority, Ascending
<1>9. RequestBounded'
  BY <1>1 DEF RequestBounded
<1> QED BY <1>0, <1>5, <1>6, <1>7, <1>8, <1>9

\* The remaining steps of an insertion change no queue except by taking the
\* order in flight out of it, and no other order.
LEMMA EngineUndoInv ==
  ASSUME EngineInv, UNCHANGED <<out, seqno>>,
         \/ LinkThrows \/ AddToIndex \/ AddToIndexThrows
         \/ RollbackLevel \/ RollbackPool
  PROVE  EngineInv'
<1> USE DEF EngineInv
<1>0. BookInv'
  BY InsertStepInv DEF InsertStep
<1>1. /\ pc \in {"link", "index", "unlink", "release"}
      /\ pc' \in {"idle", "unlink", "release"}
      /\ pc' # "idle" => req' = req /\ slot' = slot
      /\ pc' = "unlink" => pc = "index"
  BY DEF LinkThrows, AddToIndex, AddToIndexThrows, RollbackLevel,
         RollbackPool, Finish
<1>2. slot \in live /\ slot \in Slots /\ live \subseteq Slots
  BY <1>1 DEF BookInv, CallOK, BookTypeOK
<1>3. InFlight = {slot} /\ InFlight' = IF pc' = "idle" THEN {} ELSE {slot}
  BY <1>1 DEF InFlight
<1>4. /\ live' \subseteq live
      /\ \A t \in live' :
           /\ order'[t].side = order[t].side /\ order'[t].price = order[t].price
           /\ order'[t].seq = order[t].seq
  BY <1>2 DEF LinkThrows, AddToIndex, AddToIndexThrows, RollbackLevel,
              RollbackPool, Release, bookVars, BookInv, BookTypeOK, Order
<1>5. ASSUME NEW sd \in Sides, NEW j \in Levels
      PROVE  \/ queue'[sd][j] = queue[sd][j]
             \/ queue'[sd][j] = RemoveFirst(queue[sd][j], slot)
  <2>1. CASE RollbackLevel
    <3>1. slot \in live \ Unlinked /\ RemoveFromLevel(slot, order[slot].rem)
      BY <1>2, <2>1 DEF RollbackLevel, Unlinked
    <3> QED BY <3>1, RemoveQueueShape DEF BookInv
  <2>2. CASE ~RollbackLevel
    BY <2>2 DEF LinkThrows, AddToIndex, AddToIndexThrows, RollbackPool, bookVars
  <2> QED BY <2>1, <2>2
<1>6. SequencesBehind'
  <2>1. \A t \in live' : order'[t].seq <= seqno'
    BY <1>4 DEF SequencesBehind
  <2>2. pc' # "idle" =>
          /\ req'.id \in OrderIds
          /\ req'.seq <= seqno'
          /\ \A t \in live' \ InFlight' : order'[t].seq < req'.seq
    BY <1>1, <1>3, <1>4 DEF SequencesBehind
  <2>3. pc' # "idle" => slot \in live'
    BY <1>0, <1>1 DEF BookInv, CallOK
  <2>4. pc' # "idle" =>
          /\ order'[slot'].seq = req'.seq
          /\ order'[slot'].side = req'.side
          /\ order'[slot'].price = req'.price
    BY <1>1, <1>4, <2>3 DEF SequencesBehind
  <2> QED BY <1>1, <2>1, <2>2, <2>4 DEF SequencesBehind
<1>7. RemainderDoesNotCross'
  BY <1>1 DEF RemainderDoesNotCross
<1>8. NotCrossed'
  <2>1. Resting' \subseteq Resting
    <3>1. (BookInv => Resting = live \ Unlinked)'
      BY RestingIsLinked, PTL
    <3>2. Resting = live \ Unlinked
      BY RestingIsLinked
    <3>3. Resting' = live' \ Unlinked'
      BY <1>0, <3>1
    <3>4. live' \ Unlinked' \subseteq live \ Unlinked
      BY <1>4 DEF LinkThrows, AddToIndex, AddToIndexThrows, RollbackLevel,
                  RollbackPool, Release, Unlinked
    <3> QED BY <3>2, <3>3, <3>4
  <2>2. Resting' \subseteq live'
    BY DEF Resting
  <2> QED BY <1>4, <2>1, <2>2 DEF NotCrossed
<1>9. TimePriority'
  <2>1. ASSUME NEW sd \in Sides, NEW j \in Levels
        PROVE  Ascending(queue'[sd][j], order')
    <3>1. Ascending(queue[sd][j], order) /\ queue[sd][j] \in Seq(Slots)
      BY TimePriorityIsAscending DEF BookInv, BookTypeOK
    <3>2. Ascending(queue'[sd][j], order)
      BY <1>5, <3>1, AscendingRemove
    <3>3. queue'[sd][j] \in Seq(Slots) /\ ToSet(queue'[sd][j]) \subseteq live'
      BY <1>0 DEF BookInv, BookTypeOK, QueuesMatchOrders
    <3> QED BY <1>4, <3>2, <3>3, AscendingSame
  <2> QED BY <2>1 DEF TimePriority, Ascending
<1>10. RequestBounded'
  BY <1>1 DEF RequestBounded
<1> QED BY <1>0, <1>6, <1>7, <1>8, <1>9, <1>10

\* Every step of addRestingRemainder keeps the invariant of the engine.
LEMMA InsertRemainderInv ==
  ASSUME EngineInv, InsertRemainder
  PROVE  EngineInv'
<1>1. InsertStep /\ UNCHANGED <<out, seqno>>
  BY DEF InsertRemainder
<1>2. CASE AllocateFails
  BY <1>1, <1>2, EngineReturnInv DEF AllocateFails, Outcomes, EngineInv
<1>3. CASE ~AllocateFails
  BY <1>1, <1>3, EngineAllocateInv, EngineLinkInv, EngineUndoInv DEF InsertStep
<1> QED BY <1>2, <1>3

\* One iteration of the loop, taken apart: the order hit, the quantity, and
\* which of the two ways the iteration goes.
LEMMA ExecuteShape ==
  ASSUME EngineInv, Execute
  PROVE  LET side == Opposite(req.side)
             s == Head(queue[side][best[side]])
             qty == Smaller(req.rem, order[s].rem)
         IN  /\ s \in live /\ order[s].side = side
             /\ order[s].level = best[side]
             /\ pc = "match" /\ Crosses
             /\ qty \in Nat /\ 0 < qty /\ qty <= order[s].rem /\ qty <= req.rem
             /\ qty \in Quantities
             /\ out' = Append(out, [incoming |-> req.id,
                                    resting |-> order[s].id,
                                    price |-> order[s].price, qty |-> qty])
             /\ UNCHANGED seqno
             /\ \/ /\ order[s].rem = qty /\ RemoveOrder(s, 0)
                   /\ req' = [req EXCEPT !.rem = @ - qty]
                   /\ UNCHANGED <<pc, slot, result>>
                \/ /\ qty < order[s].rem /\ Shrink(s, qty)
                   /\ CanReduceTotal(s, qty)
                   /\ req' = [req EXCEPT !.rem = @ - qty]
                   /\ UNCHANGED <<pc, slot, result>>
                \/ /\ qty < order[s].rem /\ Shrink(s, qty)
                   /\ ~CanReduceTotal(s, qty)
                   /\ Finish("invalid_argument")
<1> DEFINE side == Opposite(req.side)
           q == queue[side][best[side]]
           s == Head(q)
           qty == Smaller(req.rem, order[s].rem)
<1>1. pc = "match" /\ Crosses /\ best[side] # NPos /\ req.rem > 0
  BY DEF Execute, Crosses
<1>2. /\ side \in Sides /\ q # <<>> /\ s \in live /\ order[s].side = side
      /\ order[s].level = best[side] /\ Removable(s)
  BY <1>1, TouchHead DEF EngineInv
<1>3. order[s].rem \in Quantities /\ 0 < order[s].rem /\ req.rem \in Quantities
  BY <1>2 DEF EngineInv, BookInv, RemainingInBounds, BookTypeOK, Order, Request
<1>4. /\ qty \in Nat /\ 0 < qty /\ qty <= order[s].rem /\ qty <= req.rem
      /\ qty \in Quantities
  <2>1. req.rem \in 0 .. MaxQuantity /\ order[s].rem \in 0 .. MaxQuantity
        /\ MaxQuantity \in Nat /\ req.rem > 0
    BY <1>1, <1>3, InputAssumption DEF Quantities
  <2>2. qty = IF req.rem <= order[s].rem THEN req.rem ELSE order[s].rem
    BY DEF Smaller
  <2> HIDE DEF s, qty
  <2> QED BY <1>3, <2>1, <2>2 DEF Quantities
<1>5. UNCHANGED seqno
  BY DEF Execute
<1>6. out' = Append(out, [incoming |-> req.id, resting |-> order[s].id,
                          price |-> order[s].price, qty |-> qty])
  BY <1>2 DEF Execute
<1>7. \/ /\ order[s].rem = qty /\ RemoveOrder(s, 0)
         /\ req' = [req EXCEPT !.rem = @ - qty]
         /\ UNCHANGED <<pc, slot, result>>
      \/ /\ order[s].rem # qty /\ Shrink(s, qty)
         /\ CanReduceTotal(s, qty)
         /\ req' = [req EXCEPT !.rem = @ - qty]
         /\ UNCHANGED <<pc, slot, result>>
      \/ /\ order[s].rem # qty /\ Shrink(s, qty)
         /\ ~CanReduceTotal(s, qty)
         /\ Finish("invalid_argument")
  BY <1>2 DEF Execute
<1>8. order[s].rem # qty => qty < order[s].rem
  <2>1. order[s].rem \in Nat
    BY <1>3, InputAssumption DEF Quantities
  <2> HIDE DEF s, qty
  <2> QED BY <1>4, <2>1
<1> QED BY <1>1, <1>2, <1>4, <1>5, <1>6, <1>7, <1>8

\* One iteration of the matching loop.
LEMMA ExecuteInv ==
  ASSUME EngineInv, Execute
  PROVE  EngineInv'
<1> DEFINE side == Opposite(req.side)
           s == Head(queue[side][best[side]])
           qty == Smaller(req.rem, order[s].rem)
           continue == /\ req' = [req EXCEPT !.rem = @ - qty]
                       /\ UNCHANGED <<pc, slot, result>>
<1>1. /\ s \in live /\ pc = "match"
      /\ qty \in Nat /\ 0 < qty /\ qty <= order[s].rem /\ qty <= req.rem
      /\ qty \in Quantities
      /\ out' = Append(out, [incoming |-> req.id, resting |-> order[s].id,
                             price |-> order[s].price, qty |-> qty])
      /\ seqno' = seqno
      /\ \/ order[s].rem = qty /\ RemoveOrder(s, 0) /\ continue
         \/ qty < order[s].rem /\ Shrink(s, qty) /\ continue
         \/ qty < order[s].rem /\ Shrink(s, qty) /\ Finish("invalid_argument")
  BY ExecuteShape
<1> HIDE DEF s, qty
<1>2. /\ req \in Request /\ req.id \in OrderIds
      /\ slot \in Slots \cup {NULL} /\ result \in Outcomes
  BY <1>1 DEF EngineInv, SequencesBehind, BookInv, BookTypeOK
<1>3. order[s].id \in OrderIds /\ order[s].price \in Prices
  BY <1>1 DEF EngineInv, BookInv, IndexMatchesPool, InFlight, BookTypeOK, Order
<1>4. out' \in Seq(Execution)
  <2>1. [incoming |-> req.id, resting |-> order[s].id,
         price |-> order[s].price, qty |-> qty] \in Execution
    BY <1>1, <1>2, <1>3 DEF Execution
  <2> QED BY <1>1, <2>1, AppendProperties DEF EngineInv
<1>5. ASSUME continue
      PROVE  /\ req' \in Request /\ req'.seq = req.seq /\ req'.id = req.id
             /\ req'.rem <= req'.orig
             /\ pc' = "match" /\ slot' \in Slots \cup {NULL}
             /\ result' \in Outcomes
  <2>1. req.rem - qty \in Quantities
    BY <1>1, <1>2, InputAssumption DEF Request, Quantities
  <2>2. req'.rem = req.rem - qty /\ req'.orig = req.orig
    BY <1>2, <1>5 DEF Request
  <2>3. req.rem <= req.orig /\ req.rem \in Nat /\ req.orig \in Nat
    BY <1>1, <1>2, InputAssumption
       DEF EngineInv, RequestBounded, Request, Quantities
  <2>4. req'.rem <= req'.orig
    BY <1>1, <2>2, <2>3
  <2> QED BY <1>1, <1>2, <1>5, <2>1, <2>4 DEF Request
<1>6. 0 \in Quantities
  BY InputAssumption DEF Quantities
<1>7. CASE RemoveOrder(s, 0) /\ continue
  BY <1>1, <1>4, <1>5, <1>6, <1>7, EngineRemoveInv
<1>8. CASE qty < order[s].rem /\ Shrink(s, qty) /\ continue
  BY <1>1, <1>4, <1>5, <1>8, EngineShrinkInv
<1>9. CASE /\ qty < order[s].rem /\ Shrink(s, qty)
           /\ Finish("invalid_argument")
  <2>1. /\ pc' = "idle" /\ req' \in Request /\ slot' \in Slots \cup {NULL}
        /\ result' \in Outcomes
    BY <1>9, BlankTypes DEF Finish, Outcomes
  <2> QED BY <1>1, <1>4, <1>9, <2>1, EngineShrinkInv
<1> QED BY <1>1, <1>7, <1>8, <1>9

\* The loop ends: what is left of a limit order crosses nothing that rests.
LEMMA EndMatchingInv ==
  ASSUME EngineInv, EndMatching
  PROVE  EngineInv'
<1>1. pc = "match" /\ ~Crosses /\ out' = out /\ seqno' = seqno
  BY DEF EndMatching
<1>2. CASE ~(req.rem > 0 /\ req.type = "LIMIT")
  <2>1. Return("ok")
    BY <1>2 DEF EndMatching
  <2> QED BY <1>1, <2>1, EngineReturnInv DEF Outcomes, EngineInv
<1>3. CASE req.rem > 0 /\ req.type = "LIMIT"
  <2> USE DEF EngineInv
  <2>1. pc' = "alloc" /\ UNCHANGED <<bookVars, req, slot, result>>
    BY <1>3 DEF EndMatching
  <2>2. /\ req \in Request /\ slot \in Slots \cup {NULL}
        /\ result \in Outcomes
    BY DEF BookInv, BookTypeOK
  <2>3. 0 < req.rem /\ req.rem <= req.orig
    BY <1>1, <1>3, <2>2 DEF RequestBounded, Request, Quantities
  <2>4. BookInv'
    BY <1>1, <2>1, <2>2, <2>3, BookUnchangedInv
  <2>5. /\ InFlight = {} /\ InFlight' = {}
    BY <1>1, <2>1 DEF InFlight
  <2>6. SequencesBehind'
    BY <1>1, <2>1, <2>5 DEF SequencesBehind, bookVars
  <2>7. RemainderDoesNotCross'
    <3>1. ASSUME NEW s \in live, order[s].side # req.side
          PROVE  IF req.side = "BUY" THEN req.price < order[s].price
                                     ELSE order[s].price < req.price
      <4>1. order[s].side = Opposite(req.side) /\ req.side \in Sides
            /\ order[s].price \in Nat /\ req.price \in Nat
        BY <2>2, <3>1, InputAssumption
           DEF Opposite, Sides, BookInv, BookTypeOK, Order, Request
      <4>2. /\ best[Opposite(req.side)] # NPos
            /\ IF req.side = "BUY" THEN Touch <= order[s].price
                                   ELSE Touch >= order[s].price
        BY <1>1, <4>1, TouchIsBest
      <4>3. /\ req.side = "BUY" => ~(req.price >= Touch)
            /\ req.side = "SELL" => ~(req.price <= Touch)
        BY <1>1, <1>3, <4>2 DEF Crosses
      <4>4. Touch \in Int
        BY <1>1, <4>2, LadderAssumption
           DEF Touch, PriceAt, MaxPrice, BookInv, BookTypeOK, Levels, Opposite,
               Sides
      <4> QED BY <4>1, <4>2, <4>3, <4>4 DEF Sides
    <3> QED BY <2>1, <2>5, <3>1 DEF RemainderDoesNotCross, bookVars
  <2>8. NotCrossed' /\ TimePriority'
    BY <2>1 DEF NotCrossed, TimePriority, Resting, bookVars
  <2>9. RequestBounded'
    BY <2>1 DEF RequestBounded
  <2> QED BY <1>1, <2>4, <2>6, <2>7, <2>8, <2>9
<1> QED BY <1>2, <1>3

\* A NEW event is accepted with a number above all those in the book, or
\* refused.
LEMMA ProcessNewInv ==
  ASSUME EngineInv, NEW r \in Requests, ProcessNew(r)
  PROVE  EngineInv'
<1> USE DEF EngineInv
<1>1. pc = "idle" /\ out' = <<>> /\ out' \in Seq(Execution)
  BY EmptySeq DEF ProcessNew, AcceptNew
<1>2. CASE \E outcome \in Outcomes : RejectNew(outcome)
  BY <1>1, <1>2, EngineReturnInv DEF RejectNew
<1>3. CASE /\ ValidNew(r) /\ seqno # MaxSequence
           /\ seqno' = seqno + 1 /\ pc' = "match" /\ slot' = NULL
           /\ req' = [r EXCEPT !.rem = r.orig, !.seq = seqno + 1]
           /\ result' = "ok" /\ UNCHANGED bookVars
  <2>1. r \in Request
    BY RequestAssumption
  <2>2. seqno \in Nat /\ seqno' \in Sequences64
    BY <1>3, InputAssumption DEF Sequences64
  <2>3. /\ req' \in Request /\ req'.seq = seqno' /\ req'.rem = req'.orig
        /\ req'.id = r.id /\ req'.orig \in Nat
    <3>1. /\ r.orig \in Quantities /\ r.orig \in Nat
          /\ seqno + 1 \in Sequences64
      BY <1>3, <2>1, <2>2, InputAssumption DEF Request, Quantities
    <3>2. [r EXCEPT !.rem = r.orig] \in Request
      BY <2>1, <3>1 DEF Request
    <3>3. req' \in Request
      BY <1>3, <3>1, <3>2 DEF Request
    <3>4. /\ req'.seq = seqno + 1 /\ req'.rem = r.orig /\ req'.orig = r.orig
          /\ req'.id = r.id
      BY <1>3, <2>1 DEF Request
    <3> QED BY <1>3, <3>1, <3>3, <3>4
  <2>4. r.id \in OrderIds
    BY <1>3, <2>1 DEF ValidNew, Request, AnyId
  <2>5. BookInv'
    BY <1>1, <1>3, <2>3, BookUnchangedInv DEF Outcomes
  <2>6. InFlight = {} /\ InFlight' = {}
    BY <1>1, <1>3 DEF InFlight
  <2>7. SequencesBehind'
    <3>1. \A s \in live : order[s].seq <= seqno /\ order[s].seq \in Nat
      BY InputAssumption
         DEF SequencesBehind, BookInv, BookTypeOK, Order, Sequences64
    <3>2. \A s \in live' : order'[s].seq < seqno'
      BY <1>3, <2>2, <3>1 DEF bookVars
    <3>3. \A s \in live' : order'[s].seq <= seqno'
      BY <1>3, <2>2, <3>1 DEF bookVars
    <3> QED BY <1>3, <2>2, <2>3, <2>4, <2>6, <3>2, <3>3 DEF SequencesBehind
  <2>8. RequestBounded' /\ RemainderDoesNotCross'
    BY <1>3, <2>3 DEF RequestBounded, RemainderDoesNotCross
  <2>9. NotCrossed' /\ TimePriority'
    BY <1>3 DEF NotCrossed, TimePriority, Resting, bookVars
  <2> QED BY <1>1, <2>2, <2>5, <2>7, <2>8, <2>9
<1>4. \A o \in {"invalid_argument", "logic_error", "overflow_error"} :
        o \in Outcomes
  BY DEF Outcomes
<1> QED BY <1>2, <1>3, <1>4 DEF ProcessNew, AcceptNew

\* A CANCEL event keeps the invariant.
LEMMA ProcessCancelInv ==
  ASSUME EngineInv, NEW id \in AnyId, ProcessCancel(id)
  PROVE  EngineInv'
<1>1. /\ pc = "idle" /\ out' = <<>> /\ out' \in Seq(Execution)
      /\ seqno' = seqno
  BY EmptySeq DEF ProcessCancel
<1>2. CASE \E outcome \in Outcomes : Return(outcome)
  BY <1>1, <1>2, EngineReturnInv
<1>3. CASE /\ id \in OrderIds /\ index[id] # NULL
           /\ RemoveOrder(index[id], order[index[id]].rem) /\ Finish("ok")
  <2>1. index[id] \in live /\ order[index[id]].rem \in Quantities
    BY <1>3 DEF EngineInv, BookInv, IndexMatchesPool, BookTypeOK, Order
  <2>2. /\ pc' = "idle" /\ req' \in Request
        /\ slot' \in Slots \cup {NULL} /\ result' \in Outcomes
    BY <1>3, BlankTypes DEF Finish, Outcomes
  <2> QED BY <1>1, <1>3, <2>1, <2>2, EngineRemoveInv
<1>4. \A o \in {"invalid_argument", "logic_error", "absent"} : o \in Outcomes
  BY DEF Outcomes
<1> QED BY <1>2, <1>3, <1>4 DEF ProcessCancel, CancelOrder, AnyId

\* A REDUCE event keeps the invariant.
LEMMA ProcessReduceInv ==
  ASSUME EngineInv, NEW id \in AnyId, NEW target \in Quantities,
         ProcessReduce(id, target)
  PROVE  EngineInv'
<1> DEFINE s == index[id]
           amount == order[s].rem - target
<1>1. /\ pc = "idle" /\ out' = <<>> /\ out' \in Seq(Execution)
      /\ seqno' = seqno
  BY EmptySeq DEF ProcessReduce
<1>2. CASE \E outcome \in Outcomes : Return(outcome)
  BY <1>1, <1>2, EngineReturnInv
<1>3. CASE /\ id \in OrderIds /\ s # NULL
           /\ target # 0 /\ ~(target > order[s].rem)
           /\ Shrink(s, amount)
           /\ Finish(IF CanReduceTotal(s, amount)
                        THEN "ok" ELSE "invalid_argument")
  <2>1. s \in live /\ order[s].rem \in Quantities
    BY <1>3 DEF EngineInv, BookInv, IndexMatchesPool, BookTypeOK, Order
  <2>2. /\ pc' = "idle" /\ req' \in Request
        /\ slot' \in Slots \cup {NULL} /\ result' \in Outcomes
    BY <1>3, BlankTypes DEF Finish, Outcomes
  <2>3. amount \in Nat /\ amount < order[s].rem
    BY <1>3, <2>1, InputAssumption DEF Quantities
  <2> QED BY <1>1, <1>3, <2>1, <2>2, <2>3, EngineShrinkInv
<1>4. \A o \in {"invalid_argument", "ok", "absent"} : o \in Outcomes
  BY DEF Outcomes
<1> QED BY <1>2, <1>3, <1>4 DEF ProcessReduce, ReduceOrder, AnyId

\* Another engine takes a number from the shared generator.
LEMMA OtherEngineInv ==
  ASSUME EngineInv, OtherEngineGenerates
  PROVE  EngineInv'
<1>1. /\ pc = "idle" /\ seqno' = seqno + 1 /\ seqno < MaxSequence
      /\ UNCHANGED <<bookVars, callVars, out>>
  BY DEF OtherEngineGenerates
<1>2. seqno \in Nat /\ seqno' \in Sequences64 /\ seqno <= seqno'
  BY <1>1, InputAssumption DEF EngineInv, Sequences64
<1>3. BookInv'
  BY <1>1, BookUnchangedInv
     DEF EngineInv, BookInv, BookTypeOK, bookVars, callVars
<1> QED BY <1>1, <1>2, <1>3, FewerOrdersInv
        DEF EngineInv, bookVars, callVars

(***************************************************************************)
(* The theorems.                                                           *)
(***************************************************************************)
\* An engine over an empty book satisfies the invariant.
LEMMA EngineInitInv ==
  Init => EngineInv
<1> SUFFICES ASSUME Init PROVE EngineInv
  OBVIOUS
<1>1. BookInv
  BY BookInitInv DEF Init
<1>2. out \in Seq(Execution) /\ seqno \in Sequences64
  BY EmptySeq, InputAssumption DEF Init, Sequences64
<1>3. /\ pc = "idle" /\ live = {}
      /\ \A sd \in Sides, j \in Levels : queue[sd][j] = <<>>
  BY DEF Init, BookInit
<1>4. SequencesBehind /\ RequestBounded /\ RemainderDoesNotCross /\ NotCrossed
  BY <1>3 DEF SequencesBehind, RequestBounded, RemainderDoesNotCross,
              NotCrossed, Resting
<1>5. TimePriority
  <2>1. \A sd \in Sides, j \in Levels : Len(queue[sd][j]) = 0
    BY <1>3, EmptySeq, LenProperties
  <2> QED BY <2>1 DEF TimePriority
<1> QED BY <1>1, <1>2, <1>4, <1>5 DEF EngineInv

\* Every step of the engine keeps the invariant.
LEMMA EngineNextInv ==
  EngineInv /\ [Next]_vars => EngineInv'
<1> SUFFICES ASSUME EngineInv, [Next]_vars PROVE EngineInv'
  OBVIOUS
<1>1. CASE \E r \in Requests : ProcessNew(r)
  BY <1>1, ProcessNewInv
<1>2. CASE Execute
  BY <1>2, ExecuteInv
<1>3. CASE ExecuteThrows
  BY <1>3, EngineReturnInv DEF ExecuteThrows, Outcomes, EngineInv
<1>4. CASE EndMatching
  BY <1>4, EndMatchingInv
<1>5. CASE InsertRemainder
  BY <1>5, InsertRemainderInv
<1>6. CASE \E id \in AnyId : ProcessCancel(id)
  BY <1>6, ProcessCancelInv
<1>7. CASE \E id \in AnyId, target \in Quantities : ProcessReduce(id, target)
  BY <1>7, ProcessReduceInv
<1>8. CASE OtherEngineGenerates
  BY <1>8, OtherEngineInv
<1>9. CASE UNCHANGED vars
  BY <1>9 DEF vars, bookVars, callVars, EngineInv, BookInv, BookTypeOK,
     IndexMatchesPool, QueuesMatchOrders, TouchExact, RemainingInBounds, CallOK,
     InFlight, Unlinked, SequencesBehind, RequestBounded,
     RemainderDoesNotCross, NotCrossed, TimePriority, Resting
<1> QED BY <1>1, <1>2, <1>3, <1>4, <1>5, <1>6, <1>7, <1>8, <1>9
        DEF Next, EngineStep

\* The invariant of the engine, in every state of every run, the states
\* between two executions and inside an insertion or a rollback included.
THEOREM EngineInvariant == Spec => []EngineInv
  BY EngineInitInv, EngineNextInv, PTL DEF Spec

\* The engine's state, locals and execution buffer stay within their types:
\* no subtraction from a remaining quantity underflows.
THEOREM EngineTypeCorrect == Spec => []TypeOK
<1>1. EngineInv => TypeOK
  BY DEF EngineInv, BookInv, TypeOK
<1> QED BY <1>1, EngineInvariant, PTL

\* matchOrder never leaves a bid at or above an ask, and an order is linked
\* only where it crosses nothing.
THEOREM EngineNeverCrossed == Spec => []NotCrossed
<1>1. EngineInv => NotCrossed
  BY DEF EngineInv
<1> QED BY <1>1, EngineInvariant, PTL

\* Every level is served in the order in which its orders were accepted.
THEOREM EngineTimePriority == Spec => []TimePriority
<1>1. EngineInv => TimePriority
  BY DEF EngineInv
<1> QED BY <1>1, EngineInvariant, PTL

\* The cached best indices and occupancy bits are exact under the engine too.
THEOREM EngineTouchExact == Spec => []TouchExact
<1>1. EngineInv => TouchExact
  BY DEF EngineInv, BookInv
<1> QED BY <1>1, EngineInvariant, PTL

\* The head of the touch is served before every other order of its side.
LEMMA TouchHeadFirst ==
  ASSUME EngineInv, pc = "match", best[Opposite(req.side)] # NPos,
         NEW t \in live, order[t].side = Opposite(req.side)
  PROVE  LET side == Opposite(req.side)
             s == Head(queue[side][best[side]])
         IN  /\ order[s].price = Touch
             /\ ~ServedBefore(order[t], order[s])
             /\ t # s => ServedBefore(order[s], order[t])
<1> DEFINE side == Opposite(req.side)
           b == best[side]
           q == queue[side][b]
           s == Head(q)
<1>1. /\ side \in Sides /\ b \in Levels /\ q \in Seq(Slots) /\ q # <<>>
      /\ s \in live /\ s = q[1] /\ order[s].side = side /\ order[s].level = b
  BY TouchHead DEF EngineInv
<1>2. Unlinked = {} /\ req.side \in Sides
  BY DEF Unlinked, EngineInv, BookInv, BookTypeOK, Request
<1>3. order[s].price = Touch
  <2>1. PriceAt(order[s].side, order[s].level) = order[s].price
    BY <1>1, <1>2, LinkedOrder DEF EngineInv, BookInv
  <2> QED BY <1>1, <2>1 DEF Touch
<1>4. IF req.side = "BUY" THEN Touch <= order[t].price
                          ELSE Touch >= order[t].price
  BY TouchIsBest DEF EngineInv
<1>5. /\ order[t].price \in Nat /\ order[s].price \in Nat
      /\ order[t].seq \in Nat /\ order[s].seq \in Nat
  <2>1. \A u \in live : order[u].price \in Nat /\ order[u].seq \in Nat
    <3>1. \A u \in live : order[u].price \in Prices /\ order[u].seq \in Sequences64
      BY DEF EngineInv, BookInv, BookTypeOK, Order
    <3>2. Prices \subseteq Nat /\ Sequences64 \subseteq Nat
      BY InputAssumption DEF Sequences64
    <3> QED BY <3>1, <3>2
  <2> HIDE DEF s
  <2> QED BY <1>1, <2>1
<1>6. /\ req.side = "BUY" => side = "SELL"
      /\ req.side = "SELL" => side = "BUY"
  BY DEF Opposite
<1>7. order[t].price = order[s].price => t = s \/ order[s].seq < order[t].seq
  <2> SUFFICES ASSUME order[t].price = order[s].price
               PROVE  t = s \/ order[s].seq < order[t].seq
    OBVIOUS
  <2>1. order[t].level = b
    <3>1. /\ order[t].level = IndexOf(side, order[t].price)
          /\ order[s].level = IndexOf(side, order[s].price)
      BY <1>1, <1>2 DEF EngineInv, BookInv, QueuesMatchOrders
    <3> QED BY <1>1, <3>1
  <2>2. t \in ToSet(q)
    BY <1>1, <1>2, <2>1 DEF EngineInv, BookInv, QueuesMatchOrders
  <2>3. Len(q) \in Nat /\ DOMAIN q = 1 .. Len(q)
    BY <1>1, LenProperties
  <2> HIDE DEF q
  <2>4. PICK k \in 1 .. Len(q) : q[k] = t
    BY <2>2, <2>3 DEF ToSet
  <2>5. Ascending(q, order)
    BY <1>1, TimePriorityIsAscending DEF EngineInv, q
  <2>6. CASE k = 1
    BY <1>1, <1>5, <2>4, <2>6
  <2>7. CASE k # 1
    <3>1. 1 \in 1 .. Len(q) /\ 1 < k
      BY <2>3, <2>7
    <3>2. order[s].seq < order[t].seq
      BY <1>1, <2>4, <2>5, <3>1 DEF Ascending
    <3> QED BY <1>5, <3>2
  <2> QED BY <2>6, <2>7
<1>8. /\ ~ServedBefore(order[t], order[s])
      /\ t # s => ServedBefore(order[s], order[t])
  <2> HIDE DEF s
  <2>1. /\ side = "BUY" \/ side = "SELL"
        /\ order[s].side = side /\ order[t].side = side
    BY <1>1 DEF Sides
  <2>2. t = s => order[t].price = order[s].price /\ order[t].seq = order[s].seq
    OBVIOUS
  <2> HIDE DEF side
  <2> QED BY <1>2, <1>3, <1>4, <1>5, <1>6, <1>7, <2>1, <2>2 DEF ServedBefore, Sides
<1> QED BY <1>3, <1>8

\* Every execution of matchOrder is with the order price-time priority
\* entitles, at its price and within the incoming order's limit.
THEOREM EngineExecutionsFollowPriority == Spec => ExecutionsFollowPriority
<1> DEFINE e == out'[Len(out')]
           s == index[e.resting]
           Good == /\ s \in Resting
                   /\ order[s].side = Opposite(req.side)
                   /\ \A t \in Resting :
                        order[t].side = order[s].side =>
                          ~ServedBefore(order[t], order[s])
                   /\ e.price = order[s].price
                   /\ req.type = "LIMIT" =>
                        IF req.side = "BUY" THEN e.price <= req.price
                                            ELSE e.price >= req.price
                   /\ 0 < e.qty
                   /\ e.qty <= order[s].rem
<1>1. ASSUME EngineInv, Execute PROVE Good
  <2> DEFINE h == Head(queue[Opposite(req.side)][best[Opposite(req.side)]])
             qty == Smaller(req.rem, order[h].rem)
             x == [incoming |-> req.id, resting |-> order[h].id,
                   price |-> order[h].price, qty |-> qty]
  <2>1. /\ h \in live /\ order[h].side = Opposite(req.side)
        /\ pc = "match" /\ Crosses /\ 0 < qty /\ qty <= order[h].rem
        /\ qty \in Quantities /\ out' = Append(out, x)
    BY <1>1, ExecuteShape
  <2>2. e = x
    <3>1. out \in Seq(Execution)
      BY <1>1 DEF EngineInv
    <3>2. x \in Execution
      <4> HIDE DEF h, qty
      <4>1. order[h].id \in OrderIds /\ order[h].price \in Prices
        BY <1>1, <2>1 DEF EngineInv, BookInv, IndexMatchesPool, InFlight,
                          BookTypeOK, Order
      <4>2. req.id \in OrderIds
        BY <1>1, <2>1 DEF EngineInv, SequencesBehind
      <4> QED BY <2>1, <4>1, <4>2 DEF Execution
    <3> HIDE DEF x
    <3>3. /\ Len(out) \in Nat /\ Len(Append(out, x)) = Len(out) + 1
          /\ Append(out, x)[Len(out) + 1] = x
      BY <3>1, <3>2, LenProperties, AppendProperties
    <3> QED BY <2>1, <3>3
  <2>3. InFlight = {} /\ Unlinked = {}
    BY <2>1 DEF InFlight, Unlinked
  <2>4. s = h
    <3>1. e.resting = order[h].id
      BY <2>2
    <3> HIDE DEF h, e
    <3>2. index[order[h].id] = h
      BY <1>1, <2>1, <2>3 DEF EngineInv, BookInv, IndexMatchesPool
    <3> QED BY <3>1, <3>2
  <2>5. Resting = live
    BY <1>1, <2>3, RestingIsLinked DEF EngineInv
  <2>6. best[Opposite(req.side)] # NPos
    BY <2>1 DEF Crosses
  <2>7. \A t \in live : order[t].side = Opposite(req.side) =>
          order[h].price = Touch /\ ~ServedBefore(order[t], order[h])
    BY <1>1, <2>1, <2>6, TouchHeadFirst
  <2>8. order[h].price = Touch
    BY <2>1, <2>7
  <2>9. req.side \in Sides /\ req.type \in {"LIMIT", "MARKET"}
    BY <1>1 DEF EngineInv, BookInv, BookTypeOK, Request
  <2>10. req.type = "LIMIT" => IF req.side = "BUY" THEN Touch <= req.price
                                                   ELSE Touch >= req.price
    <3>1. Touch \in Nat /\ req.price \in Nat
      BY <1>1, <2>1, <2>8, InputAssumption
         DEF EngineInv, BookInv, BookTypeOK, Order, Request
    <3> HIDE DEF h
    <3> QED BY <2>1, <2>9, <3>1 DEF Crosses, Sides
  <2>11. e.price = order[h].price /\ e.qty = qty
    BY <2>2
  <2> HIDE DEF e, s, h, qty
  <2> QED BY <2>1, <2>4, <2>5, <2>7, <2>8, <2>10, <2>11
<1>2. ASSUME EngineInv, [Next]_vars, ~Execute, Len(out') > Len(out) PROVE FALSE
  <2>1. out' = <<>> \/ out' = out
    BY <1>2 DEF Next, vars, ProcessNew, AcceptNew, ProcessCancel, ProcessReduce, EngineStep,
       ExecuteThrows, EndMatching, InsertRemainder, OtherEngineGenerates
  <2>2. Len(out) \in Nat
    BY <1>2, LenProperties DEF EngineInv
  <2>3. CASE out' = <<>>
    <3>1. Len(out') = 0
      BY <2>3
    <3> QED BY <1>2, <2>2, <3>1
  <2>4. CASE out' = out
    BY <1>2, <2>2, <2>4
  <2> QED BY <2>1, <2>3, <2>4
<1>3. EngineInv /\ [Next]_vars => [Len(out') > Len(out) => Good]_vars
  BY <1>1, <1>2
<1> QED BY <1>3, EngineInvariant, PTL DEF Spec, ExecutionsFollowPriority

\* Every step of matchOrder and of the insertion it ends in brings the return
\* of the event nearer, whatever throws.
THEOREM EngineEventProgress == Spec => EventProgress
<1> DEFINE Nearer == \/ StepsLeft[pc'] < StepsLeft[pc]
                     \/ /\ pc = "match" /\ pc' = "match"
                        /\ req'.rem < req.rem
<1>1. ASSUME EngineInv, Execute PROVE Nearer
  <2> DEFINE h == Head(queue[Opposite(req.side)][best[Opposite(req.side)]])
             qty == Smaller(req.rem, order[h].rem)
  <2>1. /\ pc = "match" /\ qty \in Nat /\ 0 < qty
        /\ \/ req' = [req EXCEPT !.rem = @ - qty] /\ pc' = pc
           \/ Finish("invalid_argument")
    BY <1>1, ExecuteShape
  <2> HIDE DEF qty
  <2>2. req \in Request /\ req.rem \in Nat
    BY <1>1, InputAssumption DEF EngineInv, BookInv, BookTypeOK, Request, Quantities
  <2>3. CASE req' = [req EXCEPT !.rem = @ - qty] /\ pc' = pc
    <3>1. req'.rem = req.rem - qty
      BY <2>2, <2>3 DEF Request
    <3> QED BY <2>1, <2>2, <2>3, <3>1
  <2>4. CASE Finish("invalid_argument")
    BY <2>1, <2>4 DEF Finish, StepsLeft
  <2> QED BY <2>1, <2>3, <2>4
<1>2. ASSUME ExecuteThrows \/ EndMatching PROVE Nearer
  BY <1>2 DEF ExecuteThrows, EndMatching, Return, Finish, StepsLeft
<1>3. ASSUME InsertRemainder PROVE Nearer
  BY <1>3 DEF InsertRemainder, InsertStep, Allocate, AllocateFails, Link,
     LinkThrows, AddToIndex, AddToIndexThrows, RollbackLevel, RollbackPool,
     Return, Finish, StepsLeft
<1>4. ASSUME Next, ~EngineStep PROVE pc = "idle"
  BY <1>4 DEF Next, ProcessNew, AcceptNew, ProcessCancel, ProcessReduce,
     OtherEngineGenerates
<1>5. EngineInv /\ [Next]_vars => [pc # "idle" => Nearer]_vars
  BY <1>1, <1>2, <1>3, <1>4 DEF EngineStep
<1> QED BY <1>5, EngineInvariant, PTL DEF Spec, EventProgress

(***************************************************************************)
(* Priority inside a level.                                                *)
(***************************************************************************)
\* A queue that is not changed keeps its order.
LEMMA KeepsSame ==
  ASSUME NEW q \in Seq(Slots)
  PROVE  KeepsOrder(q, q)
  BY DEF KeepsOrder

\* So does one that a new order joins.
LEMMA KeepsAppend ==
  ASSUME NEW q \in Seq(Slots), NEW s \in Slots, s \notin ToSet(q)
  PROVE  KeepsOrder(q, Append(q, s))
<1> DEFINE r == Append(q, s)
           n == Len(q)
<1>1. /\ n \in Nat /\ DOMAIN q = 1 .. n /\ Len(r) = n + 1
      /\ \A j \in 1 .. n : r[j] = q[j]
      /\ r[n + 1] = s
  BY LenProperties, AppendProperties
<1> HIDE DEF r, n
<1>2. ASSUME NEW a \in 1 .. n + 1, NEW b \in 1 .. n + 1, a < b,
             Contains(q, r[b])
      PROVE  \E j, k \in 1 .. n : j < k /\ q[j] = r[a] /\ q[k] = r[b]
  <2>1. b # n + 1
    <3> SUFFICES ASSUME b = n + 1 PROVE FALSE
      OBVIOUS
    <3>1. PICK k \in 1 .. n : q[k] = s
      BY <1>1, <1>2 DEF Contains, n
    <3> QED BY <1>1, <3>1 DEF ToSet
  <2>2. a \in 1 .. n /\ b \in 1 .. n
    BY <1>1, <1>2, <2>1
  <2>3. r[a] = q[a] /\ r[b] = q[b]
    BY <1>1, <2>2
  <2> QED BY <1>2, <2>2, <2>3
<1>3. KeepsOrder(q, r)
  BY <1>1, <1>2 DEF KeepsOrder, n
<1> QED BY <1>3 DEF r

\* And one that an order leaves, wherever it stood.
LEMMA KeepsRemove ==
  ASSUME NEW q \in Seq(Slots), NEW s
  PROVE  KeepsOrder(q, RemoveFirst(q, s))
<1>1. CASE \A j \in 1 .. Len(q) : q[j] # s
  BY <1>1, RemoveFirstAt, KeepsSame
<1>2. CASE \E j \in 1 .. Len(q) : q[j] = s
  <2>1. PICK k \in 1 .. Len(q) :
               q[k] = s /\ RemoveFirst(q, s) = RemoveAt(q, k)
    BY <1>2, RemoveFirstAt
  <2> DEFINE r == RemoveFirst(q, s)
             n == Len(q)
             up(m) == IF m < k THEN m ELSE m + 1
  <2>2. /\ Len(r) = n - 1
        /\ \A j \in 1 .. n - 1 : r[j] = IF j < k THEN q[j] ELSE q[j + 1]
    BY <2>1, RemoveAtProps
  <2>3. n \in Nat /\ k \in 1 .. n
    BY LenProperties
  <2> HIDE DEF r
  <2>4. ASSUME NEW a \in 1 .. n - 1, NEW b \in 1 .. n - 1, a < b
        PROVE  \E i, j \in 1 .. n : i < j /\ q[i] = r[a] /\ q[j] = r[b]
    <3>1. up(a) \in 1 .. n /\ up(b) \in 1 .. n /\ up(a) < up(b)
      BY <2>3, <2>4
    <3>2. r[a] = q[up(a)] /\ r[b] = q[up(b)]
      BY <2>2
    <3> HIDE DEF up
    <3> QED BY <3>1, <3>2
  <2>5. KeepsOrder(q, r)
    BY <2>2, <2>4 DEF KeepsOrder
  <2> QED BY <2>5 DEF r
<1> QED BY <1>1, <1>2

\* What a step does to one queue.
QueueStep(q, new) ==
  \/ new = q
  \/ \E s \in Slots \ ToSet(q) : new = Append(q, s)
  \/ \E s \in Slots : new = RemoveFirst(q, s)

\* Every step of the engine leaves a queue alone, appends an order that is not in
\* it, or takes one order out.
LEMMA EngineQueueStep ==
  ASSUME EngineInv, Next, NEW sd \in Sides, NEW j \in Levels
  PROVE  QueueStep(queue[sd][j], queue'[sd][j])
<1>0. BookInv /\ BookTypeOK /\ QueuesMatchOrders /\ live \subseteq Slots
  BY DEF EngineInv, BookInv, BookTypeOK
<1>1. ASSUME NEW s \in live \ Unlinked, NEW remaining,
             RemoveFromLevel(s, remaining)
      PROVE  QueueStep(queue[sd][j], queue'[sd][j])
  BY <1>0, <1>1, RemoveQueueShape DEF QueueStep
<1>2. CASE queue' = queue
  BY <1>2 DEF QueueStep
<1>3. CASE \E r \in Requests : ProcessNew(r)
  <2>1. queue' = queue
    BY <1>3 DEF ProcessNew, AcceptNew, RejectNew, Return, bookVars
  <2> QED BY <1>2, <2>1
<1>4. CASE Execute
  <2> DEFINE s == Head(queue[Opposite(req.side)][best[Opposite(req.side)]])
             qty == Smaller(req.rem, order[s].rem)
  <2>1. /\ s \in live /\ pc = "match"
        /\ RemoveOrder(s, 0) \/ Shrink(s, qty)
    BY <1>4, ExecuteShape, Zenon
  <2>2. s \in live \ Unlinked
    BY <2>1 DEF Unlinked
  <2> HIDE DEF s, qty
  <2>3. CASE RemoveOrder(s, 0)
    BY <1>1, <2>2, <2>3 DEF RemoveOrder
  <2>4. CASE Shrink(s, qty)
    BY <1>2, <2>4 DEF Shrink
  <2> QED BY <2>1, <2>3, <2>4
<1>5. CASE ExecuteThrows \/ EndMatching \/ OtherEngineGenerates
  <2>1. queue' = queue
    BY <1>5 DEF ExecuteThrows, EndMatching, OtherEngineGenerates, Return, Finish,
                bookVars
  <2> QED BY <1>2, <2>1
<1>6. CASE InsertRemainder
  <2>1. CASE Link
    <3> DEFINE o == order[slot]
               i == IndexOf(o.side, o.price)
    <3>1. queue' = [queue EXCEPT ![o.side] =
                      [queue[o.side] EXCEPT ![i] = Append(queue[o.side][i], slot)]]
      BY <2>1 DEF Link, AppendToLevel
    <3>2. pc = "link" /\ slot \in Slots /\ Unlinked = {slot}
      BY <1>0, <2>1 DEF Link, BookInv, CallOK, Unlinked
    <3>3. slot \notin ToSet(queue[sd][j])
      BY <1>0, <3>2 DEF QueuesMatchOrders
    <3>4. \/ queue'[sd][j] = queue[sd][j]
          \/ queue'[sd][j] = Append(queue[sd][j], slot)
      <4> HIDE DEF o, i
      <4> QED BY <1>0, <3>1 DEF BookTypeOK
    <3> QED BY <3>2, <3>3, <3>4 DEF QueueStep
  <2>2. CASE RollbackLevel
    <3>1. slot \in live \ Unlinked /\ RemoveFromLevel(slot, order[slot].rem)
      BY <1>0, <2>2 DEF RollbackLevel, Unlinked, BookInv, CallOK
    <3> QED BY <1>1, <3>1
  <2>3. CASE ~Link /\ ~RollbackLevel
    <3>1. queue' = queue
      BY <1>6, <2>3 DEF InsertRemainder, InsertStep, Allocate, AllocateFails,
         LinkThrows, AddToIndex, AddToIndexThrows, RollbackPool, Return, bookVars
    <3> QED BY <1>2, <3>1
  <2> QED BY <2>1, <2>2, <2>3
<1>7. ASSUME NEW id \in AnyId, ProcessCancel(id)
      PROVE  QueueStep(queue[sd][j], queue'[sd][j])
  <2>1. \/ queue' = queue
        \/ /\ pc = "idle" /\ id \in OrderIds /\ index[id] # NULL
           /\ RemoveOrder(index[id], order[index[id]].rem)
    BY <1>7 DEF ProcessCancel, CancelOrder, Return, bookVars, AnyId
  <2>2. CASE /\ pc = "idle" /\ id \in OrderIds /\ index[id] # NULL
             /\ RemoveOrder(index[id], order[index[id]].rem)
    <3>1. index[id] \in live \ Unlinked
      BY <1>0, <2>2 DEF BookInv, IndexMatchesPool, Unlinked
    <3> QED BY <1>1, <2>2, <3>1 DEF RemoveOrder
  <2> QED BY <1>2, <2>1, <2>2
<1>8. CASE \E id \in AnyId, target \in Quantities : ProcessReduce(id, target)
  <2>1. queue' = queue
    BY <1>8 DEF ProcessReduce, ReduceOrder, Shrink, Return, bookVars
  <2> QED BY <1>2, <2>1
<1> QED BY <1>3, <1>4, <1>5, <1>6, <1>7, <1>8 DEF Next, EngineStep

\* No step of the engine reorders a level: matching, cancellations, reductions and
\* rollbacks keep the relative order of the orders that stay, and an order joins
\* behind all others.
THEOREM EnginePriorityKept == Spec => PriorityKept
<1> DEFINE Kept == \A side \in Sides, i \in Levels :
                     KeepsOrder(queue[side][i], queue'[side][i])
<1>1. ASSUME EngineInv, Next PROVE Kept
  <2> SUFFICES ASSUME NEW sd \in Sides, NEW j \in Levels
               PROVE  KeepsOrder(queue[sd][j], queue'[sd][j])
    OBVIOUS
  <2>1. queue[sd][j] \in Seq(Slots)
    BY <1>1 DEF EngineInv, BookInv, BookTypeOK
  <2>2. QueueStep(queue[sd][j], queue'[sd][j])
    BY <1>1, EngineQueueStep
  <2> QED BY <2>1, <2>2, KeepsSame, KeepsAppend, KeepsRemove DEF QueueStep
<1>2. EngineInv /\ [Next]_vars => [Kept]_queue
  BY <1>1 DEF vars, bookVars
<1> QED BY <1>2, EngineInvariant, PTL DEF Spec, PriorityKept

(***************************************************************************)
(* Aggregates that cover the orders, and the checks that never fire.       *)
(***************************************************************************)
\* What the book's own steps do to a level, a fill may do as well.
LEMMA StepWeaker ==
  ASSUME NEW sd, NEW j, LevelStepAt(sd, j, "exact")
  PROVE  LevelStepAt(sd, j, "fill")
  BY Zenon DEF LevelStepAt, LevelStep

\* Every step of the engine treats every level so.  A filled order leaves with
\* nothing taken off the aggregate.
LEMMA StepEngine ==
  ASSUME EngineInv, Next, NEW sd \in Sides, NEW j \in Levels
  PROVE  LevelStepAt(sd, j, "fill")
<1>0. BookInv /\ BookTypeOK /\ QueuesMatchOrders
  BY DEF EngineInv, BookInv
<1>1. CASE UNCHANGED bookVars
  BY <1>0, <1>1, StepQuiet DEF bookVars
<1>2. CASE \E r \in Requests : ProcessNew(r)
  <2>1. UNCHANGED bookVars
    BY <1>2 DEF ProcessNew, AcceptNew, RejectNew, Return
  <2> QED BY <1>1, <2>1
<1>3. CASE Execute
  <2> DEFINE s == Head(queue[Opposite(req.side)][best[Opposite(req.side)]])
             qty == Smaller(req.rem, order[s].rem)
  <2>1. /\ s \in live /\ pc = "match" /\ qty \in Quantities
        /\ qty <= order[s].rem /\ 0 < qty
        /\ RemoveOrder(s, 0) \/ Shrink(s, qty)
    BY <1>3, ExecuteShape, Zenon
  <2>2. s \in live \ Unlinked
    BY <2>1 DEF Unlinked
  <2> HIDE DEF s, qty
  <2>3. CASE RemoveOrder(s, 0)
    <3>1. RemoveFromLevel(s, 0) /\ order' = [order EXCEPT ![s] = Blank]
      BY <2>3 DEF RemoveOrder, Release
    <3>2. \A x \in Slots \ {s} : order'[x].rem = order[x].rem
      BY <1>0, <3>1 DEF BookTypeOK
    <3>3. 0 \in Quantities /\ 0 <= order[s].rem
      BY <1>0, <2>1, InputAssumption DEF BookTypeOK, Order, Quantities
    <3> QED BY <1>0, <2>2, <3>1, <3>2, <3>3, StepUnlink
  <2>4. CASE Shrink(s, qty)
    BY <1>0, <2>1, <2>2, <2>4, StepShrink
  <2> QED BY <2>1, <2>3, <2>4
<1>4. CASE ExecuteThrows \/ EndMatching \/ OtherEngineGenerates
  <2>1. UNCHANGED bookVars
    BY <1>4 DEF ExecuteThrows, EndMatching, OtherEngineGenerates, Return
  <2> QED BY <1>1, <2>1
<1>5. CASE InsertRemainder
  BY <1>0, <1>5, StepInsertion, StepWeaker DEF InsertRemainder
<1>6. ASSUME NEW id \in AnyId, ProcessCancel(id)
      PROVE  LevelStepAt(sd, j, "fill")
  <2>1. \/ UNCHANGED bookVars
        \/ /\ pc = "idle" /\ id \in OrderIds /\ index[id] # NULL
           /\ RemoveOrder(index[id], order[index[id]].rem)
    BY <1>6 DEF ProcessCancel, CancelOrder, Return, AnyId
  <2> QED BY <1>0, <1>1, <2>1, StepCancel, StepWeaker
<1>7. ASSUME NEW id \in AnyId, NEW target \in Quantities, ProcessReduce(id, target)
      PROVE  LevelStepAt(sd, j, "fill")
  <2>1. CASE id = InvalidId
    <3>1. UNCHANGED bookVars
      BY <1>7, <2>1 DEF ProcessReduce, Return
    <3> QED BY <1>1, <3>1
  <2>2. CASE id # InvalidId
    <3>1. id \in OrderIds /\ ReduceOrder(id, target)
      BY <1>7, <2>2 DEF ProcessReduce, AnyId
    <3> QED BY <1>0, <3>1, StepReduce, StepWeaker
  <2> QED BY <2>1, <2>2
<1> QED BY <1>2, <1>3, <1>4, <1>5, <1>6, <1>7 DEF Next, EngineStep

\* Every level's aggregate covers what its orders have open, in every state of the
\* engine, although fills leave it too high: no subtraction from it wraps.
THEOREM EngineAggregateCovers == Spec => []Covered
<1>1. Init => Covered
  <2> SUFFICES ASSUME Init PROVE Covered
    OBVIOUS
  <2>1. Exact /\ BookTypeOK
    BY AggregateInit, BookInitInv DEF Init, BookInv
  <2>2. \A sd \in Sides, j \in Levels : total[sd][j] \in Nat
    BY <2>1, InputAssumption DEF BookTypeOK, Quantities
  <2> QED BY <2>1, <2>2 DEF Exact, Covered
<1>2. EngineInv /\ Covered /\ [Next]_vars => Covered'
  <2> SUFFICES ASSUME EngineInv, Covered, [Next]_vars PROVE Covered'
    OBVIOUS
  <2>1. CASE Next
    <3>1. \A sd \in Sides, j \in Levels : LevelStepAt(sd, j, "fill")
      BY <2>1, StepEngine
    <3> QED BY <3>1, AggregateKept DEF EngineInv, BookInv
  <2>2. CASE UNCHANGED vars
    BY <2>2 DEF Covered, Rem, vars, bookVars
  <2> QED BY <2>1, <2>2
<1> QED BY <1>1, <1>2, EngineInvariant, PTL DEF Spec

\* While the aggregates cover the orders, no check of matchOrder, removeOrder or
\* reduceTotalQuantity can fire.
LEMMA NoErrorNow ==
  ASSUME EngineInv, Covered
  PROVE  NoInternalError
<1>1. ASSUME pc = "match", Crosses
      PROVE  queue[Opposite(req.side)][best[Opposite(req.side)]] # <<>>
  BY <1>1, TouchHead DEF EngineInv, Crosses
<1>2. ASSUME NEW id \in OrderIds, index[id] # NULL
      PROVE  Removable(index[id]) /\ CanReduceTotal(index[id], order[index[id]].rem)
  <2> DEFINE s == index[id]
  <2>1. s \in live \ InFlight /\ order[s].id = id
    BY <1>2 DEF EngineInv, BookInv, IndexMatchesPool
  <2>2. s \in live \ Unlinked
    BY <2>1 DEF InFlight, Unlinked
  <2>3. /\ order[s].side \in Sides /\ order[s].level \in Levels /\ s \in Slots
        /\ s \in ToSet(queue[order[s].side][order[s].level])
    BY <2>2, LinkedOrder DEF EngineInv, BookInv
  <2>4. order[s].level # NPos
    BY <2>3, LadderAssumption DEF NPos, Levels
  <2> DEFINE q == queue[order[s].side][order[s].level]
             t == total[order[s].side][order[s].level]
  <2>5. q \in Seq(Slots) /\ t \in Nat /\ Open(q, Rem) <= t
    BY <2>3, InputAssumption DEF EngineInv, BookInv, BookTypeOK, Quantities, Covered
  <2>6. MaxQuantity \in Nat /\ \A x \in Slots : Rem[x] \in 0 .. MaxQuantity
    BY InputAssumption DEF EngineInv, BookInv, BookTypeOK, Order, Rem, Quantities
  <2>7. Open(q, Rem) \in Nat /\ Rem[s] <= Open(q, Rem)
    BY <2>3, <2>5, <2>6, OpenFacts
  <2>8. Rem[s] = order[s].rem /\ Rem[s] \in Nat
    BY <2>3, <2>6 DEF Rem
  <2>9. order[s].rem <= t
    BY <2>5, <2>7, <2>8
  <2> QED BY <2>1, <2>4, <2>9 DEF Removable, CanReduceTotal
<1> QED BY <1>1, <1>2 DEF NoInternalError

\* None of the defensive checks of matchOrder, removeOrder and reduceTotalQuantity
\* fires.
THEOREM EngineNoInternalError == Spec => []NoInternalError
<1>1. EngineInv /\ Covered => NoInternalError
  BY NoErrorNow
<1> QED BY <1>1, EngineInvariant, EngineAggregateCovers, PTL

(***************************************************************************)
(* What is traded.                                                         *)
(***************************************************************************)
\* What the executions of a buffer add up to.
Traded(o) == FoldLeft(LAMBDA acc, e : acc + e.qty, 0, o)

\* The quantities of a buffer, by position.
Amounts(o) == [k \in 1 .. Len(o) |-> o[k].qty]

\* One unfolding of the recursion in the fold.
Trading(o, g) ==
  [T \in SUBSET DOMAIN o |->
     IF T = {} THEN 0 ELSE g[T \ {Max(T)}] + o[Max(T)].qty]

\* If some function satisfies the recursion, the fold is a value of one.
LEMMA TradedChosen ==
  ASSUME NEW o, NEW g, g = Trading(o, g)
  PROVE  \E h : h = Trading(o, h) /\ Traded(o) = h[DOMAIN o]
  BY Zenon DEF Traded, Trading, FoldLeft, MapThenFoldSet

\* The fold counts the units traded.
LEMMA TradedIs ==
  ASSUME NEW o \in Seq(Execution)
  PROVE  Traded(o) = Cardinality(Units(1 .. Len(o), Amounts(o)))
<1>1. PICK n \in Nat : n = Len(o) /\ DOMAIN o = 1 .. n
  BY LenProperties
<1> DEFINE r == Amounts(o)
<1>2. MaxQuantity \in Nat
      /\ \A k \in 1 .. n : r[k] = o[k].qty /\ r[k] \in 0 .. MaxQuantity
  <2>1. \A k \in 1 .. n : o[k] \in Execution
    BY <1>1, ElementOfSeq
  <2> QED BY <1>1, <2>1, InputAssumption DEF Amounts, Execution, Quantities
<1> HIDE DEF r
<1>3. ASSUME NEW T \in SUBSET (1 .. n), T # {} PROVE o[Max(T)].qty = r[Max(T)]
  BY <1>2, <1>3, MaxBelow
<1>4. \A g : Trading(o, g) = Sums(n, r, g)
  BY <1>1, <1>3 DEF Trading, Sums
<1>5. /\ \E g : g = Sums(n, r, g)
      /\ \A g : g = Sums(n, r, g) => g[1 .. n] = Cardinality(Units(1 .. n, r))
  BY <1>2, SumsAre
<1>6. PICK g : g = Sums(n, r, g)
  BY <1>5
<1>7. g = Trading(o, g)
  BY <1>4, <1>6
<1>8. PICK h : h = Trading(o, h) /\ Traded(o) = h[DOMAIN o]
  BY <1>7, TradedChosen
<1>9. h = Sums(n, r, h)
  BY <1>4, <1>8
<1>10. Traded(o) = Cardinality(Units(1 .. n, r))
  BY <1>1, <1>5, <1>8, <1>9
<1> QED BY <1>1, <1>10 DEF r

\* An execution adds its quantity to what was traded.
LEMMA TradedFacts ==
  /\ Traded(<<>>) = 0
  /\ \A o \in Seq(Execution) : Traded(o) \in Nat
  /\ \A o \in Seq(Execution), e \in Execution :
       Traded(Append(o, e)) = Traded(o) + e.qty
<1>1. ASSUME NEW o \in Seq(Execution)
      PROVE  /\ Len(o) \in Nat /\ IsFiniteSet(1 .. Len(o)) /\ MaxQuantity \in Nat
             /\ \A k \in 1 .. Len(o) :
                  Amounts(o)[k] = o[k].qty /\ Amounts(o)[k] \in 0 .. MaxQuantity
  <2>1. Len(o) \in Nat
    BY LenProperties
  <2>2. \A k \in 1 .. Len(o) : o[k] \in Execution
    BY ElementOfSeq
  <2>3. IsFiniteSet(1 .. Len(o))
    BY <2>1, FS_Interval
  <2> QED BY <2>1, <2>2, <2>3, InputAssumption DEF Amounts, Execution, Quantities
<1>2. Traded(<<>>) = 0
  <2>1. <<>> \in Seq(Execution) /\ Len(<<>>) = 0
    BY EmptySeq
  <2>2. Units(1 .. 0, Amounts(<<>>)) = {}
    BY DEF Units
  <2>3. Traded(<<>>) = Cardinality(Units(1 .. 0, Amounts(<<>>)))
    BY <2>1, TradedIs
  <2> QED BY <2>2, <2>3, FS_EmptySet
<1>3. ASSUME NEW o \in Seq(Execution) PROVE Traded(o) \in Nat
  <2> DEFINE I == 1 .. Len(o)
  <2>1. /\ IsFiniteSet(I) /\ MaxQuantity \in Nat
        /\ \A k \in I : Amounts(o)[k] \in 0 .. MaxQuantity
    BY <1>1
  <2>2. Cardinality(Units(I, Amounts(o))) \in Nat
    BY <2>1, UnitsFinite
  <2> QED BY <2>2, TradedIs
<1>4. ASSUME NEW o \in Seq(Execution), NEW e \in Execution
      PROVE  Traded(Append(o, e)) = Traded(o) + e.qty
  <2>1. PICK p \in Seq(Execution) : p = Append(o, e)
    BY AppendProperties
  <2>2. PICK n \in Nat : n = Len(o)
    BY LenProperties
  <2>3. /\ Len(p) = n + 1 /\ p[n + 1] = e
        /\ \A k \in 1 .. n : p[k] = o[k]
    BY <2>1, <2>2, AppendProperties
  <2> DEFINE I == 1 .. n + 1
  <2>4. /\ IsFiniteSet(I) /\ MaxQuantity \in Nat
        /\ \A k \in I : Amounts(p)[k] = p[k].qty /\ Amounts(p)[k] \in 0 .. MaxQuantity
    BY <1>1, <2>3
  <2>5. \A k \in 1 .. n : Amounts(o)[k] = o[k].qty
    BY <1>1, <2>2
  <2>6. n + 1 \in I /\ I \ {n + 1} = 1 .. n
    OBVIOUS
  <2>7. Cardinality(Units(I, Amounts(p)))
          = Cardinality(Units(I \ {n + 1}, Amounts(p))) + Amounts(p)[n + 1]
    <3>1. PICK y \in I : y = n + 1
      BY <2>6
    <3> HIDE DEF I
    <3>2. Cardinality(Units(I, Amounts(p)))
            = Cardinality(Units(I \ {y}, Amounts(p))) + Amounts(p)[y]
      BY <2>4, UnitsSplit
    <3> QED BY <3>1, <3>2
  <2>8. Units(1 .. n, Amounts(p)) = Units(1 .. n, Amounts(o))
    <3>1. \A k \in 1 .. n : Amounts(p)[k] = Amounts(o)[k]
      BY <2>3, <2>4, <2>5
    <3> QED BY <3>1, UnitsSame
  <2>9. Traded(p) = Cardinality(Units(I, Amounts(p)))
        /\ Traded(o) = Cardinality(Units(1 .. n, Amounts(o)))
    BY <2>2, <2>3, TradedIs
  <2>10. Amounts(p)[n + 1] = e.qty
    BY <2>3, <2>4, <2>6
  <2> QED BY <2>1, <2>6, <2>7, <2>8, <2>9, <2>10
<1> QED BY <1>2, <1>3, <1>4

\* What an incoming order has executed and what it still has open add up to what
\* was submitted, through every step of matchOrder and of the insertion it ends in.
THEOREM EngineQuantityConserved == Spec => []QuantityConserved
<1> DEFINE Conserved == pc # "idle" => req.orig = req.rem + Traded(out)
<1>1. Init => Conserved
  BY DEF Init, BookInit
<1>2. ASSUME EngineInv, Conserved, [Next]_vars PROVE Conserved'
  <2>1. CASE UNCHANGED <<pc, req, out>>
    BY <1>2, <2>1
  <2>2. CASE pc' = "idle"
    BY <2>2
  <2>3. ASSUME NEW r \in Requests, ProcessNew(r), pc' # "idle" PROVE Conserved'
    <3>1. out' = <<>> /\ req' = [r EXCEPT !.rem = r.orig, !.seq = seqno + 1]
      BY <2>3 DEF ProcessNew, AcceptNew, RejectNew, Return, Finish
    <3>2. req'.orig = r.orig /\ req'.rem = r.orig /\ r.orig \in Nat
      BY <3>1, RequestAssumption, InputAssumption DEF Request, Quantities
    <3>3. Traded(out') = 0
      BY <3>1, TradedFacts
    <3> QED BY <3>2, <3>3
  <2>4. CASE Execute
    <3> DEFINE s == Head(queue[Opposite(req.side)][best[Opposite(req.side)]])
               qty == Smaller(req.rem, order[s].rem)
               e == [incoming |-> req.id, resting |-> order[s].id,
                     price |-> order[s].price, qty |-> qty]
    <3>1. /\ s \in live /\ pc = "match" /\ qty \in Quantities /\ qty \in Nat
          /\ qty <= req.rem
          /\ out' = Append(out, e)
          /\ \/ req' = [req EXCEPT !.rem = @ - qty]
             \/ Finish("invalid_argument")
      BY <1>2, <2>4, ExecuteShape, Zenon
    <3>2. e.qty = qty
      OBVIOUS
    <3>3. e \in Execution
      <4> HIDE DEF s, qty
      <4>1. order[s].id \in OrderIds /\ order[s].price \in Prices
        BY <1>2, <3>1 DEF EngineInv, BookInv, IndexMatchesPool, InFlight,
                          BookTypeOK, Order
      <4>2. req.id \in OrderIds
        BY <1>2, <3>1 DEF EngineInv, SequencesBehind
      <4> QED BY <3>1, <4>1, <4>2 DEF Execution
    <3> HIDE DEF s, qty, e
    <3>4. Traded(out') = Traded(out) + qty /\ Traded(out) \in Nat
      BY <1>2, <3>1, <3>2, <3>3, TradedFacts DEF EngineInv
    <3>5. CASE req' = [req EXCEPT !.rem = @ - qty]
      <4>1. req'.orig = req.orig /\ req'.rem = req.rem - qty /\ req.rem \in Nat
        BY <1>2, <3>5, InputAssumption
           DEF EngineInv, BookInv, BookTypeOK, Request, Quantities
      <4>2. req.orig = req.rem + Traded(out)
        BY <1>2, <3>1
      <4>3. req'.orig = req'.rem + Traded(out')
        BY <3>1, <3>4, <4>1, <4>2
      <4> QED BY <4>3
    <3>6. CASE Finish("invalid_argument")
      BY <3>6 DEF Finish
    <3> QED BY <3>1, <3>5, <3>6
  <2>5. CASE ExecuteThrows \/ EndMatching \/ InsertRemainder
    <3>1. out' = out /\ (req' = req \/ pc' = "idle") /\ pc # "idle"
      BY <2>5 DEF ExecuteThrows, EndMatching, InsertRemainder, InsertStep, Allocate,
         AllocateFails, Link, LinkThrows, AddToIndex, AddToIndexThrows,
         RollbackLevel, RollbackPool, Return, Finish
    <3> QED BY <1>2, <3>1
  <2>6. CASE \/ \E id \in AnyId : ProcessCancel(id)
             \/ \E id \in AnyId, target \in Quantities : ProcessReduce(id, target)
    <3>1. pc' = "idle"
      BY <2>6 DEF ProcessCancel, ProcessReduce, CancelOrder, ReduceOrder, Return, Finish
    <3> QED BY <3>1
  <2>7. CASE OtherEngineGenerates
    BY <2>1, <2>7 DEF OtherEngineGenerates, callVars
  <2> QED BY <1>2, <2>1, <2>2, <2>3, <2>4, <2>5, <2>6, <2>7
          DEF Next, EngineStep, vars, callVars
<1>3. Conserved => QuantityConserved
  BY DEF QuantityConserved, Traded
<1> QED BY <1>1, <1>2, <1>3, EngineInvariant, PTL DEF Spec

(***************************************************************************)
(* The engine implements the price-time book.                              *)
(***************************************************************************)
\* What an event still in flight is known to be: a limit order whose remainder is
\* being inserted, the object built from it, and the exception a rollback carries.
InsertionInv ==
  /\ pc \in {"alloc", "link", "index", "unlink", "release"} => req.type = "LIMIT"
  /\ pc \in {"link", "index", "unlink", "release"} =>
       /\ order[slot].orig = req.orig
       /\ order[slot].rem = req.rem
  /\ pc \in {"unlink", "release"} => result \notin {"ok", "absent"}

\* Every step keeps it.
LEMMA InsertionStep ==
  ASSUME EngineInv, InsertionInv, [Next]_vars
  PROVE  InsertionInv'
<1>0. /\ order \in [Slots -> Order] /\ req \in Request
      /\ pc \in {"link", "index", "unlink", "release"} => slot \in live /\ slot \in Slots
  BY DEF EngineInv, BookInv, BookTypeOK, CallOK
<1>1. CASE pc' \in {"idle", "match"}
  BY <1>1 DEF InsertionInv
<1>2. CASE UNCHANGED vars
  BY <1>2 DEF InsertionInv, vars, bookVars, callVars
<1>3. CASE EndMatching
  <2>1. (pc' = "alloc" /\ req' = req /\ req.type = "LIMIT") \/ pc' = "idle"
    BY <1>3 DEF EndMatching, Return, Finish
  <2> QED BY <1>1, <2>1 DEF InsertionInv
<1>4. CASE Allocate
  <2>1. PICK s \in Slots \ live :
          /\ order' = [order EXCEPT ![s] = NewOrder(req)] /\ slot' = s
          /\ pc = "alloc" /\ pc' = "link" /\ req' = req
    BY <1>4 DEF Allocate
  <2>2. order'[s] = NewOrder(req)
    BY <1>0, <2>1
  <2> QED BY <2>1, <2>2 DEF InsertionInv, NewOrder
<1>5. CASE Link \/ RollbackLevel
  <2>1. /\ \E v : order' = [order EXCEPT ![slot].level = v]
        /\ req' = req /\ slot' = slot /\ result' = result
        /\ \/ pc = "link" /\ pc' = "index"
           \/ pc = "unlink" /\ pc' = "release"
    BY <1>5 DEF Link, RollbackLevel
  <2>2. order'[slot].orig = order[slot].orig /\ order'[slot].rem = order[slot].rem
    BY <1>0, <2>1 DEF Order
  <2> QED BY <2>1, <2>2 DEF InsertionInv
<1>6. CASE LinkThrows
  <2>1. LinkError # "absent"
    BY DEF LinkError
  <2>2. /\ pc = "link" /\ pc' = "release" /\ result' = LinkError /\ LinkError # "ok"
        /\ req' = req /\ slot' = slot /\ order' = order
    BY <1>6 DEF LinkThrows, bookVars
  <2> QED BY <2>1, <2>2 DEF InsertionInv
<1>7. CASE AddToIndexThrows
  <2>1. /\ pc = "index" /\ pc' = "unlink" /\ result' \in {"logic_error", "bad_alloc"}
        /\ req' = req /\ slot' = slot /\ order' = order
    BY <1>7 DEF AddToIndexThrows, bookVars
  <2> QED BY <2>1 DEF InsertionInv
<1>8. CASE Next /\ ~EndMatching /\ ~InsertRemainder
  <2>1. CASE Execute
    <3>1. pc' \in {"idle", "match"}
      BY <2>1, ExecuteShape DEF Finish
    <3> QED BY <1>1, <3>1
  <2>2. CASE ~Execute
    <3>1. pc' \in {"idle", "match"}
      BY <1>8, <2>2 DEF Next, EngineStep, ProcessNew, AcceptNew, RejectNew, ProcessCancel,
         ProcessReduce, CancelOrder, ReduceOrder, ExecuteThrows, OtherEngineGenerates,
         Return, Finish, callVars
    <3> QED BY <1>1, <3>1
  <2> QED BY <2>1, <2>2
<1>9. CASE AllocateFails \/ AddToIndex \/ RollbackPool
  <2>1. pc' = "idle"
    BY <1>9 DEF AllocateFails, AddToIndex, RollbackPool, Return, Finish
  <2> QED BY <1>1, <2>1
<1> QED BY <1>2, <1>3, <1>4, <1>5, <1>6, <1>7, <1>8, <1>9
        DEF InsertRemainder, InsertStep

\* The resting orders a caller sees are the live ones outside an insertion.
LEMMA VisibleBookIs ==
  ASSUME BookInv
  PROVE  VisibleBook = {Visible(order[s]) : s \in live \ InFlight}
<1> USE DEF BookInv
<1>1. ASSUME NEW s \in live \ InFlight
      PROVE  order[s].id \in OrderIds /\ index[order[s].id] = s /\ s # NULL
  BY NameAssumption DEF IndexMatchesPool, BookTypeOK
<1>2. ASSUME NEW id \in OrderIds, index[id] # NULL
      PROVE  index[id] \in live \ InFlight
  BY <1>2 DEF IndexMatchesPool
<1>3. VisibleBook = {Visible(order[s]) : s \in live \ InFlight}
  <2>1. ASSUME NEW v \in VisibleBook
        PROVE  v \in {Visible(order[s]) : s \in live \ InFlight}
    <3>1. PICK id \in OrderIds : index[id] # NULL /\ v = Visible(order[index[id]])
      BY DEF VisibleBook
    <3>2. index[id] \in live \ InFlight
      BY <1>2, <3>1
    <3> QED BY <3>1, <3>2
  <2>2. ASSUME NEW s \in live \ InFlight
        PROVE  Visible(order[s]) \in VisibleBook
    <3>1. order[s].id \in {x \in OrderIds : index[x] # NULL}
      BY <1>1
    <3>2. Visible(order[s]) = Visible(order[index[order[s].id]])
      BY <1>1
    <3> QED BY <3>1, <3>2 DEF VisibleBook
  <2> QED BY <2>1, <2>2
<1> QED BY <1>3

\* And so after a step.
LEMMA VisibleBookNext ==
  ASSUME BookInv'
  PROVE  VisibleBook' = {Visible(order'[s]) : s \in live' \ InFlight'}
<1>1. (BookInv => VisibleBook = {Visible(order[s]) : s \in live \ InFlight})'
  BY VisibleBookIs, PTL
<1> QED BY <1>1

\* They have distinct identifiers.
LEMMA VisibleDistinct ==
  ASSUME BookInv, NEW s \in live \ InFlight, NEW t \in live \ InFlight,
         Visible(order[s]).id = Visible(order[t]).id
  PROVE  s = t
  BY DEF Visible, BookInv, IndexMatchesPool

\* A step that changes no indexed order's visible fields is invisible in the book.
LEMMA SameBook ==
  ASSUME BookInv, index' = index,
         \A s \in live \ InFlight : Visible(order'[s]) = Visible(order[s])
  PROVE  VisibleBook' = VisibleBook
<1>1. \A id \in OrderIds : index[id] # NULL => index[id] \in live \ InFlight
  BY DEF BookInv, IndexMatchesPool
<1>2. \A id \in {x \in OrderIds : index[x] # NULL} :
        Visible(order'[index'[id]]) = Visible(order[index[id]])
  BY <1>1
<1> QED BY <1>2 DEF VisibleBook

\* The running order is not the null pointer.
LEMMA IncomingIs ==
  ASSUME BookTypeOK
  PROVE  /\ pc = "idle" <=> IncomingOrder = NULL
         /\ pc # "idle" =>
              /\ IncomingOrder =
                   [id |-> req.id, side |-> req.side, type |-> req.type,
                    price |-> req.price, orig |-> req.orig, rem |-> req.rem,
                    seq |-> req.seq]
              /\ IncomingOrder \in Incoming
<1>1. ASSUME pc # "idle" PROVE IncomingOrder \in Incoming
  BY <1>1 DEF IncomingOrder, Incoming, BookTypeOK, Request
<1> QED BY <1>1, IncomingAssumption DEF IncomingOrder

\* The opposing orders the running one accepts.
Accepted(s) ==
  /\ order[s].side # req.side
  /\ \/ req.type = "MARKET"
     \/ req.side = "BUY" /\ order[s].price <= req.price
     \/ req.side = "SELL" /\ order[s].price >= req.price

\* They are the ones the price-time book finds eligible.
LEMMA EligibleIs ==
  ASSUME BookInv, pc # "idle"
  PROVE  PT!Eligible =
           {Visible(order[s]) : s \in {t \in live \ InFlight : Accepted(t)}}
<1>1. VisibleBook = {Visible(order[s]) : s \in live \ InFlight}
  BY VisibleBookIs
<1>2. /\ IncomingOrder.side = req.side /\ IncomingOrder.type = req.type
      /\ IncomingOrder.price = req.price
  BY IncomingIs DEF BookInv
<1>3. \A s : /\ Visible(order[s]).side = order[s].side
             /\ Visible(order[s]).price = order[s].price
  BY DEF Visible
<1>4. PT!Eligible = {o \in VisibleBook :
        /\ o.side # req.side
        /\ \/ req.type = "MARKET"
           \/ req.side = "BUY" /\ o.price <= req.price
           \/ req.side = "SELL" /\ o.price >= req.price}
  BY <1>2 DEF PT!Eligible
<1> QED BY <1>1, <1>3, <1>4 DEF Accepted

\* An event that an exception ends.
LEMMA PTFails ==
  ASSUME EngineInv, EngineInv', pc # "idle", pc' = "idle",
         result' \notin {"ok", "absent"}, VisibleBook' = VisibleBook,
         UNCHANGED <<out, seqno>>
  PROVE  PT!Fail
<1>1. IncomingOrder # NULL
  BY IncomingIs DEF EngineInv, BookInv
<1>2. IncomingOrder' = NULL
  BY DEF IncomingOrder
<1>3. LastFailed' = TRUE
  BY DEF LastFailed
<1> QED BY <1>1, <1>2, <1>3 DEF PT!Fail

\* A step of an insertion or of a rollback that the caller cannot see.
LEMMA PTSilent ==
  ASSUME pc # "idle", pc' # "idle", req' = req, VisibleBook' = VisibleBook,
         UNCHANGED <<out, seqno>>
  PROVE  UNCHANGED PT!ptVars
<1>1. IncomingOrder' = IncomingOrder
  BY DEF IncomingOrder
<1>2. LastFailed' = LastFailed
  BY DEF LastFailed
<1> QED BY <1>1, <1>2 DEF PT!ptVars

\* An event that is refused or finds nothing to do.
LEMMA PTNoEffect ==
  ASSUME EngineInv, pc = "idle", NEW outcome, Return(outcome), out' = <<>>,
         seqno' = seqno
  PROVE  PT!NoEffect
<1>1. IncomingOrder = NULL /\ IncomingOrder' = NULL
  BY DEF IncomingOrder, Return, Finish
<1>2. VisibleBook' = VisibleBook
  BY SameBook DEF EngineInv, Return, bookVars
<1>3. LastFailed' \in BOOLEAN
  BY DEF LastFailed
<1> QED BY <1>1, <1>2, <1>3 DEF PT!NoEffect

\* An event that ends well with nothing to add to the book.
LEMMA PTEnds ==
  ASSUME EngineInv, pc = "match", ~Crosses,
         ~(req.rem > 0 /\ req.type = "LIMIT"), Return("ok"),
         UNCHANGED <<out, seqno>>
  PROVE  PT!Complete
<1>1. /\ IncomingOrder # NULL /\ IncomingOrder.rem = req.rem
      /\ IncomingOrder.type = req.type
  BY IncomingIs DEF EngineInv, BookInv
<1>2. IncomingOrder' = NULL /\ LastFailed' = FALSE
  BY DEF IncomingOrder, LastFailed, Return, Finish
<1>3. VisibleBook' = VisibleBook
  BY SameBook DEF EngineInv, Return, bookVars
<1>4. req.rem \in Nat /\ req.type \in {"LIMIT", "MARKET"}
  BY InputAssumption DEF EngineInv, BookInv, BookTypeOK, Request, Quantities
<1>5. req.rem = 0 \/ PT!Eligible = {}
  <2> SUFFICES ASSUME req.rem # 0 PROVE PT!Eligible = {}
    OBVIOUS
  <2>1. req.type = "MARKET" /\ best[Opposite(req.side)] = NPos
    BY <1>4 DEF Crosses
  <2>2. ASSUME NEW t \in live, Accepted(t) PROVE FALSE
    <3>1. order[t].side = Opposite(req.side)
      BY <2>2 DEF Accepted, Opposite, Sides, EngineInv, BookInv, BookTypeOK, Order, Request
    <3> QED BY <2>1, <3>1, TouchIsBest DEF EngineInv
  <2>3. {s \in live \ InFlight : Accepted(s)} = {}
    BY <2>2
  <2> QED BY <2>3, EligibleIs DEF EngineInv
<1>6. VisibleBook' = VisibleBook \cup
        (IF IncomingOrder.rem > 0 /\ IncomingOrder.type = "LIMIT"
         THEN {[id |-> IncomingOrder.id, side |-> IncomingOrder.side,
                price |-> IncomingOrder.price, orig |-> IncomingOrder.orig,
                rem |-> IncomingOrder.rem, seq |-> IncomingOrder.seq]}
         ELSE {})
  BY <1>1, <1>3
<1> QED BY <1>1, <1>2, <1>5, <1>6 DEF PT!Complete

\* The remainder of a limit order joins the book when it is indexed.
LEMMA PTRests ==
  ASSUME EngineInv, EngineInv', InsertionInv, AddToIndex, UNCHANGED <<out, seqno>>
  PROVE  PT!Complete
<1> USE DEF EngineInv
<1>1. /\ pc = "index" /\ pc' = "idle" /\ result' = "ok" /\ UNCHANGED <<order, live>>
  BY DEF AddToIndex, Finish
<1>2. /\ IncomingOrder # NULL
      /\ IncomingOrder = [id |-> req.id, side |-> req.side, type |-> req.type,
                          price |-> req.price, orig |-> req.orig, rem |-> req.rem,
                          seq |-> req.seq]
  BY <1>1, IncomingIs DEF BookInv
<1>3. IncomingOrder' = NULL /\ LastFailed' = FALSE
  BY <1>1 DEF IncomingOrder, LastFailed
<1>4. InFlight = {slot} /\ InFlight' = {} /\ Unlinked = {} /\ slot \in live
  BY <1>1 DEF InFlight, Unlinked, BookInv, CallOK
<1>5. /\ Visible(order[slot]) =
           [id |-> req.id, side |-> req.side, price |-> req.price,
            orig |-> req.orig, rem |-> req.rem, seq |-> req.seq]
      /\ order[slot].side = req.side /\ order[slot].price = req.price
      /\ req.type = "LIMIT"
  BY <1>1 DEF Visible, InsertionInv, SequencesBehind, BookInv, CallOK
<1>6. req.rem > 0
  BY <1>1, <1>4 DEF BookInv, RemainingInBounds, InsertionInv
<1>7. VisibleBook' = VisibleBook \cup {Visible(order[slot])}
  <2>1. VisibleBook = {Visible(order[s]) : s \in live \ {slot}}
    BY <1>4, VisibleBookIs
  <2>2. VisibleBook' = {Visible(order[s]) : s \in live}
    BY <1>1, <1>4, VisibleBookNext
  <2> QED BY <1>4, <2>1, <2>2
<1>8. PT!Eligible = {}
  <2>1. ASSUME NEW t \in live \ InFlight, Accepted(t) PROVE FALSE
    <3>1. t \in Resting /\ slot \in Resting
      BY <1>4, RestingIsLinked
    <3>2. /\ order[t].side \in Sides /\ req.side \in Sides /\ order[t].side # req.side
          /\ order[t].price \in Nat /\ req.price \in Nat
      BY <2>1, InputAssumption DEF BookInv, BookTypeOK, Order, Request, Accepted
    <3>3. /\ req.side = "BUY" => req.price < order[t].price
          /\ req.side = "SELL" => order[t].price < req.price
      BY <1>5, <3>1, <3>2 DEF NotCrossed, Sides
    <3> QED BY <1>5, <2>1, <3>2, <3>3 DEF Accepted
  <2>2. {s \in live \ InFlight : Accepted(s)} = {}
    BY <2>1
  <2> QED BY <1>1, <2>2, EligibleIs
<1>9. VisibleBook' = VisibleBook \cup
        (IF IncomingOrder.rem > 0 /\ IncomingOrder.type = "LIMIT"
         THEN {[id |-> IncomingOrder.id, side |-> IncomingOrder.side,
                price |-> IncomingOrder.price, orig |-> IncomingOrder.orig,
                rem |-> IncomingOrder.rem, seq |-> IncomingOrder.seq]}
         ELSE {})
  BY <1>2, <1>5, <1>6, <1>7
<1> QED BY <1>2, <1>3, <1>8, <1>9 DEF PT!Complete

\* OrderBook::removeOrder takes the one order out of what a caller sees.
LEMMA PTRemoves ==
  ASSUME EngineInv, EngineInv', pc \in {"idle", "match"}, pc' \in {"idle", "match"},
         NEW s \in live, NEW remaining, RemoveOrder(s, remaining)
  PROVE  /\ Visible(order[s]) \in VisibleBook
         /\ VisibleBook' = VisibleBook \ {Visible(order[s])}
<1>1. InFlight = {} /\ InFlight' = {}
  BY DEF InFlight
<1>2. VisibleBook = {Visible(order[t]) : t \in live}
  BY <1>1, VisibleBookIs DEF EngineInv
<1>3. live' = live \ {s} /\ \A t \in live' : order'[t] = order[t]
  BY DEF RemoveOrder, Release, EngineInv, BookInv, BookTypeOK
<1>4. VisibleBook' = {Visible(order'[t]) : t \in live'}
  BY <1>1, VisibleBookNext DEF EngineInv
<1>5. VisibleBook' = {Visible(order[t]) : t \in live \ {s}}
  BY <1>3, <1>4
<1>6. \A t \in live \ {s} : Visible(order[t]) # Visible(order[s])
  BY <1>1, VisibleDistinct DEF EngineInv
<1> QED BY <1>2, <1>5, <1>6

\* A partial fill or a reduction changes what remains of the one order.
LEMMA PTShrinks ==
  ASSUME EngineInv, EngineInv', pc \in {"idle", "match"}, pc' \in {"idle", "match"},
         NEW s \in live, NEW amount, Shrink(s, amount)
  PROVE  LET v == Visible(order[s])
         IN  /\ v \in VisibleBook
             /\ VisibleBook' = (VisibleBook \ {v}) \cup
                  {[v EXCEPT !.rem = order[s].rem - amount]}
<1> DEFINE v == Visible(order[s])
           w == [v EXCEPT !.rem = order[s].rem - amount]
<1>1. InFlight = {} /\ InFlight' = {}
  BY DEF InFlight
<1>2. VisibleBook = {Visible(order[t]) : t \in live}
  BY <1>1, VisibleBookIs DEF EngineInv
<1>3. /\ live' = live /\ order' = [order EXCEPT ![s].rem = order[s].rem - amount]
      /\ order \in [Slots -> Order] /\ live \subseteq Slots
  BY DEF Shrink, EngineInv, BookInv, BookTypeOK
<1>4. VisibleBook' = {Visible(order'[t]) : t \in live'}
  BY <1>1, VisibleBookNext DEF EngineInv
<1>5. Visible(order'[s]) = w
  BY <1>3 DEF Visible, Order
<1>6. \A t \in live \ {s} : Visible(order'[t]) = Visible(order[t])
  BY <1>3
<1>7. \A t \in live \ {s} : Visible(order[t]) # v
  BY <1>1, VisibleDistinct DEF EngineInv
<1> HIDE DEF w, v
<1>8. v = Visible(order[s])
  BY DEF v
<1>9. VisibleBook \ {v} = {Visible(order[t]) : t \in live \ {s}}
  BY <1>2, <1>7, <1>8
<1>10. VisibleBook' = {Visible(order[t]) : t \in live \ {s}} \cup {w}
  BY <1>3, <1>4, <1>5, <1>6
<1>11. v \in VisibleBook
  BY <1>2, <1>8
<1> QED BY <1>9, <1>10, <1>11 DEF w, v

\* A NEW that passes validation and the duplicate check.
LEMMA PTAccepts ==
  ASSUME EngineInv, NEW r \in Requests, pc = "idle", index[r.id] = NULL,
         r.id \in OrderIds, seqno # MaxSequence, AcceptNew(r, seqno + 1), out' = <<>>
  PROVE  PT!Accept(r)
<1>1. r \in Request
  BY RequestAssumption
<1>2. /\ pc' = "match" /\ seqno' = seqno + 1 /\ UNCHANGED bookVars
      /\ req' = [r EXCEPT !.rem = r.orig, !.seq = seqno + 1]
  BY DEF AcceptNew
<1>3. IncomingOrder = NULL /\ LastFailed' = FALSE
  BY <1>2 DEF IncomingOrder, LastFailed
<1>4. IncomingOrder' = [id |-> r.id, side |-> r.side, type |-> r.type,
                        price |-> r.price, orig |-> r.orig, rem |-> r.orig,
                        seq |-> seqno + 1]
  <2>1. /\ req'.id = r.id /\ req'.side = r.side /\ req'.type = r.type
        /\ req'.price = r.price /\ req'.orig = r.orig /\ req'.rem = r.orig
        /\ req'.seq = seqno + 1
    BY <1>1, <1>2 DEF Request
  <2> QED BY <1>2, <2>1 DEF IncomingOrder
<1>5. VisibleBook' = VisibleBook
  BY <1>2, SameBook DEF EngineInv, bookVars
<1>6. ASSUME NEW o \in VisibleBook PROVE o.id # r.id
  <2>1. PICK id \in OrderIds : index[id] # NULL /\ o = Visible(order[index[id]])
    BY DEF VisibleBook
  <2>2. order[index[id]].id = id
    BY <2>1 DEF EngineInv, BookInv, IndexMatchesPool
  <2> QED BY <2>1, <2>2 DEF Visible
<1>7. seqno < MaxSequence
  BY InputAssumption DEF EngineInv, Sequences64
<1> QED BY <1>2, <1>3, <1>4, <1>5, <1>6, <1>7 DEF PT!Accept

\* A CANCEL of an order that is there.
LEMMA PTCancels ==
  ASSUME EngineInv, EngineInv', NEW id \in OrderIds, pc = "idle", index[id] # NULL,
         RemoveOrder(index[id], order[index[id]].rem), Finish("ok"),
         out' = <<>>, seqno' = seqno
  PROVE  PT!Cancel(id)
<1>1. pc' = "idle" /\ result' = "ok"
  BY DEF Finish
<1>2. IncomingOrder = NULL /\ IncomingOrder' = NULL /\ LastFailed' = FALSE
  BY <1>1 DEF IncomingOrder, LastFailed
<1>3. PICK s \in live : s = index[id] /\ order[s].id = id
  BY DEF EngineInv, BookInv, IndexMatchesPool
<1>4. /\ Visible(order[s]) \in VisibleBook
      /\ VisibleBook' = VisibleBook \ {Visible(order[s])}
  BY <1>1, <1>3, PTRemoves
<1>5. Visible(order[s]).id = id
  BY <1>3 DEF Visible
<1> QED BY <1>2, <1>4, <1>5 DEF PT!Cancel

\* A REDUCE of an order that is there to less than it has open.
LEMMA PTReduces ==
  ASSUME EngineInv, EngineInv', Covered, NEW id \in OrderIds, pc = "idle",
         index[id] # NULL, NEW target \in Quantities, target # 0,
         target < order[index[id]].rem,
         Shrink(index[id], order[index[id]].rem - target),
         Finish(IF CanReduceTotal(index[id], order[index[id]].rem - target)
                  THEN "ok" ELSE "invalid_argument"),
         out' = <<>>, seqno' = seqno
  PROVE  PT!Reduce(id)
<1>1. PICK s \in live : s = index[id] /\ order[s].id = id
  BY DEF EngineInv, BookInv, IndexMatchesPool
<1>2. order[s].rem \in Nat /\ target \in Nat /\ order[s] \in Order
  BY InputAssumption DEF EngineInv, BookInv, BookTypeOK, Order, Quantities
<1>3. CanReduceTotal(s, order[s].rem - target)
  <2>1. CanReduceTotal(s, order[s].rem)
    BY <1>1, NoErrorNow DEF NoInternalError
  <2>2. total[order[s].side][order[s].level] \in Nat
    <3>1. s \in live \ Unlinked
      BY DEF Unlinked
    <3>2. order[s].side \in Sides /\ order[s].level \in Levels
      BY <3>1, LinkedOrder DEF EngineInv, BookInv
    <3> QED BY <3>2, InputAssumption DEF EngineInv, BookInv, BookTypeOK, Quantities
  <2> QED BY <1>2, <2>1, <2>2 DEF CanReduceTotal
<1>4. pc' = "idle" /\ result' = "ok"
  BY <1>1, <1>3 DEF Finish
<1>5. IncomingOrder = NULL /\ IncomingOrder' = NULL /\ LastFailed' = FALSE
  BY <1>4 DEF IncomingOrder, LastFailed
<1> DEFINE v == Visible(order[s])
           amount == order[s].rem - target
<1>6. /\ v \in VisibleBook
      /\ VisibleBook' = (VisibleBook \ {v}) \cup
           {[v EXCEPT !.rem = order[s].rem - amount]}
  BY <1>1, <1>4, PTShrinks
<1>7. order[s].rem - amount = target /\ v.id = id /\ v.rem = order[s].rem
  BY <1>1, <1>2 DEF Visible
<1>8. target \in 1 .. v.rem - 1
  BY <1>1, <1>2, <1>7
<1> HIDE DEF v, amount
<1>9. VisibleBook' = (VisibleBook \ {v}) \cup {[v EXCEPT !.rem = target]}
  BY <1>6, <1>7
<1> QED BY <1>5, <1>6, <1>7, <1>8, <1>9 DEF PT!Reduce

\* The order hit is the eligible one that price-time priority puts first.
LEMMA PTEntitled ==
  ASSUME EngineInv, Execute
  PROVE  LET s == Head(queue[Opposite(req.side)][best[Opposite(req.side)]])
             v == Visible(order[s])
         IN  /\ v \in PT!Eligible
             /\ \A p \in PT!Eligible \ {v} : PT!Before(v, p)
<1> DEFINE s == Head(queue[Opposite(req.side)][best[Opposite(req.side)]])
           v == Visible(order[s])
<1>1. /\ s \in live /\ order[s].side = Opposite(req.side)
      /\ pc = "match" /\ Crosses
  BY ExecuteShape
<1>2. InFlight = {} /\ best[Opposite(req.side)] # NPos
  BY <1>1 DEF InFlight, Crosses
<1>3. PT!Eligible = {Visible(order[t]) : t \in {u \in live : Accepted(u)}}
  BY <1>1, <1>2, EligibleIs DEF EngineInv
<1>4. req.side \in Sides /\ req.type \in {"LIMIT", "MARKET"}
  BY DEF EngineInv, BookInv, BookTypeOK, Request
<1>5. \A t \in live : order[t].side = Opposite(req.side) =>
        /\ order[s].price = Touch
        /\ t # s => ServedBefore(order[s], order[t])
  BY <1>1, <1>2, TouchHeadFirst
<1>6. Accepted(s)
  <2>1. order[s].price = Touch
    BY <1>1, <1>5
  <2>2. Touch \in Nat /\ req.price \in Nat
    BY <1>1, <2>1, InputAssumption DEF EngineInv, BookInv, BookTypeOK, Order, Request
  <2> HIDE DEF s
  <2> QED BY <1>1, <1>4, <2>1, <2>2 DEF Accepted, Crosses, Opposite, Sides
<1> HIDE DEF s
<1>7. v \in PT!Eligible
  BY <1>1, <1>3, <1>6
<1>8. ASSUME NEW p \in PT!Eligible \ {v} PROVE PT!Before(v, p)
  <2>1. PICK t \in live : Accepted(t) /\ p = Visible(order[t])
    BY <1>3
  <2>2. t # s
    BY <1>8, <2>1
  <2>3. order[t].side = Opposite(req.side)
    BY <1>4, <2>1 DEF Accepted, Opposite, Sides, EngineInv, BookInv, BookTypeOK, Order
  <2>4. ServedBefore(order[s], order[t])
    BY <1>5, <2>2, <2>3
  <2>5. /\ v.side = order[s].side /\ v.price = order[s].price /\ v.seq = order[s].seq
        /\ p.price = order[t].price /\ p.seq = order[t].seq
    BY <2>1 DEF Visible
  <2> QED BY <2>4, <2>5 DEF PT!Before, ServedBefore
<1> QED BY <1>7, <1>8 DEF s

\* An execution is a trade of the price-time book.
LEMMA PTTrades ==
  ASSUME EngineInv, EngineInv', Covered, Execute
  PROVE  PT!Trade
<1> DEFINE s == Head(queue[Opposite(req.side)][best[Opposite(req.side)]])
           v == Visible(order[s])
           qty == Smaller(req.rem, order[s].rem)
<1>1. /\ s \in live /\ order[s].side = Opposite(req.side)
      /\ order[s].level = best[Opposite(req.side)]
      /\ pc = "match" /\ Crosses /\ qty \in Nat /\ qty <= order[s].rem
      /\ out' = Append(out, [incoming |-> req.id, resting |-> order[s].id,
                             price |-> order[s].price, qty |-> qty])
      /\ seqno' = seqno
      /\ \/ /\ order[s].rem = qty /\ RemoveOrder(s, 0)
            /\ req' = [req EXCEPT !.rem = @ - qty]
            /\ UNCHANGED <<pc, slot, result>>
         \/ /\ qty < order[s].rem /\ Shrink(s, qty)
            /\ CanReduceTotal(s, qty)
            /\ req' = [req EXCEPT !.rem = @ - qty]
            /\ UNCHANGED <<pc, slot, result>>
         \/ ~CanReduceTotal(s, qty)
  BY ExecuteShape, Zenon
<1>2. v \in PT!Eligible /\ \A p \in PT!Eligible \ {v} : PT!Before(v, p)
  BY PTEntitled
<1>3. order[s].rem \in Nat /\ req.rem \in Nat /\ req \in Request /\ order[s] \in Order
  <2> HIDE DEF s, qty
  <2>1. req \in Request /\ s \in Slots /\ order[s] \in Order
    BY <1>1 DEF EngineInv, BookInv, BookTypeOK
  <2> QED BY <2>1, InputAssumption DEF Order, Request, Quantities
<1>4. qty = IF order[s].rem <= req.rem THEN order[s].rem ELSE req.rem
  <2> HIDE DEF s
  <2> QED BY <1>3 DEF Smaller
<1> HIDE DEF s, qty
<1>5. CanReduceTotal(s, qty)
  <2>1. CanReduceTotal(s, order[s].rem)
    <3>1. index[order[s].id] = s /\ order[s].id \in OrderIds /\ s # NULL
      BY <1>1, NameAssumption DEF EngineInv, BookInv, IndexMatchesPool, InFlight, BookTypeOK
    <3> QED BY <3>1, NoErrorNow DEF NoInternalError
  <2>2. total[order[s].side][order[s].level] \in Nat
    <3>1. s \in live \ Unlinked
      BY <1>1 DEF Unlinked
    <3>2. order[s].side \in Sides /\ order[s].level \in Levels
      BY <3>1, LinkedOrder DEF EngineInv, BookInv
    <3> QED BY <3>2, InputAssumption DEF EngineInv, BookInv, BookTypeOK, Quantities
  <2> QED BY <1>1, <1>3, <2>1, <2>2 DEF CanReduceTotal
<1>6. /\ req' = [req EXCEPT !.rem = @ - qty] /\ pc' = "match"
      /\ (order[s].rem = qty /\ RemoveOrder(s, 0)) \/ (qty < order[s].rem /\ Shrink(s, qty))
  BY <1>1, <1>5
<1>7. v.rem = order[s].rem /\ v.id = order[s].id /\ v.price = order[s].price
  BY DEF Visible
<1>8. VisibleBook' = (VisibleBook \ {v}) \cup
        (IF qty = v.rem THEN {} ELSE {[v EXCEPT !.rem = @ - qty]})
  <2>1. CASE order[s].rem = qty /\ RemoveOrder(s, 0)
    <3>1. VisibleBook' = VisibleBook \ {Visible(order[s])}
      BY <1>1, <1>6, <2>1, PTRemoves
    <3> QED BY <1>7, <2>1, <3>1
  <2>2. CASE qty < order[s].rem /\ Shrink(s, qty)
    <3>1. VisibleBook' = (VisibleBook \ {v}) \cup
            {[v EXCEPT !.rem = order[s].rem - qty]}
      BY <1>1, <1>6, <2>2, PTShrinks
    <3>2. qty # v.rem
      BY <1>1, <1>3, <1>7, <2>2
    <3>3. [v EXCEPT !.rem = order[s].rem - qty] = [v EXCEPT !.rem = @ - qty]
      BY <1>7
    <3> QED BY <3>1, <3>2, <3>3
  <2> QED BY <1>6, <2>1, <2>2
<1>9. /\ IncomingOrder # NULL /\ IncomingOrder.rem = req.rem /\ req.rem > 0
      /\ IncomingOrder.id = req.id
  BY <1>1, IncomingIs DEF EngineInv, BookInv, Crosses
<1>10. IncomingOrder' = [IncomingOrder EXCEPT !.rem = @ - qty]
  <2>1. /\ req'.id = req.id /\ req'.side = req.side /\ req'.type = req.type
        /\ req'.price = req.price /\ req'.orig = req.orig
        /\ req'.rem = req.rem - qty /\ req'.seq = req.seq
    BY <1>3, <1>6 DEF Request
  <2> QED BY <1>1, <1>6, <2>1 DEF IncomingOrder
<1>11. LastFailed' = LastFailed
  BY <1>1, <1>6 DEF LastFailed
<1>12. out' = Append(out, [incoming |-> IncomingOrder.id, resting |-> v.id,
                           price |-> v.price, qty |-> qty])
  BY <1>1, <1>7, <1>9
<1>13. qty = IF v.rem <= IncomingOrder.rem THEN v.rem ELSE IncomingOrder.rem
  BY <1>4, <1>7, <1>9
<1>14. IncomingOrder.rem > 0 /\ seqno' = seqno
  BY <1>1, <1>9
<1> HIDE DEF v
<1> QED BY <1>2, <1>8, <1>9, <1>10, <1>11, <1>12, <1>13, <1>14 DEF PT!Trade

\* A step of an insertion or of its rollback.
LEMMA PTInserts ==
  ASSUME EngineInv, EngineInv', InsertionInv, InsertRemainder
  PROVE  PT!Fail \/ PT!Complete \/ UNCHANGED PT!ptVars
<1>0. /\ BookInv /\ order \in [Slots -> Order] /\ live \subseteq Slots
      /\ UNCHANGED <<out, seqno>>
  BY DEF EngineInv, BookInv, BookTypeOK, InsertRemainder
<1>1. CASE Allocate
  <2>1. PICK s \in Slots \ live : order' = [order EXCEPT ![s] = NewOrder(req)]
    BY <1>1 DEF Allocate
  <2>2. \A t \in live : order'[t] = order[t]
    BY <1>0, <2>1
  <2>3. VisibleBook' = VisibleBook
    BY <1>0, <1>1, <2>2, SameBook DEF Allocate
  <2> QED BY <1>0, <1>1, <2>3, PTSilent DEF Allocate
<1>2. CASE AllocateFails
  <2>1. VisibleBook' = VisibleBook
    BY <1>0, <1>2, SameBook DEF AllocateFails, Return, bookVars
  <2> QED BY <1>0, <1>2, <2>1, PTFails DEF AllocateFails, Return, Finish
<1>3. CASE Link \/ RollbackLevel
  <2>1. /\ \E l : order' = [order EXCEPT ![slot].level = l]
        /\ index' = index /\ req' = req
        /\ pc \in {"link", "unlink"} /\ pc' \in {"index", "release"}
    BY <1>3 DEF Link, RollbackLevel
  <2>2. InFlight = {slot}
    BY <2>1 DEF InFlight
  <2>3. \A t \in live \ InFlight : order'[t] = order[t]
    BY <1>0, <2>1, <2>2
  <2>4. VisibleBook' = VisibleBook
    BY <1>0, <2>1, <2>3, SameBook
  <2> QED BY <1>0, <2>1, <2>4, PTSilent
<1>4. CASE LinkThrows \/ AddToIndexThrows
  <2>1. UNCHANGED bookVars /\ req' = req /\ pc # "idle" /\ pc' # "idle"
    BY <1>4 DEF LinkThrows, AddToIndexThrows
  <2>2. VisibleBook' = VisibleBook
    BY <1>0, <2>1, SameBook DEF bookVars
  <2> QED BY <1>0, <2>1, <2>2, PTSilent
<1>5. CASE AddToIndex
  BY <1>0, <1>5, PTRests
<1>6. CASE RollbackPool
  <2>1. /\ order' = [order EXCEPT ![slot] = Blank] /\ index' = index
        /\ pc = "release" /\ pc' = "idle" /\ result' = result
    BY <1>6 DEF RollbackPool, Release, Finish
  <2>2. InFlight = {slot}
    BY <2>1 DEF InFlight
  <2>3. \A t \in live \ InFlight : order'[t] = order[t]
    BY <1>0, <2>1, <2>2
  <2>4. VisibleBook' = VisibleBook
    BY <1>0, <2>1, <2>3, SameBook
  <2>5. result' \notin {"ok", "absent"}
    BY <2>1 DEF InsertionInv
  <2> QED BY <1>0, <2>1, <2>4, <2>5, PTFails
<1> QED BY <1>1, <1>2, <1>3, <1>4, <1>5, <1>6 DEF InsertRemainder, InsertStep

\* A NEW, CANCEL or REDUCE event when it arrives.
LEMMA PTEvents ==
  ASSUME EngineInv, EngineInv', Covered
  PROVE  /\ \A r \in Requests : ProcessNew(r) => PT!PTNext
         /\ \A id \in AnyId : ProcessCancel(id) => PT!PTNext
         /\ \A id \in AnyId, target \in Quantities :
              ProcessReduce(id, target) => PT!PTNext
<1>1. ASSUME NEW r \in Requests, ProcessNew(r) PROVE PT!PTNext
  <2>1. pc = "idle" /\ out' = <<>>
    BY <1>1 DEF ProcessNew
  <2>2. CASE \E outcome : RejectNew(outcome)
    <3>1. PT!NoEffect
      BY <2>1, <2>2, PTNoEffect DEF RejectNew
    <3> QED BY <3>1 DEF PT!PTNext
  <2>3. CASE /\ ValidNew(r) /\ index[r.id] = NULL /\ seqno # MaxSequence
             /\ AcceptNew(r, seqno + 1)
    <3>1. r.id \in OrderIds
      BY <2>3, RequestAssumption DEF ValidNew, Request, AnyId
    <3>2. PT!Accept(r)
      BY <2>1, <2>3, <3>1, PTAccepts
    <3> QED BY <3>2 DEF PT!PTNext
  <2> QED BY <1>1, <2>2, <2>3 DEF ProcessNew
<1>2. ASSUME NEW id \in AnyId, ProcessCancel(id) PROVE PT!PTNext
  <2>1. pc = "idle" /\ out' = <<>> /\ seqno' = seqno
    BY <1>2 DEF ProcessCancel
  <2>2. CASE \E outcome : Return(outcome)
    <3>1. PT!NoEffect
      BY <2>1, <2>2, PTNoEffect
    <3> QED BY <3>1 DEF PT!PTNext
  <2>3. CASE /\ id \in OrderIds /\ index[id] # NULL
             /\ RemoveOrder(index[id], order[index[id]].rem) /\ Finish("ok")
    <3>1. PT!Cancel(id)
      BY <2>1, <2>3, PTCancels
    <3> QED BY <2>3, <3>1 DEF PT!PTNext
  <2> QED BY <1>2, <2>2, <2>3 DEF ProcessCancel, CancelOrder, AnyId
<1>3. ASSUME NEW id \in AnyId, NEW target \in Quantities, ProcessReduce(id, target)
      PROVE  PT!PTNext
  <2>1. pc = "idle" /\ out' = <<>> /\ seqno' = seqno
    BY <1>3 DEF ProcessReduce
  <2>2. CASE \E outcome : Return(outcome)
    <3>1. PT!NoEffect
      BY <2>1, <2>2, PTNoEffect
    <3> QED BY <3>1 DEF PT!PTNext
  <2> DEFINE s == index[id]
             amount == order[s].rem - target
  <2>3. CASE /\ id \in OrderIds /\ s # NULL
             /\ target # 0 /\ ~(target > order[s].rem) /\ target # order[s].rem
             /\ Shrink(s, amount)
             /\ Finish(IF CanReduceTotal(s, amount) THEN "ok" ELSE "invalid_argument")
    <3>1. s \in live /\ order[s].rem \in Quantities
      BY <2>3 DEF EngineInv, BookInv, IndexMatchesPool, BookTypeOK, Order
    <3>2. target < order[s].rem
      BY <2>3, <3>1, InputAssumption DEF Quantities
    <3>3. PT!Reduce(id)
      BY <2>1, <2>3, <3>2, PTReduces
    <3> QED BY <2>3, <3>3 DEF PT!PTNext
  <2> QED BY <1>3, <2>2, <2>3 DEF ProcessReduce, ReduceOrder, AnyId
<1> QED BY <1>1, <1>2, <1>3

\* Every step of the engine is a step of the price-time book, or invisible.
LEMMA PTStep ==
  ASSUME EngineInv, Covered, InsertionInv, [Next]_vars
  PROVE  PT!PTNext \/ UNCHANGED PT!ptVars
<1>0. EngineInv'
  BY EngineNextInv
<1>1. CASE \/ \E r \in Requests : ProcessNew(r)
           \/ \E id \in AnyId : ProcessCancel(id)
           \/ \E id \in AnyId, target \in Quantities : ProcessReduce(id, target)
  BY <1>0, <1>1, PTEvents
<1>2. CASE Execute
  BY <1>0, <1>2, PTTrades DEF PT!PTNext
<1>3. CASE ExecuteThrows
  <2>1. VisibleBook' = VisibleBook
    BY <1>3, SameBook DEF EngineInv, ExecuteThrows, Return, bookVars
  <2>2. PT!Fail
    BY <1>0, <1>3, <2>1, PTFails DEF ExecuteThrows, Return, Finish
  <2> QED BY <2>2 DEF PT!PTNext
<1>4. CASE EndMatching
  <2>1. pc = "match" /\ ~Crosses /\ UNCHANGED <<out, seqno>>
    BY <1>4 DEF EndMatching
  <2>2. CASE req.rem > 0 /\ req.type = "LIMIT"
    <3>1. pc' = "alloc" /\ req' = req /\ UNCHANGED bookVars
      BY <1>4, <2>2 DEF EndMatching
    <3>2. VisibleBook' = VisibleBook
      BY <3>1, SameBook DEF EngineInv, bookVars
    <3> QED BY <2>1, <3>1, <3>2, PTSilent
  <2>3. CASE ~(req.rem > 0 /\ req.type = "LIMIT")
    <3>1. Return("ok")
      BY <1>4, <2>3 DEF EndMatching
    <3> QED BY <2>1, <2>3, <3>1, PTEnds DEF PT!PTNext
  <2> QED BY <2>2, <2>3
<1>5. CASE InsertRemainder
  BY <1>0, <1>5, PTInserts DEF PT!PTNext
<1>6. CASE OtherEngineGenerates
  <2>1. /\ IncomingOrder = NULL /\ IncomingOrder' = NULL
        /\ LastFailed' = LastFailed /\ VisibleBook' = VisibleBook
    BY <1>6 DEF OtherEngineGenerates, IncomingOrder, LastFailed, VisibleBook,
                bookVars, callVars
  <2>2. PT!Skip
    BY <1>6, <2>1 DEF PT!Skip, OtherEngineGenerates
  <2> QED BY <2>2 DEF PT!PTNext
<1>7. CASE UNCHANGED vars
  BY <1>7 DEF vars, bookVars, callVars, PT!ptVars, VisibleBook, IncomingOrder, LastFailed
<1> QED BY <1>1, <1>2, <1>3, <1>4, <1>5, <1>6, <1>7 DEF Next, EngineStep

\* Whatever happens inside an event, what a caller sees of the engine is a behaviour
\* of the price-time book: a failing event loses nothing but the rest of its own
\* incoming order.
THEOREM EngineRefinesPriceTimeBook == Spec => ImplementsPriceTimeBook
<1>1. Init => PT!PTInit
  BY DEF Init, BookInit, PT!PTInit, VisibleBook, IncomingOrder, LastFailed
<1>2. Init => InsertionInv
  BY DEF Init, BookInit, InsertionInv
<1>3. EngineInv /\ InsertionInv /\ [Next]_vars => InsertionInv'
  BY InsertionStep
<1>4. EngineInv /\ Covered /\ InsertionInv /\ [Next]_vars => [PT!PTNext]_(PT!ptVars)
  BY PTStep
<1> QED
  BY <1>1, <1>2, <1>3, <1>4, EngineInvariant, EngineAggregateCovers, PTL
     DEF Spec, ImplementsPriceTimeBook, PT!PTSpec
=============================================================================

------------------------ MODULE ThreadedReplayProofs ------------------------
(***************************************************************************)
(* Proofs about SpscEventQueue, for every capacity and every cursor range  *)
(* that is a multiple of it: the invariants, and that it implements a      *)
(* bounded FIFO.  Then about the two threads of the replay that use it,    *)
(* for any number of events.                                               *)
(***************************************************************************)
EXTENDS ThreadedReplay, SequenceTheorems, TLAPS


(***************************************************************************)
(* Remainders.                                                             *)
(***************************************************************************)
\* The range of the cursors is at least twice the ring.
LEMMA ModulusFacts ==
  /\ Capacity \in Nat /\ 0 < Capacity
  /\ CursorModulus \in Nat /\ 2 * Capacity <= CursorModulus
<1>1. PICK k \in 2 .. CursorModulus : CursorModulus = k * Capacity
  BY CapacityAssumption
<1>2. k \in Nat /\ 2 <= k /\ Capacity \in Nat /\ 0 < Capacity
  BY CapacityAssumption
<1>3. 2 * Capacity <= k * Capacity
  BY <1>2, SMT
<1> QED
  BY <1>1, <1>2, <1>3, CapacityAssumption

\* The remainder of a number below twice the modulus is the number itself or the
\* number less the modulus: cursor arithmetic wraps at most once.
LEMMA ModOnce ==
  ASSUME NEW m \in Nat, 0 < m, NEW x \in 0 .. 2 * m - 1
  PROVE  (x < m => x % m = x) /\ (m <= x => x % m = x - m)
<1>1. CASE x < m
  BY <1>1, SMT
<1>2. CASE m <= x
  BY <1>2, SMT
<1> QED
  BY <1>1, <1>2

\* A slot number is below the capacity.
LEMMA ModRange ==
  ASSUME NEW m \in Nat, 0 < m, NEW x \in Nat
  PROVE  x % m \in 0 .. m - 1
  BY SMT

\* A smaller quotient leaves room for a whole modulus.
LEMMA TimesMonotone ==
  ASSUME NEW m \in Nat, NEW p \in Nat, NEW q \in Nat, p < q
  PROVE  p * m + m <= q * m
<1>1. (p + 1) * m <= q * m
  BY SMT
<1>2. (p + 1) * m = p * m + m
  BY SMT
<1> QED
  BY <1>1, <1>2

\* Quotient and remainder determine each other.
LEMMA ModUnique ==
  ASSUME NEW m \in Nat, 0 < m, NEW q \in Nat, NEW r \in 0 .. m - 1
  PROVE  (q * m + r) % m = r
<1> DEFINE x == q * m + r
<1> DEFINE p == x \div m
<1> DEFINE s == x % m
<1>1. q * m \in Nat /\ x \in Nat
  BY SMT
<1>2. p \in Nat /\ s \in 0 .. m - 1 /\ x = p * m + s /\ p * m \in Nat
  BY <1>1, SMT
<1> HIDE DEF p, s
<1>3. ~(p < q)
  <2> SUFFICES ASSUME p < q PROVE FALSE
    OBVIOUS
  <2>1. p * m + m <= q * m
    BY <1>2, TimesMonotone
  <2> QED
    BY <2>1, <1>1, <1>2
<1>4. ~(q < p)
  <2> SUFFICES ASSUME q < p PROVE FALSE
    OBVIOUS
  <2>1. q * m + m <= p * m
    BY <1>2, TimesMonotone
  <2> QED
    BY <2>1, <1>1, <1>2
<1>5. p = q
  BY <1>2, <1>3, <1>4
<1>6. s = r
  BY <1>1, <1>2, <1>5
<1> QED
  BY <1>6 DEF s

\* Adding multiples of the modulus does not change the remainder.
LEMMA ModPeriod ==
  ASSUME NEW m \in Nat, 0 < m, NEW x \in Nat, NEW k \in Nat
  PROVE  (x + k * m) % m = x % m
<1> DEFINE q == x \div m
<1> DEFINE r == x % m
<1>1. q \in Nat /\ r \in 0 .. m - 1 /\ x = q * m + r
  BY SMT
<1> HIDE DEF q, r
<1>2. x + k * m = (q + k) * m + r
  BY <1>1, SMT
<1>3. q + k \in Nat
  BY <1>1
<1>4. ((q + k) * m + r) % m = r
  BY <1>1, <1>3, ModUnique
<1> QED
  BY <1>2, <1>4 DEF r

\* Two numbers less than the modulus apart have different remainders.
LEMMA ModApart ==
  ASSUME NEW m \in Nat, 0 < m, NEW x \in Nat, NEW y \in Nat, x < y, y < x + m
  PROVE  x % m # y % m
<1> DEFINE q == x \div m
<1> DEFINE r == x % m
<1> DEFINE d == y - x
<1>1. q \in Nat /\ r \in 0 .. m - 1 /\ x = q * m + r /\ q * m \in Nat
  BY SMT
<1>2. d \in 1 .. m - 1 /\ y = x + d
  OBVIOUS
<1> HIDE DEF q, r, d
<1>3. CASE r + d < m
  <2>1. y = q * m + (r + d) /\ r + d \in 0 .. m - 1
    BY <1>1, <1>2, <1>3
  <2>2. y % m = r + d
    BY <1>1, <2>1, ModUnique
  <2> QED
    BY <2>2, <1>1, <1>2 DEF r
<1>4. CASE m <= r + d
  <2>1. (q + 1) * m = q * m + m
    BY <1>1, SMT
  <2>2. y = (q + 1) * m + (r + d - m) /\ r + d - m \in 0 .. m - 1
    BY <1>1, <1>2, <1>4, <2>1
  <2>3. y % m = r + d - m
    BY <1>1, <2>2, q + 1 \in Nat, ModUnique
  <2> QED
    BY <2>3, <1>1, <1>2 DEF r
<1> QED
  BY <1>1, <1>2, <1>3, <1>4
-----------------------------------------------------------------------------
(***************************************************************************)
(* Cursors and slots.                                                      *)
(***************************************************************************)
\* Succ and Distance of SpscEventQueue without remainders: the unsigned
\* subtraction of two cursors counts forward from one to the other, past zero.
LEMMA CursorForms ==
  /\ \A a, b \in Cursors :
       /\ Distance(a, b) = IF a <= b THEN b - a ELSE b + CursorModulus - a
       /\ Distance(a, b) \in Cursors
  /\ \A a \in Cursors :
       /\ Succ(a) = IF a + 1 < CursorModulus THEN a + 1 ELSE 0
       /\ Succ(a) \in Cursors
<1> DEFINE M == CursorModulus
<1>0. M \in Nat /\ 2 <= M /\ 0 < M
  BY ModulusFacts
<1>a. \A x \in 0 .. 2 * M - 1 :
        (x < M => x % M = x) /\ (M <= x => x % M = x - M)
  BY <1>0, ModOnce
<1>1. ASSUME NEW a \in Cursors, NEW b \in Cursors
      PROVE  /\ Distance(a, b) = IF a <= b THEN b - a ELSE b + M - a
             /\ Distance(a, b) \in Cursors
  <2>1. b + M - a \in 0 .. 2 * M - 1
    BY <1>0 DEF Cursors
  <2>2. PICK x \in 0 .. 2 * M - 1 : x = b + M - a
    BY <2>1
  <2>3. Distance(a, b) = x % M
    BY <2>2 DEF Distance
  <2>4. (x < M => x % M = x) /\ (M <= x => x % M = x - M)
    BY <1>a
  <2>5. Distance(a, b) = IF a <= b THEN b - a ELSE b + M - a
    BY <2>2, <2>3, <2>4, <1>0 DEF Cursors
  <2> QED
    BY <2>5, <1>0 DEF Cursors
<1>2. ASSUME NEW a \in Cursors
      PROVE  /\ Succ(a) = IF a + 1 < M THEN a + 1 ELSE 0
             /\ Succ(a) \in Cursors
  <2>1. a + 1 \in 0 .. 2 * M - 1
    BY <1>0 DEF Cursors
  <2>2. PICK x \in 0 .. 2 * M - 1 : x = a + 1
    BY <2>1
  <2>3. Succ(a) = x % M
    BY <2>2 DEF Succ
  <2>4. (x < M => x % M = x) /\ (M <= x => x % M = x - M)
    BY <1>a
  <2>5. Succ(a) = IF a + 1 < M THEN a + 1 ELSE 0
    BY <2>2, <2>3, <2>4, <1>0 DEF Cursors
  <2> QED
    BY <2>5, <1>0 DEF Cursors
<1> QED
  BY <1>1, <1>2

\* What one store to a cursor does to the distance on either side of it.
LEMMA DistanceFacts ==
  ASSUME NEW a \in Cursors, NEW b \in Cursors
  PROVE  /\ Distance(a, b) \in Nat
         /\ Distance(a, b) = 0 <=> a = b
         /\ Distance(a, b) + 1 < CursorModulus =>
              Distance(a, Succ(b)) = Distance(a, b) + 1
         /\ a # b => Distance(Succ(a), b) = Distance(a, b) - 1
<1> DEFINE M == CursorModulus
<1> DEFINE d == Distance(a, b)
<1>0. M \in Nat /\ 2 <= M /\ a \in 0 .. M - 1 /\ b \in 0 .. M - 1
  BY ModulusFacts DEF Cursors
<1>1. d = IF a <= b THEN b - a ELSE b + M - a
  BY CursorForms
<1>2. /\ Succ(a) = IF a + 1 < M THEN a + 1 ELSE 0
      /\ Succ(b) = IF b + 1 < M THEN b + 1 ELSE 0
  BY CursorForms
<1>3. Succ(a) \in Cursors /\ Succ(b) \in Cursors
  BY CursorForms
<1>4. /\ Distance(a, Succ(b))
           = IF a <= Succ(b) THEN Succ(b) - a ELSE Succ(b) + M - a
      /\ Distance(Succ(a), b)
           = IF Succ(a) <= b THEN b - Succ(a) ELSE b + M - Succ(a)
  BY <1>3, CursorForms
<1>5. d \in Nat /\ (d = 0 <=> a = b)
  BY <1>0, <1>1
<1>6. ASSUME d + 1 < M PROVE Distance(a, Succ(b)) = d + 1
  BY <1>0, <1>1, <1>2, <1>4, <1>6
<1>7. ASSUME a # b PROVE Distance(Succ(a), b) = d - 1
  BY <1>0, <1>1, <1>2, <1>4, <1>7
<1> QED
  BY <1>5, <1>6, <1>7

\* Distances add up along the ring as long as they do not go all the way round.
LEMMA DistanceVia ==
  ASSUME NEW a \in Cursors, NEW b \in Cursors, NEW c \in Cursors,
         Distance(a, b) + Distance(b, c) < CursorModulus
  PROVE  Distance(a, c) = Distance(a, b) + Distance(b, c)
<1> DEFINE M == CursorModulus
<1>0. /\ M \in Nat /\ 2 <= M
      /\ a \in 0 .. M - 1 /\ b \in 0 .. M - 1 /\ c \in 0 .. M - 1
  BY ModulusFacts DEF Cursors
<1>1. /\ Distance(a, b) = IF a <= b THEN b - a ELSE b + M - a
      /\ Distance(b, c) = IF b <= c THEN c - b ELSE c + M - b
      /\ Distance(a, c) = IF a <= c THEN c - a ELSE c + M - a
  BY CursorForms
<1> QED
  BY <1>0, <1>1

\* A stale value of a cursor lies between the last one seen and the current one.
LEMMA VisibleFacts ==
  ASSUME NEW last \in Cursors, NEW current \in Cursors,
         NEW seen \in Visible(last, current)
  PROVE  /\ seen \in Cursors
         /\ Distance(last, seen) + Distance(seen, current)
              = Distance(last, current)
<1> DEFINE M == CursorModulus
<1>0. M \in Nat /\ 2 <= M /\ 0 < M
  BY ModulusFacts
<1>1. PICK k \in 0 .. Distance(last, current) : seen = (last + k) % M
  BY DEF Visible
<1>2. k \in Nat /\ k <= Distance(last, current) /\ k < M
  BY CursorForms, <1>0 DEF Cursors
<1>3. last + k \in 0 .. 2 * M - 1
  BY <1>0, <1>2 DEF Cursors
<1>4. PICK x \in 0 .. 2 * M - 1 : x = last + k
  BY <1>3
<1>a. (x < M => seen = x) /\ (M <= x => seen = x - M)
  BY <1>0, <1>1, <1>4, ModOnce
<1>5. seen \in Cursors
  BY <1>0, <1>2, <1>4, <1>a DEF Cursors
<1>b. /\ Distance(last, current) = IF last <= current THEN current - last
                                   ELSE current + M - last
      /\ Distance(last, seen) = IF last <= seen THEN seen - last
                                ELSE seen + M - last
      /\ Distance(seen, current) = IF seen <= current THEN current - seen
                                   ELSE current + M - seen
  BY <1>5, CursorForms
<1>6. Distance(last, seen) = k
  BY <1>0, <1>2, <1>4, <1>a, <1>b DEF Cursors
<1>7. Distance(seen, current) = Distance(last, current) - k
  BY <1>0, <1>2, <1>4, <1>a, <1>b DEF Cursors
<1> QED
  BY <1>2, <1>5, <1>6, <1>7, DistanceFacts

\* Slots: numbered below the capacity, unchanged when a cursor wraps, different
\* within one ring length.
LEMMA SlotFacts ==
  /\ \A x \in Nat : SlotOf(x) \in 0 .. Capacity - 1
  /\ \A x \in Nat : SlotOf(x + CursorModulus) = SlotOf(x)
  /\ \A x, y \in Nat : x < y /\ y < x + Capacity => SlotOf(x) # SlotOf(y)
<1>1. \A x \in Nat : SlotOf(x) \in 0 .. Capacity - 1
  BY ModulusFacts, ModRange DEF SlotOf
<1>2. ASSUME NEW x \in Nat PROVE SlotOf(x + CursorModulus) = SlotOf(x)
  <2>1. PICK k \in 2 .. CursorModulus : CursorModulus = k * Capacity
    BY CapacityAssumption
  <2>2. k \in Nat
    BY CapacityAssumption
  <2>3. (x + k * Capacity) % Capacity = x % Capacity
    BY <2>2, ModPeriod, ModulusFacts
  <2> QED
    BY <2>1, <2>3 DEF SlotOf
<1>3. ASSUME NEW x \in Nat, NEW y \in Nat, x < y, y < x + Capacity
      PROVE  SlotOf(x) # SlotOf(y)
  BY <1>3, ModApart, ModulusFacts DEF SlotOf
<1> QED
  BY <1>1, <1>2, <1>3

\* Counting from one cursor to another ends at the other's slot, wrapped or not.
LEMMA SlotOfCursors ==
  ASSUME NEW a \in Cursors, NEW b \in Cursors
  PROVE  SlotOf(a + Distance(a, b)) = SlotOf(b)
<1>0. Distance(a, b) = IF a <= b THEN b - a ELSE b + CursorModulus - a
  BY CursorForms
<1>1. a + Distance(a, b) = b \/ a + Distance(a, b) = b + CursorModulus
  BY <1>0, ModulusFacts DEF Cursors
<1> QED
  BY <1>1, SlotFacts DEF Cursors

\* The slots ahead of an advanced cursor are those ahead of it before, but for the
\* first.
LEMMA SlotOfSucc ==
  ASSUME NEW a \in Cursors, NEW k \in Nat
  PROVE  SlotOf(Succ(a) + k) = SlotOf(a + k + 1)
<1>0. Succ(a) = IF a + 1 < CursorModulus THEN a + 1 ELSE 0
  BY CursorForms
<1>1. CASE Succ(a) = a + 1
  <2>1. Succ(a) + k = a + k + 1
    BY <1>1 DEF Cursors
  <2> QED
    BY <2>1
<1>2. CASE Succ(a) # a + 1
  <2>1. a + k + 1 = (Succ(a) + k) + CursorModulus /\ Succ(a) + k \in Nat
    BY <1>0, <1>2, ModulusFacts DEF Cursors
  <2> QED
    BY <2>1, SlotFacts
<1> QED
  BY <1>1, <1>2
-----------------------------------------------------------------------------
(***************************************************************************)
(* The inductive invariant: types and cursors.                             *)
(***************************************************************************)
\* What the two running calls hold: tryPush its argument, once constructed also in
\* the slot at the tail; tryPop the event it took from the slot at the head.
CallsMatch ==
  /\ ppc # "idle" => event \in Events
  /\ ppc = "publish" => storage[SlotOf(tail)] = event
  /\ cpc = "destroy" => out = storage[SlotOf(head)]
  /\ cpc \in {"destroy", "publish"} => out \in Events
  /\ destroyed => ppc = "idle" /\ cpc = "idle"

\* The inductive invariant of the queue.
QueueInv == QueueTypeOK /\ CursorsOrdered /\ SlotsExact /\ CallsMatch

\* Each thread's view splits the distance between the cursors in two.
LEMMA CursorSums ==
  ASSUME QueueTypeOK, CursorsOrdered
  PROVE  /\ Distance(head, tail) \in 0 .. Capacity
         /\ Distance(cachedHead, head) \in Nat
         /\ Distance(head, cachedTail) \in Nat
         /\ Distance(cachedTail, tail) \in Nat
         /\ Distance(cachedHead, tail)
              = Distance(cachedHead, head) + Distance(head, tail)
         /\ Distance(head, tail)
              = Distance(head, cachedTail) + Distance(cachedTail, tail)
         /\ head # cachedTail => 0 < Distance(head, tail)
<1> USE DEF QueueTypeOK
<1>1. /\ Distance(head, tail) \in Nat
      /\ Distance(cachedHead, head) \in Nat
      /\ Distance(head, cachedTail) \in Nat
      /\ Distance(cachedTail, tail) \in Nat
      /\ head # cachedTail => Distance(head, cachedTail) # 0
  BY DistanceFacts
<1>2. Distance(cachedHead, head) + Distance(head, tail) < CursorModulus
  BY <1>1, ModulusFacts DEF CursorsOrdered
<1>3. Distance(head, cachedTail) + Distance(cachedTail, tail) < CursorModulus
  BY <1>1, ModulusFacts DEF CursorsOrdered
<1>4. Distance(cachedHead, tail)
        = Distance(cachedHead, head) + Distance(head, tail)
  BY <1>2, DistanceVia
<1>5. Distance(head, tail)
        = Distance(head, cachedTail) + Distance(cachedTail, tail)
  BY <1>3, DistanceVia
<1>6. Distance(head, tail) <= Capacity
  BY DEF CursorsOrdered
<1> QED
  BY <1>1, <1>4, <1>5, <1>6, ModulusFacts

\* Every step of the queue keeps its types.
LEMMA TypeStep ==
  ASSUME QueueTypeOK, QueueNext
  PROVE  QueueTypeOK'
<1> USE DEF QueueTypeOK, producerVars, consumerVars
<1>0. SlotOf(head) \in 0 .. Capacity - 1 /\ SlotOf(tail) \in 0 .. Capacity - 1
  BY SlotFacts DEF Cursors
<1>1. ASSUME NEW e \in Events, TryPush(e) PROVE QueueTypeOK'
  BY <1>1 DEF TryPush
<1>2. ASSUME NEW seen \in Cursors, RefreshHead(seen) PROVE QueueTypeOK'
  BY <1>2 DEF RefreshHead
<1>3. ASSUME NEW seen \in Cursors, RefreshTail(seen) PROVE QueueTypeOK'
  BY <1>3 DEF RefreshTail
<1>4. CASE Construct
  BY <1>0, <1>4 DEF Construct
<1>5. CASE PublishTail
  BY <1>5, CursorForms DEF PublishTail
<1>6. CASE TryPop
  BY <1>6 DEF TryPop
<1>7. CASE Take
  BY <1>0, <1>7 DEF Take
<1>8. CASE DestroyEvent
  BY <1>0, <1>8 DEF DestroyEvent
<1>9. CASE PublishHead
  BY <1>9, CursorForms DEF PublishHead
<1>10. CASE DestroyQueue
  BY <1>10 DEF DestroyQueue
<1> QED
  BY <1>1, <1>2, <1>3, <1>4, <1>5, <1>6, <1>7, <1>8, <1>9, <1>10 DEF QueueNext

\* Every step keeps the cursors ordered: a thread acts only on a view of the other
\* cursor that understates the room or the events there are.
LEMMA CursorStep ==
  ASSUME QueueTypeOK, CursorsOrdered, QueueNext
  PROVE  CursorsOrdered'
<1> DEFINE d == Distance(head, tail)
           x == Distance(cachedHead, head)
           y == Distance(head, cachedTail)
           z == Distance(cachedTail, tail)
<1>0. /\ d \in 0 .. Capacity /\ x \in Nat /\ y \in Nat /\ z \in Nat
      /\ Distance(cachedHead, tail) = x + d
      /\ d = y + z
      /\ head # cachedTail => 0 < d
      /\ x + d <= Capacity
  BY CursorSums DEF CursorsOrdered
<1>a. Capacity \in Nat /\ CursorModulus \in Nat /\ 2 * Capacity <= CursorModulus
      /\ 0 < Capacity
  BY ModulusFacts
<1>b. /\ head \in Cursors /\ tail \in Cursors
      /\ cachedHead \in Cursors /\ cachedTail \in Cursors
  BY DEF QueueTypeOK
<1>1. ASSUME NEW e \in Events, TryPush(e) PROVE CursorsOrdered'
  <2>1. ~LooksFull(cachedHead) => x + d < Capacity
    BY <1>0, <1>a DEF LooksFull
  <2> QED
    BY <1>1, <2>1 DEF TryPush, CursorsOrdered, consumerVars
<1>2. ASSUME NEW seen \in Cursors, RefreshHead(seen) PROVE CursorsOrdered'
  <2>1. Distance(cachedHead, seen) + Distance(seen, head) = x
    BY <1>2, <1>b, VisibleFacts DEF RefreshHead
  <2>2. Distance(cachedHead, seen) \in Nat /\ Distance(seen, head) \in Nat
    BY <1>b, DistanceFacts
  <2>3. Distance(seen, head) + d <= Capacity
    BY <2>1, <2>2, <1>0, <1>a
  <2>4. Distance(seen, tail) = Distance(seen, head) + d
    <3>1. Distance(seen, head) + d < CursorModulus
      BY <2>2, <2>3, <1>0, <1>a
    <3> QED
      BY <3>1, <1>b, DistanceVia
  <2>5. ~LooksFull(seen) => Distance(seen, head) + d < Capacity
    BY <2>2, <2>4, <1>0, <1>a DEF LooksFull
  <2> QED
    BY <1>2, <2>3, <2>5 DEF RefreshHead, CursorsOrdered, consumerVars
<1>3. ASSUME NEW seen \in Cursors, RefreshTail(seen) PROVE CursorsOrdered'
  <2>1. Distance(cachedTail, seen) + Distance(seen, tail) = z
    BY <1>3, <1>b, VisibleFacts DEF RefreshTail
  <2>2. Distance(cachedTail, seen) \in Nat /\ Distance(seen, tail) \in Nat
    BY <1>b, DistanceFacts
  <2>3. Distance(head, seen) = y + Distance(cachedTail, seen)
    <3>1. y + Distance(cachedTail, seen) < CursorModulus
      BY <2>1, <2>2, <1>0, <1>a
    <3> QED
      BY <3>1, <1>b, DistanceVia
  <2>4. Distance(head, seen) + Distance(seen, tail) <= Capacity
    BY <2>1, <2>2, <2>3, <1>0, <1>a
  <2> QED
    BY <1>3, <2>4 DEF RefreshTail, CursorsOrdered, producerVars, LooksEmpty
<1>4. CASE Construct
  BY <1>4 DEF Construct, CursorsOrdered, consumerVars
<1>5. CASE PublishTail
  <2>1. x + d < Capacity
    BY <1>5 DEF PublishTail, CursorsOrdered
  <2>2. Distance(head, Succ(tail)) = d + 1
    BY <2>1, <1>0, <1>a, <1>b, DistanceFacts
  <2>3. Distance(cachedTail, Succ(tail)) = z + 1
    <3>1. z + 1 < CursorModulus
      BY <2>1, <1>0, <1>a
    <3> QED
      BY <3>1, <1>b, DistanceFacts
  <2>4. /\ d + 1 <= Capacity /\ x + (d + 1) <= Capacity
        /\ y + (z + 1) <= Capacity
    BY <2>1, <1>0, <1>a
  <2> QED
    BY <1>5, <2>2, <2>3, <2>4 DEF PublishTail, CursorsOrdered, consumerVars
<1>6. CASE TryPop
  BY <1>6 DEF TryPop, CursorsOrdered, producerVars, LooksEmpty
<1>7. CASE Take
  BY <1>7 DEF Take, CursorsOrdered, producerVars
<1>8. CASE DestroyEvent
  BY <1>8 DEF DestroyEvent, CursorsOrdered, producerVars
<1>9. CASE PublishHead
  <2>1. head # cachedTail
    BY <1>9 DEF PublishHead, CursorsOrdered
  <2>2. head # tail
    BY <2>1, <1>0, <1>b, DistanceFacts
  <2>3. Distance(Succ(head), tail) = d - 1
    BY <2>2, <1>b, DistanceFacts
  <2>4. Distance(Succ(head), cachedTail) = y - 1
    BY <2>1, <1>b, DistanceFacts
  <2>5. Distance(cachedHead, Succ(head)) = x + 1
    <3>1. x + 1 < CursorModulus
      BY <2>1, <1>0, <1>a
    <3> QED
      BY <3>1, <1>b, DistanceFacts
  <2>6. /\ d - 1 <= Capacity /\ (x + 1) + (d - 1) <= Capacity
        /\ (y - 1) + z <= Capacity
        /\ x + d < Capacity => (x + 1) + (d - 1) < Capacity
    BY <1>0, <1>a
  <2> QED
    BY <1>9, <2>3, <2>4, <2>5, <2>6 DEF PublishHead, CursorsOrdered, producerVars
<1>10. CASE DestroyQueue
  BY <1>10 DEF DestroyQueue, CursorsOrdered, producerVars, consumerVars
<1> QED
  BY <1>1, <1>2, <1>3, <1>4, <1>5, <1>6, <1>7, <1>8, <1>9, <1>10 DEF QueueNext
-----------------------------------------------------------------------------
(***************************************************************************)
(* Slots and running calls.                                                *)
(***************************************************************************)
\* Slot i holds an event that is published and not yet popped.
InWindow(i) == \E k \in 0 .. Distance(head, tail) - 1 : i = SlotOf(head + k)

\* Slot i is constructed according to the cursors and the two running calls.
Live(i) ==
  /\ ~destroyed
  /\ InWindow(i) \/ (ppc = "publish" /\ i = SlotOf(tail))
  /\ ~(cpc = "publish" /\ i = SlotOf(head))

\* SlotsExact, slot by slot.
SlotsLive == \A i \in 0 .. Capacity - 1 : storage[i] # Dead <=> Live(i)

\* SlotsExact says of every slot that it is constructed exactly when it is live.
LEMMA SlotsPointwise == QueueTypeOK => (SlotsExact <=> SlotsLive)
<1> SUFFICES ASSUME QueueTypeOK PROVE SlotsExact <=> SlotsLive
  OBVIOUS
<1>1. DOMAIN storage = 0 .. Capacity - 1
  BY DEF QueueTypeOK
<1> DEFINE Should ==
      IF destroyed THEN {}
      ELSE ({SlotOf(head + k) : k \in 0 .. Distance(head, tail) - 1}
              \cup (IF ppc = "publish" THEN {SlotOf(tail)} ELSE {}))
           \ (IF cpc = "publish" THEN {SlotOf(head)} ELSE {})
<1>2. \A i : i \in Should <=> Live(i)
  BY DEF Live, InWindow
<1>3. head \in Nat /\ tail \in Nat
  BY DEF QueueTypeOK, Cursors
<1>4. Should \subseteq 0 .. Capacity - 1
  <2>1. \A k \in 0 .. Distance(head, tail) - 1 : head + k \in Nat
    BY <1>3
  <2>2. \A k \in 0 .. Distance(head, tail) - 1 :
          SlotOf(head + k) \in 0 .. Capacity - 1
    BY <2>1, SlotFacts
  <2>3. SlotOf(tail) \in 0 .. Capacity - 1
    BY <1>3, SlotFacts
  <2> QED
    BY <2>2, <2>3
<1>5. SlotsExact <=> Occupied = Should
  BY DEF SlotsExact
<1> HIDE DEF Should
<1>6. Occupied = {i \in 0 .. Capacity - 1 : storage[i] # Dead}
  BY <1>1 DEF Occupied
<1> QED
  BY <1>2, <1>4, <1>5, <1>6 DEF SlotsLive

\* The published slots: the head's is the first of them, the tail's is none unless
\* the ring is full, and they all differ.
LEMMA WindowFacts ==
  ASSUME QueueTypeOK, CursorsOrdered
  PROVE  /\ SlotOf(head) \in 0 .. Capacity - 1
         /\ SlotOf(tail) \in 0 .. Capacity - 1
         /\ head # cachedTail => InWindow(SlotOf(head))
         /\ Distance(head, tail) < Capacity => ~InWindow(SlotOf(tail))
         /\ head # cachedTail /\ Distance(head, tail) < Capacity =>
              SlotOf(head) # SlotOf(tail)
         /\ SlotOf(head + Distance(head, tail)) = SlotOf(tail)
         /\ \A k \in 1 .. Distance(head, tail) - 1 :
              SlotOf(head + k) # SlotOf(head)
         /\ \A k \in 0 .. Distance(head, tail) - 1 :
              /\ SlotOf(head + k) \in 0 .. Capacity - 1
              /\ Distance(head, tail) < Capacity =>
                   SlotOf(head + k) # SlotOf(tail)
<1> DEFINE d == Distance(head, tail)
<1>1. /\ d \in 0 .. Capacity
      /\ head # cachedTail => 0 < d
      /\ head \in Nat /\ tail \in Nat /\ Capacity \in Nat
  BY CursorSums, ModulusFacts DEF QueueTypeOK, Cursors
<1>2. SlotOf(head + d) = SlotOf(tail)
  BY SlotOfCursors DEF QueueTypeOK
<1>3. SlotOf(head) \in 0 .. Capacity - 1 /\ SlotOf(tail) \in 0 .. Capacity - 1
  BY <1>1, SlotFacts
<1> HIDE DEF d
<1>4. ASSUME NEW k \in 0 .. d - 1, d < Capacity
      PROVE  SlotOf(head + k) # SlotOf(tail)
  <2>1. /\ head + k \in Nat /\ head + d \in Nat
        /\ head + k < head + d /\ head + d < (head + k) + Capacity
    BY <1>1, <1>4
  <2> QED
    BY <2>1, <1>2, SlotFacts
<1>5. ASSUME NEW k \in 1 .. d - 1
      PROVE  SlotOf(head + k) # SlotOf(head)
  <2>1. head + k \in Nat /\ head < head + k /\ head + k < head + Capacity
    BY <1>1, <1>5
  <2> QED
    BY <2>1, <1>1, SlotFacts
<1>6. ASSUME NEW k \in 0 .. d - 1
      PROVE  SlotOf(head + k) \in 0 .. Capacity - 1
  <2>1. head + k \in Nat
    BY <1>1
  <2> QED
    BY <2>1, SlotFacts
<1>7. ASSUME head # cachedTail
      PROVE  0 \in 0 .. d - 1 /\ head + 0 = head
  BY <1>1, <1>7
<1>8. head # cachedTail => InWindow(SlotOf(head))
  BY <1>7 DEF InWindow, d
<1>9. d < Capacity => ~InWindow(SlotOf(tail))
  BY <1>4 DEF InWindow, d
<1>10. head # cachedTail /\ d < Capacity => SlotOf(head) # SlotOf(tail)
  BY <1>4, <1>7
<1> QED
  BY <1>2, <1>3, <1>4, <1>5, <1>6, <1>8, <1>9, <1>10 DEF d

\* A thread working on its slot: the producer's is not published, the consumer's
\* is, so they are never the same.
LEMMA RaceFree ==
  ASSUME QueueTypeOK, CursorsOrdered
  PROVE  /\ NoSlotRace
         /\ ppc \in {"construct", "publish"} =>
              /\ Distance(head, tail) < Capacity
              /\ ~InWindow(SlotOf(tail))
         /\ cpc \in {"take", "destroy", "publish"} =>
              /\ 0 < Distance(head, tail)
              /\ InWindow(SlotOf(head))
<1>1. ppc \in {"construct", "publish"} => Distance(head, tail) < Capacity
  BY CursorSums, ModulusFacts DEF CursorsOrdered
<1>2. cpc \in {"take", "destroy", "publish"} =>
        head # cachedTail /\ 0 < Distance(head, tail)
  BY CursorSums DEF CursorsOrdered
<1> QED
  BY <1>1, <1>2, WindowFacts DEF NoSlotRace
\* Every step keeps the constructed slots exact: nothing is constructed over a live
\* event, destroyed twice or leaked.
LEMMA SlotStep ==
  ASSUME QueueInv, QueueNext
  PROVE  SlotsExact'
<1> DEFINE Slots == 0 .. Capacity - 1
<1>0. QueueTypeOK /\ CursorsOrdered /\ QueueTypeOK' /\ CallsMatch
  BY TypeStep DEF QueueInv
<1>a. \A i \in Slots : storage[i] # Dead <=> Live(i)
  BY <1>0, SlotsPointwise DEF QueueInv, SlotsLive
<1> SUFFICES \A i \in Slots : storage'[i] # Dead <=> Live(i)'
  <2>1. SlotsLive' => SlotsExact'
    BY <1>0, SlotsPointwise, PTL
  <2> QED
    BY <2>1 DEF SlotsLive
<1> DEFINE Exact == \A i \in Slots : storage'[i] # Dead <=> Live(i)'
<1>c. storage \in [Slots -> Events \cup {Dead}]
  BY <1>0 DEF QueueTypeOK
<1>d. SlotOf(head) \in Slots /\ SlotOf(tail) \in Slots
  BY <1>0, WindowFacts
<1>1. ASSUME NEW e \in Events, TryPush(e) PROVE Exact
  BY <1>1, <1>a DEF TryPush, Live, InWindow, consumerVars
<1>2. ASSUME NEW seen \in Cursors, RefreshHead(seen) PROVE Exact
  BY <1>2, <1>a DEF RefreshHead, Live, InWindow, consumerVars
<1>3. ASSUME NEW seen \in Cursors, RefreshTail(seen) PROVE Exact
  BY <1>3, <1>a DEF RefreshTail, Live, InWindow, producerVars
<1>4. CASE Construct
  <2>1. event # Dead
    BY <1>4, <1>0, EventAssumption DEF Construct, CallsMatch
  <2>2. ~destroyed
    BY <1>4, <1>0 DEF Construct, CallsMatch
  <2>3. cpc = "publish" => SlotOf(tail) # SlotOf(head)
    BY <1>4, <1>0, RaceFree DEF Construct, NoSlotRace
  <2>4. \A i \in Slots : storage'[i] # Dead
                          <=> i = SlotOf(tail) \/ storage[i] # Dead
    BY <1>4, <1>c, <1>d, <2>1 DEF Construct
  <2>5. ASSUME NEW i PROVE Live(i)' <=> i = SlotOf(tail) \/ Live(i)
    BY <1>4, <2>2, <2>3 DEF Construct, Live, InWindow, consumerVars
  <2> QED
    BY <1>a, <2>4, <2>5
<1>5. CASE PublishTail
  <2> DEFINE d == Distance(head, tail)
  <2>1. d \in Nat /\ d < Capacity
    BY <1>5, <1>0, RaceFree, CursorSums DEF PublishTail
  <2>2. Distance(head, tail)' = d + 1
    <3>1. d + 1 < CursorModulus
      BY <2>1, ModulusFacts
    <3>2. Distance(head, Succ(tail)) = d + 1
      BY <3>1, <1>0, DistanceFacts DEF QueueTypeOK
    <3> QED
      BY <1>5, <3>2 DEF PublishTail, consumerVars
  <2>3. SlotOf(head + d) = SlotOf(tail)
    BY <1>0, WindowFacts
  <2> HIDE DEF d
  <2>4. 0 .. (d + 1) - 1 = (0 .. d - 1) \cup {d}
    BY <2>1
  <2>5. ASSUME NEW i PROVE InWindow(i)' <=> InWindow(i) \/ i = SlotOf(tail)
    <3>1. InWindow(i)' <=> \E k \in 0 .. (d + 1) - 1 : i = SlotOf(head + k)
      BY <1>5, <2>2 DEF PublishTail, InWindow, consumerVars
    <3>2. InWindow(i) <=> \E k \in 0 .. d - 1 : i = SlotOf(head + k)
      BY DEF InWindow, d
    <3> QED
      BY <2>3, <2>4, <3>1, <3>2
  <2>6. ASSUME NEW i PROVE Live(i)' <=> Live(i)
    BY <1>5, <2>5 DEF PublishTail, Live, consumerVars
  <2> QED
    BY <1>5, <1>a, <2>6 DEF PublishTail
<1>6. CASE TryPop
  BY <1>6, <1>a DEF TryPop, Live, InWindow, producerVars
<1>7. CASE Take
  BY <1>7, <1>a DEF Take, Live, InWindow, producerVars
<1>8. CASE DestroyEvent
  <2>1. \A i \in Slots : storage'[i] # Dead
                          <=> i # SlotOf(head) /\ storage[i] # Dead
    BY <1>8, <1>c, <1>d DEF DestroyEvent
  <2>2. ASSUME NEW i PROVE Live(i)' <=> i # SlotOf(head) /\ Live(i)
    BY <1>8 DEF DestroyEvent, Live, InWindow, producerVars
  <2> QED
    BY <1>a, <2>1, <2>2
<1>9. CASE PublishHead
  <2> DEFINE d == Distance(head, tail)
  <2>1. d \in Nat /\ 0 < d
    BY <1>9, <1>0, RaceFree, CursorSums DEF PublishHead
  <2>2. Distance(head, tail)' = d - 1
    <3>1. head # tail
      BY <2>1, <1>0, DistanceFacts DEF QueueTypeOK
    <3>2. Distance(Succ(head), tail) = d - 1
      BY <3>1, <1>0, DistanceFacts DEF QueueTypeOK
    <3> QED
      BY <1>9, <3>2 DEF PublishHead, producerVars
  <2>3. \A k \in 1 .. d - 1 : SlotOf(head + k) # SlotOf(head)
    BY <1>0, WindowFacts
  <2>4. \A k \in Nat : SlotOf(Succ(head) + k) = SlotOf(head + (k + 1))
    <3> SUFFICES ASSUME NEW k \in Nat
                 PROVE  SlotOf(Succ(head) + k) = SlotOf(head + (k + 1))
      OBVIOUS
    <3>1. head + k + 1 = head + (k + 1)
      BY <1>0 DEF QueueTypeOK, Cursors
    <3>2. SlotOf(Succ(head) + k) = SlotOf(head + k + 1)
      BY <1>0, SlotOfSucc DEF QueueTypeOK
    <3> QED
      BY <3>1, <3>2
  <2>5. head + 0 = head
    BY <1>0 DEF QueueTypeOK, Cursors
  <2> HIDE DEF d
  <2>6. ASSUME NEW i PROVE InWindow(i)' <=> InWindow(i) /\ i # SlotOf(head)
    <3>1. InWindow(i)' <=> \E k \in 0 .. (d - 1) - 1 : i = SlotOf(Succ(head) + k)
      BY <1>9, <2>2 DEF PublishHead, InWindow, producerVars
    <3>2. InWindow(i) <=> \E k \in 0 .. d - 1 : i = SlotOf(head + k)
      BY DEF InWindow, d
    <3>3. InWindow(i) /\ i # SlotOf(head)
             <=> \E k \in 1 .. d - 1 : i = SlotOf(head + k)
      BY <3>2, <2>1, <2>3, <2>5
    <3>4. ASSUME NEW k \in 0 .. (d - 1) - 1, i = SlotOf(Succ(head) + k)
          PROVE  \E j \in 1 .. d - 1 : i = SlotOf(head + j)
      <4>1. k + 1 \in 1 .. d - 1 /\ k \in Nat
        BY <2>1
      <4> QED
        BY <3>4, <4>1, <2>4
    <3>5. ASSUME NEW k \in 1 .. d - 1, i = SlotOf(head + k)
          PROVE  \E j \in 0 .. (d - 1) - 1 : i = SlotOf(Succ(head) + j)
      <4>1. k - 1 \in 0 .. (d - 1) - 1 /\ k - 1 \in Nat /\ (k - 1) + 1 = k
        BY <2>1
      <4>2. SlotOf(Succ(head) + (k - 1)) = SlotOf(head + k)
        BY <4>1, <2>4
      <4> QED
        BY <3>5, <4>1, <4>2
    <3> QED
      BY <3>1, <3>3, <3>4, <3>5
  <2>7. ppc = "publish" => SlotOf(tail) # SlotOf(head)
    BY <1>9, <1>0, RaceFree DEF PublishHead, NoSlotRace
  <2>8. ASSUME NEW i PROVE Live(i)' <=> Live(i)
    BY <1>9, <2>6, <2>7 DEF PublishHead, Live, producerVars
  <2> QED
    BY <1>9, <1>a, <2>8 DEF PublishHead
<1>10. CASE DestroyQueue
  <2>1. ASSUME NEW i \in Slots PROVE storage'[i] = Dead
    <3>1. storage'[i] = IF InWindow(i) THEN Dead ELSE storage[i]
      BY <1>10, <1>c DEF DestroyQueue, InWindow
    <3>2. Live(i) => InWindow(i)
      BY <1>10 DEF DestroyQueue, Live
    <3> QED
      BY <3>1, <3>2, <1>a
  <2>2. \A i : ~Live(i)'
    BY <1>10 DEF DestroyQueue, Live
  <2> QED
    BY <2>1, <2>2
<1> QED
  BY <1>1, <1>2, <1>3, <1>4, <1>5, <1>6, <1>7, <1>8, <1>9, <1>10
     DEF QueueNext

\* Every step keeps what the running calls hold, whatever the other thread does.
LEMMA CallsStep ==
  ASSUME QueueInv, QueueNext
  PROVE  CallsMatch'
<1>0. QueueTypeOK /\ CursorsOrdered /\ CallsMatch
  BY DEF QueueInv
<1>c. storage \in [0 .. Capacity - 1 -> Events \cup {Dead}]
  BY <1>0 DEF QueueTypeOK
<1>d. SlotOf(head) \in 0 .. Capacity - 1 /\ SlotOf(tail) \in 0 .. Capacity - 1
  BY <1>0, WindowFacts
<1>e. NoSlotRace
  BY <1>0, RaceFree
<1>1. ASSUME NEW e \in Events, TryPush(e) PROVE CallsMatch'
  BY <1>0, <1>1 DEF TryPush, CallsMatch, consumerVars
<1>2. ASSUME NEW seen \in Cursors, RefreshHead(seen) PROVE CallsMatch'
  BY <1>0, <1>2 DEF RefreshHead, CallsMatch, consumerVars
<1>3. ASSUME NEW seen \in Cursors, RefreshTail(seen) PROVE CallsMatch'
  BY <1>0, <1>3 DEF RefreshTail, CallsMatch, producerVars
<1>4. CASE Construct
  <2>1. storage'[SlotOf(tail)] = event
    BY <1>4, <1>c, <1>d DEF Construct
  <2>2. cpc = "destroy" => storage'[SlotOf(head)] = storage[SlotOf(head)]
    BY <1>4, <1>c, <1>d, <1>e DEF Construct, NoSlotRace
  <2> QED
    BY <1>0, <1>4, <2>1, <2>2 DEF Construct, CallsMatch, consumerVars
<1>5. CASE PublishTail
  BY <1>0, <1>5 DEF PublishTail, CallsMatch, consumerVars
<1>6. CASE TryPop
  BY <1>0, <1>6 DEF TryPop, CallsMatch, producerVars
<1>7. CASE Take
  <2>1. Live(SlotOf(head))
    BY <1>0, <1>7, RaceFree DEF Take, Live, CallsMatch
  <2>2. storage[SlotOf(head)] # Dead
    BY <2>1, <1>0, <1>d, SlotsPointwise DEF QueueInv, SlotsLive
  <2>3. storage[SlotOf(head)] \in Events
    BY <2>2, <1>c, <1>d
  <2> QED
    BY <1>0, <1>7, <2>3 DEF Take, CallsMatch, producerVars
<1>8. CASE DestroyEvent
  <2>1. ppc = "publish" => storage'[SlotOf(tail)] = storage[SlotOf(tail)]
    BY <1>8, <1>c, <1>d, <1>e DEF DestroyEvent, NoSlotRace
  <2> QED
    BY <1>0, <1>8, <2>1 DEF DestroyEvent, CallsMatch, producerVars
<1>9. CASE PublishHead
  BY <1>0, <1>9 DEF PublishHead, CallsMatch, producerVars
<1>10. CASE DestroyQueue
  BY <1>0, <1>10 DEF DestroyQueue, CallsMatch, producerVars, consumerVars
<1> QED
  BY <1>1, <1>2, <1>3, <1>4, <1>5, <1>6, <1>7, <1>8, <1>9, <1>10 DEF QueueNext

\* The empty queue satisfies the invariant.
LEMMA QueueInvInit == QueueInit => QueueInv
<1> SUFFICES ASSUME QueueInit PROVE QueueInv
  OBVIOUS
<1> USE DEF QueueInit
<1>1. 0 \in Cursors
  BY ModulusFacts DEF Cursors
<1>2. QueueTypeOK
  BY <1>1 DEF QueueTypeOK
<1>3. Distance(0, 0) = 0
  BY <1>1, DistanceFacts
<1>4. CursorsOrdered
  BY <1>3, ModulusFacts DEF CursorsOrdered
<1>5. \A i \in 0 .. Capacity - 1 : storage[i] = Dead /\ ~Live(i)
  BY <1>3 DEF Live, InWindow
<1>6. SlotsExact
  BY <1>2, <1>5, SlotsPointwise DEF SlotsLive
<1>7. CallsMatch
  BY DEF CallsMatch
<1> QED
  BY <1>2, <1>4, <1>6, <1>7 DEF QueueInv

\* Every step of either thread and of the destructor keeps the invariant.
LEMMA QueueInvStep == QueueInv /\ [QueueNext]_queueVars => QueueInv'
<1> SUFFICES ASSUME QueueInv, [QueueNext]_queueVars PROVE QueueInv'
  OBVIOUS
<1>1. CASE QueueNext
  BY <1>1, TypeStep, CursorStep, SlotStep, CallsStep DEF QueueInv
<1>2. CASE UNCHANGED queueVars
  BY <1>2 DEF queueVars, producerVars, consumerVars, QueueInv, QueueTypeOK,
              CursorsOrdered, SlotsExact, Occupied, CallsMatch
<1> QED
  BY <1>1, <1>2

\* The invariant of the queue holds in every reachable state of SpscEventQueue, for
\* every capacity, every range of cursors and every interleaving of the threads.
THEOREM QueueInvariant == QueueSpec => []QueueInv
  BY QueueInvInit, QueueInvStep, PTL DEF QueueSpec
\* Cursors, slots and the locals of tryPush and tryPop stay within their types.
THEOREM QueueTypeCorrect == QueueSpec => []QueueTypeOK
<1>1. QueueInv => QueueTypeOK
  BY DEF QueueInv
<1> QED
  BY <1>1, QueueInvariant, PTL

\* The private views of tryPush and tryPop never overtake the cursors they copy, and
\* the cursors are never more than the ring apart, also after they wrap.
THEOREM QueueCursorsOrdered == QueueSpec => []CursorsOrdered
<1>1. QueueInv => CursorsOrdered
  BY DEF QueueInv
<1> QED
  BY <1>1, QueueInvariant, PTL

\* Exactly the published slots hold a constructed event, but for the one either
\* call is working on; the destructor leaves none.
THEOREM QueueSlotsExact == QueueSpec => []SlotsExact
<1>1. QueueInv => SlotsExact
  BY DEF QueueInv
<1> QED
  BY <1>1, QueueInvariant, PTL

\* tryPush and tryPop never work on the same slot at the same time.
THEOREM QueueNoSlotRace == QueueSpec => []NoSlotRace
<1>1. QueueInv => NoSlotRace
  BY RaceFree DEF QueueInv
<1> QED
  BY <1>1, QueueInvariant, PTL

-----------------------------------------------------------------------------
(***************************************************************************)
(* Refinement of BoundedFifo.                                              *)
(***************************************************************************)
\* The events of the queue as the refinement mapping sees them.
Items == IF destroyed THEN <<>> ELSE Published

\* The published events are a sequence of events, one per distance of the cursors.
LEMMA PublishedFacts ==
  ASSUME QueueInv
  PROVE  /\ \A k \in 1 .. Distance(head, tail) :
              SlotOf(head + k - 1) \in 0 .. Capacity - 1
         /\ \A k \in 2 .. Distance(head, tail) :
              SlotOf(head + k - 1) # SlotOf(head)
         /\ Distance(head, tail) < Capacity =>
              \A k \in 1 .. Distance(head, tail) :
                SlotOf(head + k - 1) # SlotOf(tail)
         /\ ~destroyed => Published \in Seq(Events)
         /\ Len(Published) = Distance(head, tail)
<1> DEFINE d == Distance(head, tail)
<1>0. /\ QueueTypeOK /\ CursorsOrdered /\ CallsMatch
      /\ d \in Nat /\ head \in Nat
      /\ storage \in [0 .. Capacity - 1 -> Events \cup {Dead}]
  BY CursorSums, ModulusFacts DEF QueueInv, QueueTypeOK, Cursors
<1> HIDE DEF d
<1>1. ASSUME NEW k \in 1 .. d
      PROVE  k - 1 \in 0 .. d - 1 /\ head + k - 1 = head + (k - 1)
  BY <1>0
<1>2. ASSUME NEW k \in 1 .. d
      PROVE  SlotOf(head + k - 1) \in 0 .. Capacity - 1
  BY <1>0, <1>1, WindowFacts DEF d
<1>3. ASSUME NEW k \in 2 .. d
      PROVE  SlotOf(head + k - 1) # SlotOf(head)
  <2>1. k - 1 \in 1 .. d - 1 /\ head + k - 1 = head + (k - 1)
    BY <1>0
  <2> QED
    BY <2>1, <1>0, WindowFacts DEF d
<1>4. ASSUME NEW k \in 1 .. d, d < Capacity
      PROVE  SlotOf(head + k - 1) # SlotOf(tail)
  BY <1>0, <1>1, <1>4, WindowFacts DEF d
<1>5. ASSUME NEW k \in 1 .. d, ~destroyed
      PROVE  (IF k = 1 /\ cpc = "publish" THEN out
                ELSE storage[SlotOf(head + k - 1)]) \in Events
  <2>1. CASE k = 1 /\ cpc = "publish"
    BY <2>1, <1>0 DEF CallsMatch
  <2>2. CASE ~(k = 1 /\ cpc = "publish")
    <3>1. InWindow(SlotOf(head + k - 1))
      BY <1>1 DEF InWindow, d
    <3>2. cpc = "publish" => SlotOf(head + k - 1) # SlotOf(head)
      <4>1. cpc = "publish" => k \in 2 .. d
        BY <1>0, <2>2
      <4> QED
        BY <4>1, <1>3
    <3>3. Live(SlotOf(head + k - 1))
      BY <1>5, <3>1, <3>2 DEF Live
    <3>4. storage[SlotOf(head + k - 1)] # Dead
      BY <3>3, <1>0, <1>2, SlotsPointwise DEF QueueInv, SlotsLive
    <3>5. storage[SlotOf(head + k - 1)] \in Events
      BY <3>4, <1>0, <1>2
    <3> QED
      BY <3>5, <2>2
  <2> QED
    BY <2>1, <2>2
<1>6. ~destroyed => Published \in [1 .. d -> Events]
  BY <1>5 DEF Published, d
<1>7. DOMAIN Published = 1 .. d
  BY DEF Published, d
<1>8. ~destroyed => Published \in Seq(Events)
  BY <1>0, <1>6
<1>9. Len(Published) = d
  BY <1>0, <1>7 DEF Published, d
<1> QED
  BY <1>2, <1>3, <1>4, <1>8, <1>9 DEF d
\* A step that changes no published slot leaves the events of the queue alone.
LEMMA ItemsKept ==
  ASSUME QueueInv, ~destroyed, UNCHANGED <<head, tail, destroyed>>,
         \A k \in 1 .. Distance(head, tail) :
           (IF k = 1 /\ cpc = "publish" THEN out
              ELSE storage[SlotOf(head + k - 1)])
           = (IF k = 1 /\ cpc' = "publish" THEN out'
                ELSE storage'[SlotOf(head + k - 1)])
  PROVE  Items' = Items
<1> DEFINE d == Distance(head, tail)
<1>1. Distance(head, tail)' = d
  BY DEF Distance
<1>2. Published' = [k \in 1 .. d |->
                     IF k = 1 /\ cpc' = "publish" THEN out'
                       ELSE storage'[SlotOf(head + k - 1)]]
  BY <1>1 DEF Published
<1>3. Published' = Published
  BY <1>2 DEF Published
<1> QED
  BY <1>3 DEF Items

\* The store to the tail cursor appends the argument of tryPush.
LEMMA PushStep ==
  ASSUME QueueInv, PublishTail
  PROVE  /\ Items \in Seq(Events)
         /\ Len(Items) < Capacity
         /\ event \in Events /\ ~destroyed
         /\ Items' = Append(Items, event)
<1> DEFINE d == Distance(head, tail)
<1>0. QueueTypeOK /\ CursorsOrdered /\ CallsMatch
  BY DEF QueueInv
<1>1. d \in Nat /\ d < Capacity /\ Capacity \in Nat
  BY <1>0, RaceFree, CursorSums, ModulusFacts DEF PublishTail
<1>2. ~destroyed /\ event \in Events /\ event = storage[SlotOf(tail)]
  BY <1>0 DEF CallsMatch, PublishTail
<1>3. Published \in Seq(Events) /\ Len(Published) = d
  BY <1>2, PublishedFacts
<1>4. Distance(head, tail)' = d + 1
  <2>1. d + 1 < CursorModulus
    BY <1>1, ModulusFacts
  <2>2. Distance(head, Succ(tail)) = d + 1
    BY <2>1, <1>0, DistanceFacts DEF QueueTypeOK
  <2> QED
    BY <2>2 DEF PublishTail, consumerVars
<1>5. SlotOf(head + d) = SlotOf(tail)
  BY <1>0, WindowFacts
<1>6. cpc = "publish" => 0 < d
  BY <1>0, RaceFree
<1>7. Published' = [k \in 1 .. d + 1 |->
                     IF k = 1 /\ cpc = "publish" THEN out
                       ELSE storage[SlotOf(head + k - 1)]]
  BY <1>4 DEF Published, PublishTail, consumerVars
<1>8. head + (d + 1) - 1 = head + d
  BY <1>0, <1>1 DEF QueueTypeOK, Cursors
<1>9. ASSUME NEW k \in 1 .. d + 1
      PROVE  Published'[k] = IF k = d + 1 THEN event ELSE Published[k]
  <2>1. CASE k = d + 1
    <3>1. ~(k = 1 /\ cpc = "publish")
      BY <2>1, <1>1, <1>6
    <3>2. Published'[k] = storage[SlotOf(head + k - 1)]
      BY <3>1, <1>7
    <3> QED
      BY <2>1, <3>2, <1>2, <1>5, <1>8
  <2>2. CASE k # d + 1
    <3>1. k \in 1 .. d
      BY <2>2, <1>1
    <3> QED
      BY <3>1, <2>2, <1>7 DEF Published
  <2> QED
    BY <2>1, <2>2
<1> HIDE DEF d
<1>10. DOMAIN Published' = 1 .. d + 1
  BY <1>7
<1>11. Append(Published, event)
         = [k \in 1 .. d + 1 |-> IF k = d + 1 THEN event ELSE Published[k]]
  BY <1>2, <1>3
<1>12. Published' = [k \in 1 .. d + 1 |-> IF k = d + 1 THEN event ELSE Published[k]]
  BY <1>7, <1>9
<1> QED
  BY <1>1, <1>2, <1>3, <1>11, <1>12 DEF Items, PublishTail

\* The store to the head cursor removes the oldest event, which tryPop returns.
LEMMA PopStep ==
  ASSUME QueueInv, PublishHead
  PROVE  /\ Items \in Seq(Events)
         /\ Items # <<>> /\ ~destroyed
         /\ taken' = Head(Items)
         /\ Items' = Tail(Items)
<1> DEFINE d == Distance(head, tail)
<1>0. QueueTypeOK /\ CursorsOrdered /\ CallsMatch
  BY DEF QueueInv
<1>1. d \in Nat /\ 0 < d
  BY <1>0, RaceFree, CursorSums, ModulusFacts DEF PublishHead
<1>2. ~destroyed
  BY <1>0 DEF CallsMatch, PublishHead
<1>3. Published \in Seq(Events) /\ Len(Published) = d
  BY <1>2, PublishedFacts
<1>4. Distance(head, tail)' = d - 1
  <2>1. head # tail
    BY <1>1, <1>0, DistanceFacts DEF QueueTypeOK
  <2>2. Distance(Succ(head), tail) = d - 1
    BY <2>1, <1>0, DistanceFacts DEF QueueTypeOK
  <2> QED
    BY <2>2 DEF PublishHead, producerVars
<1>5. Published' = [k \in 1 .. d - 1 |-> storage[SlotOf(Succ(head) + k - 1)]]
  BY <1>4 DEF Published, PublishHead, producerVars
<1>6. Published[1] = out
  BY <1>1 DEF Published, PublishHead
<1>7. ASSUME NEW k \in 1 .. d - 1
      PROVE  storage[SlotOf(Succ(head) + k - 1)] = Published[k + 1]
  <2>1. k - 1 \in Nat /\ k + 1 \in 1 .. d /\ k + 1 # 1
    BY <1>1
  <2>2. /\ Succ(head) + k - 1 = Succ(head) + (k - 1)
        /\ head + (k - 1) + 1 = head + (k + 1) - 1
    BY <1>0, CursorForms DEF QueueTypeOK, Cursors
  <2>3. SlotOf(Succ(head) + (k - 1)) = SlotOf(head + (k - 1) + 1)
    BY <2>1, <1>0, SlotOfSucc DEF QueueTypeOK
  <2>4. Published[k + 1] = storage[SlotOf(head + (k + 1) - 1)]
    BY <2>1 DEF Published
  <2> QED
    BY <2>2, <2>3, <2>4
<1> HIDE DEF d
<1>8. Published # <<>> /\ Head(Published) = Published[1]
  BY <1>1, <1>3
<1>9. /\ Tail(Published) \in Seq(Events) /\ Len(Tail(Published)) = d - 1
      /\ \A k \in 1 .. d - 1 : Tail(Published)[k] = Published[k + 1]
  BY <1>1, <1>3, <1>8, HeadTailProperties
<1>10. Published' = Tail(Published)
  <2>1. Tail(Published) \in [1 .. d - 1 -> Events]
    BY <1>9, LenProperties
  <2> QED
    BY <2>1, <1>5, <1>7, <1>9
<1>11. taken' = out /\ ~destroyed'
  BY <1>2 DEF PublishHead
<1> QED
  BY <1>2, <1>3, <1>6, <1>8, <1>10, <1>11 DEF Items

\* No other step of the two threads changes what is in the queue.
LEMMA SilentStep ==
  ASSUME QueueInv, QueueNext, ~PublishTail, ~PublishHead, ~DestroyQueue
  PROVE  Items' = Items /\ UNCHANGED <<taken, destroyed>>
<1>0. /\ QueueTypeOK /\ CursorsOrdered /\ CallsMatch
      /\ storage \in [0 .. Capacity - 1 -> Events \cup {Dead}]
      /\ SlotOf(head) \in 0 .. Capacity - 1
      /\ SlotOf(tail) \in 0 .. Capacity - 1
  BY WindowFacts DEF QueueInv, QueueTypeOK
<1>a. CASE UNCHANGED <<head, tail, storage, out, taken, destroyed, cpc>>
  BY <1>a DEF Items, Published, Distance
<1>b. CASE /\ UNCHANGED <<head, tail, storage, taken, destroyed>>
           /\ cpc # "publish" /\ cpc' # "publish"
  BY <1>b DEF Items, Published, Distance
<1>1. ASSUME NEW e \in Events, TryPush(e)
      PROVE  UNCHANGED <<head, tail, storage, out, taken, destroyed, cpc>>
  BY <1>1 DEF TryPush, consumerVars
<1>2. ASSUME NEW seen \in Cursors, RefreshHead(seen)
      PROVE  UNCHANGED <<head, tail, storage, out, taken, destroyed, cpc>>
  BY <1>2 DEF RefreshHead, consumerVars
<1>3. ASSUME NEW seen \in Cursors, RefreshTail(seen)
      PROVE  Items' = Items /\ UNCHANGED <<taken, destroyed>>
  BY <1>3, <1>b DEF RefreshTail, producerVars
<1>6. CASE TryPop
  BY <1>6, <1>b DEF TryPop, producerVars
<1>7. CASE Take
  BY <1>7, <1>b DEF Take, producerVars
<1>4. CASE Construct
  <2>1. /\ UNCHANGED <<head, tail, destroyed, taken, cpc, out>>
        /\ storage' = [storage EXCEPT ![SlotOf(tail)] = event]
    BY <1>4 DEF Construct, consumerVars
  <2>2. ~destroyed /\ Distance(head, tail) < Capacity
    BY <1>4, <1>0, RaceFree DEF Construct, CallsMatch
  <2>3. \A k \in 1 .. Distance(head, tail) :
           storage'[SlotOf(head + k - 1)] = storage[SlotOf(head + k - 1)]
    BY <1>0, <2>1, <2>2, PublishedFacts
  <2>4. Items' = Items
    BY <2>1, <2>2, <2>3, ItemsKept
  <2> QED
    BY <2>1, <2>4
<1>8. CASE DestroyEvent
  <2>1. /\ UNCHANGED <<head, tail, destroyed, taken, out>>
        /\ storage' = [storage EXCEPT ![SlotOf(head)] = Dead]
        /\ cpc = "destroy" /\ cpc' = "publish"
    BY <1>8 DEF DestroyEvent, producerVars
  <2>2. ~destroyed /\ out = storage[SlotOf(head)]
    BY <2>1, <1>0 DEF CallsMatch
  <2>3. \A k \in 2 .. Distance(head, tail) :
           storage'[SlotOf(head + k - 1)] = storage[SlotOf(head + k - 1)]
    <3>1. \A k \in 2 .. Distance(head, tail) : k \in 1 .. Distance(head, tail)
      OBVIOUS
    <3> QED
      BY <1>0, <2>1, <3>1, PublishedFacts
  <2>4. head + 1 - 1 = head
    BY <1>0 DEF QueueTypeOK, Cursors
  <2>5. ASSUME NEW k \in 1 .. Distance(head, tail)
        PROVE  (IF k = 1 /\ cpc = "publish" THEN out
                  ELSE storage[SlotOf(head + k - 1)])
               = (IF k = 1 /\ cpc' = "publish" THEN out'
                    ELSE storage'[SlotOf(head + k - 1)])
    <3>1. CASE k = 1
      BY <3>1, <2>1, <2>2, <2>4
    <3>2. CASE k # 1
      <4>1. k \in 2 .. Distance(head, tail)
        BY <3>2
      <4> QED
        BY <3>2, <4>1, <2>3
    <3> QED
      BY <3>1, <3>2
  <2>6. Items' = Items
    BY <2>1, <2>2, <2>5, ItemsKept
  <2> QED
    BY <2>1, <2>6
<1> QED
  BY <1>a, <1>1, <1>2, <1>3, <1>4, <1>6, <1>7, <1>8 DEF QueueNext

\* Every step of the queue is a step of the bounded FIFO, or none.
LEMMA FifoStep ==
  QueueInv /\ [QueueNext]_queueVars => [Fifo!FifoNext]_(Fifo!fifoVars)
<1> SUFFICES ASSUME QueueInv, [QueueNext]_queueVars
             PROVE  Fifo!FifoNext \/ UNCHANGED Fifo!fifoVars
  OBVIOUS
<1>1. CASE PublishTail
  <2>1. Fifo!Push(event)
    BY <1>1, PushStep DEF Fifo!Push, Items, PublishTail, consumerVars
  <2> QED
    BY <2>1, <1>1, PushStep DEF Fifo!FifoNext
<1>2. CASE PublishHead
  <2>1. Fifo!Pop
    BY <1>2, PopStep DEF Fifo!Pop, Items, PublishHead
  <2> QED
    BY <2>1 DEF Fifo!FifoNext
<1>3. CASE DestroyQueue
  <2>1. Fifo!Close
    BY <1>3 DEF Fifo!Close, DestroyQueue, consumerVars
  <2> QED
    BY <2>1 DEF Fifo!FifoNext
<1>4. CASE QueueNext /\ ~PublishTail /\ ~PublishHead /\ ~DestroyQueue
  BY <1>4, SilentStep DEF Fifo!fifoVars, Items
<1>5. CASE UNCHANGED queueVars
  BY <1>5 DEF queueVars, producerVars, consumerVars, Fifo!fifoVars, Published
<1> QED
  BY <1>1, <1>2, <1>3, <1>4, <1>5

\* SpscEventQueue implements a bounded FIFO: tryPush takes effect at its store to the
\* tail cursor, tryPop at its store to the head cursor.
THEOREM QueueRefinesFifo == QueueSpec => ImplementsBoundedFifo
<1>1. QueueInit => Fifo!FifoInit
  <2> SUFFICES ASSUME QueueInit PROVE Fifo!FifoInit
    OBVIOUS
  <2>1. 0 \in Cursors
    BY ModulusFacts DEF Cursors
  <2>2. Distance(0, 0) = 0
    BY <2>1, DistanceFacts
  <2>3. Published = <<>>
    BY <2>2 DEF Published, QueueInit
  <2> QED
    BY <2>3 DEF Fifo!FifoInit, QueueInit
<1> QED
  BY <1>1, FifoStep, QueueInvariant, PTL
     DEF QueueSpec, ImplementsBoundedFifo, Fifo!FifoSpec

(***************************************************************************)
(* The two-thread replay.                                                  *)
(***************************************************************************)

\* Events published so far: the feed thread stamps an event after its push.
Fed == IF feedAt = "push" THEN sent - 1 ELSE sent
\* Events popped so far: the sample of an event is stored after its pop.
Popped == IF matchAt \in {"now", "load"} THEN Len(handoff) + 1 ELSE Len(handoff)

\* Types of the two threads' variables.
ReplayTypes ==
  /\ feedAt \in {"push", "now", "stamp", "done", "absent"}
  /\ matchAt \in {"pop", "now", "load", "process", "join", "done", "absent"}
  /\ feedAt = "absent" <=> matchAt = "absent"
  /\ sent \in Events
  /\ now \in Nat /\ poppedAt \in Nat /\ clock \in Nat
  /\ pushNs \in [Events -> Nat]
  /\ handoff \in Seq(Nat \X Nat)
  /\ processed \in Seq(Events)

\* How far the two threads have come: the queue holds, in order, exactly the events
\* published and not popped, and the main thread is working on the last one popped.
Pipeline ==
  /\ ppc # "idle" => feedAt = "push" /\ event = sent
  /\ cpc # "idle" => matchAt = "pop"
  /\ feedAt = "done" => sent = EventCount
  /\ destroyed => matchAt = "done"
  /\ Fed = Popped + Len(Items)
  /\ \A k \in 1 .. Len(Items) : Items[k] = Popped + k
  /\ matchAt \in {"now", "load", "process"} => taken = Popped
  /\ Len(handoff) = IF matchAt = "process" THEN Len(processed) + 1
                                           ELSE Len(processed)
  /\ matchAt \in {"join", "done"} => EventCount <= Len(handoff)

\* The inductive invariant of the replay.
ReplayInv ==
  /\ QueueInv
  /\ ReplayTypes
  /\ \A k \in 1 .. Len(processed) : processed[k] = k
  /\ IF matchAt = "absent" THEN processed = <<>> ELSE Pipeline

\* Every step of the replay, and of any other client, uses the queue as its
\* specification allows.
LEMMA ReplayIsQueue ==
  ASSUME ReplayTypes, [ReplayNext]_replayVars
  PROVE  [QueueNext]_queueVars
<1>0. sent \in Events
  BY DEF ReplayTypes
<1>1. ASSUME FeedPush PROVE QueueNext
  BY <1>0, <1>1 DEF FeedPush, QueueNext
<1>2. ASSUME FeedPushed PROVE QueueNext
  BY <1>2 DEF FeedPushed, QueueNext
<1>3. ASSUME FeedNow \/ FeedStamp PROVE UNCHANGED queueVars
  BY <1>3 DEF FeedNow, FeedStamp
<1>4. ASSUME MatchPop PROVE QueueNext
  BY <1>4 DEF MatchPop, QueueNext
<1>5. ASSUME MatchPopped PROVE QueueNext
  BY <1>5 DEF MatchPopped, QueueNext
<1>6. ASSUME MatchNow \/ MatchLoad \/ MatchProcess PROVE UNCHANGED queueVars
  BY <1>6 DEF MatchNow, MatchLoad, MatchProcess
<1>7. ASSUME MatchJoin PROVE QueueNext
  BY <1>7 DEF MatchJoin, QueueNext
<1>8. ASSUME OtherClient PROVE QueueNext
  BY <1>8 DEF OtherClient
<1>9. ASSUME UNCHANGED replayVars PROVE UNCHANGED queueVars
  BY <1>9 DEF replayVars
<1> QED
  BY <1>1, <1>2, <1>3, <1>4, <1>5, <1>6, <1>7, <1>8, <1>9
     DEF ReplayNext, Feed, Match

\* The invariant holds when the threads start.
LEMMA ReplayInvInit == ReplayInit => ReplayInv
<1> SUFFICES ASSUME ReplayInit PROVE ReplayInv
  OBVIOUS
<1>1. QueueInv
  BY QueueInvInit DEF ReplayInit
<1>2. 1 \in Events /\ EventCount \in Nat
  BY ReplayAssumption
<1>3. ReplayTypes
  BY <1>2 DEF ReplayInit, ReplayTypes
<1>4. Items = <<>>
  <2>1. 0 \in Cursors
    BY ModulusFacts DEF Cursors
  <2>2. Distance(0, 0) = 0
    BY <2>1, DistanceFacts
  <2> QED
    BY <2>2 DEF Items, Published, ReplayInit, QueueInit
<1>5. matchAt # "absent" => Pipeline
  BY <1>4 DEF ReplayInit, QueueInit, Pipeline, Fed, Popped
<1> QED
  BY <1>1, <1>3, <1>5 DEF ReplayInv, ReplayInit

\* A step of tryPush or tryPop before its store to a cursor does not change what is
\* in the queue.
LEMMA SilentQueue ==
  ASSUME QueueInv,
         \/ \E e \in Events : TryPush(e)
         \/ \E seen \in Cursors : RefreshHead(seen) \/ RefreshTail(seen)
         \/ Construct \/ TryPop \/ Take \/ DestroyEvent
  PROVE  Items' = Items /\ UNCHANGED <<taken, destroyed>>
<1>1. QueueNext
  BY DEF QueueNext
<1>2. destroyed \in BOOLEAN
  BY DEF QueueInv, QueueTypeOK
<1>3. ~PublishTail /\ ~PublishHead /\ ~DestroyQueue
  BY <1>2 DEF PublishTail, PublishHead, DestroyQueue, TryPush, RefreshHead,
     RefreshTail, Construct, TryPop, Take, DestroyEvent, producerVars,
     consumerVars
<1> QED
  BY <1>1, <1>3, SilentStep

\* Every step of either thread keeps the invariant.
LEMMA ReplayInvStep == ReplayInv /\ [ReplayNext]_replayVars => ReplayInv'
<1> SUFFICES ASSUME ReplayInv, [ReplayNext]_replayVars PROVE ReplayInv'
  OBVIOUS
<1>0. QueueInv /\ ReplayTypes
  BY DEF ReplayInv
<1>q. QueueInv'
  BY <1>0, ReplayIsQueue, QueueInvStep
<1>e. EventCount \in Nat /\ 0 < EventCount /\ Events = 1 .. EventCount
  BY ReplayAssumption
<1>i. Len(handoff) \in Nat /\ Len(processed) \in Nat /\ sent \in 1 .. EventCount
  BY <1>0, <1>e DEF ReplayTypes
<1>1. ASSUME FeedPush PROVE ReplayInv'
  <2>1. Items' = Items /\ UNCHANGED <<taken, destroyed>>
    BY <1>0, <1>1, SilentQueue DEF FeedPush, ReplayTypes
  <2>2. /\ matchAt # "absent"
        /\ UNCHANGED <<feedVars, matchVars, clock, cpc>>
        /\ ppc' # "idle" => event' = sent
    <3>1. matchAt # "absent"
      BY <1>0, <1>1 DEF FeedPush, ReplayTypes
    <3>2. Pipeline
      BY <3>1 DEF ReplayInv
    <3> QED
      BY <1>1, <3>1, <3>2 DEF FeedPush, Pipeline, TryPush, RefreshHead, Construct,
         consumerVars
  <2> QED
    BY <1>0, <1>1, <1>q, <2>1, <2>2 DEF FeedPush, ReplayInv, ReplayTypes,
       Pipeline, Fed, Popped, feedVars, matchVars
<1>2. ASSUME FeedPushed PROVE ReplayInv'
  <2>1. matchAt # "absent" /\ feedAt = "push" /\ feedAt' = "now"
    BY <1>0, <1>2 DEF FeedPushed, ReplayTypes
  <2>2. Pipeline
    BY <2>1 DEF ReplayInv
  <2>3. /\ Items \in Seq(Events) /\ event \in Events
        /\ Items' = Append(Items, event)
    BY <1>0, <1>2, PushStep DEF FeedPushed
  <2>4. /\ UNCHANGED <<sent, now, pushNs, matchVars, clock, cpc, taken, destroyed>>
        /\ ppc = "publish" /\ ppc' = "idle"
    BY <1>2 DEF FeedPushed, PublishTail, consumerVars
  <2>5. event = sent /\ Fed = sent - 1 /\ Fed' = sent /\ Popped' = Popped
    BY <2>1, <2>2, <2>4 DEF Pipeline, Fed, Popped, matchVars
  <2>6. Len(Items) \in Nat /\ Popped \in Nat /\ sent \in Nat
    BY <1>i, <2>3 DEF Popped
  <2>7. Fed' = Popped' + Len(Items')
    BY <2>2, <2>3, <2>5, <2>6 DEF Pipeline
  <2>8. \A k \in 1 .. Len(Items') : Items'[k] = Popped' + k
    BY <2>2, <2>3, <2>5, <2>6 DEF Pipeline
  <2>9. Pipeline'
    BY <2>1, <2>2, <2>4, <2>5, <2>7, <2>8 DEF Pipeline, matchVars
  <2>10. ReplayTypes'
    BY <1>0, <2>1, <2>4 DEF ReplayTypes, matchVars
  <2> QED
    BY <1>q, <2>1, <2>4, <2>9, <2>10 DEF ReplayInv, matchVars
<1>3. ASSUME FeedNow PROVE ReplayInv'
  <2>1. matchAt # "absent" /\ feedAt = "now" /\ feedAt' = "stamp"
    BY <1>0, <1>3 DEF FeedNow, ReplayTypes
  <2>2. Pipeline
    BY <2>1 DEF ReplayInv
  <2>3. /\ UNCHANGED <<sent, pushNs, matchVars, cpc, ppc, event, taken, destroyed>>
        /\ Items' = Items
        /\ clock' = clock + 1 /\ now' = clock + 1
    BY <1>3 DEF FeedNow, queueVars, producerVars, consumerVars, Items, Published
  <2>4. Pipeline'
    BY <2>1, <2>2, <2>3 DEF Pipeline, matchVars, Fed, Popped
  <2>5. ReplayTypes'
    BY <1>0, <2>1, <2>3 DEF ReplayTypes, matchVars
  <2> QED
    BY <1>q, <2>1, <2>3, <2>4, <2>5 DEF ReplayInv, matchVars
<1>4. ASSUME FeedStamp PROVE ReplayInv'
  <2>1. matchAt # "absent" /\ feedAt = "stamp"
    BY <1>0, <1>4 DEF FeedStamp, ReplayTypes
  <2>2. Pipeline
    BY <2>1 DEF ReplayInv
  <2>3. /\ UNCHANGED <<now, matchVars, clock, cpc, ppc, event, taken, destroyed>>
        /\ Items' = Items
        /\ pushNs' = [pushNs EXCEPT ![sent] = now]
        /\ IF sent = EventCount THEN feedAt' = "done" /\ sent' = sent
                                ELSE feedAt' = "push" /\ sent' = sent + 1
    BY <1>4 DEF FeedStamp, queueVars, producerVars, consumerVars, Items, Published
  <2>4. Fed' = Fed /\ ppc = "idle"
    BY <1>i, <1>e, <2>1, <2>2, <2>3 DEF Fed, Pipeline
  <2>5. Popped' = Popped
    BY <2>3 DEF Popped, matchVars
  <2>6. Pipeline'
    BY <2>2, <2>3, <2>4, <2>5 DEF Pipeline, matchVars
  <2>7. sent' \in Events
    BY <1>i, <1>e, <2>3
  <2>8. ReplayTypes'
    BY <1>0, <2>1, <2>3, <2>7 DEF ReplayTypes, matchVars
  <2> QED
    BY <1>q, <2>1, <2>3, <2>6, <2>8 DEF ReplayInv, matchVars
<1>5. ASSUME MatchPop PROVE ReplayInv'
  <2>1. Items' = Items /\ UNCHANGED <<taken, destroyed>>
    BY <1>0, <1>5, SilentQueue DEF MatchPop
  <2>2. /\ matchAt = "pop"
        /\ UNCHANGED <<feedVars, matchVars, clock, ppc, event>>
    BY <1>5 DEF MatchPop, TryPop, RefreshTail, Take, DestroyEvent, producerVars
  <2> QED
    BY <1>0, <1>q, <2>1, <2>2 DEF ReplayInv, ReplayTypes,
       Pipeline, Fed, Popped, feedVars, matchVars
<1>6. ASSUME MatchPopped PROVE ReplayInv'
  <2>1. matchAt = "pop" /\ matchAt' = "now"
    BY <1>6 DEF MatchPopped
  <2>2. Pipeline
    BY <2>1 DEF ReplayInv
  <2>3. /\ Items \in Seq(Events) /\ Items # <<>>
        /\ taken' = Head(Items) /\ Items' = Tail(Items)
    BY <1>0, <1>6, PopStep DEF MatchPopped
  <2>4. /\ UNCHANGED <<feedVars, poppedAt, handoff, processed, errorCount, clock,
                       ppc, event, destroyed>>
        /\ cpc' = "idle"
    BY <1>6 DEF MatchPopped, PublishHead, producerVars
  <2>5. /\ Popped = Len(handoff) /\ Popped' = Popped + 1 /\ Fed' = Fed
        /\ Popped \in Nat /\ Fed \in Nat
    BY <1>i, <2>1, <2>4 DEF Popped, Fed, feedVars
  <2>6. /\ Len(Items) \in Nat /\ 0 < Len(Items)
        /\ Len(Items') = Len(Items) - 1
        /\ \A k \in 1 .. Len(Items') : Items'[k] = Items[k + 1]
        /\ taken' = Items[1]
    BY <2>3, HeadTailProperties, LenProperties
  <2>7. Fed' = Popped' + Len(Items') /\ taken' = Popped'
    <3>1. 1 \in 1 .. Len(Items)
      BY <2>6
    <3>2. Items[1] = Popped + 1 /\ Fed = Popped + Len(Items)
      BY <3>1, <2>2 DEF Pipeline
    <3>3. Popped + Len(Items) = (Popped + 1) + (Len(Items) - 1)
      BY <2>5, <2>6
    <3>4. Popped' + Len(Items') = (Popped + 1) + (Len(Items) - 1)
      BY <2>5, <2>6, Zenon
    <3>5. taken' = Popped'
      BY <3>2, <2>5, <2>6, Zenon
    <3> QED
      BY <3>2, <3>3, <3>4, <3>5, <2>5, Zenon
  <2>8. \A k \in 1 .. Len(Items') : Items'[k] = Popped' + k
    <3> SUFFICES ASSUME NEW k \in 1 .. Len(Items') PROVE Items'[k] = Popped' + k
      OBVIOUS
    <3>1. k + 1 \in 1 .. Len(Items)
      BY <2>6
    <3>2. Items[k + 1] = Popped + (k + 1)
      BY <3>1, <2>2 DEF Pipeline
    <3> QED
      BY <3>2, <2>5, <2>6
  <2>9. Pipeline'
    BY <2>1, <2>2, <2>4, <2>7, <2>8 DEF Pipeline, feedVars
  <2>10. ReplayTypes'
    BY <1>0, <2>1, <2>4 DEF ReplayTypes, feedVars
  <2> QED
    BY <1>q, <2>1, <2>4, <2>9, <2>10 DEF ReplayInv
<1>7. ASSUME MatchNow PROVE ReplayInv'
  <2>1. matchAt = "now" /\ matchAt' = "load"
    BY <1>7 DEF MatchNow
  <2>2. Pipeline
    BY <2>1 DEF ReplayInv
  <2>3. /\ UNCHANGED <<feedVars, handoff, processed, errorCount, cpc, ppc, event,
                       taken, destroyed>>
        /\ Items' = Items
        /\ clock' = clock + 1 /\ poppedAt' = clock + 1
    BY <1>7 DEF MatchNow, queueVars, producerVars, consumerVars, Items, Published
  <2>4. Pipeline'
    BY <2>1, <2>2, <2>3 DEF Pipeline, feedVars, Fed, Popped
  <2>5. ReplayTypes'
    BY <1>0, <2>1, <2>3 DEF ReplayTypes, feedVars
  <2> QED
    BY <1>q, <2>1, <2>3, <2>4, <2>5 DEF ReplayInv
<1>8. ASSUME MatchLoad PROVE ReplayInv'
  <2>1. matchAt = "load" /\ matchAt' = "process"
    BY <1>8 DEF MatchLoad
  <2>2. Pipeline
    BY <2>1 DEF ReplayInv
  <2>3. /\ UNCHANGED <<feedVars, poppedAt, processed, errorCount, clock, cpc, ppc,
                       event, taken, destroyed>>
        /\ Items' = Items
        /\ handoff' = Append(handoff, <<poppedAt, pushNs[consumed + 1]>>)
    BY <1>8 DEF MatchLoad, queueVars, producerVars, consumerVars, Items, Published
  <2>4. consumed + 1 \in Events
    <3>1. Len(Items) \in Nat
      <4>1. ~destroyed
        BY <2>1, <2>2 DEF Pipeline
      <4> QED
        BY <4>1, <1>0, PublishedFacts, LenProperties DEF Items
    <3>2. Len(handoff) + 1 <= Fed
      BY <3>1, <2>1, <2>2, <1>i DEF Pipeline, Popped
    <3> QED
      BY <3>2, <1>i, <1>e DEF Fed, consumed
  <2>5. handoff' \in Seq(Nat \X Nat) /\ Len(handoff') = Len(handoff) + 1
    BY <1>0, <2>3, <2>4 DEF ReplayTypes
  <2>6. Popped' = Popped /\ Fed' = Fed
    BY <2>1, <2>3, <2>5 DEF Popped, Fed, feedVars
  <2>7. Pipeline'
    BY <2>1, <2>2, <2>3, <2>5, <2>6 DEF Pipeline, feedVars
  <2>8. ReplayTypes'
    BY <1>0, <2>1, <2>3, <2>5 DEF ReplayTypes, feedVars
  <2> QED
    BY <1>q, <2>1, <2>3, <2>7, <2>8 DEF ReplayInv
<1>9. ASSUME MatchProcess PROVE ReplayInv'
  <2>1. matchAt = "process" /\ matchAt' = IF consumed < EventCount THEN "pop" ELSE "join"
    BY <1>9 DEF MatchProcess
  <2>2. Pipeline
    BY <2>1 DEF ReplayInv
  <2>3. /\ UNCHANGED <<feedVars, poppedAt, handoff, clock, cpc, ppc,
                       event, taken, destroyed>>
        /\ Items' = Items
        /\ processed' = Append(processed, taken)
    BY <1>9 DEF MatchProcess, queueVars, producerVars, consumerVars, Items, Published
  <2>4. taken = Len(handoff) /\ Len(handoff) = Len(processed) + 1
    BY <2>1, <2>2 DEF Pipeline, Popped
  <2>5. taken \in Events
    <3>1. Len(Items) \in Nat
      <4>1. ~destroyed
        BY <2>1, <2>2 DEF Pipeline
      <4> QED
        BY <4>1, <1>0, PublishedFacts, LenProperties DEF Items
    <3>2. Len(handoff) <= Fed
      BY <3>1, <2>1, <2>2, <1>i DEF Pipeline, Popped
    <3> QED
      BY <3>2, <2>4, <1>i, <1>e DEF Fed
  <2>6. /\ processed' \in Seq(Events) /\ Len(processed') = Len(processed) + 1
        /\ \A k \in 1 .. Len(processed') : processed'[k] = k
    BY <1>0, <1>i, <2>3, <2>4, <2>5 DEF ReplayTypes, ReplayInv
  <2>7. Popped' = Popped /\ Fed' = Fed
    BY <2>1, <2>3 DEF Popped, Fed, feedVars
  <2>8. Pipeline'
    BY <1>i, <1>e, <2>1, <2>2, <2>3, <2>4, <2>6, <2>7 DEF Pipeline, feedVars, consumed
  <2>9. ReplayTypes'
    BY <1>0, <2>1, <2>3, <2>6 DEF ReplayTypes, feedVars
  <2> QED
    BY <1>q, <2>1, <2>6, <2>8, <2>9 DEF ReplayInv
<1>10. ASSUME MatchJoin PROVE ReplayInv'
  <2>1. matchAt = "join" /\ matchAt' = "done" /\ feedAt = "done"
    BY <1>10 DEF MatchJoin
  <2>2. Pipeline
    BY <2>1 DEF ReplayInv
  <2>3. /\ UNCHANGED <<feedVars, poppedAt, handoff, processed, errorCount, clock, cpc,
                       ppc, event, taken>>
        /\ destroyed' = TRUE /\ ~destroyed
    BY <1>10 DEF MatchJoin, DestroyQueue, producerVars, consumerVars
  <2>4. Items' = <<>> /\ Len(Items) \in Nat
    BY <2>3, <1>0, PublishedFacts, LenProperties DEF Items
  <2>5. /\ Fed = EventCount /\ Popped = Len(handoff) /\ EventCount <= Len(handoff)
        /\ Fed' = Fed /\ Popped' = Popped
    BY <2>1, <2>2, <2>3 DEF Pipeline, Fed, Popped, feedVars
  <2>6. Fed' = Popped' + 0
    BY <2>2, <2>4, <2>5, <1>i, <1>e DEF Pipeline
  <2>7. Pipeline'
    BY <2>1, <2>2, <2>3, <2>4, <2>6 DEF Pipeline, feedVars
  <2>8. ReplayTypes'
    BY <1>0, <2>1, <2>3 DEF ReplayTypes, feedVars
  <2> QED
    BY <1>q, <2>1, <2>3, <2>7, <2>8 DEF ReplayInv
<1>11. ASSUME OtherClient PROVE ReplayInv'
  BY <1>0, <1>q, <1>11 DEF OtherClient, ReplayInv, ReplayTypes, feedVars, matchVars
<1>12. ASSUME UNCHANGED replayVars PROVE ReplayInv'
  <2>1. /\ UNCHANGED <<feedVars, matchVars, clock>>
        /\ UNCHANGED <<ppc, event, cpc, taken, destroyed>>
        /\ Items' = Items
    BY <1>12 DEF replayVars, queueVars, producerVars, consumerVars, Items, Published
  <2>2. Pipeline => Pipeline'
    BY <2>1 DEF Pipeline, Fed, Popped, feedVars, matchVars
  <2>3. ReplayTypes'
    BY <1>0, <2>1 DEF ReplayTypes, feedVars, matchVars
  <2> QED
    BY <1>q, <2>1, <2>2, <2>3 DEF ReplayInv, matchVars
<1> QED
  BY <1>1, <1>2, <1>3, <1>4, <1>5, <1>6, <1>7, <1>8, <1>9, <1>10, <1>11, <1>12
     DEF ReplayNext, Feed, Match

\* The invariant of threaded_replay_benchmark holds in every reachable state, for
\* any number of events and any queue.
THEOREM ReplayInvariant == ReplaySpec => []ReplayInv
  BY ReplayInvInit, ReplayInvStep, PTL DEF ReplaySpec

\* The matching thread gives the engine every event, once, in file order, and joins
\* only when it has processed them all.
THEOREM ReplayProcessesInOrder == ReplaySpec => []ProcessedInOrder
<1>1. ReplayInv => ProcessedInOrder
  <2> SUFFICES ASSUME ReplayInv, matchAt \in {"join", "done"}
               PROVE  Len(processed) = EventCount
    BY DEF ReplayInv, ProcessedInOrder
  <2>1. Pipeline /\ ReplayTypes /\ QueueInv
    BY DEF ReplayInv
  <2>2. Len(processed) = Len(handoff) /\ EventCount <= Len(handoff)
    BY <2>1 DEF Pipeline
  <2>3. Len(Items) \in Nat
    BY <2>1, PublishedFacts, LenProperties DEF Items
  <2>4. /\ EventCount \in Nat /\ sent \in 1 .. EventCount
        /\ Len(handoff) \in Nat
    BY <2>1, ReplayAssumption DEF ReplayTypes
  <2>5. Len(handoff) <= Fed
    BY <2>1, <2>3, <2>4 DEF Pipeline, Popped
  <2> QED
    BY <2>2, <2>4, <2>5 DEF Fed
<1> QED
  BY <1>1, ReplayInvariant, PTL

\* The queue under the replay, and under any other pair of threads, keeps its types,
\* its cursors ordered and its slots exact, without a race.
THEOREM ReplayQueueSafety ==
  ReplaySpec => [](QueueTypeOK /\ CursorsOrdered /\ SlotsExact /\ NoSlotRace)
<1>1. ReplayInv => QueueTypeOK /\ CursorsOrdered /\ SlotsExact /\ NoSlotRace
  BY RaceFree DEF ReplayInv, QueueInv
<1> QED
  BY <1>1, ReplayInvariant, PTL

\* The queue under the replay is a bounded FIFO.
THEOREM ReplayRefinesFifo == ReplaySpec => ImplementsBoundedFifo
<1>1. ReplayInv /\ [ReplayNext]_replayVars => [QueueNext]_queueVars
  BY ReplayIsQueue DEF ReplayInv
<1>2. ReplaySpec => QueueSpec
  BY <1>1, ReplayInvariant, PTL DEF ReplaySpec, QueueSpec, ReplayInit
<1> QED
  BY <1>2, QueueRefinesFifo
=============================================================================

------------------------- MODULE LadderSizingProofs -------------------------
(***************************************************************************)
(* Proofs about the price ladder and the tools that size it, for every     *)
(* integer width, word size, tick, headroom and history of calls.          *)
(*                                                                         *)
(* A ladder that is built has its shape (BuiltShape: the highest price is  *)
(* min + (count - 1) * tick and fits the width), because RangeOverflows    *)
(* tests a quotient and DivBound turns that into the product; from the     *)
(* shape the map between prices and indices is exact.  The words of the    *)
(* bitset hold the filled levels (Holds), so the scan of nextSetBit, which *)
(* starts in the middle of a word, returns the least filled index from its *)
(* start (NextSetBitExact), and the cached best index stays the minimum.   *)
(* The range a tool asks for fits under HeadroomFits.                      *)
(***************************************************************************)
EXTENDS LadderSizing, DataLemmas

\* Products of naturals.
LEMMA TimesType ==
  ASSUME NEW a \in Nat, NEW t \in Nat
  PROVE  a * t \in Nat
  BY SMT

\* One factor more.
LEMMA TimesSucc ==
  ASSUME NEW a \in Int, NEW t \in Nat
  PROVE  a * t \in Int /\ (a + 1) * t = a * t + t
  BY SMT

\* A product of a difference.
LEMMA TimesDiff ==
  ASSUME NEW a \in Int, NEW b \in Int, NEW t \in Nat
  PROVE  (a - b) * t = a * t - b * t
  BY SMT

\* Multiplication is monotonic.
LEMMA TimesMono ==
  ASSUME NEW a \in Int, NEW b \in Int, NEW t \in Nat, a <= b
  PROVE  a * t <= b * t
<1>1. PICK d \in Nat : b = a + d
  <2>1. b - a \in Nat /\ b = a + (b - a)
    OBVIOUS
  <2> QED BY <2>1
<1>2. (a + d) * t = a * t + d * t /\ d * t \in Nat /\ a * t \in Int
  BY SMT
<1> QED BY <1>1, <1>2

\* Quotient and remainder.
LEMMA DivMod ==
  ASSUME NEW x \in Int, NEW t \in Nat \ {0}
  PROVE  /\ x \div t \in Int /\ x % t \in 0 .. t - 1
         /\ x = (x \div t) * t + (x % t)
         /\ x \in Nat => x \div t \in Nat
  BY SMT

\* The same for a natural number.
LEMMA DivModNat ==
  ASSUME NEW x \in Nat, NEW t \in Nat \ {0}
  PROVE  \E q \in Nat, r \in 0 .. t - 1 :
           q = x \div t /\ r = x % t /\ x = q * t + r
<1>1. x \in Int
  OBVIOUS
<1>2. /\ x % t \in 0 .. t - 1 /\ x = (x \div t) * t + (x % t)
      /\ x \div t \in Nat
  BY <1>1, DivMod
<1> QED BY <1>2

\* They are determined by the equation that defines them.
LEMMA DivModUnique ==
  ASSUME NEW t \in Nat \ {0}, NEW q \in Int, NEW r \in 0 .. t - 1,
         NEW x \in Int, x = q * t + r
  PROVE  x \div t = q /\ x % t = r
<1> DEFINE p == x \div t
           s == x % t
<1>1. p \in Int /\ s \in 0 .. t - 1 /\ x = p * t + s
  BY DivMod
<1> HIDE DEF p, s
<1>2. p * t \in Int /\ q * t \in Int
  BY <1>1, SMT
<1>3. ~(p < q)
  <2> SUFFICES ASSUME p < q PROVE FALSE
    OBVIOUS
  <2>1. (p + 1) * t <= q * t
    BY <1>1, TimesMono
  <2>2. (p + 1) * t = p * t + t
    BY <1>1, TimesSucc
  <2> QED BY <1>1, <1>2, <2>1, <2>2
<1>4. ~(q < p)
  <2> SUFFICES ASSUME q < p PROVE FALSE
    OBVIOUS
  <2>1. (q + 1) * t <= p * t
    BY <1>1, TimesMono
  <2>2. (q + 1) * t = q * t + t
    BY <1>1, TimesSucc
  <2> QED BY <1>1, <1>2, <2>1, <2>2
<1>5. p = q
  BY <1>1, <1>3, <1>4
<1>6. s = r
  BY <1>1, <1>2, <1>5
<1> QED BY <1>5, <1>6 DEF p, s

\* A multiple has no remainder.
LEMMA ModZero ==
  ASSUME NEW t \in Nat \ {0}, NEW q \in Int
  PROVE  (q * t) % t = 0 /\ (q * t) \div t = q
<1>1. PICK x \in Int : x = q * t
  BY SMT
<1>2. x = q * t + 0 /\ 0 \in 0 .. t - 1
  BY <1>1
<1> QED BY <1>1, <1>2, DivModUnique

\* Comparing with a quotient is comparing the product: the constructor tests the
\* range without computing it.
LEMMA DivBound ==
  ASSUME NEW x \in Int, NEW t \in Nat \ {0}, NEW k \in Int
  PROVE  k > x \div t <=> k * t > x
<1>1. PICK q \in Int, r \in 0 .. t - 1 : q = x \div t /\ x = q * t + r
  BY DivMod
<1>2. q * t \in Int /\ k * t \in Int
  BY SMT
<1>3. CASE k > q
  <2>1. (q + 1) * t <= k * t
    BY <1>3, TimesMono
  <2>2. (q + 1) * t = q * t + t
    BY TimesSucc
  <2> QED BY <1>1, <1>2, <1>3, <2>1, <2>2
<1>4. CASE ~(k > q)
  <2>1. k * t <= q * t
    BY <1>4, TimesMono
  <2> QED BY <1>1, <1>2, <1>4, <2>1
<1> QED BY <1>3, <1>4

\* The idiom (x + t - 1) / t * t rounds up to a multiple of t.
LEMMA RoundUp ==
  ASSUME NEW x \in Nat, NEW t \in Nat \ {0}
  PROVE  \E k \in Nat, y \in Nat :
           /\ k = (x + t - 1) \div t /\ y = k * t
           /\ x <= y /\ y <= x + t - 1
<1>1. PICK z \in Nat : z = x + t - 1
  OBVIOUS
<1>2. PICK k \in Nat, r \in 0 .. t - 1 : k = z \div t /\ z = k * t + r
  BY DivModNat
<1>3. PICK y \in Nat : y = k * t
  BY TimesType
<1>4. x <= y /\ y <= x + t - 1
  BY <1>1, <1>2, <1>3
<1> QED BY <1>1, <1>2, <1>3, <1>4

\* Numbers with the same remainder differ by a multiple.
LEMMA SameClass ==
  ASSUME NEW t \in Nat \ {0}, NEW x \in Int, NEW y \in Int, x % t = y % t
  PROVE  \E k \in Int : x - y = k * t
<1>1. PICK q \in Int, r \in 0 .. t - 1 : x = q * t + r /\ r = x % t
  BY DivMod
<1>2. PICK p \in Int, s \in 0 .. t - 1 : y = p * t + s /\ s = y % t
  BY DivMod
<1>3. (q - p) * t = q * t - p * t /\ q * t \in Int /\ p * t \in Int
  BY TimesDiff, TimesSucc
<1>4. x - y = (q - p) * t /\ q - p \in Int
  BY <1>1, <1>2, <1>3
<1> QED BY <1>4

\* Adding a multiple keeps the remainder.
LEMMA ClassShift ==
  ASSUME NEW t \in Nat \ {0}, NEW x \in Int, NEW y \in Int, NEW k \in Int,
         x - y = k * t
  PROVE  x % t = y % t
<1>1. PICK p \in Int, s \in 0 .. t - 1 : y = p * t + s /\ s = y % t
  BY DivMod
<1>2. (p + k) * t = p * t + k * t /\ p * t \in Int /\ k * t \in Int
  BY SMT
<1>3. x = (p + k) * t + s /\ p + k \in Int
  <2>1. PICK a \in Int, b \in Int : a = p * t /\ b = k * t
    BY <1>2
  <2>2. x - y = b /\ y = a + s
    BY <1>1, <2>1, Zenon
  <2>3. x = a + b + s
    BY <2>2
  <2> QED BY <1>2, <2>1, <2>3
<1>4. x % t = s
  BY <1>3, DivModUnique
<1> QED BY <1>1, <1>4

\* Arithmetic that stays in the width does not wrap.
LEMMA WrapSmall ==
  ASSUME NEW n \in Raw
  PROVE  Wrap(n) = n
<1>1. MaxRaw + 1 \in Nat \ {0} /\ n \in 0 .. MaxRaw + 1 - 1 /\ n \in Int
  BY WidthAssumption DEF Raw
<1>2. PICK m \in Nat \ {0} : m = MaxRaw + 1
  BY <1>1
<1>3. n \in 0 .. m - 1
  BY <1>1, <1>2, WidthAssumption
<1>4. n % m = n
  BY <1>3, SMT
<1> QED BY <1>2, <1>4 DEF Wrap
-----------------------------------------------------------------------------
\* What the constructor makes of a range it accepts.
BuiltShape(l) ==
  /\ l = [status |-> "built", min |-> l.min, tick |-> l.tick, max |-> l.max,
          count |-> l.count, descending |-> l.descending]
  /\ l.min \in Nat \ {0} /\ l.tick \in Nat \ {0} /\ l.count \in Nat \ {0}
  /\ l.descending \in BOOLEAN
  /\ l.max = l.min + (l.count - 1) * l.tick
  /\ l.max \in Raw

\* A range it refuses: a zero argument, or one that does not fit the width.
RefusedShape(l) ==
  /\ l = [status |-> "refused", min |-> l.min, tick |-> l.tick,
          count |-> l.count]
  /\ \/ 0 \in {l.min, l.tick, l.count}
     \/ l.min + (l.count - 1) * l.tick > MaxRaw

\* The ladder is one of these, or not built yet.
LadderOK == ladder = None \/ BuiltShape(ladder) \/ RefusedShape(ladder)

\* The constructor accepts exactly the ranges that fit.
LEMMA ConstructStep ==
  ASSUME NEW min \in Nat, NEW step \in Nat, NEW count \in Nat,
         NEW descending \in BOOLEAN, Construct(min, step, count, descending)
  PROVE  LadderOK'
<1> DEFINE top == min + (count - 1) * step
<1>1. CASE min = 0 \/ step = 0 \/ count = 0
  <2>1. ladder' = [status |-> "refused", min |-> min, tick |-> step,
                   count |-> count]
    BY <1>1 DEF Construct
  <2> QED BY <1>1, <2>1 DEF LadderOK, RefusedShape
<1>2. CASE min # 0 /\ step # 0 /\ count # 0
  <2>0. PICK k \in Nat : k = count - 1
    BY <1>2
  <2>1. RangeOverflows(min, step, count) <=> k * step > MaxRaw - min
    <3>1. PICK room \in Int : room = MaxRaw - min
      BY WidthAssumption
    <3>2. k > room \div step <=> k * step > room
      BY <1>2, DivBound
    <3> QED BY <2>0, <3>1, <3>2 DEF RangeOverflows
  <2>2. k * step \in Nat /\ top = min + k * step
    BY <2>0, TimesType
  <2> HIDE DEF top
  <2>3. CASE RangeOverflows(min, step, count)
    <3>1. ladder' = [status |-> "refused", min |-> min, tick |-> step,
                     count |-> count]
      BY <2>3 DEF Construct
    <3>2. top > MaxRaw
      BY <2>1, <2>2, <2>3, WidthAssumption
    <3> QED BY <3>1, <3>2 DEF LadderOK, RefusedShape, top
  <2>4. CASE ~RangeOverflows(min, step, count)
    <3>1. ladder' = [status |-> "built", min |-> min, tick |-> step,
                     max |-> Wrap(top), count |-> count,
                     descending |-> descending]
      BY <1>2, <2>4 DEF Construct, top
    <3>2. top \in Raw
      BY <2>1, <2>2, <2>4, WidthAssumption DEF Raw
    <3>3. Wrap(top) = top
      BY <3>2, WrapSmall
    <3>4. BuiltShape(ladder')
      BY <1>2, <3>1, <3>2, <3>3 DEF BuiltShape, top
    <3> QED BY <3>4 DEF LadderOK
  <2> QED BY <2>3, <2>4
<1> QED BY <1>1, <1>2

\* The price of a level is its true price, without wrapping.
LEMMA LevelPrices ==
  ASSUME BuiltShape(ladder), NEW i \in 0 .. ladder.count - 1
  PROVE  /\ i * ladder.tick \in Nat
         /\ (ladder.count - 1 - i) * ladder.tick
              = ladder.max - ladder.min - i * ladder.tick
         /\ ladder.min + i * ladder.tick \in ladder.min .. ladder.max
         /\ LevelPrice(i) =
              IF ladder.descending
                THEN ladder.min + (ladder.count - 1 - i) * ladder.tick
                ELSE ladder.min + i * ladder.tick
<1>1. PICK a \in Nat, t \in Nat \ {0}, k \in Nat, top \in Raw :
        /\ a = ladder.min /\ t = ladder.tick /\ k = ladder.count - 1
        /\ top = ladder.max /\ top = a + k * t
  BY DEF BuiltShape
<1>2. i \in Nat /\ i <= k
  BY <1>1
<1>3. i * t \in Nat /\ k * t \in Nat /\ i * t <= k * t
  BY <1>2, TimesType, TimesMono
<1>4. (k - i) * t = k * t - i * t
  BY <1>2, TimesDiff
<1>5. a + i * t \in a .. top /\ a + i * t \in Raw /\ top - i * t \in Raw
  <2>1. PICK x \in Nat, y \in Nat : x = i * t /\ y = k * t
    BY <1>3
  <2>2. x <= y /\ top = a + y /\ top \in 0 .. MaxRaw /\ MaxRaw \in Nat
    BY <1>1, <1>3, <2>1, WidthAssumption DEF Raw
  <2>3. a + x \in a .. top /\ a + x \in 0 .. MaxRaw /\ top - x \in 0 .. MaxRaw
    BY <2>2
  <2> QED BY <2>1, <2>3 DEF Raw
<1>6. Wrap(a + i * t) = a + i * t /\ Wrap(top - i * t) = top - i * t
  BY <1>5, WrapSmall
<1>7. top - i * t = a + (k - i) * t
  BY <1>1, <1>3, <1>4
<1>8. LevelPrice(i) = IF ladder.descending THEN a + (k - i) * t ELSE a + i * t
  BY <1>1, <1>6, <1>7 DEF LevelPrice
<1> QED BY <1>1, <1>3, <1>4, <1>5, <1>8

\* What indexOf computes for a price inside the range.
LEMMA LookupOffset ==
  ASSUME BuiltShape(ladder), NEW price \in Raw,
         ladder.min <= price, price <= ladder.max
  PROVE  \E offset \in Nat :
           /\ offset = IF ladder.descending THEN ladder.max - price
                                            ELSE price - ladder.min
           /\ IndexOf(price).error <=> offset % ladder.tick # 0
           /\ ~IndexOf(price).error =>
                IndexOf(price).at = offset \div ladder.tick
<1>1. PICK a \in Nat, top \in Raw : a = ladder.min /\ top = ladder.max
  BY DEF BuiltShape
<1>2. price \in Nat /\ a <= price /\ price <= top /\ top \in 0 .. MaxRaw
      /\ MaxRaw \in Nat
  BY <1>1, WidthAssumption DEF Raw
<1>3. price - a \in 0 .. MaxRaw /\ top - price \in 0 .. MaxRaw
  BY <1>2
<1>4. Wrap(price - a) = price - a /\ Wrap(top - price) = top - price
  BY <1>3, WrapSmall DEF Raw
<1>5. PICK offset \in Nat :
        /\ offset = IF ladder.descending THEN top - price ELSE price - a
        /\ offset = IF ladder.descending THEN Wrap(top - price)
                                         ELSE Wrap(price - a)
  BY <1>3, <1>4
<1>6. ~(price < ladder.min \/ price > ladder.max)
  BY <1>1, <1>2
<1>7. IndexOf(price) =
        IF offset % ladder.tick # 0 THEN NotFound
        ELSE [at |-> offset \div ladder.tick, error |-> FALSE]
  BY <1>1, <1>5, <1>6 DEF IndexOf
<1>8. IndexOf(price).error <=> offset % ladder.tick # 0
  BY <1>7 DEF NotFound
<1>9. ~IndexOf(price).error => IndexOf(price).at = offset \div ladder.tick
  BY <1>7, <1>8
<1> QED BY <1>1, <1>5, <1>8, <1>9

\* indexOf finds the level of a price, and refuses a price that has none.
LEMMA IndexOfExact ==
  ASSUME BuiltShape(ladder), NEW price \in Raw
  PROVE  IF IndexOf(price).error
           THEN \A i \in 0 .. ladder.count - 1 : LevelPrice(i) # price
           ELSE /\ IndexOf(price).at \in 0 .. ladder.count - 1
                /\ LevelPrice(IndexOf(price).at) = price
<1>1. PICK a \in Nat, t \in Nat \ {0}, k \in Nat, top \in Raw :
        /\ a = ladder.min /\ t = ladder.tick /\ k = ladder.count - 1
        /\ top = ladder.max /\ top = a + k * t
  BY DEF BuiltShape
<1>0. PICK kt \in Nat : kt = k * t /\ top = a + kt
  BY <1>1, TimesType
<1>2. price \in Nat /\ top \in Nat
  BY WidthAssumption DEF Raw
<1>3. ASSUME NEW i \in 0 .. ladder.count - 1
      PROVE  \E x \in 0 .. kt :
               /\ x = i * t
               /\ LevelPrice(i) = IF ladder.descending THEN top - x ELSE a + x
  <2>1. /\ i * t \in Nat /\ (k - i) * t = top - a - i * t
        /\ LevelPrice(i) = IF ladder.descending THEN a + (k - i) * t
                                                ELSE a + i * t
        /\ a + i * t \in a .. top
    BY <1>1, LevelPrices
  <2>2. PICK x \in Nat : x = i * t
    BY <2>1
  <2>3. x \in 0 .. kt /\ a + (top - a - x) = top - x
    <3>1. a + x \in a .. top
      BY <2>1, <2>2
    <3> QED BY <1>0, <1>2, <3>1
  <2> QED BY <2>1, <2>2, <2>3
<1>4. CASE price < a \/ price > top
  <2>1. IndexOf(price) = NotFound
    BY <1>1, <1>4 DEF IndexOf
  <2>2. IndexOf(price).error
    BY <2>1 DEF NotFound
  <2>3. ASSUME NEW i \in 0 .. ladder.count - 1 PROVE LevelPrice(i) # price
    BY <1>0, <1>2, <1>3, <1>4
  <2> QED BY <2>2, <2>3
<1>5. CASE a <= price /\ price <= top
  <2>1. PICK offset \in Nat :
          /\ offset = IF ladder.descending THEN top - price ELSE price - a
          /\ IndexOf(price).error <=> offset % t # 0
          /\ ~IndexOf(price).error => IndexOf(price).at = offset \div t
    BY <1>1, <1>5, LookupOffset
  <2>2. CASE offset % t # 0
    <3>1. ASSUME NEW i \in 0 .. ladder.count - 1, LevelPrice(i) = price
          PROVE  FALSE
      <4>1. PICK x \in 0 .. kt :
              /\ x = i * t
              /\ LevelPrice(i) = IF ladder.descending THEN top - x ELSE a + x
        BY <1>3
      <4>2. x = offset
        BY <1>2, <2>1, <3>1, <4>1
      <4>3. x % t = 0
        BY <4>1, ModZero
      <4> QED BY <2>2, <4>2, <4>3
    <3> QED BY <2>1, <2>2, <3>1
  <2>3. CASE offset % t = 0
    <3>1. PICK i \in Nat : i = offset \div t /\ offset = i * t
      <4>1. PICK q \in Nat, r \in 0 .. t - 1 :
              /\ q = offset \div t /\ r = offset % t /\ offset = q * t + r
        BY DivMod
      <4>2. PICK qt \in Nat : qt = q * t
        BY TimesType
      <4>3. offset = qt
        BY <2>3, <4>1, <4>2
      <4> QED BY <4>1, <4>2, <4>3
    <3>2. offset <= kt
      BY <1>0, <1>2, <1>5, <2>1
    <3>3. i <= k
      <4>1. ~(i > k)
        <5> SUFFICES ASSUME i > k PROVE FALSE
          OBVIOUS
        <5>1. (k + 1) * t <= i * t /\ (k + 1) * t = k * t + t
          BY TimesMono, TimesSucc
        <5>2. kt + t <= offset
          BY <1>0, <3>1, <5>1
        <5> QED BY <3>2, <5>2
      <4> QED BY <4>1
    <3>4. i \in 0 .. ladder.count - 1
      BY <1>1, <3>3
    <3>5. PICK x \in 0 .. kt :
              /\ x = i * t
              /\ LevelPrice(i) = IF ladder.descending THEN top - x ELSE a + x
      BY <1>3, <3>4
    <3>6. LevelPrice(i) = price
      BY <1>2, <2>1, <3>1, <3>5
    <3> QED BY <2>1, <2>3, <3>1, <3>4, <3>6
  <2> QED BY <2>2, <2>3
<1> QED BY <1>2, <1>4, <1>5

\* The shape is all that the price map needs.
LEMMA PriceMap == LadderOK => PriceMapExact
<1> SUFFICES ASSUME LadderOK PROVE PriceMapExact
  OBVIOUS
<1>1. ladder.status = "refused" => RefusedShape(ladder)
  BY DEF LadderOK, None, BuiltShape
<1>2. Built => BuiltShape(ladder)
  BY DEF Built, LadderOK, None, RefusedShape
<1>3. ASSUME BuiltShape(ladder), NEW i \in 0 .. ladder.count - 1
      PROVE  LevelPrice(i) = IF ladder.descending
               THEN ladder.min + (ladder.count - 1 - i) * ladder.tick
               ELSE ladder.min + i * ladder.tick
  BY <1>3, LevelPrices
<1>4. ASSUME BuiltShape(ladder), NEW price \in Raw
      PROVE  IF IndexOf(price).error
               THEN \A i \in 0 .. ladder.count - 1 : LevelPrice(i) # price
               ELSE /\ IndexOf(price).at \in 0 .. ladder.count - 1
                    /\ LevelPrice(IndexOf(price).at) = price
  BY <1>4, IndexOfExact
<1> QED BY <1>1, <1>2, <1>3, <1>4 DEF PriceMapExact, RefusedShape

-----------------------------------------------------------------------------
\* A lower bound that is a member is the minimum.
LEMMA MinIs ==
  ASSUME NEW S \in SUBSET Nat, NEW m \in S, \A x \in S : m <= x
  PROVE  Min(S) = m
<1>1. Min(S) \in S /\ \A x \in S : Min(S) <= x
  BY MinOfNats
<1>2. Min(S) <= m /\ m <= Min(S) /\ Min(S) \in Nat /\ m \in Nat
  BY <1>1
<1> QED BY <1>2

\* An index is its word and its bit.
LEMMA WordBit ==
  ASSUME NEW i \in Nat
  PROVE  /\ WordOf(i) \in Nat \ {0} /\ BitOf(i) \in 0 .. WordBits - 1
         /\ (WordOf(i) - 1) * WordBits \in Nat
         /\ i = (WordOf(i) - 1) * WordBits + BitOf(i)
<1>1. PICK wb \in Nat \ {0} : wb = WordBits
  BY WidthAssumption
<1>2. PICK q \in Nat, r \in 0 .. wb - 1 :
        q = i \div wb /\ r = i % wb /\ i = q * wb + r
  BY DivMod
<1>3. q * wb \in Nat
  BY TimesType
<1>4. WordOf(i) = q + 1 /\ BitOf(i) = r /\ WordOf(i) - 1 = q
  BY <1>1, <1>2 DEF WordOf, BitOf
<1> QED BY <1>1, <1>2, <1>3, <1>4

\* And its word and bit determine it.
LEMMA WordBitOf ==
  ASSUME NEW w \in Nat \ {0}, NEW b \in 0 .. WordBits - 1,
         NEW i \in Nat, i = (w - 1) * WordBits + b
  PROVE  WordOf(i) = w /\ BitOf(i) = b
<1>1. PICK wb \in Nat \ {0} : wb = WordBits
  BY WidthAssumption
<1>2. PICK q \in Nat : q = w - 1
  OBVIOUS
<1>3. i = q * wb + b /\ b \in 0 .. wb - 1
  BY <1>1, <1>2
<1>4. i \div wb = q /\ i % wb = b
  BY <1>3, DivModUnique
<1> QED BY <1>1, <1>2, <1>4 DEF WordOf, BitOf

\* n words hold the indices below n * WordBits.
LEMMA WordRange ==
  ASSUME NEW i \in Nat, NEW n \in Nat
  PROVE  n * WordBits \in Nat /\ (i < n * WordBits <=> WordOf(i) <= n)
<1>1. PICK wb \in Nat \ {0} : wb = WordBits
  BY WidthAssumption
<1>2. n > i \div wb <=> n * wb > i
  BY DivBound
<1>3. i \div wb \in Nat /\ n * wb \in Nat
  BY DivMod, TimesType
<1>4. WordOf(i) = i \div wb + 1
  BY <1>1 DEF WordOf
<1> QED BY <1>1, <1>2, <1>3, <1>4

\* The order of indices is that of words, then of bits.
LEMMA WordOrder ==
  ASSUME NEW i \in Nat, NEW j \in Nat
  PROVE  /\ i <= j => WordOf(i) <= WordOf(j)
         /\ WordOf(i) < WordOf(j) => i < j
         /\ WordOf(i) = WordOf(j) => (BitOf(i) <= BitOf(j) <=> i <= j)
         /\ WordOf(i) = WordOf(j) => j - i = BitOf(j) - BitOf(i)
<1>1. /\ WordOf(i) \in Nat /\ BitOf(i) \in 0 .. WordBits - 1
      /\ (WordOf(i) - 1) * WordBits \in Nat
      /\ i = (WordOf(i) - 1) * WordBits + BitOf(i)
  BY WordBit
<1>2. /\ WordOf(j) \in Nat /\ BitOf(j) \in 0 .. WordBits - 1
      /\ (WordOf(j) - 1) * WordBits \in Nat
      /\ j = (WordOf(j) - 1) * WordBits + BitOf(j)
  BY WordBit
<1>3. i < WordOf(i) * WordBits /\ WordOf(i) * WordBits \in Nat
  BY <1>1, WordRange
<1>4. j < WordOf(i) * WordBits <=> WordOf(j) <= WordOf(i)
  BY <1>1, WordRange
<1>5. j < WordOf(j) * WordBits /\ WordOf(j) * WordBits \in Nat
  BY <1>2, WordRange
<1>6. i < WordOf(j) * WordBits <=> WordOf(i) <= WordOf(j)
  BY <1>2, WordRange
<1>7. i <= j => WordOf(i) <= WordOf(j)
  BY <1>5, <1>6
<1>8. WordOf(i) < WordOf(j) => i < j
  BY <1>1, <1>2, <1>3, <1>4
<1>9. ASSUME WordOf(i) = WordOf(j)
      PROVE  /\ BitOf(i) <= BitOf(j) <=> i <= j
             /\ j - i = BitOf(j) - BitOf(i)
  <2>1. PICK base \in Nat : base = (WordOf(i) - 1) * WordBits
    BY <1>1
  <2>2. PICK bi \in Int, bj \in Int : bi = BitOf(i) /\ bj = BitOf(j)
    BY <1>1, <1>2
  <2>3. i = base + bi /\ j = base + bj
    BY <1>1, <1>2, <1>9, <2>1, <2>2
  <2> QED BY <2>2, <2>3
<1> QED BY <1>7, <1>8, <1>9

\* The words bits represent the set of indices F.
Holds(bits, F) ==
  \A i \in Nat : i \in F <=> /\ WordOf(i) <= Len(bits)
                             /\ BitOf(i) \in bits[WordOf(i)]

\* The scan from an index goes to the least member of the set at or after it: in
\* the rest of the first word, or in the first later word that is not zero.  The
\* bounds test on the result never rejects it.
LEMMA NextSetBitFinds ==
  ASSUME NEW count \in Nat, count = ladder.count,
         NEW bits \in Seq(SUBSET (0 .. WordBits - 1)),
         NEW F \in SUBSET (0 .. count - 1), Holds(bits, F),
         NEW from \in Nat, \E j \in F : from <= j
  PROVE  NextSetBit(bits, from) = Min(From(F, from))
<1> DEFINE G == From(F, from)
           start == from \div WordBits + 1
           n == from % WordBits
           first == ShiftRight(bits[start], n)
           later == {w \in start + 1 .. Len(bits) : bits[w] # {}}
           found == (Min(later) - 1) * WordBits + CountrZero(bits[Min(later)])
<1> SUFFICES NextSetBit(bits, from) = Min(G)
  OBVIOUS
<1>0. F \in SUBSET Nat /\ G \in SUBSET Nat /\ Len(bits) \in Nat
  <2>1. F \in SUBSET Nat
    OBVIOUS
  <2>2. G \subseteq F
    BY DEF From
  <2> QED BY <2>1, <2>2, LenProperties
<1>1. PICK m \in G : m \in F /\ m \in Nat /\ m < count /\ from <= m
  <2>1. PICK m \in G : TRUE
    BY DEF From
  <2>2. m \in F /\ m \in 0 .. count - 1 /\ from <= m
    BY DEF From
  <2>3. m \in Nat /\ m < count
    BY <2>2
  <2> QED BY <2>2, <2>3
<1>2. start = WordOf(from) /\ n = BitOf(from)
  BY DEF WordOf, BitOf
<1>3. ~(from >= ladder.count)
  BY <1>1
<1>4. NextSetBit(bits, from) =
        IF first # {} THEN from + CountrZero(first)
        ELSE IF later = {} THEN NPosIndex
        ELSE IF found < ladder.count THEN found ELSE NPosIndex
  BY <1>3 DEF NextSetBit
<1>5. /\ start \in Nat \ {0} /\ n \in 0 .. WordBits - 1
      /\ (start - 1) * WordBits \in Nat
      /\ from = (start - 1) * WordBits + n
  BY <1>2, WordBit
<1>6. WordBits \in Nat \ {0}
  BY WidthAssumption
<1> HIDE DEF start, n
<1>7. start <= Len(bits)
  <2>1. WordOf(m) <= Len(bits)
    BY <1>1 DEF Holds
  <2>2. WordOf(from) <= WordOf(m) /\ WordOf(m) \in Nat
    BY <1>1, WordOrder, WordBit
  <2> QED BY <1>0, <1>2, <1>5, <2>1, <2>2
<1>8. bits[start] \subseteq 0 .. WordBits - 1
  BY <1>5, <1>7, ElementOfSeq
<1>9. first = {b - n : b \in {x \in bits[start] : x >= n}}
  BY DEF ShiftRight
<1>10. ASSUME NEW j \in G
       PROVE  /\ j \in Nat /\ from <= j /\ WordOf(j) \in start .. Len(bits)
              /\ BitOf(j) \in bits[WordOf(j)] /\ BitOf(j) \in 0 .. WordBits - 1
              /\ WordOf(j) = start => BitOf(j) - n \in first
  <2>1. j \in F /\ j \in Nat /\ from <= j
    BY <1>0 DEF From
  <2>2. /\ WordOf(j) <= Len(bits) /\ BitOf(j) \in bits[WordOf(j)]
        /\ WordOf(j) \in Nat /\ BitOf(j) \in 0 .. WordBits - 1
    BY <2>1, WordBit DEF Holds
  <2>3. start <= WordOf(j)
    BY <1>2, <2>1, WordOrder
  <2>4. ASSUME WordOf(j) = start PROVE BitOf(j) - n \in first
    <3>1. BitOf(j) >= n
      BY <1>2, <1>5, <2>1, <2>2, <2>4, WordOrder
    <3> QED BY <1>9, <2>2, <2>4, <3>1
  <2> QED BY <1>0, <1>5, <2>1, <2>2, <2>3, <2>4
<1>13. \A j \in F : from <= j => j \in G
  BY DEF From
<1> HIDE DEF first, later, found, G
<1>11. CASE first # {}
  <2>1. first \in SUBSET Nat
    BY <1>5, <1>8, <1>9
  <2>2. Min(first) \in first /\ \A x \in first : Min(first) <= x
    BY <1>11, <2>1, MinOfNats
  <2>3. PICK b \in bits[start] : b >= n /\ Min(first) = b - n
    BY <1>9, <2>2
  <2>4. b \in 0 .. WordBits - 1
    BY <1>8
  <2>5. PICK r \in Nat : r = from + Min(first)
    <3>1. Min(first) \in Nat
      BY <2>1, <2>2
    <3>2. from + Min(first) \in Nat
      BY <3>1
    <3> QED BY <3>2
  <2>6. r = (start - 1) * WordBits + b
    <3>1. PICK base \in Nat : base = (start - 1) * WordBits
      BY <1>5
    <3> QED BY <1>5, <2>3, <2>4, <2>5, <3>1
  <2>7. WordOf(r) = start /\ BitOf(r) = b
    BY <1>5, <2>4, <2>6, WordBitOf
  <2>8. r \in G
    <3>1. r \in F
      BY <1>7, <2>7 DEF Holds
    <3>2. from <= r
      <4>1. Min(first) \in Nat
        BY <2>1, <2>2
      <4> QED BY <2>5, <4>1
    <3> QED BY <1>13, <3>1, <3>2
  <2>9. ASSUME NEW j \in G PROVE r <= j
    <3>1. /\ j \in Nat /\ WordOf(j) \in start .. Len(bits)
          /\ BitOf(j) \in 0 .. WordBits - 1
          /\ WordOf(j) = start => BitOf(j) - n \in first
      BY <1>10
    <3>2. CASE WordOf(j) = start
      <4>1. b - n <= BitOf(j) - n
        BY <2>2, <2>3, <3>1, <3>2
      <4>2. b <= BitOf(j)
        BY <1>5, <2>4, <3>1, <4>1
      <4> QED BY <2>7, <3>1, <3>2, <4>2, WordOrder
    <3>3. CASE start < WordOf(j)
      <4>1. r < j
        BY <2>7, <3>1, <3>3, WordOrder
      <4> QED BY <3>1, <4>1
    <3> QED BY <1>0, <1>5, <3>1, <3>2, <3>3
  <2>10. Min(G) = r
    BY <1>0, <2>8, <2>9, MinIs
  <2> QED BY <1>4, <1>11, <2>5, <2>10 DEF CountrZero
<1>12. CASE first = {}
  <2>1. ASSUME NEW j \in G PROVE WordOf(j) \in later
    <3>1. WordOf(j) \in start .. Len(bits) /\ WordOf(j) # start
          /\ bits[WordOf(j)] # {}
      BY <1>10, <1>12
    <3>2. WordOf(j) \in start + 1 .. Len(bits)
      BY <1>0, <1>5, <3>1
    <3> QED BY <3>1, <3>2 DEF later
  <2>2. later # {} /\ later \in SUBSET Nat /\ later \subseteq 1 .. Len(bits)
    <3>1. WordOf(m) \in later
      BY <2>1
    <3>2. later \in SUBSET Nat /\ later \subseteq 1 .. Len(bits)
      BY <1>0, <1>5 DEF later
    <3> QED BY <3>1, <3>2
  <2>3. PICK w \in later : w = Min(later) /\ \A x \in later : w <= x
    BY <2>2, MinOfNats
  <2>4. /\ w \in Nat \ {0} /\ w <= Len(bits) /\ w \in 1 .. Len(bits)
        /\ bits[w] # {}
    BY <1>0, <2>2 DEF later
  <2>5. bits[w] \subseteq 0 .. WordBits - 1
    BY <2>4, ElementOfSeq
  <2>6. bits[w] \in SUBSET Nat
    BY <2>5, <1>6
  <2>7. PICK b \in bits[w] : b = Min(bits[w]) /\ \A x \in bits[w] : b <= x
    BY <2>4, <2>6, MinOfNats
  <2>8. b \in 0 .. WordBits - 1
    BY <2>5
  <2>9. (w - 1) * WordBits \in Nat
    <3>1. w - 1 \in Nat
      BY <2>4
    <3> QED BY <1>6, <3>1, TimesType
  <2>10. PICK r \in Nat : r = (w - 1) * WordBits + b
    BY <1>6, <2>8, <2>9
  <2>11. found = r
    BY <2>3, <2>7, <2>10 DEF found, CountrZero
  <2>12. WordOf(r) = w /\ BitOf(r) = b
    BY <2>4, <2>8, <2>10, WordBitOf
  <2>13. r \in F /\ r \in G
    <3>1. r \in F
      BY <2>4, <2>12 DEF Holds
    <3>2. start < w
      BY <1>0, <1>5 DEF later
    <3>3. from < r
      BY <1>2, <2>12, <3>2, WordOrder
    <3> QED BY <1>13, <3>1, <3>3
  <2>14. ASSUME NEW j \in G PROVE r <= j
    <3>1. /\ j \in Nat /\ WordOf(j) \in Nat /\ w <= WordOf(j)
          /\ BitOf(j) \in bits[WordOf(j)]
      BY <1>10, <2>1, <2>2, <2>3
    <3>2. CASE WordOf(j) = w
      <4>1. b <= BitOf(j)
        BY <2>7, <3>1, <3>2
      <4> QED BY <2>12, <3>1, <3>2, <4>1, WordOrder
    <3>3. CASE w < WordOf(j)
      <4>1. r < j
        BY <2>12, <3>1, <3>3, WordOrder
      <4> QED BY <3>1, <4>1
    <3> QED BY <2>4, <3>1, <3>2, <3>3
  <2>15. Min(G) = r
    BY <1>0, <2>13, <2>14, MinIs
  <2>16. found < ladder.count
    BY <2>11, <2>13
  <2> QED BY <1>4, <1>12, <2>2, <2>11, <2>15, <2>16
<1> QED BY <1>11, <1>12

\* The same when all members lie at or after the index.
LEMMA NextSetBitExact ==
  ASSUME NEW count \in Nat, count = ladder.count,
         NEW bits \in Seq(SUBSET (0 .. WordBits - 1)),
         NEW F \in SUBSET (0 .. count - 1), Holds(bits, F), F # {},
         NEW from \in Nat, \A j \in F : from <= j
  PROVE  NextSetBit(bits, from) = Min(F)
<1>1. From(F, from) = F
  BY DEF From
<1>2. \E j \in F : from <= j
  OBVIOUS
<1>3. NextSetBit(bits, from) = Min(From(F, from))
  BY <1>2, NextSetBitFinds
<1> QED BY <1>1, <1>3, Zenon

\* The scan finds nothing where the set has nothing left.
LEMMA NextSetBitEnds ==
  ASSUME NEW count \in Nat, count = ladder.count,
         NEW bits \in Seq(SUBSET (0 .. WordBits - 1)), count <= Len(bits) * WordBits,
         NEW F \in SUBSET (0 .. count - 1), Holds(bits, F),
         NEW from \in Nat, \A j \in F : ~(from <= j)
  PROVE  NextSetBit(bits, from) = NPosIndex
<1> DEFINE start == from \div WordBits + 1
           n == from % WordBits
           first == ShiftRight(bits[start], n)
           later == {w \in start + 1 .. Len(bits) : bits[w] # {}}
           found == (Min(later) - 1) * WordBits + CountrZero(bits[Min(later)])
<1>1. CASE from >= count
  BY <1>1 DEF NextSetBit
<1>2. CASE from < count
  <2>0. Len(bits) \in Nat /\ WordBits \in Nat \ {0}
    BY LenProperties, WidthAssumption
  <2>1. start = WordOf(from) /\ n = BitOf(from)
    BY DEF WordOf, BitOf
  <2>2. /\ start \in Nat \ {0} /\ n \in 0 .. WordBits - 1
        /\ (start - 1) * WordBits \in Nat
        /\ from = (start - 1) * WordBits + n
    BY <2>1, WordBit
  <2>3. NextSetBit(bits, from) =
          IF first # {} THEN from + CountrZero(first)
          ELSE IF later = {} THEN NPosIndex
          ELSE IF found < ladder.count THEN found ELSE NPosIndex
    BY <1>2 DEF NextSetBit
  <2> HIDE DEF start, n
  <2>4. start <= Len(bits)
    <3>1. /\ Len(bits) * WordBits \in Nat
          /\ from < Len(bits) * WordBits <=> WordOf(from) <= Len(bits)
      BY <2>0, WordRange
    <3> QED BY <1>2, <2>1, <3>1
  <2>5. ASSUME NEW w \in 1 .. Len(bits), NEW b \in bits[w],
               start < w \/ (start = w /\ n <= b)
        PROVE  FALSE
    <3>1. b \in 0 .. WordBits - 1
      BY <2>5, ElementOfSeq
    <3>2. (w - 1) * WordBits \in Nat
      <4>1. w - 1 \in Nat
        BY <2>0
      <4> QED BY <2>0, <4>1, TimesType
    <3>3. PICK r \in Nat : r = (w - 1) * WordBits + b
      BY <2>0, <3>1, <3>2
    <3>4. WordOf(r) = w /\ BitOf(r) = b
      BY <2>0, <3>1, <3>3, WordBitOf
    <3>5. r \in F
      BY <2>0, <3>4 DEF Holds
    <3>6. from <= r
      BY <2>1, <2>5, <3>4, WordOrder
    <3> QED BY <3>5, <3>6
  <2>6. first = {}
    <3>1. first = {b - n : b \in {x \in bits[start] : x >= n}}
      BY DEF ShiftRight
    <3>2. start \in 1 .. Len(bits)
      BY <2>0, <2>2, <2>4
    <3>3. \A x \in bits[start] : x \in Nat
      <4>1. bits[start] \subseteq 0 .. WordBits - 1
        BY <3>2, ElementOfSeq
      <4> QED BY <4>1
    <3>4. \A x \in bits[start] : ~(x >= n)
      BY <2>2, <2>5, <3>2, <3>3
    <3> QED BY <3>1, <3>4
  <2>7. later = {}
    <3>1. \A w \in start + 1 .. Len(bits) : w \in 1 .. Len(bits) /\ start < w
      BY <2>0, <2>2
    <3> QED BY <2>5, <3>1
  <2> QED BY <2>3, <2>6, <2>7
<1> QED BY <1>1, <1>2

\* The bitset, the counter and the cached best index are those of the filled
\* levels, and the words are enough for all levels.
BitsOK ==
  IF Built
    THEN /\ words \in Seq(SUBSET (0 .. WordBits - 1))
         /\ ladder.count <= Len(words) * WordBits
         /\ filled \in SUBSET (0 .. ladder.count - 1)
         /\ Holds(words, filled)
         /\ occupied = Cardinality(filled)
         /\ bestIndex = IF filled = {} THEN NPosIndex ELSE Min(filled)
    ELSE filled = {} /\ bestIndex = NPosIndex /\ occupied = 0

\* The inductive invariant of one ladder.
LadderInv == LadderOK /\ BitsOK

\* A new ladder is empty and has enough words.
LEMMA ConstructKeeps ==
  ASSUME LadderInv, NEW min \in Nat, NEW step \in Nat, NEW count \in Nat,
         NEW descending \in BOOLEAN, Construct(min, step, count, descending)
  PROVE  LadderInv'
<1>1. LadderOK'
  BY ConstructStep
<1>2. /\ ladder = None /\ UNCHANGED <<filled, bestIndex, occupied>>
      /\ filled = {} /\ bestIndex = NPosIndex /\ occupied = 0
  BY DEF Construct, LadderInv, BitsOK, Built, None
<1>3. CASE ~Built'
  BY <1>1, <1>2, <1>3 DEF LadderInv, BitsOK, NPosIndex
<1>4. CASE Built'
  <2> DEFINE size == (count + WordBits - 1) \div WordBits
  <2>1. ladder'.count = count /\ words' = [w \in 1 .. size |-> {}]
    BY <1>4 DEF Construct, Built
  <2>2. size \in Nat /\ count <= size * WordBits
    <3>1. PICK wb \in Nat \ {0} : wb = WordBits
      BY WidthAssumption
    <3>2. PICK q \in Nat, y \in Nat :
            q = (count + wb - 1) \div wb /\ y = q * wb /\ count <= y
      BY RoundUp
    <3> QED BY <3>1, <3>2
  <2> HIDE DEF size
  <2>3. /\ words' \in Seq(SUBSET (0 .. WordBits - 1)) /\ Len(words') = size
        /\ \A w \in 1 .. size : words'[w] = {}
    <3>1. words' \in [1 .. size -> SUBSET (0 .. WordBits - 1)]
      BY <2>1
    <3> QED BY <2>1, <2>2, <3>1
  <2>4. ASSUME NEW i \in Nat, WordOf(i) <= Len(words')
        PROVE  BitOf(i) \notin words'[WordOf(i)]
    <3>1. WordOf(i) \in Nat \ {0}
      BY WordBit
    <3>2. WordOf(i) \in 1 .. size
      BY <2>2, <2>3, <2>4, <3>1
    <3> QED BY <2>3, <3>2
  <2>5. Holds(words', filled')
    BY <1>2, <2>4 DEF Holds
  <2>6. occupied' = Cardinality(filled')
    BY <1>2, FS_EmptySet
  <2>7. filled' \in SUBSET (0 .. ladder'.count - 1)
    BY <1>2
  <2>8. bestIndex' = NPosIndex' /\ filled' = {}
    BY <1>2 DEF NPosIndex
  <2>9. ladder'.count <= Len(words') * WordBits
    BY <2>1, <2>2, <2>3
  <2>10. BitsOK'
    BY <1>4, <2>3, <2>5, <2>6, <2>7, <2>8, <2>9 DEF BitsOK
  <2> QED BY <1>1, <2>10 DEF LadderInv
<1> QED BY <1>3, <1>4

\* The facts about a built ladder that its operations use.
LEMMA BitsetFacts ==
  ASSUME LadderInv, Built
  PROVE  /\ BuiltShape(ladder) /\ ladder.count \in Nat
         /\ words \in Seq(SUBSET (0 .. WordBits - 1)) /\ Len(words) \in Nat
         /\ filled \in SUBSET (0 .. ladder.count - 1) /\ filled \in SUBSET Nat
         /\ Holds(words, filled) /\ IsFiniteSet(filled)
         /\ occupied = Cardinality(filled) /\ occupied \in Nat
         /\ bestIndex = IF filled = {} THEN NPosIndex ELSE Min(filled)
         /\ \A i \in 0 .. ladder.count - 1 : WordOf(i) \in 1 .. Len(words)
<1>1. BuiltShape(ladder)
  BY DEF LadderInv, LadderOK, Built, None, RefusedShape
<1>2. PICK count \in Nat : count = ladder.count
  BY <1>1 DEF BuiltShape
<1>3. /\ words \in Seq(SUBSET (0 .. WordBits - 1))
      /\ count <= Len(words) * WordBits
      /\ filled \in SUBSET (0 .. count - 1)
      /\ Holds(words, filled)
      /\ occupied = Cardinality(filled)
      /\ bestIndex = IF filled = {} THEN NPosIndex ELSE Min(filled)
  BY <1>2 DEF LadderInv, BitsOK
<1>4. Len(words) \in Nat
  BY <1>3, LenProperties
<1>5. IsFiniteSet(filled) /\ Cardinality(filled) \in Nat
  <2>1. IsFiniteSet(0 .. count - 1)
    BY FS_Interval
  <2>2. IsFiniteSet(filled)
    BY <1>3, <2>1, FS_Subset
  <2> QED BY <2>2, FS_CardinalityType
<1>6. ASSUME NEW i \in 0 .. count - 1 PROVE WordOf(i) \in 1 .. Len(words)
  <2>1. i \in Nat /\ i < count
    OBVIOUS
  <2>2. /\ Len(words) * WordBits \in Nat
        /\ i < Len(words) * WordBits <=> WordOf(i) <= Len(words)
    BY <1>4, <2>1, WordRange
  <2>3. WordOf(i) \in Nat \ {0}
    BY <2>1, WordBit
  <2> QED BY <1>3, <1>4, <2>1, <2>2, <2>3
<1>7. filled \in SUBSET Nat
  BY <1>2, <1>3
<1> QED BY <1>1, <1>2, <1>3, <1>4, <1>5, <1>6, <1>7

\* An index is determined by its word and bit.
LEMMA SameBit ==
  ASSUME NEW i \in Nat, NEW j \in Nat,
         WordOf(i) = WordOf(j), BitOf(i) = BitOf(j)
  PROVE  i = j
  BY WordBit

\* Setting or clearing a bit adds or removes its index.
LEMMA SetBit ==
  ASSUME NEW bits \in Seq(SUBSET (0 .. WordBits - 1)), NEW F \in SUBSET Nat,
         Holds(bits, F), NEW i \in Nat, WordOf(i) \in 1 .. Len(bits)
  PROVE  LET up == [bits EXCEPT ![WordOf(i)] = @ \cup {BitOf(i)}]
             down == [bits EXCEPT ![WordOf(i)] = @ \ {BitOf(i)}]
         IN  /\ up \in Seq(SUBSET (0 .. WordBits - 1)) /\ Len(up) = Len(bits)
             /\ Holds(up, F \cup {i})
             /\ down \in Seq(SUBSET (0 .. WordBits - 1))
             /\ Len(down) = Len(bits)
             /\ Holds(down, F \ {i})
<1> DEFINE w == WordOf(i)
           b == BitOf(i)
           up == [bits EXCEPT ![w] = @ \cup {b}]
           down == [bits EXCEPT ![w] = @ \ {b}]
<1>1. b \in 0 .. WordBits - 1 /\ w \in 1 .. Len(bits)
  BY WordBit
<1>2. DOMAIN bits = 1 .. Len(bits) /\ Len(bits) \in Nat
  BY LenProperties
<1>3. bits[w] \subseteq 0 .. WordBits - 1
  BY <1>1, ElementOfSeq
<1> HIDE DEF w, b
<1>4. up \in Seq(SUBSET (0 .. WordBits - 1)) /\ Len(up) = Len(bits)
  <2>1. bits[w] \cup {b} \in SUBSET (0 .. WordBits - 1)
    BY <1>1, <1>3
  <2> QED BY <1>1, <2>1, ExceptSeq
<1>5. down \in Seq(SUBSET (0 .. WordBits - 1)) /\ Len(down) = Len(bits)
  <2>1. bits[w] \ {b} \in SUBSET (0 .. WordBits - 1)
    BY <1>3
  <2> QED BY <1>1, <2>1, ExceptSeq
<1>6. ASSUME NEW v \in 1 .. Len(bits)
      PROVE  /\ up[v] = IF v = w THEN bits[v] \cup {b} ELSE bits[v]
             /\ down[v] = IF v = w THEN bits[v] \ {b} ELSE bits[v]
  BY <1>1, <1>2
<1> HIDE DEF up, down
<1>7. ASSUME NEW j \in Nat, WordOf(j) <= Len(bits)
      PROVE  WordOf(j) \in 1 .. Len(bits)
  <2>1. WordOf(j) \in Nat \ {0}
    BY WordBit
  <2> QED BY <1>2, <1>7, <2>1
<1>8. ASSUME NEW j \in Nat PROVE j = i <=> WordOf(j) = w /\ BitOf(j) = b
  BY SameBit DEF w, b
<1>9. Holds(up, F \cup {i})
  <2> SUFFICES ASSUME NEW j \in Nat
               PROVE  j \in F \cup {i} <=>
                        WordOf(j) <= Len(bits) /\ BitOf(j) \in up[WordOf(j)]
    BY <1>4 DEF Holds
  <2>1. j \in F <=> WordOf(j) <= Len(bits) /\ BitOf(j) \in bits[WordOf(j)]
    BY DEF Holds
  <2>2. CASE j = i
    <3>1. WordOf(j) = w /\ BitOf(j) = b
      BY <1>8, <2>2
    <3>2. up[w] = bits[w] \cup {b} /\ w <= Len(bits)
      <4>1. w \in 1 .. Len(bits)
        BY <1>1
      <4>2. up[w] = bits[w] \cup {b}
        BY <1>6, <4>1
      <4> QED BY <1>2, <4>1, <4>2
    <3>3. WordOf(j) <= Len(bits) /\ BitOf(j) \in up[WordOf(j)]
      BY <3>1, <3>2
    <3> QED BY <2>2, <3>3
  <2>3. CASE j # i /\ WordOf(j) <= Len(bits)
    <3>1. WordOf(j) \in 1 .. Len(bits)
      BY <1>7, <2>3
    <3>2. up[WordOf(j)] = IF WordOf(j) = w THEN bits[WordOf(j)] \cup {b}
                                           ELSE bits[WordOf(j)]
      BY <1>6, <3>1
    <3>3. ~(WordOf(j) = w /\ BitOf(j) = b)
      BY <1>8, <2>3
    <3> QED BY <2>1, <2>3, <3>2, <3>3
  <2>4. CASE j # i /\ ~(WordOf(j) <= Len(bits))
    BY <2>1, <2>4
  <2> QED BY <2>2, <2>3, <2>4
<1>10. Holds(down, F \ {i})
  BY <1>1, <1>5, <1>6, <1>7, <1>8 DEF Holds
<1> QED BY <1>4, <1>5, <1>9, <1>10 DEF up, down, w, b

\* markOccupied: the best index is compared with the new one only.
LEMMA OccupiedKeeps ==
  ASSUME LadderInv, NEW price \in Raw, MarkOccupied(price)
  PROVE  LadderInv'
<1> DEFINE i == IndexOf(price).at
           up == [words EXCEPT ![WordOf(i)] = @ \cup {BitOf(i)}]
<1>1. /\ Built /\ ladder' = ladder /\ ~IndexOf(price).error
      /\ i \notin filled /\ filled' = filled \cup {i} /\ words' = up
      /\ bestIndex' = (IF occupied = 0 \/ i < bestIndex THEN i ELSE bestIndex)
      /\ occupied' = occupied + 1
  BY DEF MarkOccupied
<1>2. /\ BuiltShape(ladder) /\ ladder.count \in Nat
      /\ words \in Seq(SUBSET (0 .. WordBits - 1)) /\ Len(words) \in Nat
      /\ filled \in SUBSET (0 .. ladder.count - 1) /\ filled \in SUBSET Nat
      /\ Holds(words, filled) /\ IsFiniteSet(filled)
      /\ occupied = Cardinality(filled) /\ occupied \in Nat
      /\ bestIndex = IF filled = {} THEN NPosIndex ELSE Min(filled)
      /\ \A k \in 0 .. ladder.count - 1 : WordOf(k) \in 1 .. Len(words)
  BY <1>1, BitsetFacts
<1>3. i \in 0 .. ladder.count - 1 /\ i \in Nat
  BY <1>1, <1>2, IndexOfExact
<1> HIDE DEF i
<1>4. /\ up \in Seq(SUBSET (0 .. WordBits - 1)) /\ Len(up) = Len(words)
      /\ Holds(up, filled \cup {i})
  BY <1>2, <1>3, SetBit
<1> HIDE DEF up
<1>5. occupied' = Cardinality(filled')
  BY <1>1, <1>2, FS_AddElement
<1>6. bestIndex' = Min(filled')
  <2>0. occupied = 0 <=> filled = {}
    BY <1>2, FS_EmptySet
  <2>1. filled' \in SUBSET Nat /\ i \in filled'
    BY <1>1, <1>2, <1>3
  <2>2. CASE filled = {}
    <3>1. \A x \in filled' : i <= x
      BY <1>1, <1>3, <2>2
    <3>2. Min(filled') = i
      BY <2>1, <3>1, MinIs
    <3> QED BY <1>1, <2>0, <2>2, <3>2
  <2>3. CASE filled # {}
    <3>1. PICK m \in filled : m = bestIndex /\ \A x \in filled : m <= x
      BY <1>2, <2>3, MinOfNats
    <3>2. m \in Nat /\ m \in filled'
      BY <1>1, <1>2, <3>1
    <3>3. CASE i < m
      <4>1. ASSUME NEW x \in filled' PROVE i <= x
        <5>1. x = i \/ (x \in filled /\ m <= x)
          BY <1>1, <3>1
        <5>2. x \in Nat
          BY <2>1
        <5> QED BY <1>3, <3>2, <3>3, <5>1, <5>2
      <4>2. Min(filled') = i
        BY <2>1, <4>1, MinIs
      <4> QED BY <1>1, <3>1, <3>3, <4>2
    <3>4. CASE ~(i < m)
      <4>0. m <= i
        BY <1>3, <3>2, <3>4
      <4>1. \A x \in filled' : m <= x
        BY <1>1, <3>1, <4>0
      <4>2. Min(filled') = m
        BY <2>1, <3>2, <4>1, MinIs
      <4> QED BY <1>1, <2>0, <2>3, <3>1, <3>4, <4>2
    <3> QED BY <3>3, <3>4
  <2> QED BY <2>2, <2>3
<1>7. filled' # {} /\ filled' \in SUBSET (0 .. ladder'.count - 1)
  BY <1>1, <1>2, <1>3
<1>8. ladder'.count <= Len(words') * WordBits
  BY <1>1, <1>4 DEF LadderInv, BitsOK
<1>9. BitsOK'
  BY <1>1, <1>4, <1>5, <1>6, <1>7, <1>8 DEF BitsOK, Built
<1>10. LadderOK'
  BY <1>1 DEF LadderInv, LadderOK
<1> QED BY <1>9, <1>10 DEF LadderInv

\* markEmpty: the best index is re-derived by the scan when it was the one that
\* emptied, and is still the minimum otherwise.
LEMMA EmptyKeeps ==
  ASSUME LadderInv, NEW price \in Raw, MarkEmpty(price)
  PROVE  LadderInv'
<1> DEFINE i == IndexOf(price).at
           down == [words EXCEPT ![WordOf(i)] = @ \ {BitOf(i)}]
<1>1. /\ Built /\ ladder' = ladder /\ ~IndexOf(price).error
      /\ i \in filled /\ filled' = filled \ {i} /\ words' = down
      /\ occupied' = occupied - 1
      /\ bestIndex' = IF i # bestIndex THEN bestIndex
                      ELSE IF occupied = 1 THEN NPosIndex
                      ELSE NextSetBit(down, i + 1)
  BY DEF MarkEmpty
<1>2. /\ BuiltShape(ladder) /\ ladder.count \in Nat
      /\ words \in Seq(SUBSET (0 .. WordBits - 1)) /\ Len(words) \in Nat
      /\ filled \in SUBSET (0 .. ladder.count - 1) /\ filled \in SUBSET Nat
      /\ Holds(words, filled) /\ IsFiniteSet(filled)
      /\ occupied = Cardinality(filled) /\ occupied \in Nat
      /\ bestIndex = IF filled = {} THEN NPosIndex ELSE Min(filled)
      /\ \A k \in 0 .. ladder.count - 1 : WordOf(k) \in 1 .. Len(words)
  BY <1>1, BitsetFacts
<1>3. i \in 0 .. ladder.count - 1 /\ i \in Nat
  BY <1>1, <1>2
<1> HIDE DEF i
<1>4. /\ down \in Seq(SUBSET (0 .. WordBits - 1)) /\ Len(down) = Len(words)
      /\ Holds(down, filled \ {i})
  BY <1>2, <1>3, SetBit
<1> HIDE DEF down
<1>5. /\ occupied' = Cardinality(filled') /\ IsFiniteSet(filled')
      /\ occupied = 1 <=> filled' = {}
  <2>1. IsFiniteSet(filled') /\ Cardinality(filled') = Cardinality(filled) - 1
    BY <1>1, <1>2, FS_RemoveElement
  <2>2. Cardinality(filled') = 0 <=> filled' = {}
    BY <2>1, FS_EmptySet
  <2> QED BY <1>1, <1>2, <2>1, <2>2
<1>6. filled' \in SUBSET (0 .. ladder'.count - 1) /\ filled' \in SUBSET Nat
  BY <1>1, <1>2
<1>7. PICK m \in filled : m = bestIndex /\ \A x \in filled : m <= x
  BY <1>1, <1>2, MinOfNats
<1>8. bestIndex' = IF filled' = {} THEN NPosIndex ELSE Min(filled')
  <2>1. CASE i # bestIndex
    <3>1. m \in filled' /\ \A x \in filled' : m <= x
      BY <1>1, <1>7, <2>1
    <3>2. Min(filled') = m
      BY <1>6, <3>1, MinIs
    <3> QED BY <1>1, <1>7, <2>1, <3>1, <3>2
  <2>2. CASE i = bestIndex /\ filled' = {}
    BY <1>1, <1>5, <2>2
  <2>3. CASE i = bestIndex /\ filled' # {}
    <3>1. PICK from \in Nat : from = i + 1
      BY <1>3
    <3>2. ASSUME NEW j \in filled' PROVE from <= j
      <4>1. j \in filled /\ j # i /\ i <= j /\ j \in Nat
        BY <1>1, <1>2, <1>7, <2>3
      <4> QED BY <1>3, <3>1, <4>1
    <3>3. PICK count \in Nat : count = ladder.count
      BY <1>2
    <3>4. filled' \in SUBSET (0 .. count - 1) /\ Holds(down, filled')
      BY <1>1, <1>4, <1>6, <3>3
    <3>5. NextSetBit(down, from) = Min(filled')
      BY <1>4, <2>3, <3>2, <3>3, <3>4, NextSetBitExact
    <3> QED BY <1>1, <1>5, <2>3, <3>1, <3>5
  <2> QED BY <2>1, <2>2, <2>3
<1>9. ladder'.count <= Len(words') * WordBits
  BY <1>1, <1>4 DEF LadderInv, BitsOK
<1>10. BitsOK'
  BY <1>1, <1>4, <1>5, <1>6, <1>8, <1>9 DEF BitsOK, Built, NPosIndex
<1>11. LadderOK'
  BY <1>1 DEF LadderInv, LadderOK
<1> QED BY <1>10, <1>11 DEF LadderInv

\* The invariant implies the bitset property.
LEMMA BitsetOf == LadderInv => BitsetExact
<1> SUFFICES ASSUME LadderInv, Built PROVE BitsetExact
  BY DEF BitsetExact
<1>1. /\ Len(words) \in Nat /\ filled \in SUBSET Nat /\ Holds(words, filled)
      /\ occupied = Cardinality(filled)
      /\ bestIndex = IF filled = {} THEN NPosIndex ELSE Min(filled)
  BY BitsetFacts
<1>2. PICK top \in Nat : top = Len(words) * WordBits
  BY <1>1, WidthAssumption, TimesType
<1>3. ASSUME NEW i \in Nat PROVE i \in 0 .. top - 1 <=> WordOf(i) <= Len(words)
  <2>1. i < top <=> WordOf(i) <= Len(words)
    BY <1>1, <1>2, WordRange
  <2> QED BY <2>1
<1>4. filled = {i \in 0 .. top - 1 : BitOf(i) \in words[WordOf(i)]}
  <2>1. ASSUME NEW i \in 0 .. top - 1
        PROVE  i \in filled <=> BitOf(i) \in words[WordOf(i)]
    BY <1>1, <1>3 DEF Holds
  <2>2. filled \subseteq 0 .. top - 1
    BY <1>1, <1>3 DEF Holds
  <2> QED BY <2>1, <2>2
<1> QED BY <1>1, <1>2, <1>4 DEF BitsetExact

-----------------------------------------------------------------------------
\* One unfolding of the recursion of the walk.
Visiting(g) ==
  [k \in 1 .. MaxLevels + 1 |->
     IF k = 1 THEN bestIndex
     ELSE IF g[k - 1] = NPosIndex THEN NPosIndex
     ELSE NextSetBit(words, g[k - 1] + 1)]

\* If some function satisfies the recursion, the walk does.
LEMMA VisitsChosen ==
  ASSUME NEW g, g = Visiting(g)
  PROVE  Visits = Visiting(Visits)
<1>1. Visits = CHOOSE h : h = Visiting(h)
  BY Zenon DEF Visits, Visiting
<1> QED BY <1>1, Zenon

\* An index is none of the markers.
LEMMA NotNPos ==
  ASSUME LadderInv, Built, NEW i \in filled
  PROVE  i # NPosIndex
<1>1. PICK low \in Nat \ {0}, t \in Nat \ {0}, count \in Nat \ {0} :
        /\ low = ladder.min /\ t = ladder.tick /\ count = ladder.count
        /\ ladder.max = low + (count - 1) * t /\ ladder.max \in 0 .. MaxRaw
  BY BitsetFacts DEF BuiltShape, Raw
<1>2. i \in 0 .. count - 1
  BY <1>1, BitsetFacts
<1>3. PICK d \in Nat : t = d + 1
  <2>1. t - 1 \in Nat /\ t = (t - 1) + 1
    BY <1>1
  <2> QED BY <2>1
<1>4. PICK c \in Nat : c = count - 1
  BY <1>1
<1>5. c * t = c * d + c /\ c * d \in Nat
  <2>1. (d + 1) * c = d * c + c /\ d * c \in Nat
    BY TimesSucc, TimesType
  <2>2. c * t = (d + 1) * c /\ c * d = d * c
    BY <1>3, SMT
  <2> QED BY <2>1, <2>2
<1>6. c <= MaxRaw
  BY <1>1, <1>4, <1>5, WidthAssumption
<1>7. low + c * t <= MaxRaw
  BY <1>1, <1>4, WidthAssumption
<1>8. c < MaxRaw
  BY <1>1, <1>5, <1>7, WidthAssumption
<1> QED BY <1>1, <1>2, <1>4, <1>8, WidthAssumption DEF NPosIndex

\* The walk meets the filled levels in ascending order, and then nothing.
LEMMA VisitsAre ==
  ASSUME LadderInv, Built
  PROVE  Visits = Ranked(filled, MaxLevels, NPosIndex)
<1>1. PICK M \in Nat, count \in Nat : M = MaxLevels /\ count = ladder.count
  BY BitsetFacts, WidthAssumption
<1>2. /\ words \in Seq(SUBSET (0 .. WordBits - 1)) /\ count <= Len(words) * WordBits
      /\ filled \in SUBSET (0 .. count - 1) /\ filled \in SUBSET Nat
      /\ Holds(words, filled) /\ IsFiniteSet(filled)
      /\ bestIndex = IF filled = {} THEN NPosIndex ELSE Min(filled)
  BY <1>1, BitsetFacts DEF LadderInv, BitsOK
<1>3. NPosIndex \notin filled
  BY NotNPos
<1> DEFINE f == Ranked(filled, M, NPosIndex)
<1>4. ASSUME NEW i \in filled
      PROVE  NextSetBit(words, i + 1) = NextAfter(filled, i, NPosIndex)
  <2>1. PICK from \in Nat : from = i + 1
    BY <1>2
  <2>2. CASE From(filled, from) = {}
    <3>1. \A j \in filled : ~(from <= j)
      BY <2>2 DEF From
    <3>2. NextSetBit(words, from) = NPosIndex
      BY <1>1, <1>2, <3>1, NextSetBitEnds
    <3> QED BY <2>1, <2>2, <3>2 DEF NextAfter
  <2>3. CASE From(filled, from) # {}
    <3>1. \E j \in filled : from <= j
      BY <2>3 DEF From
    <3>2. NextSetBit(words, from) = Min(From(filled, from))
      BY <1>1, <1>2, <3>1, NextSetBitFinds
    <3> QED BY <2>1, <2>3, <3>2 DEF NextAfter
  <2> QED BY <2>2, <2>3
<1>5. ASSUME NEW r \in 1 .. M + 1
      PROVE  f[r] = IF r = 1 THEN bestIndex
                    ELSE IF f[r - 1] = NPosIndex THEN NPosIndex
                    ELSE NextSetBit(words, f[r - 1] + 1)
  <2>1. CASE r = 1
    BY <1>2, <2>1, RankedFirst
  <2>2. CASE r # 1
    <3>1. PICK i : i = f[r - 1]
      OBVIOUS
    <3>2. filled \in SUBSET Nat /\ IsFiniteSet(filled)
      BY <1>2
    <3>3. /\ i = NPosIndex \/ i \in filled
          /\ i = NPosIndex => f[r] = NPosIndex
          /\ i \in filled => f[r] = NextAfter(filled, i, NPosIndex)
      BY <1>3, <2>2, <3>1, <3>2, RankedNext
    <3> HIDE DEF f
    <3> QED BY <1>3, <1>4, <2>2, <3>1, <3>3
  <2> QED BY <2>1, <2>2
<1>6. f = [r \in 1 .. M + 1 |-> f[r]]
  BY DEF Ranked
<1> HIDE DEF f
<1>7. f = Visiting(f)
  BY <1>1, <1>5, <1>6 DEF Visiting
<1> DEFINE g == Visits
<1>8. g = Visiting(g)
  BY <1>7, VisitsChosen
<1> HIDE DEF g
<1>9. g = [r \in 1 .. M + 1 |-> g[r]]
  BY <1>1, <1>8 DEF Visiting
<1>10. ASSUME NEW r \in 1 .. M + 1
       PROVE  g[r] = IF r = 1 THEN bestIndex
                     ELSE IF g[r - 1] = NPosIndex THEN NPosIndex
                     ELSE NextSetBit(words, g[r - 1] + 1)
  BY <1>1, <1>8 DEF Visiting
<1> DEFINE Bad == {r \in 1 .. M + 1 : g[r] # f[r]}
<1>11. Bad = {}
  <2> SUFFICES ASSUME Bad # {} PROVE FALSE
    OBVIOUS
  <2>1. Bad \in SUBSET Nat
    OBVIOUS
  <2>2. PICK m \in 1 .. M + 1 : g[m] # f[m] /\ \A x \in Bad : m <= x
    <3>1. Min(Bad) \in Bad /\ \A x \in Bad : Min(Bad) <= x
      BY <2>1, MinOfNats
    <3> QED BY <3>1
  <2>3. m # 1
    BY <1>5, <1>10, <2>2
  <2>4. m - 1 \in 1 .. M + 1 /\ ~(m <= m - 1)
    BY <1>1, <2>2, <2>3
  <2>5. g[m - 1] = f[m - 1]
    BY <2>2, <2>4
  <2> QED BY <1>5, <1>10, <2>2, <2>3, <2>5
<1>12. g = f
  BY <1>6, <1>9, <1>11
<1> QED BY <1>1, <1>12 DEF g, f

\* What is given to the visitor: the first n of the filled levels, or all.
LEMMA WalkOf == LadderInv => WalkExact
<1> SUFFICES ASSUME LadderInv, Built, NEW n \in 0 .. MaxLevels
             PROVE  LET walk == ForEachOccupied(n)
                    IN  /\ Len(walk) = Min({n, Cardinality(filled)})
                        /\ ToSet(walk) \subseteq filled
                        /\ \A k \in 1 .. Len(walk) :
                             Cardinality({i \in filled : i < walk[k]}) = k - 1
  BY DEF WalkExact
<1> DEFINE walk == ForEachOccupied(n)
<1>1. /\ MaxLevels \in Nat /\ n \in Nat /\ n <= MaxLevels
      /\ filled \in SUBSET Nat /\ IsFiniteSet(filled) /\ NPosIndex \notin filled
  BY BitsetFacts, NotNPos, WidthAssumption
<1>2. walk = Cut(Visits, n, NPosIndex)
  BY DEF ForEachOccupied, Cut
<1>3. walk = Cut(Ranked(filled, MaxLevels, NPosIndex), n, NPosIndex)
  BY <1>2, VisitsAre, Zenon
<1> HIDE DEF walk
<1>4. /\ walk \in Seq(filled) /\ Len(walk) = Min({n, Cardinality(filled)})
      /\ InPlace(filled, walk)
  BY <1>1, <1>3, RankedWalk
<1>5. ToSet(walk) \subseteq filled
  <2>1. DOMAIN walk = 1 .. Len(walk) /\ \A k \in 1 .. Len(walk) : walk[k] \in filled
    BY <1>4, LenProperties, ElementOfSeq
  <2> QED BY <2>1 DEF ToSet
<1>6. \A k \in 1 .. Len(walk) : Cardinality({i \in filled : i < walk[k]}) = k - 1
  BY <1>4 DEF InPlace, Below
<1> QED BY <1>4, <1>5, <1>6 DEF walk

\* The lowest price of a rounded range is on the grid of the file, positive, and
\* not above the lowest price of the file.
LEMMA GridBottom ==
  ASSUME NEW t \in Nat \ {0}, NEW lo \in Nat, NEW h \in Nat, NEW k \in Nat,
         h = k * t, t <= h
  PROVE  \E b \in Nat \ {0} :
           /\ b = LET bottom == IF lo > h THEN lo - h ELSE lo % t
                  IN  IF bottom = 0 THEN t ELSE bottom
           /\ b % t = lo % t
           /\ lo # 0 => b <= lo
           /\ b <= lo \/ b <= h
<1>1. CASE lo > h
  <2>1. PICK b \in Nat \ {0} : b = lo - h
    BY <1>1
  <2>2. lo - b = k * t
    BY <2>1
  <2>3. b % t = lo % t
    <3>1. b \in Int /\ lo \in Int /\ k \in Int
      BY <2>1
    <3>2. lo % t = b % t
      BY <2>2, <3>1, ClassShift
    <3> QED BY <3>2
  <2>4. b <= lo
    BY <2>1
  <2> QED BY <1>1, <2>1, <2>3, <2>4
<1>2. CASE ~(lo > h)
  <2>1. PICK q \in Nat, r \in 0 .. t - 1 : lo = q * t + r /\ r = lo % t
    BY DivModNat
  <2>2. PICK qt \in Nat : qt = q * t
    BY TimesType
  <2>3. lo = qt + r
    BY <2>1, <2>2
  <2>4. CASE r = 0
    <3>1. t % t = 0
      <4>1. t = 1 * t + 0 /\ 0 \in 0 .. t - 1
        OBVIOUS
      <4> QED BY <4>1, DivModUnique
    <3>2. lo # 0 => t <= lo
      <4> SUFFICES ASSUME lo # 0 PROVE t <= lo
        OBVIOUS
      <4>1. q # 0
        <5> SUFFICES ASSUME q = 0 PROVE FALSE
          OBVIOUS
        <5>1. 0 * t = 0
          OBVIOUS
        <5> QED BY <2>2, <2>3, <2>4, <5>1
      <4>2. 1 * t <= q * t
        BY <4>1, TimesMono
      <4>3. t <= qt
        BY <2>2, <4>2
      <4> QED BY <2>3, <4>3
    <3> QED BY <1>2, <2>1, <2>4, <3>1, <3>2
  <2>5. CASE r # 0
    <3>1. r % t = r
      <4>1. r = 0 * t + r /\ r \in Int
        OBVIOUS
      <4> QED BY <4>1, DivModUnique
    <3>2. r <= lo
      BY <2>3
    <3> QED BY <1>2, <2>1, <2>5, <3>1, <3>2
  <2> QED BY <2>4, <2>5
<1> QED BY <1>1, <1>2

\* A range that fits is built.
LEMMA ConstructBuilds ==
  ASSUME NEW min \in Nat \ {0}, NEW step \in Nat \ {0}, NEW count \in Nat \ {0},
         NEW descending \in BOOLEAN, Construct(min, step, count, descending),
         ~(min + (count - 1) * step > MaxRaw)
  PROVE  /\ BuiltShape(ladder')
         /\ ladder'.min = min /\ ladder'.tick = step
         /\ ladder'.max = min + (count - 1) * step
<1>1. LadderOK'
  BY ConstructStep
<1>2. \/ ladder' = [status |-> "refused", min |-> min, tick |-> step,
                    count |-> count]
      \/ \E top : ladder' = [status |-> "built", min |-> min, tick |-> step,
                            max |-> top, count |-> count,
                            descending |-> descending]
  BY DEF Construct
<1>3. ladder'.min = min /\ ladder'.tick = step /\ ladder'.count = count
      /\ ladder' # None
  BY <1>2 DEF None
<1>4. ~RefusedShape(ladder')
  <2> SUFFICES ASSUME RefusedShape(ladder') PROVE FALSE
    OBVIOUS
  <2>1. \/ 0 \in {ladder'.min, ladder'.tick, ladder'.count}
        \/ ladder'.min + (ladder'.count - 1) * ladder'.tick > MaxRaw
    BY DEF RefusedShape
  <2> QED BY <1>3, <2>1
<1>5. BuiltShape(ladder')
  BY <1>1, <1>3, <1>4 DEF LadderOK
<1> QED BY <1>3, <1>5 DEF BuiltShape

\* Types of the options and of the range noted so far.
FileOK ==
  /\ tick \in Ticks \cup {0} /\ tick \in Nat
  /\ headroomPct \in Nat /\ (tick # 0 => headroomPct \in Headrooms)
  /\ minPriceRaw \in Nat /\ maxPriceRaw \in Nat

\* The invariant of a ladder and whoever builds it.
SizingSafe == LadderInv /\ FileOK

\* The headroom is at least one tick.
LEMMA HeadroomType ==
  ASSUME FileOK, minPriceRaw <= maxPriceRaw
  PROVE  RawHeadroom \in Nat /\ tick <= RawHeadroom
<1>1. PICK range \in Nat : range = maxPriceRaw - minPriceRaw
  BY DEF FileOK
<1>2. PICK x \in Nat : x = range * headroomPct
  BY TimesType DEF FileOK
<1>3. x \div 100 \in Nat
  OBVIOUS
<1>4. RawHeadroom = x \div 100 + tick
  BY <1>1, <1>2 DEF RawHeadroom
<1> QED BY <1>3, <1>4 DEF FileOK

\* What the three rounding tools pass to the constructor: the lowest price b and
\* the headroom h, which is k ticks.
Sized(b, h, k) ==
  /\ Configure(b, h)
  /\ tick \in Nat \ {0} /\ minPriceRaw <= maxPriceRaw
  /\ h = k * tick /\ h <= RawHeadroom + tick - 1
  /\ b % tick = minPriceRaw % tick
  /\ minPriceRaw # 0 => b <= minPriceRaw
  /\ b <= maxPriceRaw + h

\* Rounding the headroom keeps the lowest price on the grid.
LEMMA RoundedFacts ==
  ASSUME FileOK, SizeRounded
  PROVE  \E b \in Nat \ {0}, h \in Nat, k \in Nat : Sized(b, h, k)
<1>1. tick # 0 /\ minPriceRaw <= maxPriceRaw
  BY DEF SizeRounded, Configure
<1>2. PICK t \in Nat \ {0}, lo \in Nat, hi \in Nat, raw \in Nat :
        /\ t = tick /\ lo = minPriceRaw /\ hi = maxPriceRaw /\ raw = RawHeadroom
        /\ t <= raw /\ lo <= hi
  BY <1>1, HeadroomType DEF FileOK
<1>3. PICK k \in Nat, h \in Nat :
        /\ k = (raw + t - 1) \div t /\ h = k * t
        /\ raw <= h /\ h <= raw + t - 1
  BY RoundUp
<1>4. t <= h
  BY <1>2, <1>3
<1>5. PICK b \in Nat \ {0} :
        /\ b = LET bottom == IF lo > h THEN lo - h ELSE lo % t
               IN  IF bottom = 0 THEN t ELSE bottom
        /\ b % t = lo % t
        /\ lo # 0 => b <= lo
        /\ b <= lo \/ b <= h
  BY <1>3, <1>4, GridBottom
<1>6. b <= hi + h
  BY <1>2, <1>5
<1>7. Configure(b, h)
  BY <1>2, <1>3, <1>5 DEF SizeRounded
<1>8. Sized(b, h, k)
  BY <1>2, <1>3, <1>5, <1>6, <1>7 DEF Sized
<1> QED BY <1>8

\* Any range from a lowest price not above its highest keeps the invariant.
LEMMA ConfigureSafe ==
  ASSUME SizingSafe, NEW b \in Nat, NEW h \in Nat, Configure(b, h),
         b <= maxPriceRaw + h
  PROVE  SizingSafe'
<1>1. PICK t \in Nat \ {0}, hi \in Nat : t = tick /\ hi = maxPriceRaw
  BY DEF SizingSafe, FileOK, Configure
<1>2. PICK x \in Nat : x = hi + h - b
  BY <1>1
<1>3. PICK count \in Nat : count = x \div t + 1
  <2>1. PICK q \in Nat : q = x \div t
    BY DivModNat
  <2>2. q + 1 \in Nat
    OBVIOUS
  <2> QED BY <2>1, <2>2
<1>4. PICK descending \in BOOLEAN : Construct(b, t, count, descending)
  BY <1>1, <1>2, <1>3 DEF Configure
<1>5. LadderInv'
  BY <1>4, ConstructKeeps DEF SizingSafe
<1>6. UNCHANGED fileVars
  BY DEF Configure
<1> QED BY <1>5, <1>6 DEF SizingSafe, FileOK, fileVars

\* The rounded range is one.
LEMMA RoundedSafe == SizingSafe /\ SizeRounded => SizingSafe'
<1> SUFFICES ASSUME SizingSafe, SizeRounded PROVE SizingSafe'
  OBVIOUS
<1>1. PICK b \in Nat \ {0}, h \in Nat, k \in Nat : Sized(b, h, k)
  BY RoundedFacts DEF SizingSafe
<1> QED BY <1>1, ConfigureSafe DEF Sized

\* So is the one itch_replay asks for.
LEMMA UnroundedSafe == SizingSafe /\ SizeUnrounded => SizingSafe'
<1> SUFFICES ASSUME SizingSafe, SizeUnrounded PROVE SizingSafe'
  OBVIOUS
<1>1. tick # 0 /\ minPriceRaw <= maxPriceRaw
  BY DEF SizeUnrounded, Configure
<1>2. PICK t \in Nat \ {0}, lo \in Nat, hi \in Nat, h \in Nat :
        /\ t = tick /\ lo = minPriceRaw /\ hi = maxPriceRaw /\ h = RawHeadroom
        /\ t <= h /\ lo <= hi
  BY <1>1, HeadroomType DEF SizingSafe, FileOK
<1>3. PICK b \in Nat : b = (IF lo > h THEN lo - h ELSE t) /\ b <= hi + h
  <2>1. CASE lo > h
    <3>1. lo - h \in Nat /\ lo - h <= hi + h
      BY <1>2, <2>1
    <3> QED BY <2>1, <3>1
  <2>2. CASE ~(lo > h)
    <3>1. t \in Nat /\ t <= hi + h
      BY <1>2
    <3> QED BY <2>2, <3>1
  <2> QED BY <2>1, <2>2
<1>4. Configure(b, h)
  BY <1>2, <1>3 DEF SizeUnrounded
<1> QED BY <1>2, <1>3, <1>4, ConfigureSafe

\* Everything else keeps it too.
LEMMA UseSafe == SizingSafe /\ Use => SizingSafe'
<1> SUFFICES ASSUME SizingSafe, Use PROVE SizingSafe'
  OBVIOUS
<1>1. CASE BuildDirectly
  <2>1. PICK min \in Raw, step \in Raw, count \in 0 .. MaxLevels,
             descending \in BOOLEAN : Construct(min, step, count, descending)
    BY <1>1 DEF BuildDirectly
  <2>2. min \in Nat /\ step \in Nat /\ count \in Nat
    BY WidthAssumption DEF Raw
  <2>3. LadderInv'
    BY <2>1, <2>2, ConstructKeeps DEF SizingSafe
  <2> QED BY <1>1, <2>3 DEF BuildDirectly, SizingSafe, FileOK, fileVars
<1>2. ASSUME NEW t \in Ticks, NEW pct \in Headrooms, ParseOptions(t, pct)
      PROVE  SizingSafe'
  <2>1. LadderInv'
    BY <1>2 DEF ParseOptions, SizingSafe, LadderInv, LadderOK, BitsOK,
       ladderVars,
                Built, NPosIndex
  <2> QED BY <1>2, <2>1, SizingAssumption DEF ParseOptions, SizingSafe, FileOK
<1>3. ASSUME NEW p \in 0 .. MaxFilePrice, NoteRange(p) PROVE SizingSafe'
  <2>1. LadderInv'
    BY <1>3 DEF NoteRange, SizingSafe, LadderInv, LadderOK, BitsOK, ladderVars,
                Built, NPosIndex
  <2> QED BY <1>3, <2>1, SizingAssumption DEF NoteRange, SizingSafe, FileOK
<1>4. CASE Fill /\ UNCHANGED fileVars
  <2>1. LadderInv'
    BY <1>4, OccupiedKeeps, EmptyKeeps DEF Fill, SizingSafe
  <2> QED BY <1>4, <2>1 DEF SizingSafe, FileOK, fileVars
<1> QED BY <1>1, <1>2, <1>3, <1>4 DEF Use

\* It holds before the ladder is built.
LEMMA SafeStart == SizingInit => SizingSafe
  BY WidthAssumption DEF SizingInit, LadderInit, SizingSafe, LadderInv,
     LadderOK, BitsOK,
                         Built, None, FileOK

\* It depends on the variables only.
LEMMA SafeStutter ==
  SizingSafe /\ UNCHANGED <<ladderVars, fileVars>> => SizingSafe'
  BY DEF SizingSafe, LadderInv, LadderOK, BitsOK, Built, NPosIndex, FileOK,
         ladderVars, fileVars

\* The ladder invariant holds under direct construction and the three tools that
\* round the headroom.
THEOREM InterchangeInvariant == InterchangeSpec => []SizingSafe
<1>1. SizingSafe /\ [Use \/ SizeRounded]_<<ladderVars, fileVars>> => SizingSafe'
  BY UseSafe, RoundedSafe, SafeStutter
<1> QED BY <1>1, SafeStart, PTL DEF InterchangeSpec

\* It holds under itch_replay, which does not round.
THEOREM ItchReplayInvariant == ItchReplaySpec => []SizingSafe
<1>1. SizingSafe /\ [Use \/ SizeUnrounded]_<<ladderVars, fileVars>>
        => SizingSafe'
  BY UseSafe, UnroundedSafe, SafeStutter
<1> QED BY <1>1, SafeStart, PTL DEF ItchReplaySpec

\* What the invariant gives.
LEMMA SafeExact == SizingSafe => PriceMapExact /\ BitsetExact /\ WalkExact
  BY PriceMap, BitsetOf, WalkOf DEF SizingSafe, LadderInv

\* PriceLadder: prices and indices correspond exactly on every ladder that is
\* built, at the top of the integer range too, and only ranges that do not fit
\* are refused.
THEOREM InterchangePriceMap == InterchangeSpec => []PriceMapExact
  BY InterchangeInvariant, SafeExact, PTL

\* PriceLadder: bits, counter and cached best index are those of the occupied
\* levels after any sequence of markOccupied and markEmpty.
THEOREM InterchangeBitset == InterchangeSpec => []BitsetExact
  BY InterchangeInvariant, SafeExact, PTL

\* PriceLadder::forEachOccupied: a walk visits the occupied levels best first,
\* none twice and none skipped, and stops at the depth asked for.
THEOREM InterchangeWalk == InterchangeSpec => []WalkExact
  BY InterchangeInvariant, SafeExact, PTL

\* All three hold for a ladder sized by itch_replay: what its missing rounding breaks
\* is the range it asks for, not the ladder it gets.
THEOREM ItchReplayLadderExact ==
  ItchReplaySpec => [](PriceMapExact /\ BitsetExact /\ WalkExact)
  BY ItchReplayInvariant, SafeExact, PTL

\* The highest file price plus the largest headroom, rounded up, fits the width.
\* ITCH prices are 32-bit and the width is 64 bits, so it holds for
\* every headroom and tick below 2^30; without it the sum in the tools wraps.
HeadroomFits ==
  \A t \in Ticks, pct \in Headrooms :
    MaxFilePrice + (MaxFilePrice * pct) \div 100 + 2 * t - 1 <= MaxRaw

\* A price has been noted, and all noted prices lie on one grid.
Noted ==
  /\ 1 <= minPriceRaw /\ minPriceRaw <= maxPriceRaw
  /\ maxPriceRaw <= MaxFilePrice
  /\ minPriceRaw % tick = maxPriceRaw % tick

\* The ladder covers the range noted, on its grid.
Covers ==
  /\ BuiltShape(ladder) /\ ladder.tick = tick
  /\ ladder.min <= minPriceRaw /\ maxPriceRaw <= ladder.max
  /\ ladder.min % tick = minPriceRaw % tick

\* The inductive invariant of sizing.
RangeInv ==
  /\ SizingSafe
  /\ (minPriceRaw = MaxRaw /\ maxPriceRaw = 0) \/ (tick # 0 /\ Noted)
  /\ tick # 0 /\ ladder # None => Noted /\ Covers

\* The highest price of the range fits the width.
LEMMA HeadroomBound ==
  ASSUME HeadroomFits, FileOK, tick # 0, Noted
  PROVE  /\ RawHeadroom \in Nat
         /\ maxPriceRaw + RawHeadroom + tick - 1 <= MaxRaw
         /\ MaxFilePrice <= MaxRaw
<1>1. PICK t \in Ticks, pct \in Headrooms, lo \in Nat, hi \in Nat :
        /\ t = tick /\ pct = headroomPct /\ lo = minPriceRaw /\ hi = maxPriceRaw
        /\ lo <= hi /\ hi <= MaxFilePrice
  BY DEF FileOK, Noted
<1>2. /\ t \in Nat \ {0} /\ pct \in Nat /\ MaxFilePrice \in Nat
      /\ MaxRaw \in Nat
  BY SizingAssumption, WidthAssumption
<1>3. PICK range \in Nat : range = hi - lo /\ range <= MaxFilePrice
  BY <1>1, <1>2
<1>4. PICK x \in Nat, y \in Nat :
        x = range * pct /\ y = MaxFilePrice * pct /\ x <= y
  <2>1. range * pct \in Nat /\ MaxFilePrice * pct \in Nat
    BY <1>2, TimesType
  <2>2. range * pct <= MaxFilePrice * pct
    BY <1>2, <1>3, TimesMono
  <2> QED BY <2>1, <2>2
<1>5. RawHeadroom = x \div 100 + t
  BY <1>1, <1>3, <1>4 DEF RawHeadroom
<1>6. MaxFilePrice + y \div 100 + 2 * t - 1 <= MaxRaw
  BY <1>1, <1>4 DEF HeadroomFits
<1>7. /\ x \div 100 \in Nat /\ y \div 100 \in Nat /\ x \div 100 <= y \div 100
  BY <1>4
<1> QED BY <1>1, <1>2, <1>5, <1>6, <1>7

\* Configuring from a rounded headroom builds a ladder that covers the range.
LEMMA RoundedCovers ==
  ASSUME HeadroomFits, RangeInv, SizeRounded
  PROVE  RangeInv'
<1>1. PICK b \in Nat \ {0}, h \in Nat, k \in Nat : Sized(b, h, k)
  BY RoundedFacts DEF RangeInv, SizingSafe
<1>2. SizingSafe'
  BY RoundedSafe DEF RangeInv
<1>3. UNCHANGED fileVars /\ UNCHANGED <<tick, minPriceRaw, maxPriceRaw>>
  BY <1>1 DEF Sized, Configure, fileVars
<1>4. Noted /\ tick # 0
  <2>1. minPriceRaw <= maxPriceRaw
    BY <1>1 DEF Sized
  <2> QED BY <1>1, <2>1, WidthAssumption DEF RangeInv, Sized
<1>5. PICK t \in Nat \ {0}, lo \in Nat, hi \in Nat :
        /\ t = tick /\ lo = minPriceRaw /\ hi = maxPriceRaw
        /\ 1 <= lo /\ lo <= hi /\ lo % t = hi % t
  BY <1>1, <1>4 DEF Sized, RangeInv, SizingSafe, FileOK, Noted
<1>6. /\ h = k * t /\ b % t = lo % t /\ b <= lo /\ b <= hi + h
      /\ h <= RawHeadroom + t - 1
  BY <1>1, <1>5 DEF Sized
<1>7. PICK top \in Nat : top = hi + h /\ top <= MaxRaw
  <2>1. /\ RawHeadroom \in Nat /\ MaxRaw \in Nat
        /\ hi + RawHeadroom + t - 1 <= MaxRaw
    BY <1>4, <1>5, HeadroomBound, WidthAssumption DEF RangeInv, SizingSafe
  <2> QED BY <1>6, <2>1
<1>8. PICK j \in Nat, x \in Nat : x = top - b /\ x = j * t /\ j = x \div t
  <2>1. top - hi = k * t /\ top \in Int /\ hi \in Int /\ k \in Int
    BY <1>6, <1>7
  <2>2. top % t = hi % t
    BY <2>1, ClassShift
  <2>3. top % t = b % t /\ b \in Int
    BY <1>5, <1>6, <2>2
  <2>4. PICK j \in Int : top - b = j * t
    BY <2>1, <2>3, SameClass
  <2>5. PICK x \in Nat : x = top - b
    BY <1>6, <1>7
  <2>6. j = x \div t
    BY <2>4, <2>5, ModZero
  <2>7. x \div t \in Nat
    BY DivModNat
  <2> QED BY <2>4, <2>5, <2>6, <2>7
<1>9. PICK count \in Nat \ {0} : count = j + 1 /\ count - 1 = j
  OBVIOUS
<1>10. PICK descending \in BOOLEAN : Construct(b, t, count, descending)
  <2>1. \E descending \in BOOLEAN :
          Construct(b, t, (hi + h - b) \div t + 1, descending)
    BY <1>1, <1>5 DEF Sized, Configure
  <2>2. (hi + h - b) \div t + 1 = count
    BY <1>7, <1>8, <1>9
  <2> QED BY <2>1, <2>2
<1>11. b + (count - 1) * t = top
  <2>1. (count - 1) * t = x
    BY <1>8, <1>9
  <2> QED BY <1>7, <1>8, <2>1
<1>12. ~(b + (count - 1) * t > MaxRaw)
  BY <1>7, <1>11, WidthAssumption
<1>13. /\ BuiltShape(ladder') /\ ladder'.min = b /\ ladder'.tick = t
       /\ ladder'.max = top
  BY <1>10, <1>11, <1>12, ConstructBuilds
<1>14. hi <= top
  BY <1>7
<1>15. Covers'
  BY <1>3, <1>5, <1>6, <1>13, <1>14 DEF Covers
<1>16. Noted'
  BY <1>3, <1>4 DEF Noted
<1> QED BY <1>2, <1>3, <1>4, <1>15, <1>16 DEF RangeInv

\* No other step disturbs that.
LEMMA UseCovers ==
  ASSUME HeadroomFits, RangeInv, Use
  PROVE  RangeInv'
<1>0. SizingSafe'
  BY UseSafe DEF RangeInv
<1>1. CASE BuildDirectly
  <2>1. tick = 0 /\ UNCHANGED fileVars
    BY <1>1 DEF BuildDirectly
  <2> QED BY <1>0, <2>1 DEF RangeInv, fileVars
<1>2. ASSUME NEW t \in Ticks, NEW pct \in Headrooms, ParseOptions(t, pct)
      PROVE  RangeInv'
  <2>1. /\ ladder' = None /\ tick = 0
        /\ minPriceRaw' = minPriceRaw /\ maxPriceRaw' = maxPriceRaw
    BY <1>2 DEF ParseOptions, ladderVars
  <2> QED BY <1>0, <2>1 DEF RangeInv
<1>3. ASSUME NEW p \in 0 .. MaxFilePrice, NoteRange(p) PROVE RangeInv'
  <2>1. ladder' = None /\ tick # 0 /\ tick' = tick
    BY <1>3 DEF NoteRange, ladderVars
  <2>2. CASE p = 0
    <3>1. minPriceRaw' = minPriceRaw /\ maxPriceRaw' = maxPriceRaw
      BY <1>3, <2>2 DEF NoteRange
    <3> QED BY <1>0, <2>1, <3>1 DEF RangeInv, Noted
  <2>3. CASE p # 0
    <3>1. PICK lo \in Nat, hi \in Nat, t \in Ticks, pct \in Headrooms :
            /\ lo = minPriceRaw /\ hi = maxPriceRaw /\ t = tick
            /\ pct = headroomPct /\ t \in Nat \ {0} /\ pct \in Nat
      BY <2>1, SizingAssumption DEF RangeInv, SizingSafe, FileOK
    <3>2. /\ minPriceRaw' = (IF p < lo THEN p ELSE lo)
          /\ maxPriceRaw' = (IF p > hi THEN p ELSE hi)
          /\ hi # 0 => p % t = hi % t
      BY <1>3, <2>3, <3>1 DEF NoteRange
    <3>3. p \in Nat /\ 1 <= p /\ p <= MaxFilePrice /\ MaxFilePrice \in Nat
      BY <2>3, SizingAssumption
    <3>4. CASE lo = MaxRaw /\ hi = 0
      <4>1. MaxFilePrice <= MaxRaw
        <5>1. PICK y \in Nat : y = MaxFilePrice * pct
          BY <3>1, <3>3, TimesType
        <5>2. MaxFilePrice + y \div 100 + 2 * t - 1 <= MaxRaw
          BY <5>1 DEF HeadroomFits
        <5>3. y \div 100 \in Nat /\ MaxRaw \in Nat
          BY WidthAssumption
        <5> QED BY <3>1, <3>3, <5>2, <5>3
      <4>2. minPriceRaw' = p /\ maxPriceRaw' = p
        BY <3>2, <3>3, <3>4, <4>1, WidthAssumption
      <4>3. Noted'
        BY <3>3, <4>2 DEF Noted
      <4> QED BY <1>0, <2>1, <4>3 DEF RangeInv
    <3>5. CASE Noted
      <4>1. 1 <= lo /\ lo <= hi /\ hi <= MaxFilePrice /\ lo % t = hi % t
        BY <3>1, <3>5 DEF Noted
      <4>2. p % t = hi % t
        BY <3>2, <4>1
      <4>3. Noted'
        BY <2>1, <3>1, <3>2, <3>3, <4>1, <4>2 DEF Noted
      <4> QED BY <1>0, <2>1, <4>3 DEF RangeInv
    <3> QED BY <3>1, <3>4, <3>5 DEF RangeInv
  <2> QED BY <2>2, <2>3
<1>4. CASE Fill /\ UNCHANGED fileVars
  <2>1. ladder' = ladder
    BY <1>4 DEF Fill, MarkOccupied, MarkEmpty
  <2> QED BY <1>0, <1>4, <2>1 DEF RangeInv, Noted, Covers, fileVars
<1> QED BY <1>1, <1>2, <1>3, <1>4 DEF Use

\* A ladder that covers the range has a level for every price on its grid.
LEMMA RangeFits == RangeInv => LadderFitsRange
<1> SUFFICES ASSUME RangeInv, tick # 0, ladder # None
             PROVE  /\ Built
                    /\ \A p \in minPriceRaw .. maxPriceRaw :
                         p % tick = minPriceRaw % tick => ~IndexOf(p).error
  BY DEF LadderFitsRange
<1>1. Noted /\ Covers
  BY DEF RangeInv
<1>2. Built
  BY <1>1 DEF Covers, BuiltShape, Built
<1>3. PICK t \in Nat \ {0}, a \in Nat, top \in Nat, lo \in Nat, hi \in Nat,
           k \in Nat :
        /\ t = tick /\ t = ladder.tick /\ a = ladder.min /\ top = ladder.max
        /\ lo = minPriceRaw /\ hi = maxPriceRaw
        /\ a <= lo /\ hi <= top /\ top <= MaxRaw /\ a % t = lo % t
        /\ k = ladder.count - 1 /\ top = a + k * t
  BY <1>1, WidthAssumption DEF Covers, BuiltShape, Raw, RangeInv, SizingSafe,
     FileOK
<1>4. ASSUME NEW p \in lo .. hi, p % t = lo % t PROVE ~IndexOf(p).error
  <2>1. p \in Nat /\ a <= p /\ p <= top /\ p \in Raw
    BY <1>3, WidthAssumption DEF Raw
  <2>2. PICK offset \in Nat :
          /\ offset = IF ladder.descending THEN top - p ELSE p - a
          /\ IndexOf(p).error <=> offset % t # 0
    BY <1>1, <1>3, <2>1, LookupOffset DEF Covers
  <2>3. p % t = a % t /\ p \in Int /\ a \in Int /\ top \in Int
    BY <1>3, <1>4, <2>1
  <2>4. top % t = a % t
    <3>1. top - a = k * t /\ k \in Int
      BY <1>3
    <3> QED BY <2>3, <3>1, ClassShift
  <2>5. offset % t = 0
    <3>1. CASE ladder.descending
      <4>1. PICK j \in Int : top - p = j * t
        BY <2>3, <2>4, SameClass
      <4>2. (j * t) % t = 0
        BY ModZero
      <4> QED BY <2>2, <3>1, <4>1, <4>2
    <3>2. CASE ~ladder.descending
      <4>1. PICK j \in Int : p - a = j * t
        BY <2>3, SameClass
      <4>2. (j * t) % t = 0
        BY ModZero
      <4> QED BY <2>2, <3>2, <4>1, <4>2
    <3> QED BY <3>1, <3>2
  <2> QED BY <2>2, <2>5
<1> QED BY <1>2, <1>3, <1>4

\* benchmark_interchange, threaded_replay_benchmark and snapshot_recorder: the
\* ladder sized from the file is accepted by the constructor and has a level for
\* every price of the file, whatever the tick, the headroom and the grid.
THEOREM InterchangeLadderFits ==
  ASSUME HeadroomFits
  PROVE  InterchangeSpec => []LadderFitsRange
<1>1. SizingInit => RangeInv
  <2> SUFFICES ASSUME SizingInit PROVE RangeInv
    OBVIOUS
  <2>1. SizingSafe
    BY SafeStart
  <2> QED BY <2>1 DEF SizingInit, RangeInv
<1>2. RangeInv /\ [Use \/ SizeRounded]_<<ladderVars, fileVars>> => RangeInv'
  <2> SUFFICES ASSUME RangeInv, [Use \/ SizeRounded]_<<ladderVars, fileVars>>
               PROVE  RangeInv'
    OBVIOUS
  <2>1. CASE UNCHANGED <<ladderVars, fileVars>>
    <3>1. SizingSafe'
      BY <2>1, SafeStutter DEF RangeInv
    <3> QED BY <2>1, <3>1 DEF RangeInv, Noted, Covers, ladderVars, fileVars
  <2> QED BY <2>1, UseCovers, RoundedCovers
<1> QED BY <1>1, <1>2, RangeFits, PTL DEF InterchangeSpec
=============================================================================

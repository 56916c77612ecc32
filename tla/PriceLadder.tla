---------------------------- MODULE PriceLadder ----------------------------
(***************************************************************************)
(* lob::PriceLadder (src/src/book/price_ladder.cpp): one side's levels as  *)
(* an array addressed by price, with an occupancy bitset in machine words, *)
(* an occupied counter and a cached best index.  The order book's model    *)
(* uses the ladder as a set of indices and its minimum; here it is the     *)
(* word scan, and prices are unsigned integers of a given width.           *)
(*                                                                         *)
(* A word is the set of its one bits: >> is a shift of the set,            *)
(* countr_zero its minimum.                                                *)
(***************************************************************************)
EXTENDS Integers, FiniteSetsExt, SequencesExt

CONSTANTS
  MaxRaw,       \* UINT64_MAX
  WordBits,     \* 64
  MaxLevels     \* bound on the level counts tried, and on the ladders filled

ASSUME WidthAssumption ==
  MaxRaw \in Nat \ {0} /\ WordBits \in Nat \ {0} /\ MaxLevels \in Nat \ {0}

VARIABLES
  ladder,      \* the constructor's arguments and maxPrice; None before
  filled,      \* indices of the levels that hold orders, as the caller sees
  words,       \* the bitset
  bestIndex,
  occupied     \* the counter of occupied levels

ladderVars == <<ladder, filled, words, bestIndex, occupied>>

None == [status |-> "none"]
Raw == 0 .. MaxRaw
Wrap(n) == n % (MaxRaw + 1)
NPosIndex == MaxRaw + MaxLevels   \* above every index
NotFound == [error |-> TRUE]

(***************************************************************************)
(* Construction and the map between prices and indices.                    *)
(***************************************************************************)
\* Mutant of RangeOverflows: the lowest price is left out of the test.
RangeOverflowsLate(min, tick, count) == count - 1 > MaxRaw \div tick

RangeOverflows(min, tick, count) == count - 1 > (MaxRaw - min) \div tick

LadderInit ==
  /\ ladder = None
  /\ filled = {} /\ words = <<>> /\ bestIndex = NPosIndex /\ occupied = 0

Construct(min, tick, count, descending) ==
  /\ ladder = None
  /\ IF min = 0 \/ tick = 0 \/ count = 0 \/ RangeOverflows(min, tick, count)
       THEN /\ ladder' = [status |-> "refused", min |-> min, tick |-> tick,
                          count |-> count]
            /\ words' = words
     ELSE /\ ladder' = [status |-> "built", min |-> min, tick |-> tick,
                        max |-> Wrap(min + (count - 1) * tick),
                        count |-> count, descending |-> descending]
          /\ words' = [w \in 1 .. (count + WordBits - 1) \div WordBits |-> {}]
  /\ UNCHANGED <<filled, bestIndex, occupied>>

Built == ladder.status = "built"

\* The price a level is constructed with.
LevelPrice(i) ==
  IF ladder.descending THEN Wrap(ladder.max - i * ladder.tick)
                       ELSE Wrap(ladder.min + i * ladder.tick)

IndexOf(price) ==
  LET offset == IF ladder.descending THEN Wrap(ladder.max - price)
                                     ELSE Wrap(price - ladder.min)
  IN  IF price < ladder.min \/ price > ladder.max THEN NotFound
      ELSE IF offset % ladder.tick # 0 THEN NotFound
      ELSE [at |-> offset \div ladder.tick, error |-> FALSE]

(***************************************************************************)
(* The bitset.                                                             *)
(***************************************************************************)
\* Mutant of ShiftRight: bits below the start are not shifted out.
ShiftRightNone(word, n) == {b : b \in {x \in word : x + n >= n}}

ShiftRight(word, n) == {b - n : b \in {x \in word : x >= n}}
CountrZero(word) == Min(word)

\* Mutant of NextSetBit: only the first word is searched.
NextSetBitOneWord(bits, from) ==
  LET first == ShiftRight(bits[from \div WordBits + 1], from % WordBits)
  IN  IF from >= ladder.count THEN NPosIndex
      ELSE IF first # {} THEN from + CountrZero(first) ELSE NPosIndex

NextSetBit(bits, from) ==
  LET start == from \div WordBits + 1
      first == ShiftRight(bits[start], from % WordBits)
      later == {w \in start + 1 .. Len(bits) : bits[w] # {}}
      found == (Min(later) - 1) * WordBits + CountrZero(bits[Min(later)])
  IN  IF from >= ladder.count THEN NPosIndex
      ELSE IF first # {} THEN from + CountrZero(first)
      ELSE IF later = {} THEN NPosIndex
      ELSE IF found < ladder.count THEN found ELSE NPosIndex

WordOf(i) == i \div WordBits + 1
BitOf(i) == i % WordBits

\* Called when the level at a price goes from empty to non-empty.
MarkOccupied(price) ==
  /\ Built /\ ladder.count <= MaxLevels
  /\ ~IndexOf(price).error
  /\ LET i == IndexOf(price).at
     IN  /\ i \notin filled
         /\ filled' = filled \cup {i}
         /\ words' = [words EXCEPT ![WordOf(i)] = @ \cup {BitOf(i)}]
         /\ bestIndex' = IF occupied = 0 \/ i < bestIndex THEN i ELSE bestIndex
         /\ occupied' = occupied + 1
  /\ UNCHANGED ladder

\* Called when it goes from non-empty to empty.
MarkEmpty(price) ==
  /\ Built /\ ladder.count <= MaxLevels
  /\ ~IndexOf(price).error
  /\ LET i == IndexOf(price).at
         bits == [words EXCEPT ![WordOf(i)] = @ \ {BitOf(i)}]
     IN  /\ i \in filled
         /\ filled' = filled \ {i}
         /\ words' = bits
         /\ occupied' = occupied - 1
         /\ bestIndex' = IF i # bestIndex THEN bestIndex
                         ELSE IF occupied = 1 THEN NPosIndex
                         ELSE NextSetBit(bits, i + 1)
  /\ UNCHANGED ladder

Fill == \E price \in Raw : MarkOccupied(price) \/ MarkEmpty(price)

\* forEachOccupied: the indices met by the scan, NPosIndex from its end on.
Visits ==
  LET visit[k \in 1 .. MaxLevels + 1] ==
        IF k = 1 THEN bestIndex
        ELSE LET i == visit[k - 1]
             IN  IF i = NPosIndex THEN NPosIndex ELSE NextSetBit(words, i + 1)
  IN  visit

\* The levels given to the visitor when at most n are asked for.
ForEachOccupied(n) ==
  LET visit == Visits
  IN  SubSeq(visit, 1, Cardinality({k \in 1 .. n : visit[k] # NPosIndex}))
-----------------------------------------------------------------------------
\* A ladder that is built covers exactly its ticks: every level's price is its
\* true price (nothing wrapped, at the top of the range either), indexOf
\* inverts it for all prices and refuses all others, and index 0 is the
\* highest bid or the lowest ask.  Only a range that does not fit is refused.
PriceMapExact ==
  /\ ladder.status = "refused" =>
       \/ 0 \in {ladder.min, ladder.tick, ladder.count}
       \/ ladder.min + (ladder.count - 1) * ladder.tick > MaxRaw
  /\ Built =>
       /\ \A i \in 0 .. ladder.count - 1 :
            LevelPrice(i) = IF ladder.descending
                              THEN ladder.min + (ladder.count - 1 - i) * ladder.tick
                              ELSE ladder.min + i * ladder.tick
       /\ \A price \in Raw :
            LET r == IndexOf(price)
            IN  IF r.error THEN \A i \in 0 .. ladder.count - 1 : LevelPrice(i) # price
                ELSE r.at \in 0 .. ladder.count - 1 /\ LevelPrice(r.at) = price

\* The bits, the counter and the cached best index stay those of the levels
\* that hold orders, although best is only re-derived when it empties and the
\* scan starts in the middle of a word.
BitsetExact ==
  Built =>
    /\ filled = {i \in 0 .. Len(words) * WordBits - 1 : BitOf(i) \in words[WordOf(i)]}
    /\ occupied = Cardinality(filled)
    /\ bestIndex = IF filled = {} THEN NPosIndex ELSE Min(filled)

\* A snapshot walk visits the occupied levels best first, none twice, none
\* skipped, and stops at the requested depth.
WalkExact ==
  Built =>
    \A n \in 0 .. MaxLevels :
      LET walk == ForEachOccupied(n)
      IN  /\ Len(walk) = Min({n, Cardinality(filled)})
          /\ ToSet(walk) \subseteq filled
          /\ \A k \in 1 .. Len(walk) :
               Cardinality({i \in filled : i < walk[k]}) = k - 1
=============================================================================

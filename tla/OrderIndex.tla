----------------------------- MODULE OrderIndex -----------------------------
(***************************************************************************)
(* lob::OrderIndex (src/src/index/order_index.cpp): an open-addressed hash *)
(* table from order identifiers to Order pointers, with linear probing,    *)
(* doubling at half load and backward-shift deletion instead of            *)
(* tombstones.  The two loops that move entries, the rehash and the shift, *)
(* take one step per iteration; a probe is the position it stops at.       *)
(*                                                                         *)
(* Entries are found through what std::hash makes of an identifier.  hash  *)
(* is fixed at the start to an arbitrary function, so that what is checked *)
(* holds for every pattern of collisions.                                  *)
(***************************************************************************)
EXTENDS Naturals, FiniteSetsExt

CONSTANTS
  Ids,              \* valid order identifiers
  NoId,             \* the identifier 0 of an empty slot
  Orders,           \* Order pointers
  NULL,
  HashValues,       \* values of std::hash<OrderId>
  InitialCapacity,  \* 16 in the code
  Reservations,     \* arguments callers give reserve
  MaxCapacity       \* bound on the doubling, above what the runs reach

ASSUME IndexAssumption ==
  /\ HashValues \subseteq Nat
  /\ InitialCapacity \in Nat \ {0, 1}
  /\ MaxCapacity \in Nat
  /\ Reservations \subseteq Nat
  /\ NULL \notin Orders
  /\ NoId \notin Ids

VARIABLES
  hash,      \* std::hash<OrderId>, never changes
  slots,     \* the table, a function on 0 .. capacity - 1
  count,
  at,        \* what the running call is doing
  grown,     \* the table a rehash fills
  scan,      \* loop variable of the rehash and of the backward shift
  vacated,   \* the hole of the backward shift
  pending,   \* the entry addOrder inserts once the table is large enough
  result

indexVars == <<hash, slots, count, at, grown, scan, vacated, pending, result>>

Empty == [key |-> NoId, value |-> NULL]
NoTable == [i \in 0 .. 0 - 1 |-> Empty]
NewTable(capacity) == [i \in 0 .. capacity - 1 |-> Empty]

Capacity(table) == Cardinality(DOMAIN table)
Free(entry) == entry.value = NULL

IndexFor(id, capacity) == hash[id] % capacity

\* The slot a probe for id stops at: the first, going round from the natural
\* index, that is free or holds id.  Stops is empty when the loop would never
\* end.
Stops(table, id) ==
  {d \in 0 .. Capacity(table) - 1 :
     LET e == table[(IndexFor(id, Capacity(table)) + d) % Capacity(table)]
     IN  Free(e) \/ e.key = id}

FindSlot(table, id) ==
  (IndexFor(id, Capacity(table)) + Min(Stops(table, id))) % Capacity(table)

FindOrder(id) ==
  IF slots = NoTable THEN NULL ELSE slots[FindSlot(slots, id)].value

IndexInit ==
  /\ hash \in [Ids -> HashValues]
  /\ slots = NoTable /\ count = 0
  /\ at = "idle" /\ grown = NoTable /\ scan = 0 /\ vacated = 0
  /\ pending = Empty
  /\ result = "ok"

Done(outcome) ==
  /\ at' = "idle"
  /\ grown' = NoTable /\ scan' = 0 /\ vacated' = 0 /\ pending' = Empty
  /\ result' = outcome
  /\ UNCHANGED hash

(***************************************************************************)
(* Growth.                                                                 *)
(***************************************************************************)
\* Mutant of Grow: the rehash starts at the second slot.
GrowSkipsFirst(capacity, entry) ==
  /\ at' = "rehash"
  /\ grown' = NewTable(capacity)
  /\ scan' = 1
  /\ pending' = entry
  /\ UNCHANGED <<hash, slots, count, vacated, result>>

\* Start filling a larger table, or fail to allocate it with nothing changed.
Grow(capacity, entry) ==
  \/ /\ at' = "rehash"
     /\ grown' = NewTable(capacity)
     /\ scan' = 0
     /\ pending' = entry
     /\ UNCHANGED <<hash, slots, count, vacated, result>>
  \/ Done("bad_alloc") /\ UNCHANGED <<slots, count>>

\* One iteration of the rehash loop; the swap ends it.
Rehash ==
  /\ at = "rehash"
  /\ IF scan < Capacity(slots)
       THEN /\ scan' = scan + 1
            /\ grown' = IF Free(slots[scan]) THEN grown
                        ELSE [grown EXCEPT
                                ![FindSlot(grown, slots[scan].key)] = slots[scan]]
            /\ UNCHANGED <<slots, at, vacated, pending, result>>
       ELSE /\ slots' = grown
            /\ IF pending = Empty THEN Done("ok")
               ELSE at' = "insert" /\ grown' = NoTable /\ scan' = 0
                    /\ UNCHANGED <<vacated, pending, result>>
  /\ UNCHANGED <<hash, count>>

Reserve(orderCount) ==
  LET start == IF slots = NoTable THEN InitialCapacity ELSE Capacity(slots)
      doublings == {c \in start .. MaxCapacity :
                      /\ \E k \in 0 .. MaxCapacity : c = start * 2 ^ k
                      /\ 2 * orderCount <= c}
      capacity == Min(doublings)
  IN  /\ at = "idle"
      /\ doublings # {}   \* bound
      /\ IF slots # NoTable /\ capacity <= Capacity(slots)
           THEN Done("ok") /\ UNCHANGED <<slots, count>>
           ELSE Grow(capacity, Empty)

(***************************************************************************)
(* addOrder.                                                               *)
(***************************************************************************)
\* Mutant of AddOrder: the table grows when it is full, not half full.
AddOrderFullLoad(id, order) ==
  LET entry == [key |-> id, value |-> order]
  IN  /\ at = "idle"
      /\ IF slots = NoTable
           THEN Grow(InitialCapacity, entry)
         ELSE IF count + 1 <= Capacity(slots)
           THEN /\ at' = "insert"
                /\ pending' = entry
                /\ UNCHANGED <<hash, slots, count, grown, scan, vacated, result>>
         ELSE /\ 2 * Capacity(slots) <= MaxCapacity
              /\ Grow(2 * Capacity(slots), entry)

AddOrder(id, order) ==
  LET entry == [key |-> id, value |-> order]
  IN  /\ at = "idle"
      /\ IF slots = NoTable
           THEN Grow(InitialCapacity, entry)
         ELSE IF 2 * (count + 1) <= Capacity(slots)
           THEN /\ at' = "insert"
                /\ pending' = entry
                /\ UNCHANGED <<hash, slots, count, grown, scan, vacated, result>>
         ELSE /\ 2 * Capacity(slots) <= MaxCapacity   \* bound
              /\ Grow(2 * Capacity(slots), entry)

\* Mutant of Insert: the entry is not counted.
InsertUncounted ==
  /\ at = "insert"
  /\ LET i == FindSlot(slots, pending.key)
     IN  IF Free(slots[i])
           THEN slots' = [slots EXCEPT ![i] = pending] /\ Done("ok")
           ELSE Done("logic_error") /\ UNCHANGED slots
  /\ UNCHANGED count

Insert ==
  /\ at = "insert"
  /\ LET i == FindSlot(slots, pending.key)
     IN  IF Free(slots[i])
           THEN /\ slots' = [slots EXCEPT ![i] = pending]
                /\ count' = count + 1
                /\ Done("ok")
           ELSE Done("logic_error") /\ UNCHANGED <<slots, count>>

(***************************************************************************)
(* removeOrder: backward-shift deletion.                                   *)
(***************************************************************************)
\* Mutant of InCyclicRange: ranges that wrap past the end are forgotten.
InCyclicRangeNoWrap(k, i, j) == i < k /\ k <= j

InCyclicRange(k, i, j) ==
  IF i <= j THEN i < k /\ k <= j ELSE k > i \/ k <= j

RemoveOrder(id, order) ==
  /\ at = "idle"
  /\ IF FindOrder(id) # order
       THEN Done("logic_error") /\ UNCHANGED <<slots, count>>
       ELSE LET hole == FindSlot(slots, id)
            IN  /\ slots' = [slots EXCEPT ![hole] = Empty]
                /\ count' = count - 1
                /\ at' = "shift"
                /\ vacated' = hole
                /\ scan' = (hole + 1) % Capacity(slots)
                /\ UNCHANGED <<hash, grown, pending, result>>

\* Mutant of Shift: an entry that stays is scanned again and again.
ShiftStuck ==
  /\ at = "shift"
  /\ IF Free(slots[scan])
       THEN Done("ok") /\ UNCHANGED <<slots, count>>
       ELSE /\ scan' = scan
            /\ vacated' = (vacated + 1) % Capacity(slots)
            /\ UNCHANGED <<slots, hash, count, at, grown, pending, result>>

Shift ==
  /\ at = "shift"
  /\ IF Free(slots[scan])
       THEN Done("ok") /\ UNCHANGED <<slots, count>>
       ELSE /\ IF InCyclicRange(IndexFor(slots[scan].key, Capacity(slots)),
                                vacated, scan)
                 THEN UNCHANGED <<slots, vacated>>
                 ELSE /\ slots' = [slots EXCEPT ![vacated] = slots[scan],
                                                ![scan] = Empty]
                      /\ vacated' = scan
            /\ scan' = (scan + 1) % Capacity(slots)
            /\ UNCHANGED <<hash, count, at, grown, pending, result>>

IndexNext ==
  \/ \E id \in Ids, order \in Orders :
       AddOrder(id, order) \/ RemoveOrder(id, order)
  \/ \E n \in Reservations : Reserve(n)
  \/ Rehash \/ Insert \/ Shift

IndexSpec == IndexInit /\ [][IndexNext]_indexVars

\* The loops are straight-line code of one thread.
IndexFairSpec == IndexSpec /\ WF_indexVars(Rehash \/ Insert \/ Shift)
-----------------------------------------------------------------------------
Entries == {slots[i] : i \in DOMAIN slots} \ {Empty}

\* Lookup finds exactly what was added and not removed: after any sequence of
\* insertions, doublings and backward shifts, no collision pattern makes a
\* stored identifier unreachable or leaves a second copy of it behind.
LookupExact ==
  at = "idle" =>
    \A id \in Ids :
      IF FindOrder(id) = NULL
        THEN \A e \in Entries : e.key # id
        ELSE {e \in Entries : e.key = id} = {[key |-> id, value |-> FindOrder(id)]}

\* Every probe ends, also one for an identifier that is not stored: the load
\* limit keeps a free slot in every table a loop runs on, the one a rehash is
\* filling included.
ProbesEnd ==
  /\ slots # NoTable => \E i \in DOMAIN slots : Free(slots[i])
  /\ grown # NoTable => \E i \in DOMAIN grown : Free(grown[i])

\* The counter that drives growth is the number of entries in the table, each
\* in one slot, and never more than half the table.
CountExact ==
  /\ count = Cardinality({i \in DOMAIN slots : ~Free(slots[i])})
  /\ count = Cardinality(Entries)
  /\ 2 * count <= Capacity(slots)

\* Only an insertion adds an entry and only a removal takes one away, each the
\* one it was called for: growth, whether it completes, fails or is wasted on
\* a duplicate, and every step of a backward shift keep the contents.
ContentsKept ==
  [][\/ Entries' = Entries
     \/ at = "insert" /\ Entries' = Entries \cup {pending}
        /\ \A e \in Entries : e.key # pending.key
     \/ at = "idle" /\ at' = "shift"
        /\ \E e \in Entries : Entries' = Entries \ {e}]_indexVars

\* Every call returns: neither loop runs for ever.
IndexCallReturns == at # "idle" ~> at = "idle"
=============================================================================

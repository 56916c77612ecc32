----------------------------- MODULE OrderBook -----------------------------
(***************************************************************************)
(* lob::OrderBook (src/src/book/order_book.cpp): the resting orders of one *)
(* instrument, kept in four structures that every operation must leave in  *)
(* agreement: the pool of Order objects, the FIFO queue of each price      *)
(* level, the occupancy bits and cached best index of the two ladders, and *)
(* the index from order identifiers to Order objects.                      *)
(*                                                                         *)
(* Insertion is a sequence of steps (allocate, link, index) because each   *)
(* of them can throw and the catch block then undoes the earlier ones.     *)
(* Everything else runs to completion without a failure point and is one   *)
(* action.  The components the book is made of are at the level of what    *)
(* they promise: a slot allocator, a FIFO sequence, a set of occupied      *)
(* indices and a partial map.                                              *)
(***************************************************************************)
EXTENDS Integers, FiniteSetsExt, SequencesExt

CONSTANTS
  OrderIds,     \* valid (nonzero) order identifiers
  InvalidId,    \* the identifier 0
  Slots,        \* addresses of Order objects in the pool
  NULL,         \* the null pointer
  MinPrice, TickSize, LevelCount,   \* the constructor's arguments
  Prices,       \* the prices callers submit; 0 is the invalid price
  Requests,     \* the submissions callers make
  MaxQuantity,  \* the largest 64-bit quantity
  MaxSequence   \* the largest 64-bit sequence number

ASSUME LadderAssumption ==
  /\ MinPrice \in Nat \ {0}
  /\ TickSize \in Nat \ {0}
  /\ LevelCount \in Nat \ {0}

ASSUME InputAssumption ==
  /\ Prices \subseteq Nat
  /\ 0 \in Prices
  /\ MaxQuantity \in Nat \ {0}
  /\ MaxSequence \in Nat \ {0}

ASSUME NameAssumption ==
  /\ InvalidId \notin OrderIds
  /\ NULL \notin Slots

VARIABLES
  order,   \* the Order object at each pool address
  live,    \* addresses allocated and not yet released
  queue,   \* per side and level index: the FIFO list, head first
  total,   \* per side and level index: PriceLevel::totalQuantity
  occ,     \* per side: the indices whose occupancy bit is set
  best,    \* per side: the cached bestIndex
  index,   \* OrderIndex: identifier to address, NULL when absent
  pc,      \* where the running call stands
  req,     \* the arguments and locals of the running call
  slot,    \* the Order* being inserted by the running call
  result   \* outcome of the last call, or the exception in flight

bookVars == <<order, live, queue, total, occ, best, index>>
callVars == <<pc, req, slot, result>>

(***************************************************************************)
(* Prices and ladder indices.  Bids descend from MaxPrice, asks ascend     *)
(* from MinPrice, so index 0 is the best price of either side.             *)
(***************************************************************************)
Sides == {"BUY", "SELL"}
Opposite(side) == IF side = "BUY" THEN "SELL" ELSE "BUY"

Levels == 0 .. LevelCount - 1
NPos == LevelCount       \* any value above every index; SIZE_MAX in the code
MaxPrice == MinPrice + (LevelCount - 1) * TickSize

PriceAt(side, i) ==
  IF side = "BUY" THEN MaxPrice - i * TickSize ELSE MinPrice + i * TickSize

Offset(side, price) ==
  IF side = "BUY" THEN MaxPrice - price ELSE price - MinPrice

InRange(price) == MinPrice <= price /\ price <= MaxPrice
OnTick(side, price) == Offset(side, price) % TickSize = 0
IndexOf(side, price) == Offset(side, price) \div TickSize

(***************************************************************************)
(* Orders and calls.                                                       *)
(***************************************************************************)
AnyId == OrderIds \cup {InvalidId}
Quantities == 0 .. MaxQuantity
Sequences64 == 0 .. MaxSequence

\* The fields of Order that outlive its construction.  level stands for the
\* priceLevel pointer; NPos is nullptr.
Order ==
  [id : AnyId, side : Sides, price : Prices, orig : Quantities,
   rem : Quantities, seq : Sequences64, level : Levels \cup {NPos}]

\* wellFormed: the timestamp is nonzero and side and type hold enumerators.
Request ==
  [id : AnyId, side : Sides, type : {"LIMIT", "MARKET"}, price : Prices,
   orig : Quantities, rem : Quantities, seq : Sequences64,
   wellFormed : BOOLEAN]

ASSUME RequestAssumption == Requests \subseteq Request

Steps == {"idle", "match", "alloc", "link", "index", "unlink", "release"}

Outcomes ==
  {"ok", "absent", "invalid_argument", "logic_error", "out_of_range",
   "overflow_error", "bad_alloc"}

\* Contents of a free slot and of the locals between calls.
Blank ==
  [id |-> InvalidId, side |-> "BUY", price |-> 0, orig |-> 0,
   rem |-> 0, seq |-> 0, level |-> NPos]
NoRequest ==
  [id |-> InvalidId, side |-> "BUY", type |-> "LIMIT", price |-> 0,
   orig |-> 0, rem |-> 0, seq |-> 0, wellFormed |-> FALSE]

NewOrder(r) ==
  [id |-> r.id, side |-> r.side, price |-> r.price, orig |-> r.orig,
   rem |-> r.rem, seq |-> r.seq, level |-> NPos]

BookInit ==
  /\ order = [s \in Slots |-> Blank]
  /\ live = {}
  /\ queue = [side \in Sides |-> [i \in Levels |-> <<>>]]
  /\ total = [side \in Sides |-> [i \in Levels |-> 0]]
  /\ occ = [side \in Sides |-> {}]
  /\ best = [side \in Sides |-> NPos]
  /\ index = [id \in OrderIds |-> NULL]
  /\ pc = "idle"
  /\ req = NoRequest
  /\ slot = NULL
  /\ result = "ok"

Finish(outcome) ==
  /\ pc' = "idle"
  /\ req' = NoRequest
  /\ slot' = NULL
  /\ result' = outcome

\* The call ends having changed nothing.
Return(outcome) == Finish(outcome) /\ UNCHANGED bookVars

(***************************************************************************)
(* PriceLadder: occupancy and the cached best index.                       *)
(***************************************************************************)
\* Mutant of NextSetBit: the scan starts one index too far.
NextSetBitSkips(bits, from) ==
  LET above == {i \in bits : i > from}
  IN  IF above = {} THEN NPos ELSE Min(above)

NextSetBit(bits, from) ==
  LET above == {i \in bits : i >= from}
  IN  IF above = {} THEN NPos ELSE Min(above)

\* Mutant of MarkOccupied: only the first level of a side becomes the best.
MarkOccupiedKeepsBest(side, i) ==
  /\ occ' = [occ EXCEPT ![side] = @ \cup {i}]
  /\ best' = [best EXCEPT ![side] = IF occ[side] = {} THEN i ELSE @]

MarkOccupied(side, i) ==
  /\ occ' = [occ EXCEPT ![side] = @ \cup {i}]
  /\ best' = [best EXCEPT ![side] =
                IF occ[side] = {} \/ i < @ THEN i ELSE @]

\* Mutant of MarkEmpty: the cached best survives the level it names.
MarkEmptyKeepsBest(side, i) ==
  /\ occ' = [occ EXCEPT ![side] = @ \ {i}]
  /\ UNCHANGED best

MarkEmpty(side, i) ==
  LET bits == occ[side] \ {i}
  IN  /\ occ' = [occ EXCEPT ![side] = bits]
      /\ best' = [best EXCEPT ![side] =
                    IF i # @ THEN @
                    ELSE IF bits = {} THEN NPos ELSE NextSetBit(bits, i + 1)]

(***************************************************************************)
(* PriceLevel: the queue and its aggregate.  Unsigned subtraction wraps.   *)
(***************************************************************************)
Minus(a, b) == (a - b) % (MaxQuantity + 1)

\* Mutant of AppendToLevel: the order goes to the front of the list.
PrependToLevel(s, side, i) ==
  /\ queue' = [queue EXCEPT ![side][i] = <<s>> \o @]
  /\ total' = [total EXCEPT ![side][i] = @ + order[s].rem]
  /\ IF queue[side][i] = <<>> THEN MarkOccupied(side, i)
                              ELSE UNCHANGED <<occ, best>>

AppendToLevel(s, side, i) ==
  /\ queue' = [queue EXCEPT ![side][i] = Append(@, s)]
  /\ total' = [total EXCEPT ![side][i] = @ + order[s].rem]
  /\ IF queue[side][i] = <<>> THEN MarkOccupied(side, i)
                              ELSE UNCHANGED <<occ, best>>

\* remaining is the order's remaining quantity when removeOrder runs.
RemoveFromLevel(s, remaining) ==
  LET side == order[s].side
      i == order[s].level
      rest == RemoveFirst(queue[side][i], s)
  IN  /\ queue' = [queue EXCEPT ![side][i] = rest]
      /\ total' = [total EXCEPT ![side][i] = Minus(@, remaining)]
      /\ IF rest = <<>> THEN MarkEmpty(side, IndexOf(side, order[s].price))
                        ELSE UNCHANGED <<occ, best>>

\* Sets the remaining quantity and takes the same amount off the aggregate;
\* reduceTotalQuantity throws, after the first half, rather than go negative.
CanReduceTotal(s, amount) == amount <= total[order[s].side][order[s].level]

\* Mutant of Shrink: the aggregate is not reduced.
ShrinkOrderOnly(s, amount) ==
  /\ order' = [order EXCEPT ![s].rem = @ - amount]
  /\ UNCHANGED <<live, queue, total, occ, best, index>>

Shrink(s, amount) ==
  /\ order' = [order EXCEPT ![s].rem = @ - amount]
  /\ total' = IF CanReduceTotal(s, amount)
                THEN [total EXCEPT ![order[s].side][order[s].level] = @ - amount]
                ELSE total
  /\ UNCHANGED <<live, queue, occ, best, index>>

\* OrderPool::release.
Release(s) ==
  /\ live' = live \ {s}
  /\ order' = [order EXCEPT ![s] = Blank]

(***************************************************************************)
(* OrderBook::removeOrder, the single removal path.                        *)
(***************************************************************************)
Removable(s) == index[order[s].id] = s /\ order[s].level # NPos

\* Mutant of RemoveOrder: the index entry is left behind.
RemoveOrderKeepsIndex(s, remaining) ==
  /\ RemoveFromLevel(s, remaining)
  /\ Release(s)
  /\ UNCHANGED index

RemoveOrder(s, remaining) ==
  /\ RemoveFromLevel(s, remaining)
  /\ index' = [index EXCEPT ![order[s].id] = NULL]
  /\ Release(s)

(***************************************************************************)
(* addOrderWithQuantities, from the allocation on.                         *)
(***************************************************************************)
Allocate ==
  /\ pc = "alloc"
  /\ \E s \in Slots \ live :
       /\ live' = live \cup {s}
       /\ order' = [order EXCEPT ![s] = NewOrder(req)]
       /\ slot' = s
  /\ pc' = "link"
  /\ UNCHANGED <<queue, total, occ, best, index, req, result>>

\* A new page cannot be mapped: nothing was done yet, nothing is undone.
AllocateFails ==
  /\ pc = "alloc"
  /\ Return("bad_alloc")

\* Mutant of LinkError: the aggregate may overflow.
LinkErrorNoOverflow ==
  LET o == order[slot]
  IN  IF ~req.wellFormed \/ o.id = InvalidId \/ o.seq = 0 \/ o.price = 0
        THEN "invalid_argument"
      ELSE IF ~InRange(o.price) THEN "out_of_range"
      ELSE IF ~OnTick(o.side, o.price) THEN "invalid_argument"
      ELSE "ok"

\* What isValid, indexOf and PriceLevel::addOrder would throw, in that order.
LinkError ==
  LET o == order[slot]
  IN  IF ~req.wellFormed \/ o.id = InvalidId \/ o.seq = 0 \/ o.price = 0
        THEN "invalid_argument"
      ELSE IF ~InRange(o.price) THEN "out_of_range"
      ELSE IF ~OnTick(o.side, o.price) THEN "invalid_argument"
      ELSE IF o.rem > MaxQuantity - total[o.side][IndexOf(o.side, o.price)]
        THEN "overflow_error"
      ELSE "ok"

Link ==
  /\ pc = "link"
  /\ LinkError = "ok"
  /\ LET o == order[slot]
         i == IndexOf(o.side, o.price)
     IN  /\ AppendToLevel(slot, o.side, i)
         /\ order' = [order EXCEPT ![slot].level = i]
  /\ pc' = "index"
  /\ UNCHANGED <<live, index, req, slot, result>>

LinkThrows ==
  /\ pc = "link"
  /\ LinkError # "ok"
  /\ pc' = "release"
  /\ result' = LinkError
  /\ UNCHANGED <<bookVars, req, slot>>

AddToIndex ==
  /\ pc = "index"
  /\ index[req.id] = NULL
  /\ index' = [index EXCEPT ![req.id] = slot]
  /\ Finish("ok")
  /\ UNCHANGED <<order, live, queue, total, occ, best>>

\* The identifier is taken, or the table cannot grow.
AddToIndexThrows ==
  /\ pc = "index"
  /\ \E e \in {"logic_error", "bad_alloc"} :
       /\ e = "logic_error" => index[req.id] # NULL
       /\ result' = e
  /\ pc' = "unlink"
  /\ UNCHANGED <<bookVars, req, slot>>

\* Mutants of RollbackLevel: the order stays in the list, or its quantity
\* stays in the aggregate.
RollbackLevelSkipped ==
  /\ pc = "unlink"
  /\ order' = [order EXCEPT ![slot].level = NPos]
  /\ pc' = "release"
  /\ UNCHANGED <<live, queue, total, occ, best, index, req, slot, result>>
RollbackLevelKeepsTotal ==
  /\ pc = "unlink"
  /\ RemoveFromLevel(slot, 0)
  /\ order' = [order EXCEPT ![slot].level = NPos]
  /\ pc' = "release"
  /\ UNCHANGED <<live, index, req, slot, result>>

RollbackLevel ==
  /\ pc = "unlink"
  /\ RemoveFromLevel(slot, order[slot].rem)
  /\ order' = [order EXCEPT ![slot].level = NPos]
  /\ pc' = "release"
  /\ UNCHANGED <<live, index, req, slot, result>>

\* Mutant of RollbackPool: the insertion is tried again.
RollbackPoolRetries ==
  /\ pc = "release"
  /\ Release(slot)
  /\ pc' = "alloc"
  /\ slot' = NULL
  /\ UNCHANGED <<queue, total, occ, best, index, req, result>>

RollbackPool ==
  /\ pc = "release"
  /\ Release(slot)
  /\ Finish(result)
  /\ UNCHANGED <<queue, total, occ, best, index>>

InsertStep ==
  \/ Allocate \/ AllocateFails
  \/ Link \/ LinkThrows
  \/ AddToIndex \/ AddToIndexThrows
  \/ RollbackLevel \/ RollbackPool

(***************************************************************************)
(* The calls a client can make.                                            *)
(***************************************************************************)
\* addOrder and addRestingRemainder, up to the allocation.
AddOrder(r) ==
  /\ pc = "idle"
  /\ IF r.type # "LIMIT" \/ r.orig = 0 \/ r.rem = 0 \/ r.rem > r.orig
       THEN Return("invalid_argument")
       ELSE /\ pc' = "alloc"
            /\ req' = r
            /\ slot' = NULL
            /\ result' = "ok"
            /\ UNCHANGED bookVars

CancelOrder(id) ==
  /\ pc = "idle"
  /\ IF index[id] = NULL THEN Return("absent")
     ELSE IF ~Removable(index[id]) THEN Return("logic_error")
     ELSE RemoveOrder(index[id], order[index[id]].rem) /\ Finish("ok")

ReduceOrder(id, target) ==
  LET s == index[id]
      remaining == order[s].rem
  IN  /\ pc = "idle"
      /\ IF s = NULL THEN Return("absent")
         ELSE IF target = 0 \/ target > remaining
           THEN Return("invalid_argument")
         ELSE IF target = remaining THEN Return("ok")
         ELSE /\ Shrink(s, remaining - target)
              /\ Finish(IF CanReduceTotal(s, remaining - target)
                          THEN "ok" ELSE "invalid_argument")

BookNext ==
  \/ \E r \in Requests : AddOrder(r)
  \/ \E id \in OrderIds : CancelOrder(id)
  \/ \E id \in OrderIds, target \in Quantities : ReduceOrder(id, target)
  \/ InsertStep

BookSpec == BookInit /\ [][BookNext]_<<bookVars, callVars>>

(***************************************************************************)
(* captureSnapshot: a read between two calls.  It walks each ladder        *)
(* outward from the cached best level and copies what the level reports.   *)
(***************************************************************************)
\* The indices forEachOccupied meets on one side, NPos from the end on.
Visits(side) ==
  LET visit[k \in 1 .. LevelCount + 1] ==
        IF k = 1 THEN best[side]
        ELSE IF visit[k - 1] = NPos THEN NPos
        ELSE NextSetBit(occ[side], visit[k - 1] + 1)
  IN  visit

\* The levels copied when at most depth are asked for.
ForEachOccupied(side, depth) ==
  LET visit == Visits(side)
  IN  SubSeq(visit, 1, Cardinality({k \in 1 .. depth : visit[k] # NPos}))

CaptureSnapshot(depth) ==
  [side \in Sides |->
     LET walk == ForEachOccupied(side, depth)
         levels == [k \in 1 .. Len(walk) |->
                      [price |-> PriceAt(side, walk[k]),
                       quantity |-> total[side][walk[k]],
                       orderCount |-> Len(queue[side][walk[k]])]]
     IN  [levels |-> levels,
          bestRaw |-> IF levels = <<>> THEN 0 ELSE levels[1].price,
          levelCount |-> Cardinality(occ[side])]]
-----------------------------------------------------------------------------
(***************************************************************************)
(* What must hold of the four structures in every state, the intermediate  *)
(* ones of an insertion and its rollback included.                         *)
(***************************************************************************)
\* The order under insertion: allocated, and not (yet, or any more) indexed.
InFlight ==
  IF pc \in {"link", "index", "unlink", "release"} THEN {slot} ELSE {}

\* The same order while it is not (yet, or any more) linked into its level.
Unlinked == IF pc \in {"link", "release"} THEN {slot} ELSE {}

\* Type correctness of the whole book and of the running call.
BookTypeOK ==
  /\ order \in [Slots -> Order]
  /\ live \subseteq Slots
  /\ queue \in [Sides -> [Levels -> Seq(Slots)]]
  /\ total \in [Sides -> [Levels -> Quantities]]
  /\ occ \in [Sides -> SUBSET Levels]
  /\ best \in [Sides -> Levels \cup {NPos}]
  /\ index \in [OrderIds -> Slots \cup {NULL}]
  /\ pc \in Steps
  /\ req \in Request
  /\ slot \in Slots \cup {NULL}
  /\ result \in Outcomes

\* The index and the pool agree: every indexed pointer is a live order with
\* that identifier (nothing dangles after release), and every live order
\* except the one being inserted is reachable by its identifier (nothing
\* leaks, whichever step of an insertion threw).
IndexMatchesPool ==
  /\ \A id \in OrderIds : index[id] # NULL =>
       index[id] \in live \ InFlight /\ order[index[id]].id = id
  /\ \A s \in live \ InFlight :
       order[s].id \in OrderIds /\ index[order[s].id] = s

\* The level queues and the orders agree: a queue holds, once each, exactly the
\* live orders of its side whose priceLevel pointer names it; that level is the
\* one the order's price maps to; and only an order in the middle of insertion
\* or rollback is in no level.
QueuesMatchOrders ==
  /\ \A side \in Sides, i \in Levels :
       /\ IsInjective(queue[side][i])
       /\ ToSet(queue[side][i]) =
            {s \in live \ Unlinked : order[s].side = side /\ order[s].level = i}
  /\ \A s \in live :
       IF s \in Unlinked
         THEN order[s].level = NPos
         ELSE /\ InRange(order[s].price)
              /\ OnTick(order[s].side, order[s].price)
              /\ order[s].level = IndexOf(order[s].side, order[s].price)

\* b is the lowest of the bits, NPos when there is none.
IsTouch(bits, b) ==
  /\ bits = {} => b = NPos
  /\ bits # {} => b \in bits /\ \A i \in bits : b <= i

\* The occupancy bits are exactly the non-empty levels and the cached best
\* index is exactly the lowest of them, although markEmpty only rescans when
\* the best level empties and only forward from it.
TouchExact ==
  \A side \in Sides :
    /\ occ[side] = {i \in Levels : queue[side][i] # <<>>}
    /\ IsTouch(occ[side], best[side])

\* Remaining quantity never reaches zero in the book and never exceeds the
\* submitted quantity.
RemainingInBounds ==
  \A s \in live : 0 < order[s].rem /\ order[s].rem <= order[s].orig

\* The locals of an insertion: what was checked before the allocation, and the
\* object that was built from it.
CallOK ==
  /\ pc = "alloc" => 0 < req.rem /\ req.rem <= req.orig
  /\ pc \in {"link", "index", "unlink", "release"} =>
       slot \in live /\ order[slot].id = req.id
  /\ pc \in {"index", "unlink"} => req.id \in OrderIds

\* The inductive invariant of the book.
BookInv ==
  /\ BookTypeOK
  /\ IndexMatchesPool
  /\ QueuesMatchOrders
  /\ TouchExact
  /\ RemainingInBounds
  /\ CallOK

\* The sum of what the orders of one level still have open.
OpenQuantity(side, i) ==
  FoldLeft(LAMBDA acc, s : acc + order[s].rem, 0, queue[side][i])

\* PriceLevel::totalQuantity is the aggregate remaining quantity of the level
\* (include/lob/book/price_level.hpp:38).
AggregateExact ==
  \A side \in Sides, i \in Levels : total[side][i] = OpenQuantity(side, i)

\* The resting orders of one side, found by their identifiers: the prices they
\* rest at, those at one price, the prices better than it, what they have open,
\* and the prices a capture of some depth has to show.
RestingIds(side) ==
  {id \in OrderIds : index[id] # NULL /\ order[index[id]].side = side}
RestingPrices(side) == {order[index[id]].price : id \in RestingIds(side)}
IdsAt(side, p) == {id \in RestingIds(side) : order[index[id]].price = p}
BetterPrices(side, p) ==
  {q \in RestingPrices(side) : IF side = "BUY" THEN q > p ELSE q < p}
OpenOf(ids) == MapThenSumSet(LAMBDA id : order[index[id]].rem, ids)
ShownPrices(side, depth) ==
  {p \in RestingPrices(side) : Cardinality(BetterPrices(side, p)) < depth}

\* What a viewer is shown between calls, at any depth, is the resting orders
\* themselves: their prices best first and none left out, the open quantity and
\* the number of orders at each, the best price (0 when none is captured) and
\* the number of prices, however many levels were emptied, refilled or rolled
\* back since the cached best was last derived.
SnapshotExact ==
  pc = "idle" =>
    \A depth \in 0 .. LevelCount, side \in Sides :
      LET snap == CaptureSnapshot(depth)[side]
          shown == ShownPrices(side, depth)
      IN  /\ snap.levelCount = Cardinality(RestingPrices(side))
          /\ Len(snap.levels) = Cardinality(shown)
          /\ \A p \in shown :
               snap.levels[Cardinality(BetterPrices(side, p)) + 1] =
                 [price |-> p, orderCount |-> Cardinality(IdsAt(side, p)),
                  quantity |-> OpenOf(IdsAt(side, p))]
          /\ snap.bestRaw = 0 <=> shown = {}
          /\ snap.bestRaw # 0 =>
               /\ snap.bestRaw \in RestingPrices(side)
               /\ BetterPrices(side, snap.bestRaw) = {}

\* Whatever stands before an order of the old queue stood before it there.
KeepsOrder(old, new) ==
  \A a, b \in 1 .. Len(new) :
    a < b /\ Contains(old, new[b]) =>
      \E j, k \in 1 .. Len(old) : j < k /\ old[j] = new[a] /\ old[k] = new[b]

\* No step reorders a queue: the orders that stay in a level keep their relative
\* order (a reduction keeps its priority, a removal closes the gap) and an order
\* that joins goes behind all of them.
PriorityKept ==
  [][\A side \in Sides, i \in Levels :
       KeepsOrder(queue[side][i], queue'[side][i])]_queue
=============================================================================

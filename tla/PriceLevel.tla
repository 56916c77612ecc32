----------------------------- MODULE PriceLevel -----------------------------
(***************************************************************************)
(* lob::PriceLevel (src/src/book/price_level.cpp) and the links it keeps   *)
(* inside the orders: an intrusive doubly-linked FIFO list per level, with *)
(* its count and aggregate quantity.  Several levels share one set of      *)
(* orders, as the levels of a ladder do.                                   *)
(***************************************************************************)
EXTENDS Naturals, SequencesExt

CONSTANTS
  Levels, Orders, NULL,
  MaxQuantity     \* the largest 64-bit quantity

ASSUME LevelAssumption ==
  /\ NULL \notin Orders /\ NULL \notin Levels
  /\ IsFiniteSet(Orders)
  /\ MaxQuantity \in Nat \ {0}

VARIABLES
  priced,          \* per order: the level that has its price
  remaining,       \* per order: remainingQuantity
  previousOrder, nextOrder, priceLevel,   \* per order: its links
  headOrder, tailOrder, count, total,     \* per level
  outcome

linkVars == <<previousOrder, nextOrder, priceLevel, headOrder, tailOrder, count>>
levelVars == <<priced, remaining, linkVars, total, outcome>>

Quantities == 0 .. MaxQuantity

LevelInit ==
  /\ priced \in [Orders -> Levels]
  /\ remaining = [o \in Orders |-> 0]
  /\ previousOrder = [o \in Orders |-> NULL]
  /\ nextOrder = [o \in Orders |-> NULL]
  /\ priceLevel = [o \in Orders |-> NULL]
  /\ headOrder = [l \in Levels |-> NULL]
  /\ tailOrder = [l \in Levels |-> NULL]
  /\ count = [l \in Levels |-> 0]
  /\ total = [l \in Levels |-> 0]
  /\ outcome = "ok"

\* f with p's value replaced, or f when p is the null pointer.
Store(f, p, value) == IF p = NULL THEN f ELSE [f EXCEPT ![p] = value]

Refuse(what) ==
  /\ outcome' = what
  /\ UNCHANGED <<priced, remaining, linkVars, total>>

\* Link o behind the last order of l, count it and add its quantity.
LinkLast(l, o) ==
  LET last == tailOrder[l]
  IN  /\ previousOrder' = [previousOrder EXCEPT ![o] = last]
      /\ nextOrder' = Store([nextOrder EXCEPT ![o] = NULL], last, o)
      /\ headOrder' = IF last = NULL THEN [headOrder EXCEPT ![l] = o]
                                     ELSE headOrder
      /\ tailOrder' = [tailOrder EXCEPT ![l] = o]
      /\ count' = [count EXCEPT ![l] = @ + 1]
      /\ total' = [total EXCEPT ![l] = (@ + remaining[o]) % (MaxQuantity + 1)]
      /\ priceLevel' = [priceLevel EXCEPT ![o] = l]
      /\ outcome' = "ok"
      /\ UNCHANGED <<priced, remaining>>

\* Mutant of AddOrder: an order already in a level is linked again.
AddOrderRelinks(l, o) ==
  IF priced[o] # l \/ remaining[o] = 0 THEN Refuse("invalid_argument")
  ELSE IF remaining[o] > MaxQuantity - total[l] THEN Refuse("overflow_error")
  ELSE LinkLast(l, o)

AddOrder(l, o) ==
  IF priced[o] # l \/ priceLevel[o] # NULL \/ remaining[o] = 0
    THEN Refuse("invalid_argument")
  ELSE IF remaining[o] > MaxQuantity - total[l] THEN Refuse("overflow_error")
  ELSE LinkLast(l, o)

\* Mutant of RemoveOrder: the successor keeps pointing at the order.
RemoveOrderForwardOnly(l, o) ==
  IF priceLevel[o] # l THEN Refuse("invalid_argument")
  ELSE LET p == previousOrder[o]
           n == nextOrder[o]
       IN  /\ nextOrder' = [Store(nextOrder, p, n) EXCEPT ![o] = NULL]
           /\ previousOrder' = [previousOrder EXCEPT ![o] = NULL]
           /\ headOrder' = IF p = NULL THEN [headOrder EXCEPT ![l] = n]
                                       ELSE headOrder
           /\ tailOrder' = IF n = NULL THEN [tailOrder EXCEPT ![l] = p]
                                       ELSE tailOrder
           /\ total' = [total EXCEPT ![l] = @ - remaining[o]]
           /\ count' = [count EXCEPT ![l] = @ - 1]
           /\ priceLevel' = [priceLevel EXCEPT ![o] = NULL]
           /\ outcome' = "ok"
           /\ UNCHANGED <<priced, remaining>>

RemoveOrder(l, o) ==
  IF priceLevel[o] # l THEN Refuse("invalid_argument")
  ELSE LET p == previousOrder[o]
           n == nextOrder[o]
       IN  /\ nextOrder' = [Store(nextOrder, p, n) EXCEPT ![o] = NULL]
           /\ previousOrder' = [Store(previousOrder, n, p) EXCEPT ![o] = NULL]
           /\ headOrder' = IF p = NULL THEN [headOrder EXCEPT ![l] = n]
                                       ELSE headOrder
           /\ tailOrder' = IF n = NULL THEN [tailOrder EXCEPT ![l] = p]
                                       ELSE tailOrder
           /\ total' = [total EXCEPT ![l] =
                          (@ + MaxQuantity + 1 - remaining[o]) % (MaxQuantity + 1)]
           /\ count' = [count EXCEPT ![l] = @ - 1]
           /\ priceLevel' = [priceLevel EXCEPT ![o] = NULL]
           /\ outcome' = "ok"
           /\ UNCHANGED <<priced, remaining>>

\* Mutant of Reduce: the level's aggregate is forgotten.
ReduceOrderOnly(o, q) ==
  /\ priceLevel[o] # NULL
  /\ 0 < q /\ q < remaining[o]
  /\ remaining' = [remaining EXCEPT ![o] = @ - q]
  /\ outcome' = "ok"
  /\ UNCHANGED <<priced, linkVars, total>>

\* A partial reduction by the book: the order's quantity, then the level's
\* (reduceTotalQuantity, which throws rather than go below zero).
Reduce(o, q) ==
  /\ priceLevel[o] # NULL
  /\ 0 < q /\ q < remaining[o]
  /\ remaining' = [remaining EXCEPT ![o] = @ - q]
  /\ IF q > total[priceLevel[o]]
       THEN outcome' = "invalid_argument" /\ UNCHANGED total
       ELSE /\ outcome' = "ok"
            /\ total' = [total EXCEPT ![priceLevel[o]] = @ - q]
  /\ UNCHANGED <<priced, linkVars>>

\* The pool builds another order in a slot that is in no level.
Create(o, l, q) ==
  /\ priceLevel[o] = NULL
  /\ priced' = [priced EXCEPT ![o] = l]
  /\ remaining' = [remaining EXCEPT ![o] = q]
  /\ outcome' = "ok"
  /\ UNCHANGED <<linkVars, total>>

LevelNext ==
  \E o \in Orders :
    \/ \E l \in Levels : AddOrder(l, o) \/ RemoveOrder(l, o)
    \/ \E q \in Quantities : Reduce(o, q)
    \/ \E l \in Levels, q \in Quantities : Create(o, l, q)

LevelSpec == LevelInit /\ [][LevelNext]_levelVars
-----------------------------------------------------------------------------
\* The orders met from p along the links, NULL from the end on.
Nodes(p, link) ==
  LET node[k \in 1 .. Cardinality(Orders) + 1] ==
        IF k = 1 THEN p
        ELSE LET o == node[k - 1] IN IF o = NULL THEN NULL ELSE link[o]
  IN  node

\* The list from p along the links.
Walk(p, link) ==
  LET node == Nodes(p, link)
  IN  SubSeq(node, 1, Cardinality({k \in DOMAIN node : node[k] # NULL}))

Forward(l) == Walk(headOrder[l], nextOrder)
Backward(l) == Walk(tailOrder[l], previousOrder)

\* The list read from either end is the same list, it ends, its length is the
\* count (so isEmpty is exact), and it holds exactly the orders that point at
\* the level, whichever of them was unlinked: first, last, middle or only one.
ListsConsistent ==
  /\ \A l \in Levels :
       /\ Backward(l) = Reverse(Forward(l))
       /\ Len(Forward(l)) = count[l]
       /\ ToSet(Forward(l)) = {o \in Orders : priceLevel[o] = l}
       /\ IsInjective(Forward(l))
  /\ \A o \in Orders : priceLevel[o] = NULL =>
       previousOrder[o] = NULL /\ nextOrder[o] = NULL

\* As long as an order's quantity and its level's are reduced together, the
\* aggregate is the sum over the list, and no addition to it or subtraction
\* from it wraps.
TotalIsSum ==
  \A l \in Levels :
    total[l] = FoldLeft(LAMBDA acc, o : acc + remaining[o], 0, Forward(l))

LQ == INSTANCE LevelQueue WITH fifo <- [l \in Levels |-> Forward(l)]

\* The linked lists are the FIFO queues the order book's model works with.
ImplementsLevelQueue == LQ!QueueSpec
=============================================================================

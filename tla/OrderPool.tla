----------------------------- MODULE OrderPool -----------------------------
(***************************************************************************)
(* lob::OrderPool (src/src/book/order_pool.cpp): fixed-size pages of Order *)
(* slots.  Each page chains its free slots through nextFree; the pages     *)
(* that have a free slot are on a doubly-linked list.  An Order's address  *)
(* is its page and slot number, and never changes while it lives.          *)
(***************************************************************************)
EXTENDS Naturals, FiniteSetsExt, SequencesExt

CONSTANTS
  SlotsPerPage,   \* 819 in the code
  MaxPages,       \* bound on the pages the system can map
  NULL            \* the null page pointer

ASSUME PoolAssumption ==
  /\ SlotsPerPage \in Nat \ {0}
  /\ MaxPages \in Nat \ {0}
  /\ NULL \notin 1 .. MaxPages

VARIABLES
  pages,       \* number of pages created; page p is the p-th
  page,        \* per page: free chain, occupancy, list links
  firstPage,   \* firstPageWithFreeSlot
  liveCount,   \* liveOrderCount
  target,      \* pages a running reserve still aims for, 0 when none runs
  result       \* address handed out, or the outcome of the last call

poolVars == <<pages, page, firstPage, liveCount, target, result>>

PageIds == 1 .. MaxPages
SlotIds == 0 .. SlotsPerPage - 1

FreshPage ==
  [nextFree |-> [i \in SlotIds |-> i + 1], occupied |-> [i \in SlotIds |-> FALSE],
   firstFree |-> 0, freeCount |-> SlotsPerPage,
   prev |-> NULL, next |-> NULL, onList |-> FALSE]

PoolInit ==
  /\ pages = 0
  /\ page = [p \in PageIds |-> FreshPage]
  /\ firstPage = NULL
  /\ liveCount = 0
  /\ target = 0
  /\ result = "ok"

(***************************************************************************)
(* The list of pages with a free slot.  An added page becomes its head.    *)
(***************************************************************************)
AddToFreePageList(table, p) ==
  IF table[p].onList THEN table
  ELSE LET linked == [table EXCEPT ![p].prev = NULL, ![p].next = firstPage,
                                   ![p].onList = TRUE]
       IN  IF firstPage = NULL THEN linked
           ELSE [linked EXCEPT ![firstPage].prev = p]

\* Mutant of RemoveFromFreePageList: the next page keeps its back link.
RemoveKeepsBackLink(table, p) ==
  IF ~table[p].onList THEN table
  ELSE [table EXCEPT ![p].prev = NULL, ![p].next = NULL, ![p].onList = FALSE]

RemoveFromFreePageList(table, p) ==
  IF ~table[p].onList THEN table
  ELSE LET before == table[p].prev
           after == table[p].next
           skip == IF before = NULL THEN table
                   ELSE [table EXCEPT ![before].next = after]
           back == IF after = NULL THEN skip
                   ELSE [skip EXCEPT ![after].prev = before]
       IN  [back EXCEPT ![p].prev = NULL, ![p].next = NULL, ![p].onList = FALSE]

HeadAfterRemoval(table, first, p) ==
  IF table[p].onList /\ table[p].prev = NULL THEN table[p].next ELSE first

(***************************************************************************)
(* allocate.                                                               *)
(***************************************************************************)
\* Mutant of TakeSlot: the head of the free chain does not advance.
TakeSlotAgain(table, first, p) ==
  LET i == table[p].firstFree
      taken == [table EXCEPT ![p].freeCount = @ - 1, ![p].occupied[i] = TRUE]
      full == taken[p].freeCount = 0
  IN  /\ page' = IF full THEN RemoveFromFreePageList(taken, p) ELSE taken
      /\ firstPage' = IF full THEN HeadAfterRemoval(taken, first, p) ELSE first
      /\ liveCount' = liveCount + 1
      /\ result' = <<p, i>>
      /\ UNCHANGED target

\* Takes the first free slot of p from a table in which first heads the list.
TakeSlot(table, first, p) ==
  LET i == table[p].firstFree
      taken == [table EXCEPT ![p].firstFree = table[p].nextFree[i],
                             ![p].freeCount = @ - 1,
                             ![p].occupied[i] = TRUE]
      full == taken[p].freeCount = 0
  IN  /\ page' = IF full THEN RemoveFromFreePageList(taken, p) ELSE taken
      /\ firstPage' = IF full THEN HeadAfterRemoval(taken, first, p) ELSE first
      /\ liveCount' = liveCount + 1
      /\ result' = <<p, i>>
      /\ UNCHANGED target

Allocate ==
  /\ target = 0
  /\ IF firstPage # NULL
       THEN TakeSlot(page, firstPage, firstPage) /\ UNCHANGED pages
       ELSE /\ pages < MaxPages
            /\ pages' = pages + 1
            /\ TakeSlot(AddToFreePageList(page, pages + 1), pages + 1, pages + 1)

\* A page cannot be mapped or registered: createPage undoes what it did.
AllocateFails ==
  /\ target = 0
  /\ firstPage = NULL
  /\ result' = "bad_alloc"
  /\ UNCHANGED <<pages, page, firstPage, liveCount, target>>

(***************************************************************************)
(* reserve: one page per step, any of which may fail with the earlier ones *)
(* kept.                                                                   *)
(***************************************************************************)
Reserve(orderCount) ==
  LET needed == (orderCount + SlotsPerPage - 1) \div SlotsPerPage
  IN  /\ target = 0
      /\ needed <= MaxPages   \* bound
      /\ target' = IF pages < needed THEN needed ELSE 0
      /\ result' = "ok"
      /\ UNCHANGED <<pages, page, firstPage, liveCount>>

ReserveStep ==
  /\ target # 0
  /\ \/ /\ pages' = pages + 1
        /\ page' = AddToFreePageList(page, pages + 1)
        /\ firstPage' = pages + 1
        /\ target' = IF pages + 1 < target THEN target ELSE 0
        /\ result' = "ok"
     \/ target' = 0 /\ result' = "bad_alloc" /\ UNCHANGED <<pages, page, firstPage>>
  /\ UNCHANGED liveCount

(***************************************************************************)
(* release.                                                                *)
(***************************************************************************)
\* Mutant of Release: the free chain is cut.
ReleaseCutsChain(p, i) ==
  /\ target = 0
  /\ p <= pages /\ page[p].occupied[i]
  /\ LET freed == [page EXCEPT ![p].occupied[i] = FALSE, ![p].firstFree = i]
         wasFull == page[p].freeCount = 0
         listed == IF wasFull THEN AddToFreePageList(freed, p) ELSE freed
     IN  /\ page' = [listed EXCEPT ![p].freeCount = @ + 1]
         /\ firstPage' = IF wasFull THEN p ELSE firstPage
  /\ liveCount' = liveCount - 1
  /\ result' = "ok"
  /\ UNCHANGED <<pages, target>>

Release(p, i) ==
  /\ target = 0
  /\ IF p > pages \/ ~page[p].occupied[i]
       THEN result' = "invalid_argument" /\ UNCHANGED <<page, firstPage, liveCount>>
       ELSE LET freed == [page EXCEPT ![p].occupied[i] = FALSE,
                                      ![p].nextFree[i] = page[p].firstFree,
                                      ![p].firstFree = i]
                wasFull == page[p].freeCount = 0
                listed == IF wasFull THEN AddToFreePageList(freed, p) ELSE freed
            IN  /\ page' = [listed EXCEPT ![p].freeCount = @ + 1]
                /\ firstPage' = IF wasFull THEN p ELSE firstPage
                /\ liveCount' = liveCount - 1
                /\ result' = "ok"
  /\ UNCHANGED <<pages, target>>

PoolNext ==
  \/ Allocate \/ AllocateFails
  \/ \E n \in 0 .. SlotsPerPage * MaxPages : Reserve(n)
  \/ ReserveStep
  \/ \E p \in PageIds, i \in SlotIds : Release(p, i)

PoolSpec == PoolInit /\ [][PoolNext]_poolVars
-----------------------------------------------------------------------------
Live == {a \in PageIds \X SlotIds : page[a[1]].occupied[a[2]]}

\* What the links lead to from start in n steps, the end marker at the end.
Nodes(start, link, end, n) ==
  LET node[k \in 1 .. n] ==
        IF k = 1 THEN start
        ELSE LET x == node[k - 1] IN IF x = end THEN end ELSE link[x]
  IN  node

\* The first n elements of a chain from start, without the end marker.
Chain(start, link, end, n) ==
  LET node == Nodes(start, link, end, n)
  IN  SubSeq(node, 1, Cardinality({k \in 1 .. n : node[k] # end}))

FreeSlots(p) ==
  Chain(page[p].firstFree, page[p].nextFree, SlotsPerPage, SlotsPerPage + 1)

FreePages ==
  Chain(firstPage, [p \in PageIds |-> page[p].next], NULL, MaxPages + 1)

\* The free chain of a page holds exactly its unoccupied slots, once each, and
\* ends; the counts are those of the slots.
FreeChainExact ==
  /\ \A p \in 1 .. pages :
       /\ IsInjective(FreeSlots(p))
       /\ ToSet(FreeSlots(p)) = {i \in SlotIds : ~page[p].occupied[i]}
       /\ page[p].freeCount = Len(FreeSlots(p))
  /\ liveCount = Cardinality(Live)

\* The page list holds exactly the pages with a free slot, so a page is mapped
\* only when none is left, and its links agree in both directions.
FreePagesExact ==
  /\ IsInjective(FreePages)
  /\ ToSet(FreePages) = {p \in 1 .. pages : page[p].freeCount > 0}
  /\ \A p \in 1 .. pages : page[p].onList <=> page[p].freeCount > 0
  /\ \A k \in 1 .. Len(FreePages) :
       page[FreePages[k]].prev = IF k = 1 THEN NULL ELSE FreePages[k - 1]

\* Live orders are never moved, handed out again or dropped: an allocation
\* returns an address no live order has and adds only that one, a release takes
\* away one, and no other step (a page added by reserve, a refused release)
\* touches any.
OrdersStable ==
  [][/\ liveCount' = liveCount => Live' = Live
     /\ liveCount' > liveCount =>
          \E a \in (PageIds \X SlotIds) \ Live :
            Live' = Live \cup {a} /\ result' = a
     /\ liveCount' < liveCount =>
          \E a \in Live : Live' = Live \ {a}]_poolVars
=============================================================================

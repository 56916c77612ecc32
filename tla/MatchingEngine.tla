--------------------------- MODULE MatchingEngine ---------------------------
(***************************************************************************)
(* lob::MatchingEngine (src/src/matching/matching_engine.cpp) on top of    *)
(* the order book.  One event runs at a time; a NEW is a sequence of       *)
(* steps: acceptance, one step per execution, then the insertion of the    *)
(* remainder, each of which may throw with the earlier ones already done.  *)
(***************************************************************************)
EXTENDS OrderBook

VARIABLES
  out,     \* the caller's execution buffer
  seqno    \* SequenceNumberGenerator::currentSequence, shared process-wide

vars == <<bookVars, callVars, out, seqno>>

Execution ==
  [incoming : OrderIds, resting : OrderIds, price : Prices, qty : Quantities]

Init ==
  /\ BookInit
  /\ out = <<>>
  /\ seqno = 0

(***************************************************************************)
(* NEW: validation, duplicate check, sequence number.                      *)
(***************************************************************************)
ValidNew(r) ==
  /\ r.id # InvalidId /\ r.orig # 0 /\ r.wellFormed
  /\ r.type = "LIMIT" <=> r.price # 0

RejectNew(outcome) == Return(outcome) /\ UNCHANGED seqno

AcceptNew(r, number) ==
  /\ seqno' = number
  /\ pc' = "match"
  /\ req' = [r EXCEPT !.rem = r.orig, !.seq = number]
  /\ slot' = NULL
  /\ result' = "ok"
  /\ UNCHANGED bookVars

\* Mutants of ProcessNew: the generator does not advance, the buffer is not
\* cleared, duplicates are only found when the remainder is indexed.
ProcessNewSameNumber(r) ==
  /\ pc = "idle"
  /\ out' = <<>>
  /\ IF ~ValidNew(r) THEN RejectNew("invalid_argument")
     ELSE IF index[r.id] # NULL THEN RejectNew("logic_error")
     ELSE AcceptNew(r, 1)
ProcessNewKeepsBuffer(r) ==
  /\ pc = "idle"
  /\ out' = out
  /\ IF ~ValidNew(r) THEN RejectNew("invalid_argument")
     ELSE IF index[r.id] # NULL THEN RejectNew("logic_error")
     ELSE IF seqno = MaxSequence THEN RejectNew("overflow_error")
     ELSE AcceptNew(r, seqno + 1)
ProcessNewUnchecked(r) ==
  /\ pc = "idle"
  /\ out' = <<>>
  /\ IF ~ValidNew(r) THEN RejectNew("invalid_argument")
     ELSE IF seqno = MaxSequence THEN RejectNew("overflow_error")
     ELSE AcceptNew(r, seqno + 1)

ProcessNew(r) ==
  /\ pc = "idle"
  /\ out' = <<>>
  /\ IF ~ValidNew(r) THEN RejectNew("invalid_argument")
     ELSE IF index[r.id] # NULL THEN RejectNew("logic_error")
     ELSE IF seqno = MaxSequence THEN RejectNew("overflow_error")
     ELSE AcceptNew(r, seqno + 1)

(***************************************************************************)
(* The matching loop.                                                      *)
(***************************************************************************)
\* The loop goes on: quantity is left, and the opposing touch exists and is
\* acceptable to the incoming order.
Touch == PriceAt(Opposite(req.side), best[Opposite(req.side)])

\* Mutant of Crosses: an order at exactly the touch does not match.
CrossesStrictly ==
  /\ req.rem > 0
  /\ best[Opposite(req.side)] # NPos
  /\ \/ req.type = "MARKET"
     \/ req.side = "BUY" /\ req.price > Touch
     \/ req.side = "SELL" /\ req.price < Touch

Crosses ==
  /\ req.rem > 0
  /\ best[Opposite(req.side)] # NPos
  /\ \/ req.type = "MARKET"
     \/ req.side = "BUY" /\ req.price >= Touch
     \/ req.side = "SELL" /\ req.price <= Touch

\* Mutant of Smaller.
Larger(a, b) == IF a <= b THEN b ELSE a

Smaller(a, b) == IF a <= b THEN a ELSE b

\* One iteration.  The branches that throw are the code's own defensive
\* checks: a marked level without a head, a resting order that is not
\* indexed or linked, an aggregate smaller than the fill.
Execute ==
  /\ pc = "match"
  /\ Crosses
  /\ LET side == Opposite(req.side)
         level == queue[side][best[side]]
         s == Head(level)
         qty == Smaller(req.rem, order[s].rem)
         filled == order[s].rem = qty
         continue == /\ req' = [req EXCEPT !.rem = @ - qty]
                     /\ UNCHANGED <<pc, slot, result>>
     IN  IF level = <<>>
           THEN Return("logic_error") /\ UNCHANGED out
           ELSE /\ out' = Append(out,
                     [incoming |-> req.id, resting |-> order[s].id,
                      price |-> order[s].price, qty |-> qty])
                /\ IF filled /\ Removable(s)
                     THEN RemoveOrder(s, 0) /\ continue
                   ELSE IF filled
                     THEN /\ order' = [order EXCEPT ![s].rem = 0]
                          /\ Finish("logic_error")
                          /\ UNCHANGED <<live, queue, total, occ, best, index>>
                   ELSE /\ Shrink(s, qty)
                        /\ IF CanReduceTotal(s, qty)
                             THEN continue ELSE Finish("invalid_argument")
  /\ UNCHANGED seqno

\* emplace_back cannot grow the buffer: the exception leaves with the earlier
\* executions of this event applied and the remainder of the order dropped.
ExecuteThrows ==
  /\ pc = "match"
  /\ Crosses
  /\ Return("bad_alloc")
  /\ UNCHANGED <<out, seqno>>

EndMatching ==
  /\ pc = "match"
  /\ ~Crosses
  /\ IF req.rem > 0 /\ req.type = "LIMIT"
       THEN pc' = "alloc" /\ UNCHANGED <<bookVars, req, slot, result>>
       ELSE Return("ok")
  /\ UNCHANGED <<out, seqno>>

InsertRemainder == InsertStep /\ UNCHANGED <<out, seqno>>

(***************************************************************************)
(* CANCEL and REDUCE.                                                      *)
(***************************************************************************)
ProcessCancel(id) ==
  /\ pc = "idle"
  /\ out' = <<>>
  /\ IF id = InvalidId THEN Return("invalid_argument") ELSE CancelOrder(id)
  /\ UNCHANGED seqno

ProcessReduce(id, target) ==
  /\ pc = "idle"
  /\ out' = <<>>
  /\ IF id = InvalidId THEN Return("invalid_argument")
     ELSE ReduceOrder(id, target)
  /\ UNCHANGED seqno

\* The generator is static: another engine of the process takes a number.
OtherEngineGenerates ==
  /\ pc = "idle"
  /\ seqno < MaxSequence
  /\ seqno' = seqno + 1
  /\ UNCHANGED <<bookVars, callVars, out>>

EngineStep == Execute \/ ExecuteThrows \/ EndMatching \/ InsertRemainder

Next ==
  \/ \E r \in Requests : ProcessNew(r)
  \/ EngineStep
  \/ \E id \in AnyId : ProcessCancel(id)
  \/ \E id \in AnyId, target \in Quantities : ProcessReduce(id, target)
  \/ OtherEngineGenerates

Spec == Init /\ [][Next]_vars

-----------------------------------------------------------------------------
TypeOK ==
  /\ BookTypeOK
  /\ out \in Seq(Execution)
  /\ seqno \in Sequences64

\* Orders a caller can see: linked into a level.
Resting == {s \in live : order[s].level # NPos}

\* The book never holds a bid at or above an ask, not even between two
\* executions of one event or while a remainder is being inserted.
NotCrossed ==
  \A b, a \in Resting :
    order[b].side = "BUY" /\ order[a].side = "SELL" =>
      order[b].price < order[a].price

\* Within a level the queue is in the order of the sequence numbers, with the
\* generator shared with other engines and numbers lost to failed events.
TimePriority ==
  \A side \in Sides, i \in Levels :
    \A j, k \in 1 .. Len(queue[side][i]) :
      j < k => order[queue[side][i][j]].seq < order[queue[side][i][k]].seq

\* The sequence numbers in the book are behind the generator, those of the
\* resting orders are behind that of the running event, and an order being
\* inserted carries the event's own side, price and number.
SequencesBehind ==
  /\ \A s \in live : order[s].seq <= seqno
  /\ pc # "idle" =>
       /\ req.id \in OrderIds
       /\ req.seq <= seqno
       /\ \A s \in live \ InFlight : order[s].seq < req.seq
  /\ pc \in {"link", "index", "unlink", "release"} =>
       /\ order[slot].seq = req.seq
       /\ order[slot].side = req.side
       /\ order[slot].price = req.price

\* When the loop has ended, the remainder to be inserted crosses nothing.
RemainderDoesNotCross ==
  pc \in {"alloc", "link"} =>
    \A s \in live \ InFlight :
      order[s].side # req.side =>
        IF req.side = "BUY" THEN req.price < order[s].price
                            ELSE order[s].price < req.price

\* The loop never takes more than was submitted.
RequestBounded == pc = "match" => req.rem <= req.orig

\* The inductive invariant of the engine.
EngineInv ==
  /\ BookInv
  /\ out \in Seq(Execution)
  /\ seqno \in Sequences64
  /\ SequencesBehind
  /\ RequestBounded
  /\ RemainderDoesNotCross
  /\ NotCrossed
  /\ TimePriority

\* o is served before p when both rest on the same side.
ServedBefore(o, p) ==
  \/ o.price = p.price /\ o.seq < p.seq
  \/ o.side = "BUY" /\ o.price > p.price
  \/ o.side = "SELL" /\ o.price < p.price

\* Every execution is with the order that price-time priority entitles: no
\* resting order on that side has a better price, or the same price and an
\* earlier sequence number.  It is at that order's price, within the limit of
\* the incoming order, and of a positive quantity.
ExecutionsFollowPriority ==
  [][Len(out') > Len(out) =>
       LET e == out'[Len(out')]
           s == index[e.resting]
       IN  /\ s \in Resting
           /\ order[s].side = Opposite(req.side)
           /\ \A t \in Resting :
                order[t].side = order[s].side => ~ServedBefore(order[t], order[s])
           /\ e.price = order[s].price
           /\ req.type = "LIMIT" =>
                IF req.side = "BUY" THEN e.price <= req.price
                                    ELSE e.price >= req.price
           /\ 0 < e.qty
           /\ e.qty <= order[s].rem]_vars

\* Nothing is traded twice or lost: what an incoming order has executed and
\* what it still has open add up to what was submitted.
QuantityConserved ==
  pc # "idle" =>
    req.orig = req.rem + FoldLeft(LAMBDA acc, e : acc + e.qty, 0, out)

\* The defensive checks of the matching loop and of removal never fire: when
\* the loop goes on, the touch has a head that is indexed and linked and whose
\* level aggregate covers it, and every indexed order can be removed or reduced.
NoInternalError ==
  /\ pc = "match" /\ Crosses =>
       queue[Opposite(req.side)][best[Opposite(req.side)]] # <<>>
  /\ \A id \in OrderIds : index[id] # NULL =>
       Removable(index[id]) /\ CanReduceTotal(index[id], order[index[id]].rem)

\* What a running call still has to do, apart from executions.
StepsLeft ==
  [idle |-> 0, release |-> 1, unlink |-> 2, index |-> 3, link |-> 4,
   alloc |-> 5, match |-> 6]

\* Every step of an event brings its return nearer, so the loop and the
\* rollback end: the call moves on, or an execution takes a positive quantity
\* off what the incoming order has left.
EventProgress ==
  [][pc # "idle" =>
       \/ StepsLeft[pc'] < StepsLeft[pc]
       \/ pc = "match" /\ pc' = "match" /\ req'.rem < req.rem]_vars
-----------------------------------------------------------------------------
(***************************************************************************)
(* The engine implements the price-time book: an order rests from the      *)
(* moment it is indexed, and the rest of an insertion is invisible.        *)
(***************************************************************************)
\* What the abstract book knows of an order.
Visible(o) ==
  [id |-> o.id, side |-> o.side, price |-> o.price, orig |-> o.orig,
   rem |-> o.rem, seq |-> o.seq]

\* What rests: the orders the index knows.
VisibleBook ==
  {Visible(order[index[id]]) : id \in {x \in OrderIds : index[x] # NULL}}

\* An order on its way in; the null pointer is none.
Incoming ==
  [id : AnyId, side : Sides, type : {"LIMIT", "MARKET"}, price : Prices,
   orig : Quantities, rem : Quantities, seq : Sequences64]

ASSUME IncomingAssumption == NULL \notin Incoming

\* The order of the running event, with what it has left.
IncomingOrder ==
  IF pc = "idle" THEN NULL
  ELSE [id |-> req.id, side |-> req.side, type |-> req.type,
        price |-> req.price, orig |-> req.orig, rem |-> req.rem,
        seq |-> req.seq]

\* The last event ended in an exception.
LastFailed == pc = "idle" /\ result \notin {"ok", "absent"}

PT == INSTANCE PriceTimeBook WITH
  Ids <- OrderIds, None <- NULL,
  book <- VisibleBook, incoming <- IncomingOrder, failed <- LastFailed

\* Whatever happens inside an event, what a caller sees of the engine is a
\* behaviour of the price-time book.
ImplementsPriceTimeBook == PT!PTSpec
=============================================================================

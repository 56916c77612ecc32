--------------------------- MODULE PriceTimeBook ---------------------------
(***************************************************************************)
(* What the engine promises its caller, with no ladder, queue, index or    *)
(* pool: a set of resting orders, at most one incoming order, and trades   *)
(* that always take the resting order entitled by price, then by sequence  *)
(* number.  An event that fails may lose the rest of its incoming order,   *)
(* never anything else.                                                    *)
(***************************************************************************)
EXTENDS Integers, Sequences

CONSTANTS Ids, Requests, None, MaxSequence

VARIABLES
  book,      \* set of resting orders
  incoming,  \* the order of the running NEW event, or None
  out,       \* executions of the running or last event
  seqno,     \* last sequence number handed out
  failed     \* whether the last event ended in an exception

ptVars == <<book, incoming, out, seqno, failed>>

PTInit ==
  /\ book = {}
  /\ incoming = None
  /\ out = <<>>
  /\ seqno = 0
  /\ failed = FALSE

\* The opposing orders the incoming one accepts.
Eligible ==
  {o \in book :
     /\ o.side # incoming.side
     /\ \/ incoming.type = "MARKET"
        \/ incoming.side = "BUY" /\ o.price <= incoming.price
        \/ incoming.side = "SELL" /\ o.price >= incoming.price}

\* o is served before p.
Before(o, p) ==
  \/ o.side = "SELL" /\ o.price < p.price
  \/ o.side = "BUY" /\ o.price > p.price
  \/ o.price = p.price /\ o.seq < p.seq

Accept(r) ==
  /\ incoming = None
  /\ \A o \in book : o.id # r.id
  /\ seqno < MaxSequence
  /\ seqno' = seqno + 1
  /\ incoming' = [id |-> r.id, side |-> r.side, type |-> r.type,
                  price |-> r.price, orig |-> r.orig, rem |-> r.orig,
                  seq |-> seqno + 1]
  /\ out' = <<>>
  /\ failed' = FALSE
  /\ UNCHANGED book

Trade ==
  /\ incoming # None
  /\ incoming.rem > 0
  /\ \E o \in Eligible :
       LET qty == IF o.rem <= incoming.rem THEN o.rem ELSE incoming.rem
       IN  /\ \A p \in Eligible \ {o} : Before(o, p)
           /\ book' = (book \ {o}) \cup
                (IF qty = o.rem THEN {} ELSE {[o EXCEPT !.rem = @ - qty]})
           /\ incoming' = [incoming EXCEPT !.rem = @ - qty]
           /\ out' = Append(out, [incoming |-> incoming.id, resting |-> o.id,
                                  price |-> o.price, qty |-> qty])
  /\ UNCHANGED <<seqno, failed>>

\* Nothing left to trade with: the remainder of a limit order rests, that of
\* a market order is discarded.
Complete ==
  /\ incoming # None
  /\ incoming.rem = 0 \/ Eligible = {}
  /\ incoming' = None
  /\ book' = book \cup
       IF incoming.rem > 0 /\ incoming.type = "LIMIT"
         THEN {[id |-> incoming.id, side |-> incoming.side,
                price |-> incoming.price, orig |-> incoming.orig,
                rem |-> incoming.rem, seq |-> incoming.seq]}
         ELSE {}
  /\ failed' = FALSE
  /\ UNCHANGED <<out, seqno>>

Fail ==
  /\ incoming # None
  /\ incoming' = None
  /\ failed' = TRUE
  /\ UNCHANGED <<book, out, seqno>>

\* A refused event, a cancel or reduce of an unknown order, a reduce to the
\* quantity already open.
NoEffect ==
  /\ incoming = None
  /\ out' = <<>>
  /\ failed' \in BOOLEAN
  /\ UNCHANGED <<book, incoming, seqno>>

Cancel(id) ==
  /\ incoming = None
  /\ \E o \in book : o.id = id /\ book' = book \ {o}
  /\ out' = <<>>
  /\ failed' = FALSE
  /\ UNCHANGED <<incoming, seqno>>

Reduce(id) ==
  /\ incoming = None
  /\ \E o \in book : \E q \in 1 .. o.rem - 1 :
       o.id = id /\ book' = (book \ {o}) \cup {[o EXCEPT !.rem = q]}
  /\ out' = <<>>
  /\ failed' = FALSE
  /\ UNCHANGED <<incoming, seqno>>

Skip ==
  /\ incoming = None
  /\ seqno < MaxSequence
  /\ seqno' = seqno + 1
  /\ UNCHANGED <<book, incoming, out, failed>>

PTNext ==
  \/ \E r \in Requests : Accept(r)
  \/ Trade \/ Complete \/ Fail \/ NoEffect \/ Skip
  \/ \E id \in Ids : Cancel(id) \/ Reduce(id)

PTSpec == PTInit /\ [][PTNext]_ptVars
=============================================================================

------------------------------ MODULE ItchFeed ------------------------------
(***************************************************************************)
(* The venue behind a TotalView-ITCH session file, as far as the tools of  *)
(* src/tools/itch rely on it: a displayed book in price-time priority that *)
(* never crosses, and one message for every change of it, in order and     *)
(* with timestamps that never go back.  Each order is published under a    *)
(* new, higher reference number, so reference numbers are time priority.   *)
(* A message is a record with the fields its type carries; the others are  *)
(* blank.                                                                  *)
(***************************************************************************)
EXTENDS Integers, TLC, SequencesExt

CONSTANTS
  FeedPrices,              \* raw prices
  OrderShares,             \* sizes of new and replacing orders
  Directory,               \* the symbol of each locate code
  Locate,                  \* the locate code of the symbol that trades
  Bystanders,              \* messages that leave its displayed book alone
  Openings,                \* how the session files considered begin
  MaxMessages              \* bound on the length of a session file

VARIABLES
  session,   \* the messages sent so far
  venue      \* the displayed book

feedVars == <<session, venue>>

AddTypes == {"A", "F"}
ExecuteTypes == {"E", "C"}
BookTypes == AddTypes \cup ExecuteTypes \cup {"X", "D", "U"}

\* The types that carry a symbol of their own, which is the directory's.
StockTypes == {"R", "A", "F", "P", "Q", "H"}

MessageTypes ==
  BookTypes \cup StockTypes
    \cup {"S", "B", "I", "Y", "L", "V", "W", "K", "J", "h", "N", "O"}

Symbols == {""} \cup {Directory[locate] : locate \in DOMAIN Directory}

ItchMessage ==
  [type : MessageTypes, locate : Nat, ts : Nat, stock : Symbols, ref : Nat,
   side : {"B", "S", ""}, shares : Nat, price : Nat, newRef : Nat]

\* The fields that the type of m does not carry are blank.
WellFormed(m) ==
  /\ m.type \notin BookTypes \cup {"P"} => m.ref = 0
  /\ IF m.type \in AddTypes \cup {"P"} THEN m.side # "" ELSE m.side = ""
  /\ m.type \notin (BookTypes \ {"D"}) \cup {"P", "Q"} => m.shares = 0
  /\ m.type \notin AddTypes \cup {"C", "U", "P", "Q"} => m.price = 0
  /\ m.type # "U" => m.newRef = 0

ASSUME FeedAssumption ==
  /\ FeedPrices \subseteq Nat \ {0} /\ OrderShares \subseteq Nat \ {0}
  /\ MaxMessages \in Nat
  /\ Locate \in Nat /\ Locate \in DOMAIN Directory
  /\ \A m \in Bystanders :
       /\ m \in ItchMessage /\ WellFormed(m)
       /\ m.type \in StockTypes => /\ m.locate \in DOMAIN Directory
                                   /\ m.stock = Directory[m.locate]
       /\ m.locate = Locate => m.type \notin BookTypes
       /\ m.type \in AddTypes \cup {"U"} => m.price > 0 /\ m.shares > 0

\* What a message does to a displayed book; nothing when its order is not in it.
Displayed(book, m) ==
  LET old == {o \in book : o.ref = m.ref}
  IN  CASE m.type \in AddTypes ->
             book \cup {[ref |-> m.ref, side |-> m.side, price |-> m.price,
                         rem |-> m.shares]}
        [] m.type \in ExecuteTypes \cup {"X"} ->
             (book \ old) \cup {[o EXCEPT !.rem = @ - m.shares] :
                                  o \in {x \in old : x.rem > m.shares}}
        [] m.type = "D" -> book \ old
        [] m.type = "U" ->
             (book \ old) \cup {[ref |-> m.newRef, side |-> o.side,
                                 price |-> m.price, rem |-> m.shares] : o \in old}
        [] OTHER -> book

FeedInit == session = <<>> /\ venue = {}

Uncrossed(book) ==
  \A x, y \in book : x.side = "B" /\ y.side = "S" => x.price < y.price

\* o is served before p, an order of the same side.
HasPriority(o, p) ==
  \/ IF o.side = "B" THEN o.price > p.price ELSE o.price < p.price
  \/ o.price = p.price /\ o.ref < p.ref

\* The order of its side that trades next.
IsFront(book, o) ==
  \A p \in book \ {o} : p.side = o.side => HasPriority(o, p)

LastTs == IF session = <<>> THEN 0 ELSE session[Len(session)].ts

BeginsAsOpening(messages) ==
  \E opening \in Openings :
    \A k \in DOMAIN messages \cap DOMAIN opening : messages[k] = opening[k]

\* Timestamps never go back; equal ones are common.
Send(m) ==
  /\ Len(session) < MaxMessages
  /\ \E ts \in {LastTs, LastTs + 1} :
       session' = Append(session, [m EXCEPT !.ts = ts])
  /\ BeginsAsOpening(session')
  /\ venue' = IF m.locate = Locate THEN Displayed(venue, m) ELSE venue

NextRef == Len(session) + 1

\* A message about an order of the symbol; stamped when it is sent.
BookMessage(type, ref, side, shares, price, newRef) ==
  [type |-> type, locate |-> Locate, ts |-> 0,
   stock |-> IF type \in AddTypes THEN Directory[Locate] ELSE "", ref |-> ref,
   side |-> side, shares |-> shares, price |-> price, newRef |-> newRef]

\* Attributed orders (F) differ from the others (A) in nothing that matters
\* here; the sells are attributed.
AddOrder(side, price, shares) ==
  LET m == BookMessage(IF side = "B" THEN "A" ELSE "F", NextRef, side, shares, price, 0)
  IN  Uncrossed(Displayed(venue, m)) /\ Send(m)

\* Executions follow price-time priority.  C is an execution at a price other
\* than the one displayed, which it carries.
Executed(o, shares) ==
  /\ IsFront(venue, o)
  /\ \/ Send(BookMessage("E", o.ref, "", shares, 0, 0))
     \/ \E price \in FeedPrices \ {o.price} :
          Send(BookMessage("C", o.ref, "", shares, price, 0))

CancelPartial(o, shares) ==
  shares < o.rem /\ Send(BookMessage("X", o.ref, "", shares, 0, 0))

DeleteOrder(o) == Send(BookMessage("D", o.ref, "", 0, 0, 0))

ReplaceOrder(o, price, shares) ==
  LET m == BookMessage("U", o.ref, "", shares, price, NextRef)
  IN  Uncrossed(Displayed(venue, m)) /\ Send(m)

FeedNext ==
  \/ \E side \in {"B", "S"}, price \in FeedPrices, shares \in OrderShares :
       AddOrder(side, price, shares)
  \/ \E o \in venue :
       \/ \E shares \in 1 .. o.rem : Executed(o, shares) \/ CancelPartial(o, shares)
       \/ DeleteOrder(o)
       \/ \E price \in FeedPrices, shares \in OrderShares : ReplaceOrder(o, price, shares)
  \/ \E m \in Bystanders : Send(m)
=============================================================================

-------------------------- MODULE ItchReplayProofs --------------------------
(***************************************************************************)
(* Proofs about the ITCH tools.                                            *)
(***************************************************************************)
EXTENDS ItchReplay, DataLemmas

(***************************************************************************)
(* The session.                                                            *)
(***************************************************************************)
DisplayedOrder == [ref : Nat, side : {"B", "S"}, price : Nat, rem : Nat \ {0}]

\* A message of the feed: its fields are typed, the blank ones are blank, and a
\* symbol of its own is the directory's.
Good(m) ==
  /\ m \in ItchMessage /\ WellFormed(m)
  /\ m.type \in StockTypes => /\ m.locate \in DOMAIN Directory
                              /\ m.stock = Directory[m.locate]

\* The session is a sequence of such messages.
SessionOK == session \in Seq(ItchMessage) /\ \A k \in 1 .. Len(session) : Good(session[k])

\* The venue displays orders with shares.
VenueTyped == venue \in SUBSET DisplayedOrder

\* The timestamp of a message does not matter to the book.
LEMMA DisplayedTs ==
  ASSUME NEW m \in ItchMessage, NEW b, NEW ts \in Nat
  PROVE  Displayed(b, [m EXCEPT !.ts = ts]) = Displayed(b, m)
  BY DEF Displayed, ItchMessage

\* Nor to its form.
LEMMA GoodTs ==
  ASSUME NEW m, Good(m), NEW ts \in Nat
  PROVE  Good([m EXCEPT !.ts = ts])
  BY DEF Good, ItchMessage, WellFormed

\* The message a venue sends is right for the book it displays.
Legal(n, v, m) ==
  m.locate = Locate =>
    /\ m.type \in AddTypes =>
         m.ref = n + 1 /\ m.side \in {"B", "S"} /\ m.shares > 0 /\ Uncrossed(Displayed(v, m))
    /\ m.type \in ExecuteTypes =>
         \E o \in v : o.ref = m.ref /\ IsFront(v, o) /\ m.shares \in 1 .. o.rem
    /\ m.type = "X" => \E o \in v : o.ref = m.ref /\ m.shares \in 1 .. o.rem /\ m.shares < o.rem
    /\ m.type = "D" => \E o \in v : o.ref = m.ref
    /\ m.type = "U" => /\ m.newRef = n + 1 /\ m.shares > 0 /\ Uncrossed(Displayed(v, m))
                       /\ \E o \in v : o.ref = m.ref

\* The timestamp of a message does not matter to its legality.
LEMMA LegalTs ==
  ASSUME NEW m \in ItchMessage, NEW v, NEW n \in Nat, Legal(n, v, m), NEW ts \in Nat
  PROVE  Legal(n, v, [m EXCEPT !.ts = ts])
<1> DEFINE s == [m EXCEPT !.ts = ts]
<1>1. /\ s.locate = m.locate /\ s.type = m.type /\ s.ref = m.ref /\ s.side = m.side
      /\ s.shares = m.shares /\ s.newRef = m.newRef
  BY DEF ItchMessage
<1>2. Displayed(v, s) = Displayed(v, m)
  BY DisplayedTs
<1> HIDE DEF s
<1>3. Legal(n, v, s)
  BY <1>1, <1>2 DEF Legal
<1> QED BY <1>3 DEF s

\* The step of the feed that sends m.
Sent(m) ==
  /\ Len(session) < MaxMessages
  /\ Good(m) /\ Legal(Len(session), venue, m)
  /\ m.ts \in {LastTs, LastTs + 1}
  /\ session' = Append(session, m)
  /\ venue' = IF m.locate = Locate THEN Displayed(venue, m) ELSE venue

\* The session so far has a last timestamp and a length.
LEMMA LastTsNat ==
  ASSUME SessionOK
  PROVE  LastTs \in Nat /\ Len(session) \in Nat
<1>1. Len(session) \in Nat
  BY LenProperties DEF SessionOK
<1>2. CASE session = <<>>
  BY <1>1, <1>2 DEF LastTs
<1>3. CASE session # <<>>
  <2>1. Len(session) \in 1 .. Len(session)
    BY <1>3, EmptySeq, LenProperties DEF SessionOK
  <2>2. session[Len(session)] \in ItchMessage
    BY <2>1 DEF SessionOK, Good
  <2> QED BY <1>1, <1>3, <2>2 DEF LastTs, ItchMessage
<1> QED BY <1>2, <1>3

\* What the venue sends is one more legal message, and the book with it.
LEMMA SendIsSent ==
  ASSUME SessionOK, NEW m, Good(m), Legal(Len(session), venue, m), Send(m)
  PROVE  \E s : Sent(s)
<1>1. LastTs \in Nat /\ Len(session) \in Nat
  BY LastTsNat
<1>2. PICK ts \in {LastTs, LastTs + 1} : session' = Append(session, [m EXCEPT !.ts = ts])
  BY DEF Send
<1>3. ts \in Nat /\ m \in ItchMessage
  BY <1>1 DEF Good
<1> DEFINE s == [m EXCEPT !.ts = ts]
<1>4. Good(s) /\ Legal(Len(session), venue, s)
  BY <1>1, <1>3, GoodTs, LegalTs
<1>5. s.ts = ts /\ s.locate = m.locate
  BY <1>3 DEF ItchMessage
<1>6. Displayed(venue, s) = Displayed(venue, m)
  BY <1>3, DisplayedTs
<1>7. session' = Append(session, s)
  BY <1>2
<1> HIDE DEF s
<1>8. Sent(s)
  BY <1>4, <1>5, <1>6, <1>7 DEF Send, Sent
<1> QED BY <1>8

\* The fields of a message about an order.
IsBookMessage(m, type, ref, side, shares, price, newRef) ==
  /\ m \in ItchMessage /\ m.locate = Locate /\ m.type = type /\ m.ref = ref
  /\ m.side = side /\ m.shares = shares /\ m.price = price /\ m.newRef = newRef
  /\ type \in AddTypes => m.stock = Directory[Locate]

\* The fields of a message about an order.
LEMMA BookMessageIs ==
  ASSUME NEW type \in BookTypes, NEW ref \in Nat, NEW side \in {"B", "S", ""},
         NEW shares \in Nat, NEW price \in Nat, NEW newRef \in Nat
  PROVE  IsBookMessage(BookMessage(type, ref, side, shares, price, newRef),
                       type, ref, side, shares, price, newRef)
<1> DEFINE stock == IF type \in AddTypes THEN Directory[Locate] ELSE ""
           m == BookMessage(type, ref, side, shares, price, newRef)
<1>1. m = [type |-> type, locate |-> Locate, ts |-> 0, stock |-> stock, ref |-> ref,
           side |-> side, shares |-> shares, price |-> price, newRef |-> newRef]
  BY DEF BookMessage
<1>2. /\ stock \in Symbols
      /\ type \in AddTypes => stock = Directory[Locate]
  BY FeedAssumption DEF Symbols
<1>3. type \in MessageTypes
  BY DEF MessageTypes
<1>4. Locate \in Nat /\ 0 \in Nat
  BY FeedAssumption
<1> HIDE DEF stock, m
<1>5. m \in ItchMessage
  BY <1>1, <1>2, <1>3, <1>4 DEF ItchMessage
<1>6. /\ m.locate = Locate /\ m.type = type /\ m.ref = ref
      /\ m.side = side /\ m.shares = shares /\ m.price = price /\ m.newRef = newRef
      /\ m.stock = stock
  BY <1>1
<1> QED BY <1>2, <1>5, <1>6 DEF m, IsBookMessage

\* Every step of the feed sends one such message.
LEMMA FeedSends ==
  ASSUME SessionOK, VenueTyped, FeedNext
  PROVE  \E m : Sent(m)
<1>0. Len(session) \in Nat /\ Len(session) + 1 \in Nat
  BY LastTsNat
<1> USE DEF AddTypes, ExecuteTypes, BookTypes, StockTypes
<1>1. ASSUME NEW side \in {"B", "S"}, NEW price \in FeedPrices, NEW shares \in OrderShares,
             AddOrder(side, price, shares)
      PROVE  \E m : Sent(m)
  <2>1. PICK type \in {"A", "F"} : type = IF side = "B" THEN "A" ELSE "F"
    OBVIOUS
  <2>2. PICK m : m = BookMessage(type, Len(session) + 1, side, shares, price, 0)
    OBVIOUS
  <2>3. Uncrossed(Displayed(venue, m)) /\ Send(m)
    BY <1>1, <2>1, <2>2 DEF AddOrder, NextRef
  <2>4. price \in Nat /\ shares \in Nat /\ shares > 0
    BY FeedAssumption
  <2>5. /\ m \in ItchMessage /\ m.locate = Locate /\ m.type = type /\ m.ref = Len(session) + 1
        /\ m.side = side /\ m.shares = shares /\ m.price = price /\ m.newRef = 0
        /\ m.stock = Directory[Locate]
    <3>1. IsBookMessage(m, type, Len(session) + 1, side, shares, price, 0)
      BY <1>0, <2>2, <2>4, BookMessageIs
    <3> QED BY <3>1 DEF IsBookMessage
  <2>6. Good(m)
    BY <2>5, FeedAssumption DEF Good, WellFormed
  <2>7. Legal(Len(session), venue, m)
    BY <2>3, <2>4, <2>5 DEF Legal
  <2> QED BY <2>3, <2>6, <2>7, SendIsSent
<1>2. ASSUME NEW o \in venue, NEW shares \in 1 .. o.rem, NEW type \in {"E", "C"},
             NEW price \in Nat, type = "E" => price = 0, IsFront(venue, o),
             Send(BookMessage(type, o.ref, "", shares, price, 0))
      PROVE  \E m : Sent(m)
  <2>1. PICK m : m = BookMessage(type, o.ref, "", shares, price, 0)
    OBVIOUS
  <2>2. o.ref \in Nat /\ o.rem \in Nat /\ shares \in Nat
    BY DEF VenueTyped, DisplayedOrder
  <2>3. /\ m \in ItchMessage /\ m.locate = Locate /\ m.type = type /\ m.ref = o.ref
        /\ m.side = "" /\ m.shares = shares /\ m.price = price /\ m.newRef = 0
    <3>1. IsBookMessage(m, type, o.ref, "", shares, price, 0)
      BY <2>1, <2>2, BookMessageIs
    <3> QED BY <3>1 DEF IsBookMessage
  <2>4. Good(m)
    BY <1>2, <2>3 DEF Good, WellFormed
  <2>5. Legal(Len(session), venue, m)
    BY <1>2, <2>3 DEF Legal
  <2> QED BY <1>2, <2>1, <2>4, <2>5, SendIsSent
<1>3. ASSUME NEW o \in venue, NEW shares \in 1 .. o.rem, Executed(o, shares)
      PROVE  \E m : Sent(m)
  <2>1. FeedPrices \subseteq Nat
    BY FeedAssumption
  <2> QED BY <1>2, <1>3, <2>1 DEF Executed
<1>4. ASSUME NEW o \in venue, NEW shares \in 1 .. o.rem, CancelPartial(o, shares)
      PROVE  \E m : Sent(m)
  <2>1. PICK m : m = BookMessage("X", o.ref, "", shares, 0, 0)
    OBVIOUS
  <2>2. o.ref \in Nat /\ o.rem \in Nat /\ shares \in Nat
    BY DEF VenueTyped, DisplayedOrder
  <2>3. /\ m \in ItchMessage /\ m.locate = Locate /\ m.type = "X" /\ m.ref = o.ref
        /\ m.side = "" /\ m.shares = shares /\ m.price = 0 /\ m.newRef = 0
    <3>1. IsBookMessage(m, "X", o.ref, "", shares, 0, 0)
      BY <2>1, <2>2, BookMessageIs
    <3> QED BY <3>1 DEF IsBookMessage
  <2>4. Send(m) /\ shares < o.rem
    BY <1>4, <2>1 DEF CancelPartial
  <2>5. Good(m)
    BY <2>3 DEF Good, WellFormed
  <2>6. Legal(Len(session), venue, m)
    BY <2>3, <2>4 DEF Legal
  <2> QED BY <2>4, <2>5, <2>6, SendIsSent
<1>5. ASSUME NEW o \in venue, DeleteOrder(o)
      PROVE  \E m : Sent(m)
  <2>1. PICK m : m = BookMessage("D", o.ref, "", 0, 0, 0)
    OBVIOUS
  <2>2. o.ref \in Nat
    BY DEF VenueTyped, DisplayedOrder
  <2>3. /\ m \in ItchMessage /\ m.locate = Locate /\ m.type = "D" /\ m.ref = o.ref
        /\ m.side = "" /\ m.shares = 0 /\ m.price = 0 /\ m.newRef = 0
    <3>1. IsBookMessage(m, "D", o.ref, "", 0, 0, 0)
      BY <2>1, <2>2, BookMessageIs
    <3> QED BY <3>1 DEF IsBookMessage
  <2>4. Good(m)
    BY <2>3 DEF Good, WellFormed
  <2>5. Legal(Len(session), venue, m)
    BY <2>3 DEF Legal
  <2> QED BY <1>5, <2>1, <2>4, <2>5, SendIsSent DEF DeleteOrder
<1>6. ASSUME NEW o \in venue, NEW price \in FeedPrices, NEW shares \in OrderShares,
             ReplaceOrder(o, price, shares)
      PROVE  \E m : Sent(m)
  <2>1. PICK m : m = BookMessage("U", o.ref, "", shares, price, Len(session) + 1)
    OBVIOUS
  <2>2. o.ref \in Nat /\ price \in Nat /\ shares \in Nat /\ shares > 0
    BY FeedAssumption DEF VenueTyped, DisplayedOrder
  <2>3. /\ m \in ItchMessage /\ m.locate = Locate /\ m.type = "U" /\ m.ref = o.ref
        /\ m.side = "" /\ m.shares = shares /\ m.price = price
        /\ m.newRef = Len(session) + 1
    <3>1. IsBookMessage(m, "U", o.ref, "", shares, price, Len(session) + 1)
      BY <1>0, <2>1, <2>2, BookMessageIs
    <3> QED BY <3>1 DEF IsBookMessage
  <2>4. Uncrossed(Displayed(venue, m)) /\ Send(m)
    BY <1>6, <2>1 DEF ReplaceOrder, NextRef
  <2>5. Good(m)
    BY <2>3 DEF Good, WellFormed
  <2>6. Legal(Len(session), venue, m)
    BY <2>2, <2>3, <2>4 DEF Legal
  <2> QED BY <2>4, <2>5, <2>6, SendIsSent
<1>7. ASSUME NEW m \in Bystanders, Send(m)
      PROVE  \E s : Sent(s)
  <2>1. Good(m) /\ (m.locate = Locate => m.type \notin BookTypes)
    BY FeedAssumption DEF Good
  <2>2. Legal(Len(session), venue, m)
    BY <2>1 DEF Legal
  <2> QED BY <1>7, <2>1, <2>2, SendIsSent
<1> QED BY <1>1, <1>3, <1>4, <1>5, <1>6, <1>7 DEF FeedNext

(***************************************************************************)
(* Displayed books.                                                        *)
(***************************************************************************)
Unique(b) == \A x, y \in b : x.ref = y.ref => x = y

\* The order that message m displays under a reference and on a side.
NewOrder(m, ref, side) == [ref |-> ref, side |-> side, price |-> m.price, rem |-> m.shares]

\* An order with fewer shares.
Less(o, shares) == [o EXCEPT !.rem = @ - shares]

\* What a message does to the book that has its order o.
LEMMA DisplayedHas ==
  ASSUME NEW b, Unique(b), NEW m, NEW o \in b, o.ref = m.ref
  PROVE  /\ m.type \in ExecuteTypes \cup {"X"} =>
              Displayed(b, m) = (b \ {o}) \cup (IF o.rem > m.shares
                                                 THEN {Less(o, m.shares)} ELSE {})
         /\ m.type = "D" => Displayed(b, m) = b \ {o}
         /\ m.type = "U" => Displayed(b, m) = (b \ {o}) \cup {NewOrder(m, m.newRef, o.side)}
<1> DEFINE old == {x \in b : x.ref = m.ref}
<1>1. old = {o}
  BY DEF Unique
<1>2. {Less(x, m.shares) : x \in {y \in old : y.rem > m.shares}} =
        IF o.rem > m.shares THEN {Less(o, m.shares)} ELSE {}
  BY <1>1
<1>3. {NewOrder(m, m.newRef, x.side) : x \in old} = {NewOrder(m, m.newRef, o.side)}
  BY <1>1
<1>4. ASSUME m.type \in ExecuteTypes \cup {"X"}
      PROVE  Displayed(b, m) = (b \ old) \cup
               {Less(x, m.shares) : x \in {y \in old : y.rem > m.shares}}
  BY <1>4, Zenon DEF Displayed, Less, AddTypes, ExecuteTypes
<1>5. ASSUME m.type = "D"
      PROVE  Displayed(b, m) = b \ old
  BY <1>5 DEF Displayed, AddTypes, ExecuteTypes
<1>6. ASSUME m.type = "U"
      PROVE  Displayed(b, m) = (b \ old) \cup {NewOrder(m, m.newRef, x.side) : x \in old}
  BY <1>6 DEF Displayed, AddTypes, ExecuteTypes, NewOrder
<1> HIDE DEF old
<1> QED BY <1>1, <1>2, <1>3, <1>4, <1>5, <1>6

\* And to one that does not have it, or is not concerned.
LEMMA DisplayedHasNot ==
  ASSUME NEW b, NEW m, \A o \in b : o.ref # m.ref
  PROVE  m.type \notin AddTypes => Displayed(b, m) = b
<1> DEFINE old == {x \in b : x.ref = m.ref}
<1>1. old = {}
  OBVIOUS
<1>2. CASE m.type \in ExecuteTypes \cup {"X"}
  <2>1. Displayed(b, m) = (b \ old) \cup
               {Less(x, m.shares) : x \in {y \in old : y.rem > m.shares}}
    BY <1>2, Zenon DEF Displayed, Less, AddTypes, ExecuteTypes
  <2> QED BY <1>1, <2>1
<1>3. CASE m.type = "D"
  BY <1>3 DEF Displayed, AddTypes, ExecuteTypes
<1>4. CASE m.type = "U"
  <2>1. Displayed(b, m) = (b \ old) \cup {NewOrder(m, m.newRef, x.side) : x \in old}
    BY <1>4 DEF Displayed, AddTypes, ExecuteTypes, NewOrder
  <2> QED BY <1>1, <2>1
<1>5. CASE m.type \notin AddTypes \cup ExecuteTypes \cup {"X", "D", "U"}
  BY <1>5 DEF Displayed
<1> QED BY <1>2, <1>3, <1>4, <1>5

\* An add displays one more order; what is not about the book leaves it.
LEMMA DisplayedAdd ==
  ASSUME NEW b, NEW m
  PROVE  /\ m.type \in AddTypes => Displayed(b, m) = b \cup {NewOrder(m, m.ref, m.side)}
         /\ m.type \notin BookTypes => Displayed(b, m) = b
<1>1. ASSUME m.type \in AddTypes PROVE Displayed(b, m) = b \cup {NewOrder(m, m.ref, m.side)}
  BY <1>1 DEF Displayed, NewOrder, AddTypes, ExecuteTypes
<1>2. ASSUME m.type \notin BookTypes PROVE Displayed(b, m) = b
  BY <1>2 DEF Displayed, BookTypes
<1> QED BY <1>1, <1>2

\* A displayed book after n messages: a finite, uncrossed set of orders under
\* references of their own, each at most n.
BookOK(b, n) ==
  /\ b \in SUBSET DisplayedOrder /\ IsFiniteSet(b)
  /\ Uncrossed(b) /\ Unique(b)
  /\ \A x \in b : x.ref <= n

\* The fields of an order that gave up shares.
LEMMA LessIs ==
  ASSUME NEW o \in DisplayedOrder, NEW q \in Nat, q < o.rem
  PROVE  LET l == Less(o, q)
         IN  /\ l \in DisplayedOrder /\ l.ref = o.ref /\ l.side = o.side
             /\ l.price = o.price /\ l.rem = o.rem - q
  BY DEF Less, DisplayedOrder

\* The fields of a new order.
LEMMA NewOrderIs ==
  ASSUME NEW m, NEW ref \in Nat, NEW side \in {"B", "S"}, m.price \in Nat,
         m.shares \in Nat, m.shares > 0
  PROVE  LET o == NewOrder(m, ref, side)
         IN  /\ o \in DisplayedOrder /\ o.ref = ref /\ o.side = side
             /\ o.price = m.price /\ o.rem = m.shares
  BY DEF NewOrder, DisplayedOrder

\* Orders of the same references, sides and prices are as good.
LEMMA ReplaceOne ==
  ASSUME NEW n \in Nat, NEW b, BookOK(b, n), NEW o \in b, NEW l \in DisplayedOrder,
         l.ref = o.ref, l.side = o.side, l.price = o.price
  PROVE  BookOK((b \ {o}) \cup {l}, n)
<1> DEFINE c == (b \ {o}) \cup {l}
<1>1. c \in SUBSET DisplayedOrder
  BY DEF BookOK
<1>2. IsFiniteSet(c)
  BY FS_RemoveElement, FS_AddElement DEF BookOK
<1>3. Uncrossed(c)
  BY DEF BookOK, Uncrossed
<1>4. Unique(c)
  BY DEF BookOK, Unique
<1>5. \A x \in c : x.ref <= n
  BY DEF BookOK
<1> QED BY <1>1, <1>2, <1>3, <1>4, <1>5 DEF BookOK

\* A book stays in order without one of its orders,
LEMMA RemoveOne ==
  ASSUME NEW n \in Nat, NEW b, BookOK(b, n), NEW o \in b
  PROVE  BookOK(b \ {o}, n)
<1>1. IsFiniteSet(b \ {o})
  BY FS_RemoveElement DEF BookOK
<1> QED BY <1>1 DEF BookOK, Uncrossed, Unique

\* and with one under a higher reference that does not cross it.
LEMMA AddOne ==
  ASSUME NEW n \in Nat, NEW b, BookOK(b, n), NEW l \in DisplayedOrder, l.ref = n + 1,
         Uncrossed(b \cup {l})
  PROVE  BookOK(b \cup {l}, n + 1)
<1>1. IsFiniteSet(b \cup {l})
  BY FS_AddElement DEF BookOK
<1>2. \A x \in b : x.ref \in Nat /\ x.ref <= n /\ x.ref # n + 1 /\ x.ref <= n + 1
  BY DEF BookOK, DisplayedOrder
<1>3. Unique(b \cup {l})
  BY <1>2 DEF BookOK, Unique
<1> QED BY <1>1, <1>2, <1>3 DEF BookOK

\* A book is in order after one more message that leaves it.
LEMMA BookOKMore ==
  ASSUME NEW n \in Nat, NEW b, BookOK(b, n)
  PROVE  BookOK(b, n + 1)
<1>1. \A x \in b : x.ref \in Nat /\ x.ref <= n /\ x.ref <= n + 1
  BY DEF BookOK, DisplayedOrder
<1> QED BY <1>1 DEF BookOK

\* A legal message keeps the displayed book in order.
LEMMA DisplayedOK ==
  ASSUME NEW n \in Nat, NEW v, BookOK(v, n), NEW m, Good(m), m.locate = Locate,
         Legal(n, v, m)
  PROVE  BookOK(Displayed(v, m), n + 1)
<1>1. /\ m.price \in Nat /\ m.shares \in Nat /\ m.ref \in Nat /\ m.newRef \in Nat
      /\ Unique(v) /\ v \in SUBSET DisplayedOrder /\ BookOK(v, n + 1)
  BY BookOKMore DEF Good, ItchMessage, BookOK
<1>2. CASE m.type \in AddTypes
  <2>1. PICK l : l = NewOrder(m, m.ref, m.side)
    OBVIOUS
  <2>2. l \in DisplayedOrder /\ l.ref = n + 1 /\ Uncrossed(Displayed(v, m))
    BY <1>1, <1>2, <2>1, NewOrderIs DEF Legal
  <2>3. Displayed(v, m) = v \cup {l}
    BY <1>2, <2>1, DisplayedAdd
  <2> QED BY <2>2, <2>3, AddOne
<1>3. ASSUME NEW o \in v, o.ref = m.ref, m.type \in ExecuteTypes \cup {"X"}
      PROVE  BookOK(Displayed(v, m), n + 1)
  <2>1. Displayed(v, m) = (v \ {o}) \cup (IF o.rem > m.shares
                                                 THEN {Less(o, m.shares)} ELSE {})
    BY <1>1, <1>3, DisplayedHas
  <2>2. CASE o.rem > m.shares
    <3>1. PICK l : l = Less(o, m.shares)
      OBVIOUS
    <3>2. o \in DisplayedOrder /\ o.rem \in Nat /\ m.shares < o.rem
      BY <1>1, <2>2 DEF DisplayedOrder
    <3>3. l \in DisplayedOrder /\ l.ref = o.ref /\ l.side = o.side /\ l.price = o.price
      BY <1>1, <3>1, <3>2, LessIs
    <3>4. Displayed(v, m) = (v \ {o}) \cup {l}
      BY <2>1, <2>2, <3>1
    <3> QED BY <1>1, <3>3, <3>4, ReplaceOne
  <2>3. CASE ~(o.rem > m.shares)
    <3>1. Displayed(v, m) = v \ {o}
      BY <2>1, <2>3
    <3> QED BY <1>1, <3>1, RemoveOne
  <2> QED BY <2>2, <2>3
<1>4. CASE m.type \in ExecuteTypes
  BY <1>3, <1>4 DEF Legal
<1>5. CASE m.type = "X"
  BY <1>3, <1>5 DEF Legal
<1>6. CASE m.type = "D"
  <2>1. PICK o \in v : o.ref = m.ref
    BY <1>6 DEF Legal
  <2>2. Displayed(v, m) = v \ {o}
    BY <1>1, <1>6, <2>1, DisplayedHas
  <2> QED BY <1>1, <2>2, RemoveOne
<1>7. CASE m.type = "U"
  <2>1. PICK o \in v : o.ref = m.ref
    BY <1>7 DEF Legal
  <2>2. PICK l : l = NewOrder(m, m.newRef, o.side)
    OBVIOUS
  <2>3. o.side \in {"B", "S"}
    BY <1>1 DEF DisplayedOrder
  <2>4. l \in DisplayedOrder /\ l.ref = n + 1 /\ Uncrossed(Displayed(v, m))
    BY <1>1, <1>7, <2>2, <2>3, NewOrderIs DEF Legal
  <2>5. Displayed(v, m) = (v \ {o}) \cup {l}
    BY <1>1, <1>7, <2>1, <2>2, DisplayedHas
  <2>6. BookOK(v \ {o}, n)
    BY RemoveOne
  <2> QED BY <2>4, <2>5, <2>6, AddOne
<1>8. CASE m.type \notin BookTypes
  BY <1>1, <1>8, DisplayedAdd
<1> QED BY <1>2, <1>4, <1>5, <1>6, <1>7, <1>8 DEF BookTypes

(***************************************************************************)
(* The rows of the file.                                                   *)
(***************************************************************************)
PriceColumn == [whole : Nat, frac : Nat, blank : BOOLEAN]

\* A row of the file.
CsvRow ==
  [seq : Nat, ts : Nat, msg : NamedTypes, symbol : Symbols, ref : Nat,
   side : {"B", "S", ""}, shares : Nat, price : PriceColumn, newRef : Nat]

\* A price survives being formatted and parsed.
LEMMA PriceRoundTrip ==
  ASSUME NEW raw \in Nat
  PROVE  AppendPrice(raw) \in PriceColumn /\ ParsePriceRaw(AppendPrice(raw)) = raw
<1>1. PICK p \in Nat \ {0} : p = PriceScale
  BY CsvAssumption
<1>2. raw \div p \in Nat /\ (raw % p) \in Nat
  OBVIOUS
<1>3. (raw \div p) * p + (raw % p) = raw
  <2>1. (raw % p) = raw - p * (raw \div p)
    OBVIOUS
  <2>2. p * (raw \div p) = (raw \div p) * p
    BY <1>2
  <2> QED BY <1>2, <2>1, <2>2
<1>4. AppendPrice(raw) \in PriceColumn
  BY <1>1, <1>2 DEF AppendPrice, PriceColumn
<1>5. ParsePriceRaw(AppendPrice(raw)) = (raw \div p) * p + (raw % p)
  BY <1>1, Zenon DEF AppendPrice, ParsePriceRaw
<1> QED BY <1>3, <1>4, <1>5

\* The blank price column reads as zero.
LEMMA NoPriceIs == NoPrice \in PriceColumn /\ ParsePriceRaw(NoPrice) = 0
<1>1. NoPrice \in PriceColumn
  BY DEF NoPrice, PriceColumn
<1>2. ParsePriceRaw(NoPrice) = 0
  BY Zenon DEF NoPrice, ParsePriceRaw
<1> QED BY <1>1, <1>2

\* The row is that of message m, in place n.
Transcribes(row, m, n) ==
  /\ row.seq = n /\ row.msg = m.type /\ row.ts = m.ts
  /\ row.ref = m.ref /\ row.newRef = m.newRef
  /\ row.side = m.side /\ row.shares = m.shares
  /\ ParsePriceRaw(row.price) = m.price
  /\ m.type # "S" /\ Wanted # {} => row.symbol \in Wanted

\* The codes read so far have the symbols of the directory.
SymbolsOK ==
  /\ \A l \in DOMAIN locateToSymbol :
       l \in DOMAIN Directory /\ locateToSymbol[l] = Directory[l]
  /\ \A j \in 1 .. messages :
       session[j].type = "R" => session[j].locate \in DOMAIN locateToSymbol

\* A directory message among the first n gives a wanted symbol to code l.
ListedBy(l, n) ==
  \E j \in 1 .. n :
    session[j].type = "R" /\ session[j].locate = l /\ session[j].stock \in Wanted

\* The codes kept are those for which a directory entry read names a wanted symbol.
FilterOK == \A l \in Nat : l \in keepLocate <=> ListedBy(l, messages)

\* The columns are those of the message.
LEMMA RowIs ==
  ASSUME NEW m, Good(m), m.type \in NamedTypes, Len(csv) \in Nat, SymbolsOK
  PROVE  Row(m) \in CsvRow /\
         LET row == Row(m)
         IN  /\ row.seq = Len(csv) + 1 /\ row.msg = m.type /\ row.ts = m.ts
             /\ row.ref = m.ref /\ row.newRef = m.newRef
             /\ row.side = m.side /\ row.shares = m.shares
             /\ ParsePriceRaw(row.price) = m.price
             /\ m.type \in {"A", "F", "P", "Q", "H"} => row.symbol = m.stock
             /\ m.type \notin {"A", "F", "P", "Q", "H", "S"} =>
                  row.symbol = IF m.locate \in DOMAIN locateToSymbol
                                 THEN locateToSymbol[m.locate] ELSE ""
<1>8. PICK n \in Nat : n = Len(csv) + 1
  <2>1. Len(csv) + 1 \in Nat
    OBVIOUS
  <2> QED BY <2>1, Zenon
<1> USE DEF AddTypes, ExecuteTypes, BookTypes
<1>1. /\ m \in ItchMessage /\ WellFormed(m) /\ m.type \in MessageTypes
      /\ m.ts \in Nat /\ m.ref \in Nat /\ m.newRef \in Nat /\ m.shares \in Nat
      /\ m.price \in Nat /\ m.side \in {"B", "S", ""}
      /\ m.stock \in Symbols
  BY DEF Good, ItchMessage
<1>2. PICK ref \in Nat : ref = IF m.type \in {"A", "F", "E", "C", "X", "D", "U", "P"}
                                THEN m.ref ELSE 0
  BY <1>1
<1>3. PICK side \in {"B", "S", ""} : side = IF m.type \in {"A", "F", "P"} THEN m.side ELSE ""
  BY <1>1
<1>4. PICK shares \in Nat :
        shares = IF m.type \in {"A", "F", "P", "E", "C", "X", "U", "Q"} THEN m.shares ELSE 0
  BY <1>1
<1>5. PICK price \in PriceColumn :
        price = IF m.type \in {"A", "F", "P", "C", "U", "Q"} THEN AppendPrice(m.price) ELSE NoPrice
  BY <1>1, PriceRoundTrip, NoPriceIs
<1>6. PICK newRef \in Nat : newRef = IF m.type \in {"U"} THEN m.newRef ELSE 0
  BY <1>1
<1>7. PICK symbol \in Symbols :
        symbol = CASE m.type \in {"A", "F", "P", "Q", "H"} -> m.stock
                   [] m.type = "S" -> ""
                   [] OTHER -> IF m.locate \in DOMAIN locateToSymbol
                                  THEN locateToSymbol[m.locate] ELSE ""
  BY <1>1 DEF SymbolsOK, Symbols
<1>9. PICK ts \in Nat, type \in NamedTypes : ts = m.ts /\ type = m.type
  BY <1>1
<1>0. PICK row : row = Row(m)
  OBVIOUS
<1>15. row = [seq |-> n, ts |-> ts, msg |-> type, symbol |-> symbol,
                ref |-> ref, side |-> side, shares |-> shares, price |-> price,
                newRef |-> newRef]
  BY <1>0, <1>2, <1>3, <1>4, <1>5, <1>6, <1>7, <1>8, <1>9, Zenon DEF Row
<1>10. row \in CsvRow
  BY <1>15 DEF CsvRow
<1>14. /\ row.seq = n /\ row.ts = ts /\ row.msg = type /\ row.symbol = symbol
       /\ row.ref = ref /\ row.side = side /\ row.shares = shares
       /\ row.price = price /\ row.newRef = newRef
  BY <1>15
<1>11. ref = m.ref /\ side = m.side /\ shares = m.shares /\ newRef = m.newRef
  BY <1>1, <1>2, <1>3, <1>4, <1>6 DEF WellFormed, NamedTypes
<1>12. ParsePriceRaw(price) = m.price
  <2>1. CASE m.type \in {"A", "F", "P", "C", "U", "Q"}
    BY <1>1, <1>5, <2>1, PriceRoundTrip
  <2>2. CASE m.type \notin {"A", "F", "P", "C", "U", "Q"}
    BY <1>1, <1>5, <2>2, NoPriceIs DEF WellFormed
  <2> QED BY <2>1, <2>2
<1>13. /\ m.type \in {"A", "F", "P", "Q", "H"} => symbol = m.stock
       /\ m.type \notin {"A", "F", "P", "Q", "H", "S"} =>
                  symbol = IF m.locate \in DOMAIN locateToSymbol
                                 THEN locateToSymbol[m.locate] ELSE ""
  BY <1>7
<1> QED BY <1>0, <1>8, <1>9, <1>10, <1>11, <1>12, <1>13, <1>14

(***************************************************************************)
(* Conversion: which messages have rows, and where.                        *)
(***************************************************************************)
Kept(n) == {k \in 1 .. n : ToKeep(k)}

\* Each message to be kept, of those read, has its row, in their order.
RowsOK ==
  \A k \in Kept(messages) :
    /\ Cardinality(Kept(k)) \in 1 .. Len(csv)
    /\ Transcribes(csv[Cardinality(Kept(k))], session[k], Cardinality(Kept(k)))

\* What was read, and the limit on the rows.
LimitOK ==
  /\ messages + 1 >= Len(session)
  /\ stage # "decode" => messages = Len(session)
  /\ stage = "decode" => limit = 0 \/ Len(csv) < limit
  /\ limit = 0 \/ Len(csv) <= limit

\* What holds while the file is written, and of the file afterwards.
CsvInv ==
  /\ SessionOK /\ BookOK(venue, Len(session))
  /\ limit \in Nat /\ messages \in 0 .. Len(session)
  /\ csv \in Seq(CsvRow) /\ Len(csv) = Cardinality(Kept(messages))
  /\ SymbolsOK /\ FilterOK /\ RowsOK /\ LimitOK

\* The messages to keep are finitely many.
LEMMA KeptFinite ==
  ASSUME NEW n \in Nat
  PROVE  IsFiniteSet(Kept(n)) /\ Cardinality(Kept(n)) \in Nat
<1>1. IsFiniteSet(1 .. n) /\ Kept(n) \in SUBSET (1 .. n)
  BY FS_Interval DEF Kept
<1> QED BY <1>1, FS_Subset, FS_CardinalityType

\* One more message is kept or not.
LEMMA KeptStep ==
  ASSUME NEW n \in Nat
  PROVE  /\ ToKeep(n + 1) => /\ Kept(n + 1) = Kept(n) \cup {n + 1}
                             /\ Cardinality(Kept(n + 1)) = Cardinality(Kept(n)) + 1
         /\ ~ToKeep(n + 1) => Kept(n + 1) = Kept(n)
<1>1. \A k : k \in 1 .. n + 1 <=> k \in 1 .. n \/ k = n + 1
  OBVIOUS
<1>2. ToKeep(n + 1) => Kept(n + 1) = Kept(n) \cup {n + 1}
  BY <1>1 DEF Kept
<1>3. ~ToKeep(n + 1) => Kept(n + 1) = Kept(n)
  BY <1>1 DEF Kept
<1>4. n + 1 \notin Kept(n)
  BY DEF Kept
<1>5. Cardinality(Kept(n) \cup {n + 1}) = Cardinality(Kept(n)) + 1
  BY <1>4, KeptFinite, FS_AddElement
<1> QED BY <1>2, <1>3, <1>5

\* The place of a message to be kept among all of them.
LEMMA KeptUpTo ==
  ASSUME NEW n \in Nat, NEW k \in Kept(n)
  PROVE  /\ k \in 1 .. n /\ Cardinality(Kept(k)) \in Nat
         /\ Cardinality(Kept(k)) >= 1 /\ Cardinality(Kept(k)) <= Cardinality(Kept(n))
<1>1. k \in 1 .. n /\ k \in Nat /\ ToKeep(k)
  BY DEF Kept
<1>2. Kept(k) \in SUBSET Kept(n) /\ k \in Kept(k)
  BY <1>1 DEF Kept
<1>3. IsFiniteSet(Kept(n)) /\ IsFiniteSet(Kept(k))
  BY <1>1, KeptFinite
<1>4. Cardinality(Kept(k)) <= Cardinality(Kept(n))
  BY <1>2, <1>3, FS_Subset
<1>5. Cardinality(Kept(k)) # 0 /\ Cardinality(Kept(k)) \in Nat
  BY <1>2, <1>3, FS_EmptySet, FS_CardinalityType
<1> QED BY <1>1, <1>4, <1>5

\* A message that is sent changes nothing of the file.
LEMMA TradingCsvInv ==
  ASSUME CsvInv, Trading
  PROVE  CsvInv'
<1>1. /\ SessionOK /\ VenueTyped /\ BookOK(venue, Len(session)) /\ Len(session) \in Nat
      /\ stage = "decode" /\ messages = Len(session)
  BY LastTsNat DEF CsvInv, Trading, BookOK, VenueTyped
<1>2. PICK m : Sent(m)
  BY <1>1, FeedSends DEF Trading
<1>3. m \in ItchMessage /\ session' = Append(session, m)
  BY <1>2 DEF Sent, Good
<1>4. /\ session' \in Seq(ItchMessage) /\ Len(session') = Len(session) + 1
      /\ session'[Len(session) + 1] = m
      /\ \A k \in 1 .. Len(session) : session'[k] = session[k]
  BY <1>1, <1>3, AppendProperties DEF SessionOK
<1>5. SessionOK'
  <2>1. ASSUME NEW k \in 1 .. Len(session') PROVE Good(session'[k])
    BY <1>1, <1>2, <1>4 DEF SessionOK, Sent
  <2> QED BY <1>4, <2>1 DEF SessionOK
<1>6. BookOK(venue', Len(session) + 1)
  <2>1. CASE m.locate = Locate
    BY <1>1, <1>2, <2>1, DisplayedOK DEF Sent
  <2>2. CASE m.locate # Locate
    BY <1>1, <1>2, <2>2, BookOKMore DEF Sent
  <2> QED BY <2>1, <2>2
<1>7. /\ UNCHANGED <<stage, limit, messages, locateToSymbol, keepLocate, csv, shown>>
  BY DEF Trading, csvVars
<1>8. \A k \in 1 .. Len(session) : ToKeep(k)' <=> ToKeep(k)
  <2>1. ASSUME NEW k \in 1 .. Len(session)
        PROVE  Listed(k)' <=> Listed(k)
    <3>1. \A j \in 1 .. k - 1 : session'[j] = session[j]
      BY <1>1, <1>4
    <3>2. session'[k] = session[k]
      BY <1>4
    <3> QED BY <3>1, <3>2 DEF Listed
  <2> QED BY <1>4, <2>1 DEF ToKeep
<1>9. \A n \in 0 .. Len(session) : Kept(n)' = Kept(n)
  <2>1. ASSUME NEW n \in 0 .. Len(session) PROVE Kept(n)' = Kept(n)
    <3>1. \A k \in 1 .. n : k \in 1 .. Len(session)
      BY <1>1
    <3> QED BY <1>8, <3>1 DEF Kept
  <2> QED BY <2>1
<1>10. FilterOK'
  <2>1. \A l \in Nat : ListedBy(l, messages)' <=> ListedBy(l, messages)
    BY <1>1, <1>4, <1>7 DEF ListedBy
  <2> QED BY <1>7, <2>1 DEF CsvInv, FilterOK
<1>11. SymbolsOK'
  BY <1>1, <1>4, <1>7 DEF CsvInv, SymbolsOK
<1>12. RowsOK' /\ (Len(csv) = Cardinality(Kept(messages)))'
  <2>1. Kept(messages)' = Kept(messages)
    BY <1>1, <1>7, <1>9
  <2>2. ASSUME NEW k \in Kept(messages)
        PROVE  Kept(k)' = Kept(k) /\ session'[k] = session[k]
    BY <1>1, <1>4, <1>9 DEF Kept
  <2>3. RowsOK /\ Len(csv) = Cardinality(Kept(messages))
    BY DEF CsvInv
  <2>4. \A k \in Kept(messages) :
          /\ Cardinality(Kept(k)') \in 1 .. Len(csv')
          /\ Transcribes(csv'[Cardinality(Kept(k)')], session'[k], Cardinality(Kept(k)'))
    BY <1>7, <2>2, <2>3 DEF RowsOK
  <2>5. RowsOK'
    BY <2>1, <2>4 DEF RowsOK, Transcribes
  <2> QED BY <1>7, <2>1, <2>3, <2>5
<1>13. LimitOK'
  BY <1>1, <1>4, <1>7 DEF CsvInv, LimitOK
<1> QED BY <1>1, <1>4, <1>5, <1>6, <1>7, <1>10, <1>11, <1>12, <1>13 DEF CsvInv

\* The filter keeps the next message if it is one the file is to hold.
LEMMA KeepsRowIs ==
  ASSUME CsvInv, messages < Len(session)
  PROVE  LET m == session[messages + 1]
         IN  /\ Good(m) /\ m.locate \in Nat
             /\ ToKeep(messages + 1) <=> (m.type # "R" /\ KeepsRow(m))
             /\ ToKeep(messages + 1) => m.type \in NamedTypes
<1>1. messages \in Nat /\ Len(session) \in Nat /\ messages + 1 \in 1 .. Len(session)
  BY LastTsNat DEF CsvInv
<1>2. PICK m : m = session[messages + 1]
  OBVIOUS
<1>3. Good(m) /\ m.locate \in Nat
  BY <1>1, <1>2 DEF CsvInv, SessionOK, Good, ItchMessage
<1>4. Listed(messages + 1) <=> ListedBy(m.locate, messages)
  <2>1. (messages + 1) - 1 = messages
    BY <1>1
  <2> QED BY <1>2, <2>1 DEF Listed, ListedBy
<1>5. Listed(messages + 1) <=> m.locate \in keepLocate
  BY <1>3, <1>4 DEF CsvInv, FilterOK
<1>6. m.type \in NamedTypes => m.type # "R"
  BY DEF NamedTypes
<1>7. ToKeep(messages + 1) <=> (m.type # "R" /\ KeepsRow(m))
  BY <1>2, <1>5, <1>6 DEF ToKeep, KeepsRow
<1>8. ToKeep(messages + 1) => m.type \in NamedTypes
  BY <1>2 DEF ToKeep
<1> QED BY <1>2, <1>3, <1>7, <1>8

\* A kept message names a wanted symbol.
LEMMA RowTranscribes ==
  ASSUME CsvInv, messages < Len(session), ToKeep(messages + 1)
  PROVE  /\ Row(session[messages + 1]) \in CsvRow
         /\ Transcribes(Row(session[messages + 1]), session[messages + 1], Len(csv) + 1)
<1>1. messages \in Nat /\ Len(session) \in Nat /\ messages + 1 \in 1 .. Len(session)
  BY LastTsNat DEF CsvInv
<1>2. PICK m : m = session[messages + 1]
  OBVIOUS
<1>3. Good(m) /\ m.locate \in Nat /\ m.type \in NamedTypes /\ m.type # "R" /\ KeepsRow(m)
  BY <1>2, KeepsRowIs
<1>4. SymbolsOK /\ FilterOK /\ Len(csv) \in Nat /\ SessionOK
  BY LenProperties DEF CsvInv
<1>5. PICK row : row = Row(m)
  OBVIOUS
<1>6. /\ row \in CsvRow
      /\ row.seq = Len(csv) + 1 /\ row.msg = m.type /\ row.ts = m.ts
      /\ row.ref = m.ref /\ row.newRef = m.newRef
      /\ row.side = m.side /\ row.shares = m.shares
      /\ ParsePriceRaw(row.price) = m.price
      /\ m.type \in {"A", "F", "P", "Q", "H"} => row.symbol = m.stock
      /\ m.type \notin {"A", "F", "P", "Q", "H", "S"} =>
           row.symbol = IF m.locate \in DOMAIN locateToSymbol
                          THEN locateToSymbol[m.locate] ELSE ""
  BY <1>3, <1>4, <1>5, RowIs
<1>7. ASSUME m.type # "S", Wanted # {}
      PROVE  row.symbol \in Wanted
  <2>1. m.locate \in keepLocate
    BY <1>3, <1>7 DEF KeepsRow
  <2>2. PICK j \in 1 .. messages : session[j].type = "R" /\ session[j].locate = m.locate
                                                  /\ session[j].stock \in Wanted
    BY <1>3, <1>4, <2>1 DEF FilterOK, ListedBy
  <2>3. session[j].stock = Directory[m.locate]
    <3>1. j \in 1 .. Len(session)
      BY <1>1
    <3>2. Good(session[j])
      BY <1>4, <3>1 DEF SessionOK
    <3> QED BY <2>2, <3>2 DEF Good, StockTypes
  <2>4. m.locate \in DOMAIN locateToSymbol /\ locateToSymbol[m.locate] = Directory[m.locate]
    BY <1>4, <2>2 DEF SymbolsOK
  <2>5. m.type \in {"A", "F", "P", "Q", "H"} => m.stock = Directory[m.locate]
    BY <1>3 DEF Good, StockTypes
  <2> QED BY <1>6, <1>7, <2>2, <2>3, <2>4, <2>5
<1>8. Transcribes(row, m, Len(csv) + 1)
  BY <1>6, <1>7 DEF Transcribes
<1> QED BY <1>2, <1>5, <1>6, <1>8

\* The step from one message to the next keeps the file in step with the session.
LEMMA DecodeCsvInv ==
  ASSUME CsvInv, DecodeMessage
  PROVE  CsvInv'
<1>1. /\ messages \in Nat /\ Len(session) \in Nat /\ messages + 1 \in 1 .. Len(session)
      /\ messages < Len(session) /\ stage = "decode" /\ messages' = messages + 1
      /\ UNCHANGED <<session, venue, limit>>
  BY LastTsNat DEF CsvInv, DecodeMessage, feedVars
<1>2. PICK m : m = session[messages + 1]
  OBVIOUS
<1>3. /\ Good(m) /\ m.locate \in Nat
      /\ ToKeep(messages + 1) <=> (m.type # "R" /\ KeepsRow(m))
  BY <1>1, <1>2, KeepsRowIs
<1>4. ReadDirectory(m) \/ WriteRow(m) \/ SkipMessage(m)
  BY <1>2 DEF DecodeMessage
<1>5. csv \in Seq(CsvRow) /\ Len(csv) \in Nat /\ Len(csv) = Cardinality(Kept(messages))
  BY LenProperties DEF CsvInv
<1>6. \A n \in Nat : Kept(n)' = Kept(n)
  BY <1>1 DEF Kept, ToKeep, Listed
<1>7. \A l \in Nat, n \in Nat : ListedBy(l, n)' <=> ListedBy(l, n)
  BY <1>1 DEF ListedBy
<1>8. \A l \in Nat : ListedBy(l, messages + 1) <=>
        ListedBy(l, messages) \/ (m.type = "R" /\ m.locate = l /\ m.stock \in Wanted)
  <2>1. \A k : k \in 1 .. messages + 1 <=> k \in 1 .. messages \/ k = messages + 1
    BY <1>1
  <2> QED BY <1>2, <2>1 DEF ListedBy
<1>9. SessionOK' /\ BookOK(venue', Len(session'))
  BY <1>1 DEF CsvInv, SessionOK
<1>10. FilterOK' /\ SymbolsOK'
  <2>1. CASE m.type = "R"
    <3>1. /\ locateToSymbol' = [l \in DOMAIN locateToSymbol \cup {m.locate} |->
                IF l \in DOMAIN locateToSymbol THEN locateToSymbol[l] ELSE m.stock]
          /\ keepLocate' = IF m.stock \in Wanted THEN keepLocate \cup {m.locate}
                                         ELSE keepLocate \ {m.locate}
      BY <1>4, <2>1 DEF ReadDirectory, WriteRow, SkipMessage
    <3>2. m.locate \in DOMAIN Directory /\ m.stock = Directory[m.locate]
      BY <1>3, <2>1 DEF Good, StockTypes
    <3>3. ASSUME m.stock \notin Wanted PROVE ~ListedBy(m.locate, messages)
      <4>1. ASSUME NEW j \in 1 .. messages, session[j].type = "R", session[j].locate = m.locate
            PROVE  session[j].stock = m.stock
        <5>1. j \in 1 .. Len(session)
          BY <1>1
        <5>2. Good(session[j])
          BY <5>1 DEF CsvInv, SessionOK
        <5> QED BY <3>2, <4>1, <5>2 DEF Good, StockTypes
      <4> QED BY <3>3, <4>1 DEF ListedBy
    <3>4. FilterOK'
      <4>1. ASSUME NEW l \in Nat PROVE l \in keepLocate' <=> ListedBy(l, messages + 1)
        BY <1>8, <2>1, <3>1, <3>3 DEF CsvInv, FilterOK
      <4> QED BY <1>1, <1>7, <4>1 DEF FilterOK
    <3>5. /\ DOMAIN locateToSymbol' = DOMAIN locateToSymbol \cup {m.locate}
          /\ \A l \in DOMAIN locateToSymbol : locateToSymbol'[l] = locateToSymbol[l]
          /\ m.locate \notin DOMAIN locateToSymbol => locateToSymbol'[m.locate] = m.stock
      BY <3>1
    <3>6. SymbolsOK'
      <4>1. \A l \in DOMAIN locateToSymbol' :
              l \in DOMAIN Directory /\ locateToSymbol'[l] = Directory[l]
        BY <3>2, <3>5 DEF CsvInv, SymbolsOK
      <4>2. ASSUME NEW j \in 1 .. messages + 1, session[j].type = "R"
            PROVE  session[j].locate \in DOMAIN locateToSymbol'
        <5>1. j \in 1 .. messages \/ j = messages + 1
          BY <1>1
        <5> QED BY <1>2, <3>5, <4>2, <5>1 DEF CsvInv, SymbolsOK
      <4> QED BY <1>1, <4>1, <4>2 DEF SymbolsOK
    <3> QED BY <3>4, <3>6
  <2>2. CASE m.type # "R"
    <3>1. UNCHANGED <<locateToSymbol, keepLocate>>
      BY <1>4, <2>2 DEF ReadDirectory, WriteRow, SkipMessage
    <3>2. FilterOK'
      BY <1>1, <1>7, <1>8, <2>2, <3>1 DEF CsvInv, FilterOK
    <3>3. ASSUME NEW j \in 1 .. messages + 1, session[j].type = "R"
          PROVE  session[j].locate \in DOMAIN locateToSymbol'
      <4>1. j \in 1 .. messages \/ j = messages + 1
        BY <1>1
      <4> QED BY <1>2, <2>2, <3>1, <3>3, <4>1 DEF CsvInv, SymbolsOK
    <3>4. SymbolsOK'
      BY <1>1, <3>1, <3>3 DEF CsvInv, SymbolsOK
    <3> QED BY <3>2, <3>4
  <2> QED BY <2>1, <2>2
<1>11. csv' \in Seq(CsvRow) /\ Len(csv') \in Nat
       /\ Len(csv') = Cardinality(Kept(messages + 1)) /\ RowsOK'
  <2>1. CASE ToKeep(messages + 1)
    <3>1. PICK row : row = Row(m)
      OBVIOUS
    <3>2. csv' = Append(csv, row)
      BY <1>3, <1>4, <2>1, <3>1 DEF ReadDirectory, WriteRow, SkipMessage
    <3>3. row \in CsvRow /\ Transcribes(row, m, Len(csv) + 1)
      BY <1>1, <1>2, <2>1, <3>1, RowTranscribes
    <3>4. /\ csv' \in Seq(CsvRow) /\ Len(csv') = Len(csv) + 1 /\ csv'[Len(csv) + 1] = row
          /\ \A k \in 1 .. Len(csv) : csv'[k] = csv[k]
      BY <1>5, <3>2, <3>3, AppendProperties
    <3>5. /\ Kept(messages + 1) = Kept(messages) \cup {messages + 1}
          /\ Cardinality(Kept(messages + 1)) = Len(csv) + 1
      BY <1>1, <1>5, <2>1, KeptStep
    <3>6. ASSUME NEW k \in Kept(messages + 1)
          PROVE  /\ Cardinality(Kept(k)) \in 1 .. Len(csv')
                 /\ Transcribes(csv'[Cardinality(Kept(k))], session[k], Cardinality(Kept(k)))
      <4>1. CASE k \in Kept(messages)
        <5>1. /\ Cardinality(Kept(k)) \in 1 .. Len(csv)
              /\ Transcribes(csv[Cardinality(Kept(k))], session[k], Cardinality(Kept(k)))
          BY <4>1 DEF CsvInv, RowsOK
        <5>2. PICK c \in 1 .. Len(csv) : c = Cardinality(Kept(k))
          BY <5>1
        <5> QED BY <1>5, <3>4, <5>1, <5>2
      <4>2. CASE k = messages + 1
        BY <1>2, <1>5, <3>3, <3>4, <3>5, <4>2
      <4> QED BY <3>5, <4>1, <4>2
    <3>7. RowsOK'
      <4>1. \A k \in Kept(messages + 1) : k \in Nat
        BY DEF Kept
      <4> QED BY <1>1, <1>6, <3>6, <4>1 DEF RowsOK, Transcribes
    <3> QED BY <1>5, <3>4, <3>5, <3>7
  <2>2. CASE ~ToKeep(messages + 1)
    <3>1. csv' = csv
      BY <1>3, <1>4, <2>2 DEF ReadDirectory, WriteRow, SkipMessage
    <3>2. Kept(messages + 1) = Kept(messages)
      BY <1>1, <2>2, KeptStep
    <3>3. RowsOK'
      <4>1. \A k \in Kept(messages) : k \in Nat
        BY DEF Kept
      <4>2. Kept(messages)' = Kept(messages)
        BY <1>1, <1>6, <3>2
      <4>3. RowsOK
        BY DEF CsvInv
      <4> QED BY <1>1, <1>6, <3>1, <4>1, <4>2, <4>3 DEF RowsOK, Transcribes
    <3> QED BY <1>5, <3>1, <3>2, <3>3
  <2> QED BY <2>1, <2>2
<1>12. LimitOK'
  <2>1. stage' = IF limit # 0 /\ Len(csv') >= limit THEN "scan" ELSE stage
    BY DEF DecodeMessage
  <2>2. Len(csv') <= Len(csv) + 1
    <3>1. CASE ToKeep(messages + 1)
      BY <1>1, <1>5, <1>11, <3>1, KeptStep
    <3>2. CASE ~ToKeep(messages + 1)
      BY <1>1, <1>5, <1>11, <3>2, KeptStep
    <3> QED BY <3>1, <3>2
  <2>3. limit = 0 \/ Len(csv) < limit
    BY <1>1 DEF CsvInv, LimitOK
  <2>4. limit \in Nat
    BY DEF CsvInv
  <2>5. limit = 0 \/ Len(csv') <= limit
    BY <1>5, <1>11, <2>2, <2>3, <2>4
  <2>6. messages' = Len(session')
    <3>1. messages + 1 >= Len(session)
      BY DEF CsvInv, LimitOK
    <3> QED BY <1>1, <3>1
  <2>7. messages' + 1 >= Len(session')
    BY <1>1, <2>6
  <2> QED BY <1>1, <1>11, <2>1, <2>4, <2>5, <2>6, <2>7 DEF LimitOK
<1>13. Cardinality(Kept(messages))' = Cardinality(Kept(messages + 1))
  BY <1>1, <1>6
<1> QED BY <1>1, <1>9, <1>10, <1>11, <1>12, <1>13 DEF CsvInv

\* The rest of a run leaves the session and its file alone.
FileKept ==
  /\ UNCHANGED <<session, venue, limit, messages, locateToSymbol, keepLocate, csv, shown>>
  /\ stage # "decode" /\ stage' # "decode"

\* Only the decoder's steps touch them.
LEMMA StepsAre ==
  ASSUME ItchNext
  PROVE  \/ Trading \/ DecodeMessage \/ EndDecode
         \/ FileKept
<1>1. ASSUME ScanRow PROVE FileKept
  BY <1>1 DEF ScanRow, FileKept, feedVars, csvVars
<1>2. ASSUME EndScan PROVE FileKept
  BY <1>2 DEF EndScan, FileKept, feedVars, csvVars
<1>3. ASSUME TakeGroup PROVE FileKept
  BY <1>3 DEF TakeGroup, FileKept, feedVars, csvVars
<1>4. ASSUME InjectAggressor PROVE FileKept
  BY <1>4 DEF InjectAggressor, FileKept, feedVars, csvVars
<1>5. ASSUME ReplayRow PROVE FileKept
  BY <1>5 DEF ReplayRow, FileKept, feedVars, csvVars
<1> QED BY <1>1, <1>2, <1>3, <1>4, <1>5 DEF ItchNext

\* As long as the file and what was read of the session stay, so does the rest.
LEMMA KeptCsvInv ==
  ASSUME CsvInv, messages = Len(session), stage' # "decode",
         UNCHANGED <<session, venue, limit, messages, locateToSymbol, keepLocate, csv>>
  PROVE  CsvInv'
<1>1. \A n : Kept(n)' = Kept(n)
  BY DEF Kept, ToKeep, Listed
<1>2. SymbolsOK' /\ SessionOK'
  BY DEF CsvInv, SymbolsOK, SessionOK
<1>3. FilterOK'
  BY DEF CsvInv, FilterOK, ListedBy
<1>4. RowsOK'
  BY <1>1 DEF CsvInv, RowsOK, Transcribes
<1>5. LimitOK'
  BY DEF CsvInv, LimitOK
<1> QED BY <1>1, <1>2, <1>3, <1>4, <1>5 DEF CsvInv

\* CsvInv is inductive:
LEMMA CsvInvStep ==
  ASSUME CsvInv, [ItchNext]_itchVars
  PROVE  CsvInv'
<1>1. CASE Trading
  BY <1>1, TradingCsvInv
<1>2. CASE DecodeMessage
  BY <1>2, DecodeCsvInv
<1>3. CASE EndDecode
  BY <1>3, KeptCsvInv DEF EndDecode, feedVars, csvVars
<1>4. CASE FileKept
  BY <1>4, KeptCsvInv DEF FileKept, CsvInv, LimitOK
<1>5. CASE UNCHANGED itchVars
  <2>1. UNCHANGED <<session, venue, limit, messages, locateToSymbol, keepLocate, csv, stage>>
    BY <1>5 DEF itchVars, feedVars, csvVars
  <2>2. \A n : Kept(n)' = Kept(n)
    BY <2>1 DEF Kept, ToKeep, Listed
  <2>3. SymbolsOK' /\ SessionOK'
    BY <2>1 DEF CsvInv, SymbolsOK, SessionOK
  <2>4. FilterOK'
    BY <2>1 DEF CsvInv, FilterOK, ListedBy
  <2>5. RowsOK'
    BY <2>1, <2>2 DEF CsvInv, RowsOK, Transcribes
  <2>6. LimitOK'
    BY <2>1 DEF CsvInv, LimitOK
  <2> QED BY <2>1, <2>2, <2>3, <2>4, <2>5, <2>6 DEF CsvInv
<1> QED BY <1>1, <1>2, <1>3, <1>4, <1>5, StepsAre

\* it holds of the empty file,
LEMMA CsvInvInit ==
  ASSUME ItchInit
  PROVE  CsvInv
<1>1. /\ session = <<>> /\ venue = {} /\ csv = <<>> /\ messages = 0 /\ keepLocate = {}
      /\ locateToSymbol = <<>> /\ stage = "decode" /\ limit \in Nat
  BY CsvAssumption DEF ItchInit, CsvInit, FeedInit
<1>2. Len(session) = 0 /\ Len(csv) = 0 /\ session \in Seq(ItchMessage) /\ csv \in Seq(CsvRow)
  BY <1>1
<1>3. Kept(0) = {} /\ Cardinality(Kept(0)) = 0
  BY FS_EmptySet DEF Kept
<1>4. DOMAIN locateToSymbol = {}
  BY <1>1
<1>5. SessionOK /\ SymbolsOK /\ FilterOK
  BY <1>1, <1>2, <1>4 DEF SessionOK, SymbolsOK, FilterOK, ListedBy
<1>6. BookOK(venue, 0)
  BY <1>1, FS_EmptySet DEF BookOK, Unique, Uncrossed
<1>7. RowsOK /\ LimitOK
  BY <1>1, <1>2, <1>3 DEF RowsOK, LimitOK
<1> QED BY <1>1, <1>2, <1>3, <1>5, <1>6, <1>7 DEF CsvInv

\* The decoder's state is that of the messages it read.
THEOREM CsvInvHolds == ItchSpec => []CsvInv
<1> QED BY CsvInvInit, CsvInvStep, PTL DEF ItchSpec

\* and it says what CsvIsSession asks for.
LEMMA CsvInvGives ==
  ASSUME CsvInv
  PROVE  CsvIsSession
<1> SUFFICES ASSUME stage = "scan" PROVE CsvIsSession
  BY DEF CsvIsSession
<1>1. messages = Len(session) /\ Len(session) \in Nat /\ (limit = 0 \/ Len(csv) <= limit)
  BY LastTsNat DEF CsvInv, LimitOK
<1>2. Expected = Kept(Len(session))
  BY DEF Expected, Kept
<1>3. ASSUME NEW k \in Expected
      PROVE  {j \in Expected : j <= k} = Kept(k)
  BY <1>1 DEF Expected, Kept
<1>4. ASSUME NEW k \in Expected
      PROVE  Transcribes(csv[Cardinality({j \in Expected : j <= k})], session[k],
                         Cardinality({j \in Expected : j <= k}))
  BY <1>1, <1>2, <1>3 DEF CsvInv, RowsOK
<1>5. Len(csv) = Cardinality(Expected)
  BY <1>1, <1>2 DEF CsvInv
<1> QED BY <1>1, <1>4, <1>5, Zenon DEF CsvIsSession, Transcribes

\* The file holds exactly the rows of the messages it is to hold, in order,
\* numbered without gaps and with the symbol that most messages do not carry
\* (itch_to_csv.cpp, the decode loop), for every session, filter and limit.
THEOREM CsvIsSessionHolds == ItchSpec => []CsvIsSession
<1> QED BY CsvInvHolds, CsvInvGives, PTL

(***************************************************************************)
(* Every aggressor is injected once.                                       *)
(***************************************************************************)
SidesOK == \A k \in 1 .. Len(csv) : csv[k].msg \in AddTypes => csv[k].side \in {"B", "S"}

\* The decoder writes no other side.
LEMMA SidesOKStep ==
  ASSUME CsvInv, SidesOK, [ItchNext]_itchVars
  PROVE  SidesOK'
<1>1. ASSUME UNCHANGED csv PROVE SidesOK'
  BY <1>1 DEF SidesOK
<1>2. ASSUME DecodeMessage PROVE SidesOK'
  <2>1. PICK m : m = session[messages + 1]
    OBVIOUS
  <2>2. messages < Len(session) /\ (ReadDirectory(m) \/ WriteRow(m) \/ SkipMessage(m))
    BY <1>2, <2>1 DEF DecodeMessage
  <2>3. CASE WriteRow(m)
    <3>1. ToKeep(messages + 1) /\ Good(m)
      BY <2>1, <2>2, <2>3, KeepsRowIs DEF WriteRow
    <3>2. PICK row : row = Row(m)
      OBVIOUS
    <3>3. row \in CsvRow /\ row.msg = m.type /\ row.side = m.side
      BY <2>1, <2>2, <3>1, <3>2, RowTranscribes DEF Transcribes
    <3>4. row.msg \in AddTypes => row.side \in {"B", "S"}
      BY <3>1, <3>3 DEF Good, WellFormed, ItchMessage
    <3>5. csv' = Append(csv, row) /\ csv \in Seq(CsvRow)
      BY <2>3, <3>2 DEF WriteRow, CsvInv
    <3>6. /\ Len(csv) \in Nat /\ Len(csv') = Len(csv) + 1 /\ csv'[Len(csv) + 1] = row
          /\ \A k \in 1 .. Len(csv) : csv'[k] = csv[k]
      BY <3>3, <3>5, AppendProperties, LenProperties
    <3> QED BY <3>4, <3>6 DEF SidesOK
  <2>4. CASE ReadDirectory(m) \/ SkipMessage(m)
    BY <1>1, <2>4 DEF ReadDirectory, SkipMessage
  <2> QED BY <2>2, <2>3, <2>4
<1>3. ASSUME Trading \/ EndDecode \/ FileKept \/ UNCHANGED itchVars PROVE UNCHANGED csv
  BY <1>3 DEF Trading, EndDecode, FileKept, itchVars, csvVars
<1> QED BY <1>1, <1>2, <1>3, StepsAre

\* The scan.
ScanInv ==
  /\ at \in Nat \ {0}
  /\ stage = "decode" => at = 1 /\ DOMAIN known = {} /\ DOMAIN aggregates = {}
  /\ stage \in {"decode", "scan"} =>
       DOMAIN aggressorsByTs = {} /\ injecting = {} /\ syntheticIdCounter = 0
  /\ \A ref \in DOMAIN known : known[ref].side \in {"B", "S"}
  /\ DOMAIN known # {} => AnyPrice
  /\ DOMAIN aggregates # {} => AnyPrice
  /\ IsFiniteSet(DOMAIN aggregates)
  /\ \A key \in DOMAIN aggregates :
       key \in Nat \X {"B", "S"} /\ \E k \in 1 .. Len(csv) : csv[k].ts = key[1]

\* The keys whose aggressors are no longer pending.
Taken == {key \in DOMAIN aggregates : key[1] \notin DOMAIN aggressorsByTs}

\* The injection.
InjectInv ==
  /\ stage \in {"decode", "scan", "replay", "inject", "done"}
  /\ stage \in {"replay", "inject"} => at \in 1 .. Len(csv)
  /\ stage = "done" => at = Len(csv) + 1 \/ ~AnyPrice
  /\ stage # "inject" => injecting = {}
  /\ stage = "inject" => csv[at].ts \notin DOMAIN aggressorsByTs
  /\ DOMAIN aggressorsByTs \subseteq {key[1] : key \in DOMAIN aggregates}
  /\ \A ts \in DOMAIN aggressorsByTs : aggressorsByTs[ts] = Aggressors(ts)
  /\ \A ts \in DOMAIN aggressorsByTs, k \in 1 .. at - 1 : csv[k].ts # ts
  /\ syntheticIdCounter \in Nat /\ IsFiniteSet(injecting)
  /\ stage \in {"replay", "inject", "done"} =>
       syntheticIdCounter + Cardinality(injecting) = Cardinality(Taken)

\* A function with one more value.
LEMMA WithIs ==
  ASSUME NEW f, NEW x, NEW v
  PROVE  /\ DOMAIN With(f, x, v) = DOMAIN f \cup {x}
         /\ With(f, x, v)[x] = v
         /\ \A y \in DOMAIN f : y # x => With(f, x, v)[y] = f[y]
  BY DEF With

\* One row of pass 1 keeps what is known and grouped typed.
LEMMA ScanRowScanInv ==
  ASSUME CsvInv, SidesOK, ScanInv, ScanRow
  PROVE  ScanInv'
<1>1. /\ at \in Nat \ {0} /\ at <= Len(csv) /\ Len(csv) \in Nat /\ stage = "scan" /\ at' = at + 1
      /\ UNCHANGED <<stage, csv, aggressorsByTs, injecting, syntheticIdCounter>>
      /\ at \in 1 .. Len(csv)
  BY LenProperties DEF ScanInv, ScanRow, CsvInv, csvVars
<1>2. PICK row : row = csv[at]
  OBVIOUS
<1>3. row \in CsvRow /\ (row.msg \in AddTypes => row.side \in {"B", "S"}) /\ row.ts \in Nat
  <2>1. row \in CsvRow
    BY <1>1, <1>2, ElementOfSeq DEF CsvInv
  <2> QED BY <1>1, <1>2, <2>1 DEF SidesOK, CsvRow
<1>4. AnyPrice' = AnyPrice
  BY <1>1 DEF AnyPrice
<1>5. row.msg \in AddTypes \cup {"U"} => AnyPrice
  <2>1. at \in DOMAIN csv
    BY <1>1, LenProperties DEF CsvInv
  <2> QED BY <1>2, <2>1 DEF AnyPrice
<1>6. ScanAdd(row) \/ ScanReplace(row) \/ ScanDelete(row) \/ ScanExecuted(row) \/ ScanOther(row)
  BY <1>2 DEF ScanRow
<1>7. /\ \A ref \in DOMAIN known' : known'[ref].side \in {"B", "S"}
      /\ DOMAIN known' # {} => AnyPrice
  <2>1. CASE ScanAdd(row)
    <3>1. PICK v : v = [side |-> row.side, price |-> ParsePriceRaw(row.price)]
      OBVIOUS
    <3>2. v.side \in {"B", "S"} /\ known' = With(known, row.ref, v)
      BY <1>3, <2>1, <3>1 DEF ScanAdd
    <3>3. \A ref \in DOMAIN known : known[ref].side \in {"B", "S"}
      BY DEF ScanInv
    <3>4. \A ref \in DOMAIN known' : known'[ref].side \in {"B", "S"}
      BY <3>2, <3>3 DEF With
    <3> QED BY <1>5, <2>1, <3>4 DEF ScanAdd
  <2>2. CASE ScanReplace(row)
    <3>1. KnownSide(row.ref) \in {"B", "S"}
      BY DEF KnownSide, ScanInv
    <3>2. PICK v : v = [side |-> KnownSide(row.ref), price |-> ParsePriceRaw(row.price)]
      OBVIOUS
    <3>3. PICK f : f = Without(known, row.ref)
      OBVIOUS
    <3>4. v.side \in {"B", "S"}
      BY <3>1, <3>2
    <3>5. known' = With(f, row.newRef, v)
      BY <2>2, <3>2, <3>3 DEF ScanReplace
    <3>6. \A ref \in DOMAIN f : f[ref].side \in {"B", "S"}
      <4>1. \A ref \in DOMAIN known : known[ref].side \in {"B", "S"}
        BY DEF ScanInv
      <4> QED BY <3>3, <4>1 DEF Without
    <3>7. \A ref \in DOMAIN known' : known'[ref].side \in {"B", "S"}
      BY <3>4, <3>5, <3>6 DEF With
    <3> QED BY <1>5, <2>2, <3>7 DEF ScanReplace
  <2>3. CASE ScanDelete(row)
    <3>1. known' = Without(known, row.ref)
      BY <2>3 DEF ScanDelete
    <3>2. /\ DOMAIN known' \subseteq DOMAIN known
          /\ \A ref \in DOMAIN known' : known'[ref] = known[ref]
      BY <3>1 DEF Without
    <3> QED BY <3>2 DEF ScanInv
  <2>4. CASE ScanExecuted(row)
    BY <2>4 DEF ScanExecuted, ScanInv
  <2>5. CASE ScanOther(row)
    BY <2>5 DEF ScanOther, ScanInv, scanVars
  <2> QED BY <1>6, <2>1, <2>2, <2>3, <2>4, <2>5
<1>8. /\ DOMAIN aggregates' # {} => AnyPrice
      /\ IsFiniteSet(DOMAIN aggregates')
      /\ \A key \in DOMAIN aggregates' :
           key \in Nat \X {"B", "S"} /\ \E k \in 1 .. Len(csv) : csv[k].ts = key[1]
  <2>1. CASE ScanExecuted(row)
    <3>1. PICK side \in {"B", "S"} : row.ref \in DOMAIN known /\ side = known[row.ref].side
      BY <2>1 DEF ScanExecuted, ScanInv
    <3>2. PICK v : aggregates' = With(aggregates, <<row.ts, side>>, v)
      BY <2>1, <3>1 DEF ScanExecuted
    <3>3. DOMAIN aggregates' = DOMAIN aggregates \cup {<<row.ts, side>>}
      BY <3>2, WithIs
    <3>4. <<row.ts, side>> \in Nat \X {"B", "S"} /\ <<row.ts, side>>[1] = csv[at].ts
      BY <1>2, <1>3
    <3>5. AnyPrice
      BY <3>1 DEF ScanInv
    <3>6. IsFiniteSet(DOMAIN aggregates')
      <4>1. PICK key : key = <<row.ts, side>>
        OBVIOUS
      <4>2. IsFiniteSet(DOMAIN aggregates)
        BY DEF ScanInv
      <4>3. IsFiniteSet(DOMAIN aggregates \cup {key})
        BY <4>2, FS_AddElement
      <4> QED BY <3>3, <4>1, <4>3, Zenon
    <3> QED BY <1>1, <3>3, <3>4, <3>5, <3>6 DEF ScanInv
  <2>2. CASE UNCHANGED aggregates
    BY <2>2 DEF ScanInv
  <2> QED BY <1>6, <2>1, <2>2 DEF ScanAdd, ScanReplace, ScanDelete, ScanOther, scanVars
<1>9. at' \in Nat \ {0}
  BY <1>1
<1> QED BY <1>1, <1>4, <1>7, <1>8, <1>9 DEF ScanInv

\* What the scan found stays as it is once the scan is over.
LEMMA ScanInvKept ==
  ASSUME ScanInv, UNCHANGED <<csv, known, aggregates>>, at' \in Nat \ {0},
         stage' \notin {"decode", "scan"}
  PROVE  ScanInv'
<1>1. AnyPrice' = AnyPrice
  BY DEF AnyPrice
<1> QED BY <1>1 DEF ScanInv

\* So does every other step.
LEMMA ScanInvStep ==
  ASSUME CsvInv, SidesOK, ScanInv, InjectInv, [ItchNext]_itchVars
  PROVE  ScanInv'
<1>1. CASE Trading /\ UNCHANGED replayVars
  BY <1>1 DEF Trading, csvVars, replayVars, scanVars, ScanInv, AnyPrice
<1>2. CASE DecodeMessage /\ UNCHANGED replayVars
  <2>1. stage = "decode" /\ stage' \in {"decode", "scan"}
    BY <1>2 DEF DecodeMessage
  <2>2. UNCHANGED <<at, known, aggregates, aggressorsByTs, injecting, syntheticIdCounter>>
    BY <1>2 DEF replayVars, scanVars
  <2> QED BY <2>1, <2>2 DEF ScanInv
<1>3. CASE EndDecode /\ UNCHANGED replayVars
  <2>1. stage = "decode" /\ stage' = "scan" /\ csv' = csv
    BY <1>3 DEF EndDecode, csvVars
  <2>2. UNCHANGED <<at, known, aggregates, aggressorsByTs, injecting, syntheticIdCounter>>
    BY <1>3 DEF replayVars, scanVars
  <2> QED BY <2>1, <2>2 DEF ScanInv
<1>4. CASE ScanRow
  BY <1>4, ScanRowScanInv
<1>5. CASE EndScan
  BY <1>5, ScanInvKept DEF EndScan, csvVars, scanVars
<1>6. CASE TakeGroup
  BY <1>6, ScanInvKept DEF TakeGroup, csvVars, scanVars, ScanInv
<1>7. CASE InjectAggressor
  BY <1>7, ScanInvKept DEF InjectAggressor, csvVars, scanVars, ScanInv
<1>8. CASE ReplayRow
  BY <1>8, ScanInvKept DEF ReplayRow, csvVars, scanVars, ScanInv
<1>9. CASE UNCHANGED itchVars
  BY <1>9 DEF itchVars, csvVars, replayVars, scanVars, ScanInv, AnyPrice
<1> QED BY <1>1, <1>2, <1>3, <1>4, <1>5, <1>6, <1>7, <1>8, <1>9 DEF ItchNext

\* Each key of a timestamp makes one aggressor.
LEMMA GroupSize ==
  ASSUME ScanInv, NEW ts
  PROVE  /\ IsFiniteSet(Aggressors(ts))
         /\ Cardinality(Aggressors(ts)) = Cardinality({x \in DOMAIN aggregates : x[1] = ts})
<1>1. PICK A : A = {x \in DOMAIN aggregates : x[1] = ts}
  OBVIOUS
<1>2. IsFiniteSet(A)
  <2>1. A \in SUBSET DOMAIN aggregates /\ IsFiniteSet(DOMAIN aggregates)
    BY <1>1 DEF ScanInv
  <2> QED BY <2>1, FS_Subset
<1>3. PICK m : m = [key \in A |->
                      [side |-> IF key[2] = "S" THEN "B" ELSE "S",
                       rem |-> aggregates[key].quantity, price |-> aggregates[key].price]]
  OBVIOUS
<1>4. PICK B : B = Aggressors(ts)
  OBVIOUS
<1>5. B = {m[key] : key \in A}
  BY <1>1, <1>3, <1>4 DEF Aggressors
<1>6. m \in [A -> B] /\ \A z \in B : \E x \in A : m[x] = z
  BY <1>3, <1>5
<1>7. ASSUME NEW x \in A, NEW y \in A, m[x] = m[y] PROVE x = y
  <2>1. x \in Nat \X {"B", "S"} /\ y \in Nat \X {"B", "S"} /\ x[1] = ts /\ y[1] = ts
    BY <1>1 DEF ScanInv
  <2>2. /\ m[x].side = IF x[2] = "S" THEN "B" ELSE "S"
        /\ m[y].side = IF y[2] = "S" THEN "B" ELSE "S"
    BY <1>3
  <2>3. x[2] = y[2]
    BY <1>7, <2>1, <2>2
  <2> QED BY <2>1, <2>3
<1>8. IsFiniteSet(B) /\ Cardinality(B) = Cardinality(A)
  BY <1>2, <1>6, <1>7, SameSize
<1> QED BY <1>1, <1>4, <1>8

\* The keys whose aggressors are taken are a part of all of them.
LEMMA TakenFinite ==
  ASSUME ScanInv
  PROVE  /\ IsFiniteSet(Taken) /\ Cardinality(Taken) \in Nat
         /\ Cardinality(DOMAIN aggregates) \in Nat
         /\ Cardinality(Taken) <= Cardinality(DOMAIN aggregates)
<1>1. Taken \in SUBSET DOMAIN aggregates /\ IsFiniteSet(DOMAIN aggregates)
  BY DEF ScanInv, Taken
<1> QED BY <1>1, FS_Subset, FS_CardinalityType

\* Taking a group moves it from the pending ones to those being injected,
LEMMA TakeGroupInjectInv ==
  ASSUME CsvInv, ScanInv, InjectInv, TakeGroup
  PROVE  InjectInv'
<1>1. PICK ts : ts = csv[at].ts
  OBVIOUS
<1>2. /\ stage = "replay" /\ stage' = "inject" /\ ts \in DOMAIN aggressorsByTs
      /\ injecting' = aggressorsByTs[ts] /\ aggressorsByTs' = Without(aggressorsByTs, ts)
      /\ UNCHANGED <<at, csv, known, aggregates, syntheticIdCounter>>
  BY <1>1 DEF TakeGroup, Injected, csvVars, scanVars
<1>3. injecting' = Aggressors(ts)
  BY <1>2 DEF InjectInv
<1>4. PICK G : G = {x \in DOMAIN aggregates : x[1] = ts}
  OBVIOUS
<1>5. IsFiniteSet(injecting') /\ Cardinality(injecting') = Cardinality(G)
  BY <1>3, <1>4, GroupSize
<1>6. /\ DOMAIN aggressorsByTs' = DOMAIN aggressorsByTs \ {ts}
      /\ \A x \in DOMAIN aggressorsByTs' : aggressorsByTs'[x] = aggressorsByTs[x]
  BY <1>2 DEF Without
<1>7. Taken' = Taken \cup G /\ Taken \cap G = {}
  <2>1. \A x \in DOMAIN aggregates : x \in Taken' <=> x[1] \notin DOMAIN aggressorsByTs \/ x[1] = ts
    BY <1>2, <1>6 DEF Taken
  <2> QED BY <1>2, <1>4, <2>1 DEF Taken
<1>8. /\ IsFiniteSet(Taken) /\ IsFiniteSet(G)
      /\ Cardinality(Taken) \in Nat /\ Cardinality(G) \in Nat
  <2>1. G \in SUBSET DOMAIN aggregates /\ IsFiniteSet(DOMAIN aggregates)
    BY <1>4 DEF ScanInv
  <2> QED BY <2>1, FS_Subset, FS_CardinalityType, TakenFinite
<1>9. Cardinality(Taken') = Cardinality(Taken) + Cardinality(G)
  <2>1. Cardinality(Taken \cap G) = 0
    BY <1>7, FS_EmptySet
  <2>2. Cardinality(Taken \cup G) = Cardinality(Taken) + Cardinality(G) - Cardinality(Taken \cap G)
    BY <1>8, FS_Union
  <2> QED BY <1>7, <1>8, <2>1, <2>2
<1>10. syntheticIdCounter \in Nat /\ syntheticIdCounter = Cardinality(Taken)
  <2>1. injecting = {} /\ Cardinality({}) = 0
    BY <1>2, FS_EmptySet DEF InjectInv
  <2> QED BY <1>2, <2>1 DEF InjectInv
<1>11. syntheticIdCounter' + Cardinality(injecting') = Cardinality(Taken')
  BY <1>2, <1>5, <1>8, <1>9, <1>10
<1>12. \A x \in DOMAIN aggressorsByTs' : aggressorsByTs'[x] = Aggressors(x)'
  BY <1>2, <1>6 DEF InjectInv, Aggressors
<1>13. /\ DOMAIN aggressorsByTs' \subseteq {key[1] : key \in DOMAIN aggregates'}
       /\ \A x \in DOMAIN aggressorsByTs', k \in 1 .. at' - 1 : csv'[k].ts # x
  BY <1>2, <1>6 DEF InjectInv
<1>14. at' \in 1 .. Len(csv') /\ csv'[at'].ts \notin DOMAIN aggressorsByTs'
  BY <1>1, <1>2, <1>6 DEF InjectInv
<1> QED BY <1>2, <1>5, <1>10, <1>11, <1>12, <1>13, <1>14 DEF InjectInv

\* injecting one of its aggressors counts it,
LEMMA InjectInjectInv ==
  ASSUME CsvInv, ScanInv, InjectInv, InjectAggressor
  PROVE  InjectInv'
<1>1. /\ stage = "inject" /\ syntheticIdCounter' = syntheticIdCounter + 1
      /\ UNCHANGED <<stage, at, csv, known, aggregates, aggressorsByTs>>
  BY DEF InjectAggressor, csvVars, scanVars
<1>2. PICK a \in injecting : injecting' = injecting \ {a}
  BY DEF InjectAggressor
<1>3. IsFiniteSet(injecting) /\ syntheticIdCounter \in Nat
  BY DEF InjectInv
<1>4. IsFiniteSet(injecting') /\ Cardinality(injecting) \in Nat
      /\ Cardinality(injecting') = Cardinality(injecting) - 1
  BY <1>2, <1>3, FS_RemoveElement, FS_CardinalityType
<1>5. Taken' = Taken
  BY <1>1 DEF Taken
<1>6. syntheticIdCounter' + Cardinality(injecting') = Cardinality(Taken')
  BY <1>1, <1>3, <1>4, <1>5 DEF InjectInv
<1>7. \A x \in DOMAIN aggressorsByTs' : aggressorsByTs'[x] = Aggressors(x)'
  BY <1>1 DEF InjectInv, Aggressors
<1> QED BY <1>1, <1>3, <1>4, <1>6, <1>7 DEF InjectInv

\* a row goes by only when none of its timestamp is pending,
LEMMA ReplayRowInjectInv ==
  ASSUME CsvInv, ScanInv, InjectInv, ReplayRow
  PROVE  InjectInv'
<1>1. /\ at' = at + 1 /\ stage' = (IF at = Len(csv) THEN "done" ELSE "replay")
      /\ UNCHANGED <<csv, known, aggregates, aggressorsByTs, injecting, syntheticIdCounter>>
  BY DEF ReplayRow, csvVars, scanVars
<1>2. csv[at].ts \notin DOMAIN aggressorsByTs /\ injecting = {} /\ at \in 1 .. Len(csv)
      /\ stage \in {"replay", "inject"}
  BY DEF ReplayRow, InjectInv
<1>3. Len(csv) \in Nat
  BY LenProperties DEF CsvInv
<1>4. Taken' = Taken
  BY <1>1 DEF Taken
<1>5. \A x \in DOMAIN aggressorsByTs' : aggressorsByTs'[x] = Aggressors(x)'
  BY <1>1 DEF InjectInv, Aggressors
<1>6. \A x \in DOMAIN aggressorsByTs, k \in 1 .. at' - 1 : csv'[k].ts # x
  <2>1. \A k \in 1 .. at' - 1 : k \in 1 .. at - 1 \/ k = at
    BY <1>1, <1>2, <1>3
  <2> QED BY <1>1, <1>2, <2>1 DEF InjectInv
<1>7. stage' = "replay" => at' \in 1 .. Len(csv')
  BY <1>1, <1>2, <1>3
<1>8. stage' = "done" => at' = Len(csv') + 1
  BY <1>1, <1>2, <1>3
<1> QED BY <1>1, <1>2, <1>4, <1>5, <1>6, <1>7, <1>8 DEF InjectInv

\* and pass 2 begins with all of them pending.
LEMMA EndScanInjectInv ==
  ASSUME CsvInv, ScanInv, InjectInv, EndScan
  PROVE  InjectInv'
<1>1. /\ stage = "scan" /\ at' = 1 /\ injecting = {} /\ syntheticIdCounter = 0
      /\ DOMAIN aggressorsByTs = {}
      /\ UNCHANGED <<csv, known, aggregates, injecting, syntheticIdCounter>>
  BY DEF EndScan, csvVars, scanVars, ScanInv
<1>2. \A ts : Aggressors(ts)' = Aggressors(ts)
  BY <1>1 DEF Aggressors
<1>3. AnyPrice' = AnyPrice
  BY <1>1 DEF AnyPrice
<1>4. Cardinality({}) = 0 /\ IsFiniteSet({})
  BY FS_EmptySet
<1>5. CASE AnyPrice
  <2>1. PICK T : T = {key[1] : key \in DOMAIN aggregates}
    OBVIOUS
  <2>2. stage' = "replay" /\ aggressorsByTs' = [ts \in T |-> Aggressors(ts)]
    BY <1>5, <2>1 DEF EndScan
  <2>3. DOMAIN aggressorsByTs' = T /\ \A ts \in T : aggressorsByTs'[ts] = Aggressors(ts)
    BY <2>2
  <2>4. Taken' = {}
    BY <1>1, <2>1, <2>3 DEF Taken
  <2>5. Len(csv) \in Nat /\ Len(csv) >= 1
    BY <1>5, LenProperties DEF AnyPrice, CsvInv
  <2> QED BY <1>1, <1>2, <1>4, <2>1, <2>2, <2>3, <2>4, <2>5 DEF InjectInv
<1>6. CASE ~AnyPrice
  <2>1. stage' = "done" /\ UNCHANGED aggressorsByTs /\ DOMAIN aggregates = {}
    BY <1>6 DEF EndScan, ScanInv
  <2>2. Taken' = {}
    BY <1>1, <2>1 DEF Taken
  <2> QED BY <1>1, <1>3, <1>4, <1>6, <2>1, <2>2 DEF InjectInv
<1> QED BY <1>5, <1>6

\* InjectInv is kept by every step.
LEMMA InjectInvStep ==
  ASSUME CsvInv, SidesOK, ScanInv, InjectInv, [ItchNext]_itchVars
  PROVE  InjectInv'
<1>1. ASSUME stage' \in {"decode", "scan"}, DOMAIN aggressorsByTs' = {}, injecting' = {},
             syntheticIdCounter' = 0
      PROVE  InjectInv'
  <2>1. IsFiniteSet({})
    BY FS_EmptySet
  <2> QED BY <1>1, <2>1 DEF InjectInv
<1>2. CASE (Trading \/ DecodeMessage \/ EndDecode) /\ UNCHANGED replayVars
  <2>1. stage = "decode" /\ stage' \in {"decode", "scan"}
    BY <1>2 DEF DecodeMessage, Trading, EndDecode
  <2>2. UNCHANGED <<aggressorsByTs, injecting, syntheticIdCounter>>
    BY <1>2 DEF replayVars
  <2> QED BY <1>1, <2>1, <2>2 DEF ScanInv
<1>3. CASE ScanRow
  BY <1>1, <1>3 DEF ScanRow, ScanInv
<1>4. CASE UNCHANGED itchVars
  <2>1. UNCHANGED <<stage, at, csv, known, aggregates, aggressorsByTs, injecting,
                    syntheticIdCounter>>
    BY <1>4 DEF itchVars, csvVars, replayVars, scanVars
  <2>2. Taken' = Taken /\ AnyPrice' = AnyPrice
    BY <2>1 DEF Taken, AnyPrice
  <2>3. \A x \in DOMAIN aggressorsByTs' : aggressorsByTs'[x] = Aggressors(x)'
    BY <2>1 DEF InjectInv, Aggressors
  <2> QED BY <2>1, <2>2, <2>3 DEF InjectInv
<1> QED BY <1>2, <1>3, <1>4, EndScanInjectInv, TakeGroupInjectInv, InjectInjectInv,
           ReplayRowInjectInv DEF ItchNext

\* The inductive invariant.
ItchInv == CsvInv /\ SidesOK /\ ScanInv /\ InjectInv

\* It holds at the start,
LEMMA ItchInvInit ==
  ASSUME ItchInit
  PROVE  ItchInv
<1>1. /\ csv = <<>> /\ stage = "decode" /\ at = 1 /\ known = <<>> /\ aggregates = <<>>
      /\ aggressorsByTs = <<>> /\ injecting = {} /\ syntheticIdCounter = 0
  BY DEF ItchInit, CsvInit
<1>2. Len(csv) = 0 /\ DOMAIN known = {} /\ DOMAIN aggregates = {} /\ DOMAIN aggressorsByTs = {}
  BY <1>1
<1>3. IsFiniteSet({})
  BY FS_EmptySet
<1>4. SidesOK
  BY <1>2 DEF SidesOK
<1>5. ScanInv /\ InjectInv
  BY <1>1, <1>2, <1>3 DEF ScanInv, InjectInv
<1> QED BY <1>4, <1>5, CsvInvInit DEF ItchInv

\* and always: the rows transcribe the session, the groups of pass 1 belong to
\* rows of the file, and those injected, being injected and pending are all.
THEOREM ItchInvHolds == ItchSpec => []ItchInv
<1>1. ItchInv /\ [ItchNext]_itchVars => ItchInv'
  BY CsvInvStep, SidesOKStep, ScanInvStep, InjectInvStep DEF ItchInv
<1> QED BY <1>1, ItchInvInit, PTL DEF ItchSpec

\* It says what AggressorsInjectedOnce asks for.
LEMMA ItchInvGives ==
  ASSUME ItchInv
  PROVE  AggressorsInjectedOnce
<1>1. CsvInv /\ ScanInv /\ InjectInv
  BY DEF ItchInv
<1>2. /\ Cardinality(Taken) \in Nat /\ Cardinality(DOMAIN aggregates) \in Nat
      /\ Cardinality(Taken) <= Cardinality(DOMAIN aggregates)
      /\ Cardinality(injecting) \in Nat /\ syntheticIdCounter \in Nat
  BY <1>1, TakenFinite, FS_CardinalityType DEF InjectInv
<1>3. syntheticIdCounter <= Cardinality(DOMAIN aggregates)
  BY <1>1, <1>2 DEF InjectInv, ScanInv
<1>4. ASSUME stage = "done" PROVE DOMAIN aggressorsByTs = {}
  <2>1. CASE at = Len(csv) + 1
    <3>1. ASSUME NEW ts \in DOMAIN aggressorsByTs PROVE FALSE
      <4>1. PICK key \in DOMAIN aggregates : ts = key[1]
        BY <1>1 DEF InjectInv
      <4>2. PICK k \in 1 .. Len(csv) : csv[k].ts = ts
        BY <1>1, <4>1 DEF ScanInv
      <4>3. Len(csv) \in Nat
        BY <1>1, LenProperties DEF CsvInv
      <4>4. k \in 1 .. at - 1
        BY <2>1, <4>3
      <4> QED BY <1>1, <4>2, <4>4 DEF InjectInv
    <3> QED BY <3>1
  <2>2. CASE ~AnyPrice
    BY <1>1, <2>2 DEF ScanInv, InjectInv
  <2> QED BY <1>1, <1>4, <2>1, <2>2 DEF InjectInv
<1>5. ASSUME stage = "done"
      PROVE  injecting = {} /\ syntheticIdCounter = Cardinality(DOMAIN aggregates)
  <2>1. injecting = {} /\ Cardinality(injecting) = 0
    BY <1>1, <1>5, FS_EmptySet DEF InjectInv
  <2>2. Taken = DOMAIN aggregates
    BY <1>4, <1>5 DEF Taken
  <2> QED BY <1>1, <1>2, <1>5, <2>1, <2>2 DEF InjectInv
<1>6. \A ts \in DOMAIN aggressorsByTs, k \in 1 .. at - 1 : csv[k].ts # ts
  BY <1>1 DEF InjectInv
<1> QED BY <1>3, <1>4, <1>5, <1>6 DEF AggressorsInjectedOnce

\* Every aggressor of pass 1 is injected exactly once, before the first row of
\* its timestamp, whatever the file (itch_replay.cpp, take_group and the main
\* loop of pass 2).
THEOREM AggressorsInjectedOnceHolds == ItchSpec => []AggressorsInjectedOnce
<1> QED BY ItchInvHolds, ItchInvGives, PTL

(***************************************************************************)
(* The displayed book of the file and that of the venue.                   *)
(***************************************************************************)
\* What the venue's discipline makes of a row for the book b that the rows
\* before it display; w are the references that were displayed by then.
RowFacts(b, m, w) ==
  /\ m.ref \in Nat /\ m.newRef \in Nat /\ m.price \in Nat /\ m.shares \in Nat
  /\ m.type \in AddTypes =>
       m.side \in {"B", "S"} /\ m.shares > 0 /\ \A x \in b : x.ref < m.ref
  /\ m.type \in ExecuteTypes =>
       IF Has(b, m.ref)
         THEN \A o \in b : o.ref = m.ref => IsFront(b, o) /\ m.shares \in 1 .. o.rem
         ELSE m.ref \notin w
  /\ m.type = "X" => \A o \in b : o.ref = m.ref => m.shares > 0 /\ m.shares < o.rem
  /\ m.type = "U" /\ Has(b, m.ref) => m.shares > 0 /\ \A x \in b : x.ref < m.newRef

\* The orders of the file that are still in the venue's book v are in the book
\* d that the file displays.
Aligned(d, v, w, n) ==
  /\ d \subseteq v
  /\ \A x \in v : x.ref \in w => x \in d
  /\ \A x \in d : x.ref \in w
  /\ \A ref \in w : ref <= n

\* A row tells what message m told of the book.
SameMessage(r, m) ==
  /\ r.type = m.type /\ r.ref = m.ref /\ r.side = m.side /\ r.shares = m.shares
  /\ r.price = m.price /\ r.newRef = m.newRef

\* A row that tells the same says the same of the book.
LEMMA SameMessageSame ==
  ASSUME NEW r, NEW m, SameMessage(r, m), NEW b, NEW w
  PROVE  Displayed(b, r) = Displayed(b, m) /\ (RowFacts(b, r, w) <=> RowFacts(b, m, w))
<1>1. Displayed(b, r) = Displayed(b, m)
  BY DEF SameMessage, Displayed
<1>2. RowFacts(b, r, w) <=> RowFacts(b, m, w)
  BY DEF SameMessage, RowFacts
<1> QED BY <1>1, <1>2

\* A part of a displayed book is in order as well.
LEMMA BookOKPart ==
  ASSUME NEW n \in Nat, NEW v, BookOK(v, n), NEW d, d \subseteq v
  PROVE  BookOK(d, n)
<1>1. IsFiniteSet(d)
  BY FS_Subset DEF BookOK
<1> QED BY <1>1 DEF BookOK, Uncrossed, Unique

\* A message of the venue that has a row keeps the two books aligned.
LEMMA AlignedStep ==
  ASSUME NEW n \in Nat, NEW v, BookOK(v, n), NEW w \in SUBSET Nat, NEW d,
         Aligned(d, v, w, n), NEW m, Good(m), m.locate = Locate, Legal(n, v, m),
         NEW w2 \in SUBSET Nat,
         \A ref \in Nat : ref \in w2 <=> ref \in w \/ Has(Displayed(d, m), ref)
  PROVE  RowFacts(d, m, w) /\ Aligned(Displayed(d, m), Displayed(v, m), w2, n + 1)
<1>1. /\ m.price \in Nat /\ m.shares \in Nat /\ m.ref \in Nat /\ m.newRef \in Nat
      /\ Unique(v) /\ v \in SUBSET DisplayedOrder /\ d \in SUBSET DisplayedOrder
      /\ d \subseteq v /\ Unique(d)
      /\ \A x \in v : x.ref \in Nat /\ x.ref <= n /\ x.rem \in Nat \ {0}
  BY DEF Good, ItchMessage, BookOK, Aligned, DisplayedOrder, Unique
<1>2. PICK d2, v2 : d2 = Displayed(d, m) /\ v2 = Displayed(v, m)
  OBVIOUS
<1>3. \A ref \in Nat : ref \in w2 <=> ref \in w \/ Has(d2, ref)
  BY <1>2
<1>4. ASSUME d2 \subseteq v2, \A x \in v2 : x.ref \in Nat,
             \A x \in v2 : x.ref \in w => x \in d2,
             \A x \in d2 : x.ref <= n + 1,
             \A x \in v2, y \in d2 : x.ref = y.ref => x = y
      PROVE  Aligned(d2, v2, w2, n + 1)
  <2>1. ASSUME NEW x \in v2, x.ref \in w2 PROVE x \in d2
    BY <1>3, <1>4, <2>1 DEF Has
  <2>2. \A x \in d2 : x.ref \in w2
    BY <1>3, <1>4 DEF Has
  <2>3. ASSUME NEW ref \in w2 PROVE ref <= n + 1
    <3>1. ref \in Nat /\ (ref \in w \/ Has(d2, ref))
      BY <1>3
    <3> QED BY <1>4, <3>1 DEF Has, Aligned
  <2> QED BY <1>4, <2>1, <2>2, <2>3 DEF Aligned
<1>5. BookOK(v2, n + 1)
  BY <1>2, DisplayedOK
<1>6. /\ \A x \in v2 : x.ref \in Nat /\ x.ref <= n + 1
      /\ \A x, y \in v2 : x.ref = y.ref => x = y
  BY <1>5 DEF BookOK, DisplayedOrder, Unique
<1>7. ASSUME d2 \subseteq v2, \A x \in v2 : x.ref \in w => x \in d2
      PROVE  Aligned(d2, v2, w2, n + 1)
  BY <1>4, <1>6, <1>7
<1>8. \A x \in v : x.ref \in w => x \in d
  BY DEF Aligned
<1>9. \A ref \in w : ref \in Nat /\ ref <= n /\ ref # n + 1
  BY DEF Aligned
<1>10. CASE m.type \in AddTypes
  <2>1. m.ref = n + 1 /\ m.side \in {"B", "S"} /\ m.shares > 0
    BY <1>10 DEF Legal
  <2>2. PICK l : l = NewOrder(m, m.ref, m.side)
    OBVIOUS
  <2>3. l.ref = n + 1
    BY <2>1, <2>2, <1>1, NewOrderIs
  <2>4. d2 = d \cup {l} /\ v2 = v \cup {l}
    BY <1>2, <1>10, <2>2, DisplayedAdd
  <2>5. Aligned(d2, v2, w2, n + 1)
    BY <1>1, <1>7, <1>8, <2>4
  <2>6. RowFacts(d, m, w)
    BY <1>1, <1>10, <2>1 DEF RowFacts, AddTypes, ExecuteTypes
  <2> QED BY <1>2, <2>5, <2>6
<1>11. CASE m.type \in ExecuteTypes \cup {"X", "D", "U"}
  <2>1. PICK o \in v : o.ref = m.ref
    BY <1>11 DEF Legal
  <2>2. o \in DisplayedOrder /\ o.rem \in Nat \ {0} /\ o.side \in {"B", "S"}
    BY <1>1 DEF DisplayedOrder
  <2>3. \A x \in v : x.ref = m.ref => x = o
    BY <1>1, <2>1 DEF Unique
  <2>4. RowFacts(d, m, w)
    <3>1. CASE m.type \in ExecuteTypes
      <4>1. IsFront(v, o) /\ m.shares \in 1 .. o.rem
        BY <2>3, <3>1 DEF Legal
      <4>2. IsFront(d, o)
        BY <1>1, <4>1 DEF IsFront
      <4>3. ~Has(d, m.ref) => m.ref \notin w
        BY <1>8, <2>1 DEF Has
      <4> QED BY <1>1, <2>3, <3>1, <4>1, <4>2, <4>3 DEF RowFacts, AddTypes, ExecuteTypes
    <3>2. CASE m.type = "X"
      <4>1. m.shares > 0 /\ m.shares < o.rem
        BY <2>3, <2>2, <3>2 DEF Legal
      <4> QED BY <1>1, <2>3, <3>2, <4>1 DEF RowFacts, AddTypes, ExecuteTypes
    <3>3. CASE m.type = "D"
      BY <1>1, <3>3 DEF RowFacts, AddTypes, ExecuteTypes
    <3>4. CASE m.type = "U"
      BY <1>1, <3>4 DEF RowFacts, AddTypes, ExecuteTypes, Legal
    <3> QED BY <1>11, <3>1, <3>2, <3>3, <3>4
  <2>5. PICK new \in SUBSET DisplayedOrder :
          /\ v2 = (v \ {o}) \cup new
          /\ \A x \in new : x.ref = o.ref \/ x.ref = n + 1
          /\ o \in d => d2 = (d \ {o}) \cup new
    <3>1. CASE m.type \in ExecuteTypes \cup {"X"}
      <4>1. PICK new : new = IF o.rem > m.shares THEN {Less(o, m.shares)} ELSE {}
        OBVIOUS
      <4>2. v2 = (v \ {o}) \cup new
        BY <1>1, <1>2, <2>1, <3>1, <4>1, DisplayedHas
      <4>3. o \in d => d2 = (d \ {o}) \cup new
        BY <1>1, <1>2, <2>1, <3>1, <4>1, DisplayedHas
      <4>4. \A x \in new : x \in DisplayedOrder /\ x.ref = o.ref
        <5>1. CASE o.rem > m.shares
          <6>1. PICK l : l = Less(o, m.shares)
            OBVIOUS
          <6>2. l \in DisplayedOrder /\ l.ref = o.ref
            BY <1>1, <2>2, <5>1, <6>1, LessIs
          <6> QED BY <4>1, <5>1, <6>1, <6>2
        <5> QED BY <4>1, <5>1
      <4> QED BY <4>2, <4>3, <4>4
    <3>2. CASE m.type = "D"
      <4>1. v2 = v \ {o} /\ (o \in d => d2 = d \ {o})
        BY <1>1, <1>2, <2>1, <3>2, DisplayedHas
      <4>2. {} \in SUBSET DisplayedOrder
        OBVIOUS
      <4> QED BY <4>1, <4>2
    <3>3. CASE m.type = "U"
      <4>1. PICK l : l = NewOrder(m, m.newRef, o.side)
        OBVIOUS
      <4>2. l \in DisplayedOrder /\ l.ref = n + 1
        BY <1>1, <2>2, <3>3, <4>1, NewOrderIs DEF Legal
      <4>3. v2 = (v \ {o}) \cup {l}
        BY <1>1, <1>2, <2>1, <3>3, <4>1, DisplayedHas
      <4>4. o \in d => d2 = (d \ {o}) \cup {l}
        BY <1>1, <1>2, <2>1, <3>3, <4>1, DisplayedHas
      <4> QED BY <4>2, <4>3, <4>4
    <3> QED BY <1>11, <3>1, <3>2, <3>3
  <2>6. CASE o \in d
    <3>1. d2 \subseteq v2
      BY <1>1, <2>5, <2>6
    <3>2. \A x \in v2 : x.ref \in w => x \in d2
      BY <1>8, <1>9, <2>5, <2>6
    <3> QED BY <1>2, <1>7, <2>4, <3>1, <3>2
  <2>7. CASE o \notin d
    <3>1. d2 = d
      <4>1. \A x \in d : x.ref # m.ref
        BY <1>1, <2>3, <2>7
      <4>2. m.type \notin AddTypes
        BY <1>11 DEF AddTypes, ExecuteTypes
      <4> QED BY <1>2, <4>1, <4>2, DisplayedHasNot
    <3>2. d2 \subseteq v2
      BY <1>1, <2>5, <2>7, <3>1
    <3>3. o.ref \notin w
      BY <1>8, <2>7
    <3>4. \A x \in v2 : x.ref \in w => x \in d2
      BY <1>8, <1>9, <2>5, <3>1, <3>3
    <3> QED BY <1>2, <1>7, <2>4, <3>2, <3>4
  <2> QED BY <2>6, <2>7
<1>12. CASE m.type \notin BookTypes
  <2>1. d2 = d /\ v2 = v
    BY <1>2, <1>12, DisplayedAdd
  <2>2. RowFacts(d, m, w)
    BY <1>1, <1>12 DEF RowFacts, BookTypes
  <2>3. Aligned(d2, v2, w2, n + 1)
    BY <1>1, <1>7, <1>8, <2>1
  <2> QED BY <1>2, <2>2, <2>3
<1> QED BY <1>10, <1>11, <1>12 DEF BookTypes

\* The references displayed by some of the first k books.
ShownRefs(k) == {ref \in Nat : \E j \in 1 .. k : Has(shown[j], ref)}

\* Row k does to the books displayed what a row of the venue may do.
RowShown(k) ==
  /\ shown[k + 1] = Displayed(shown[k], RowMessage(csv[k]))
  /\ RowFacts(shown[k], RowMessage(csv[k]), ShownRefs(k))

\* The rows and the books they display.
FileOK ==
  /\ shown \in Seq(SUBSET DisplayedOrder) /\ Len(shown) = Len(csv) + 1
  /\ shown[1] = {}
  /\ \A k \in 1 .. Len(csv) + 1 : BookOK(shown[k], MaxMessages)
  /\ \A k \in 1 .. Len(csv) : RowShown(k)
  /\ \A j, k \in 1 .. Len(csv) : j <= k => csv[j].ts <= csv[k].ts

\* The book displayed by the file so far is aligned with the venue's book v.
AlignedTo(v) == Aligned(shown[Len(shown)], v, ShownRefs(Len(shown)), messages)

\* The message to be read next came with a book v.
NextFrom(v, m) ==
  /\ BookOK(v, messages) /\ AlignedTo(v) /\ Legal(messages, v, m)
  /\ venue = IF m.locate = Locate THEN Displayed(v, m) ELSE v

\* Between the messages, the file's book is aligned with the venue's: before
\* the message to be read next when one was sent.
Reading ==
  /\ \A k \in 1 .. Len(csv) : csv[k].ts <= LastTs
  /\ Locate \notin keepLocate => \A k \in 1 .. Len(shown) : shown[k] = {}
  /\ messages = Len(session) => AlignedTo(venue)
  /\ messages # Len(session) => \E v : NextFrom(v, session[Len(session)])

\* With one symbol wanted, the rows do to the displayed books what the venue did.
FileInv ==
  /\ Len(session) <= MaxMessages
  /\ OneSymbol => FileOK /\ (stage = "decode" => Reading)

\* A book stays in order as the session grows.
LEMMA BookOKUpTo ==
  ASSUME NEW n \in Nat, NEW N \in Nat, n <= N, NEW b, BookOK(b, n)
  PROVE  BookOK(b, N)
<1>1. \A x \in b : x.ref \in Nat /\ x.ref <= N
  BY DEF BookOK, DisplayedOrder
<1> QED BY <1>1 DEF BookOK

\* What the file says stays said.
LEMMA FileOKKept ==
  ASSUME FileOK, UNCHANGED <<csv, shown>>
  PROVE  FileOK'
<1>1. \A k : ShownRefs(k)' = ShownRefs(k)
  BY DEF ShownRefs, Has
<1>2. \A k : RowShown(k)' <=> RowShown(k)
  BY <1>1 DEF RowShown
<1> QED BY <1>1, <1>2 DEF FileOK

\* A message that is sent is the next to be read.
LEMMA TradingFileInv ==
  ASSUME CsvInv, FileInv, Trading
  PROVE  FileInv'
<1>1. /\ SessionOK /\ VenueTyped /\ BookOK(venue, Len(session)) /\ Len(session) \in Nat
      /\ stage = "decode" /\ messages = Len(session) /\ LastTs \in Nat
  BY LastTsNat DEF CsvInv, Trading, BookOK, VenueTyped
<1>2. PICK m : Sent(m)
  BY <1>1, FeedSends DEF Trading
<1>3. m \in ItchMessage /\ session' = Append(session, m) /\ m.ts \in Nat /\ m.ts >= LastTs
  <2>1. /\ m \in ItchMessage /\ session' = Append(session, m)
        /\ m.ts \in {LastTs, LastTs + 1}
    BY <1>2 DEF Sent, Good
  <2>2. PICK ts : ts = m.ts
    OBVIOUS
  <2> QED BY <1>1, <2>1, <2>2
<1>4. Len(session') = Len(session) + 1 /\ session'[Len(session) + 1] = m
  BY <1>1, <1>3, AppendProperties DEF SessionOK
<1>5. UNCHANGED <<stage, limit, messages, locateToSymbol, keepLocate, csv, shown>>
  BY DEF Trading, csvVars
<1>6. Len(session') <= MaxMessages
  BY <1>1, <1>2, <1>4, FeedAssumption DEF Sent
<1>7. LastTs' = m.ts
  <2>1. session' # <<>>
    BY <1>1, <1>4
  <2> QED BY <1>4, <2>1 DEF LastTs
<1>8. ASSUME OneSymbol PROVE Reading'
  <2>1. Reading
    BY <1>1, <1>8 DEF FileInv
  <2>2. \A k \in 1 .. Len(csv) : csv[k].ts <= m.ts
    <3>1. ASSUME NEW k \in 1 .. Len(csv) PROVE csv[k].ts <= m.ts
      <4>1. csv[k].ts \in Nat
        <5>1. csv \in Seq(CsvRow)
          BY DEF CsvInv
        <5>2. csv[k] \in CsvRow
          BY <5>1, ElementOfSeq
        <5> QED BY <5>2 DEF CsvRow
      <4> QED BY <1>1, <1>3, <2>1, <4>1 DEF Reading
    <3> QED BY <3>1
  <2>3. ShownRefs(Len(shown))' = ShownRefs(Len(shown))
    BY <1>5 DEF ShownRefs, Has
  <2>4. PICK v : v = venue
    OBVIOUS
  <2>6. NextFrom(v, m)'
    <3>1. BookOK(v, messages) /\ AlignedTo(v) /\ Legal(messages, v, m)
      BY <1>1, <1>2, <2>1, <2>4 DEF Reading, Sent
    <3>2. venue' = IF m.locate = Locate THEN Displayed(v, m) ELSE v
      BY <1>2, <2>4 DEF Sent
    <3> QED BY <1>5, <2>3, <3>1, <3>2 DEF NextFrom, AlignedTo
  <2>5. messages' # Len(session')
    BY <1>1, <1>4, <1>5
  <2> QED BY <1>4, <1>5, <1>7, <2>1, <2>2, <2>5, <2>6 DEF Reading
<1>9. OneSymbol => FileOK'
  BY <1>5, FileOKKept DEF FileInv
<1> QED BY <1>6, <1>8, <1>9 DEF FileInv

\* The message read next is the last one sent so far.
LEMMA NextMessage ==
  ASSUME CsvInv, DecodeMessage
  PROVE  /\ stage = "decode" /\ messages \in Nat /\ Len(session) = messages + 1
         /\ messages' = messages + 1 /\ UNCHANGED <<session, venue>>
         /\ Good(session[Len(session)])
         /\ LET m == session[Len(session)]
            IN  ReadDirectory(m) \/ WriteRow(m) \/ SkipMessage(m)
<1>1. /\ messages \in Nat /\ Len(session) \in Nat /\ messages + 1 >= Len(session)
      /\ messages < Len(session)
  BY LastTsNat DEF CsvInv, LimitOK, DecodeMessage
<1>2. Len(session) = messages + 1
  BY <1>1
<1>3. Good(session[messages + 1])
  BY <1>1, KeepsRowIs
<1> QED BY <1>1, <1>2, <1>3 DEF DecodeMessage, feedVars

\* With one symbol wanted, only its messages, and no order of another, are kept.
LEMMA OnlyLocate ==
  ASSUME CsvInv, OneSymbol, NEW l \in keepLocate, l \in Nat
  PROVE  l = Locate
<1>1. PICK j \in 1 .. messages : session[j].type = "R" /\ session[j].locate = l
                                   /\ session[j].stock \in Wanted
  BY DEF CsvInv, FilterOK, ListedBy
<1>2. j \in 1 .. Len(session)
  BY <1>1, LastTsNat DEF CsvInv
<1>3. Good(session[j])
  BY <1>2 DEF CsvInv, SessionOK
<1>4. l \in DOMAIN Directory /\ Directory[l] \in Wanted
  BY <1>1, <1>3 DEF Good, StockTypes
<1> QED BY <1>4 DEF OneSymbol

\* A message without a row leaves the books aligned.
LEMMA SkippedReading ==
  ASSUME CsvInv, FileInv, OneSymbol, DecodeMessage, CsvInv',
         NEW m, m = session[Len(session)], ReadDirectory(m) \/ SkipMessage(m)
  PROVE  FileOK' /\ Reading'
<1>1. /\ stage = "decode" /\ messages \in Nat /\ Len(session) = messages + 1
      /\ messages' = messages + 1 /\ UNCHANGED <<session, venue>> /\ Good(m)
  BY NextMessage
<1>2. UNCHANGED <<csv, shown>>
  BY DEF ReadDirectory, SkipMessage
<1>3. FileOK'
  BY <1>2, FileOKKept DEF FileInv
<1>4. Reading /\ FileOK
  BY <1>1 DEF FileInv
<1>5. PICK v : NextFrom(v, m)
  BY <1>1, <1>4 DEF Reading
<1>6. LastTs' = LastTs
  BY <1>1 DEF LastTs
<1>7. Locate \in keepLocate => Locate \in keepLocate'
  <2>1. FilterOK /\ FilterOK' /\ Locate \in Nat
    BY FeedAssumption DEF CsvInv
  <2>2. ListedBy(Locate, messages) => ListedBy(Locate, messages)'
    BY <1>1 DEF ListedBy
  <2> QED BY <2>1, <2>2 DEF FilterOK
<1>8. PICK d, w, n : d = shown[Len(shown)] /\ w = ShownRefs(Len(shown)) /\ n = messages + 1
  OBVIOUS
<1>9. Aligned(d, v, w, messages) /\ w \in SUBSET Nat
  BY <1>5, <1>8 DEF NextFrom, AlignedTo, ShownRefs
<1>10. Aligned(d, venue, w, n)
  <2>1. CASE m.locate # Locate \/ m.type \notin BookTypes
    <3>1. venue = v
      BY <1>5, <2>1, DisplayedAdd DEF NextFrom
    <3>2. \A ref \in w : ref \in Nat /\ ref <= messages
      BY <1>9 DEF Aligned
    <3>3. \A ref \in w : ref <= n
      BY <1>1, <1>8, <3>2
    <3> QED BY <1>9, <3>1, <3>3 DEF Aligned
  <2>2. CASE m.locate = Locate /\ m.type \in BookTypes
    <3>1. Locate \notin keepLocate
      BY <2>2 DEF ReadDirectory, SkipMessage, KeepsRow, OneSymbol, BookTypes, AddTypes,
                  ExecuteTypes, NamedTypes
    <3>2. \A k \in 1 .. Len(shown) : shown[k] = {}
      BY <1>4, <3>1 DEF Reading
    <3>3. w = {}
      BY <1>8, <3>2 DEF ShownRefs, Has
    <3>4. d = {}
      <4>1. Len(csv) \in Nat
        BY LenProperties DEF CsvInv
      <4>2. Len(shown) \in 1 .. Len(shown)
        BY <1>4, <4>1 DEF FileOK
      <4> QED BY <1>8, <3>2, <4>2
    <3> QED BY <3>3, <3>4 DEF Aligned
  <2> QED BY <2>1, <2>2
<1>11. AlignedTo(venue)'
  <2>1. ShownRefs(Len(shown))' = ShownRefs(Len(shown))
    BY <1>2 DEF ShownRefs, Has
  <2> QED BY <1>1, <1>2, <1>8, <1>10, <2>1 DEF AlignedTo
<1>12. Reading'
  BY <1>1, <1>2, <1>4, <1>6, <1>7, <1>11 DEF Reading
<1> QED BY <1>3, <1>12

\* A message with a row keeps the books aligned, and the row is one the venue
\* may send.
LEMMA WrittenReading ==
  ASSUME CsvInv, FileInv, OneSymbol, DecodeMessage, CsvInv',
         NEW m, m = session[Len(session)], WriteRow(m)
  PROVE  FileOK' /\ Reading'
<1>1. /\ stage = "decode" /\ messages \in Nat /\ Len(session) = messages + 1
      /\ messages' = messages + 1 /\ UNCHANGED <<session, venue>> /\ Good(m)
      /\ m = session[messages + 1] /\ messages < Len(session)
  BY NextMessage
<1>2. Reading /\ FileOK /\ Len(session) <= MaxMessages /\ MaxMessages \in Nat
  BY <1>1, FeedAssumption DEF FileInv
<1>3. PICK v : NextFrom(v, m)
  BY <1>1, <1>2 DEF Reading
<1>4. PICK row : row = Row(m)
  OBVIOUS
<1>5. ToKeep(messages + 1)
  BY <1>1, KeepsRowIs DEF WriteRow
<1>6. row \in CsvRow /\ Transcribes(row, m, Len(csv) + 1)
  BY <1>1, <1>4, <1>5, RowTranscribes
<1>7. PICK r : r = RowMessage(row)
  OBVIOUS
<1>8. SameMessage(r, m) /\ row.ts = m.ts
  BY <1>6, <1>7 DEF SameMessage, RowMessage, Transcribes
<1>9. PICK d, d2, w : d = shown[Len(shown)] /\ d2 = Displayed(d, m) /\ w = ShownRefs(Len(shown))
  OBVIOUS
<1>10. csv' = Append(csv, row) /\ shown' = Append(shown, d2) /\ keepLocate' = keepLocate
  BY <1>4, <1>7, <1>8, <1>9, SameMessageSame DEF WriteRow
<1>11. /\ csv \in Seq(CsvRow) /\ Len(csv) \in Nat /\ Len(csv') = Len(csv) + 1
       /\ csv'[Len(csv) + 1] = row /\ \A k \in 1 .. Len(csv) : csv'[k] = csv[k]
  BY <1>6, <1>10, AppendProperties, LenProperties DEF CsvInv
<1>12. Aligned(d, v, w, messages) /\ w \in SUBSET Nat /\ BookOK(v, messages)
       /\ Legal(messages, v, m)
       /\ venue = IF m.locate = Locate THEN Displayed(v, m) ELSE v
  BY <1>3, <1>9 DEF NextFrom, AlignedTo, ShownRefs
<1>13. PICK w2 \in SUBSET Nat : \A ref \in Nat : ref \in w2 <=> ref \in w \/ Has(d2, ref)
  <2>1. {ref \in Nat : ref \in w \/ Has(d2, ref)} \in SUBSET Nat
    OBVIOUS
  <2> QED BY <2>1
<1>14. m.type \in BookTypes => Locate \in keepLocate /\ m.locate = Locate
  <2>1. ASSUME m.type \in BookTypes PROVE m.locate \in keepLocate /\ m.locate \in Nat
    BY <1>1, <2>1 DEF WriteRow, KeepsRow, OneSymbol, BookTypes, AddTypes, ExecuteTypes,
                      Good, ItchMessage
  <2> QED BY <2>1, OnlyLocate
<1>15. RowFacts(d, m, w) /\ Aligned(d2, venue, w2, messages + 1)
  <2>1. CASE m.type \in BookTypes
    <3>1. m.locate = Locate /\ venue = Displayed(v, m)
      BY <1>12, <1>14, <2>1
    <3> QED BY <1>1, <1>9, <1>12, <1>13, <3>1, AlignedStep
  <2>2. CASE m.type \notin BookTypes
    <3>1. d2 = d /\ venue = v
      BY <1>9, <1>12, <2>2, DisplayedAdd
    <3>2. RowFacts(d, m, w)
      BY <1>1, <2>2 DEF RowFacts, BookTypes, Good, ItchMessage
    <3>3. \A ref \in Nat : ref \in w2 <=> ref \in w
      BY <1>12, <1>13, <3>1 DEF Aligned, Has
    <3>4. \A ref \in w2 : ref \in Nat /\ ref \in w /\ ref <= messages + 1
      BY <1>1, <1>12, <3>3 DEF Aligned
    <3>5. \A x \in v : x.ref \in Nat
      BY <1>12 DEF BookOK, DisplayedOrder
    <3>6. Aligned(d2, venue, w2, messages + 1)
      BY <1>12, <3>1, <3>3, <3>4, <3>5 DEF Aligned
    <3> QED BY <3>2, <3>6
  <2> QED BY <2>1, <2>2
<1>16. BookOK(d2, MaxMessages)
  <2>1. BookOK(venue, messages + 1)
    BY <1>1 DEF CsvInv
  <2>2. BookOK(d2, messages + 1)
    BY <1>1, <1>15, <2>1, BookOKPart DEF Aligned
  <2> QED BY <1>1, <1>2, <2>2, BookOKUpTo
<1>17. /\ shown' \in Seq(SUBSET DisplayedOrder) /\ Len(shown) = Len(csv) + 1
       /\ Len(shown') = Len(shown) + 1
       /\ shown'[Len(shown) + 1] = d2 /\ \A k \in 1 .. Len(shown) : shown'[k] = shown[k]
  <2>1. d2 \in SUBSET DisplayedOrder
    BY <1>16 DEF BookOK
  <2> QED BY <1>2, <1>10, <2>1, AppendProperties DEF FileOK
<1>18. \A k \in 1 .. Len(shown) : ShownRefs(k)' = ShownRefs(k)
  <2>1. ASSUME NEW k \in 1 .. Len(shown) PROVE ShownRefs(k)' = ShownRefs(k)
    <3>1. \A j \in 1 .. k : shown'[j] = shown[j]
      BY <1>11, <1>17
    <3> QED BY <3>1 DEF ShownRefs, Has
  <2> QED BY <2>1
<1>19. ShownRefs(Len(shown))' = w2
  <2>1. \A j : j \in 1 .. Len(shown') <=> j \in 1 .. Len(shown) \/ j = Len(shown) + 1
    BY <1>11, <1>17
  <2>2. \A ref \in Nat : (\E j \in 1 .. Len(shown') : Has(shown'[j], ref)) <=>
                           (\E j \in 1 .. Len(shown) : Has(shown[j], ref)) \/ Has(d2, ref)
    BY <1>17, <2>1
  <2>3. \A ref \in Nat : ref \in w <=> \E j \in 1 .. Len(shown) : Has(shown[j], ref)
    BY <1>9 DEF ShownRefs
  <2>4. ShownRefs(Len(shown))' = {ref \in Nat : \E j \in 1 .. Len(shown') : Has(shown'[j], ref)}
    BY DEF ShownRefs, Has
  <2> QED BY <1>13, <2>2, <2>3, <2>4
<1>20. \A k \in 1 .. Len(csv') : RowShown(k)'
  <2>1. ASSUME NEW k \in 1 .. Len(csv) PROVE RowShown(k)'
    <3>1. k \in 1 .. Len(shown) /\ k + 1 \in 1 .. Len(shown)
      BY <1>11, <1>17
    <3>2. RowShown(k)
      BY <1>2 DEF FileOK
    <3>3. /\ csv'[k] = csv[k] /\ shown'[k] = shown[k] /\ shown'[k + 1] = shown[k + 1]
          /\ ShownRefs(k)' = ShownRefs(k)
      BY <1>11, <1>17, <1>18, <3>1
    <3> QED BY <3>2, <3>3 DEF RowShown
  <2>2. ASSUME NEW k, k = Len(csv) + 1 PROVE RowShown(k)'
    <3>1. k \in 1 .. Len(shown) /\ k = Len(shown)
      BY <1>11, <1>17, <2>2
    <3>2. /\ csv'[k] = row /\ shown'[k] = d /\ shown'[k + 1] = d2 /\ ShownRefs(k)' = w
      BY <1>9, <1>11, <1>17, <1>18, <2>2, <3>1
    <3>3. d2 = Displayed(d, r) /\ RowFacts(d, r, w)
      BY <1>8, <1>9, <1>15, SameMessageSame
    <3> QED BY <1>7, <3>2, <3>3 DEF RowShown
  <2>3. \A k \in 1 .. Len(csv') : k \in 1 .. Len(csv) \/ k = Len(csv) + 1
    BY <1>11
  <2> QED BY <2>1, <2>2, <2>3
<1>21. \A k \in 1 .. Len(csv') + 1 : BookOK(shown'[k], MaxMessages)
  <2>1. \A k \in 1 .. Len(csv') + 1 : k \in 1 .. Len(csv) + 1 \/ k = Len(shown) + 1
    BY <1>11, <1>17
  <2> QED BY <1>2, <1>16, <1>17, <2>1 DEF FileOK
<1>22. m.ts = LastTs /\ LastTs \in Nat /\ LastTs' = LastTs
  <2>1. session # <<>>
    BY <1>1
  <2>2. SessionOK
    BY DEF CsvInv
  <2> QED BY <1>1, <2>1, <2>2, LastTsNat DEF LastTs
<1>23. \A k \in 1 .. Len(csv') : csv'[k].ts <= LastTs'
  <2>1. \A k \in 1 .. Len(csv') : k \in 1 .. Len(csv) \/ k = Len(csv) + 1
    BY <1>11
  <2>2. \A k \in 1 .. Len(csv) : csv[k].ts <= LastTs
    BY <1>2 DEF Reading
  <2> QED BY <1>8, <1>11, <1>22, <2>1, <2>2
<1>24. \A j, k \in 1 .. Len(csv') : j <= k => csv'[j].ts <= csv'[k].ts
  <2>1. ASSUME NEW j \in 1 .. Len(csv'), NEW k \in 1 .. Len(csv'), j <= k
        PROVE  csv'[j].ts <= csv'[k].ts
    <3>1. CASE k \in 1 .. Len(csv)
      <4>1. j \in 1 .. Len(csv)
        BY <1>11, <2>1, <3>1
      <4> QED BY <1>2, <1>11, <2>1, <3>1, <4>1 DEF FileOK
    <3>2. CASE k = Len(csv) + 1
      BY <1>8, <1>11, <1>22, <1>23, <3>2
    <3>3. k \in 1 .. Len(csv) \/ k = Len(csv) + 1
      BY <1>11
    <3> QED BY <3>1, <3>2, <3>3
  <2> QED BY <2>1
<1>25. FileOK'
  <2>1. shown'[1] = {} /\ Len(shown') = Len(csv') + 1
    BY <1>2, <1>11, <1>17 DEF FileOK
  <2> QED BY <1>17, <1>20, <1>21, <1>24, <2>1 DEF FileOK
<1>26. Locate \notin keepLocate' => \A k \in 1 .. Len(shown') : shown'[k] = {}
  <2>1. ASSUME Locate \notin keepLocate PROVE d2 = {} /\ \A k \in 1 .. Len(shown) : shown[k] = {}
    <3>1. d2 = d
      BY <1>9, <1>14, <2>1, DisplayedAdd
    <3>2. \A k \in 1 .. Len(shown) : shown[k] = {}
      BY <1>2, <2>1 DEF Reading
    <3>3. Len(shown) \in 1 .. Len(shown)
      BY <1>11, <1>17
    <3> QED BY <1>9, <3>1, <3>2, <3>3
  <2>2. \A k \in 1 .. Len(shown') : k \in 1 .. Len(shown) \/ k = Len(shown) + 1
    BY <1>11, <1>17
  <2> QED BY <1>10, <1>17, <2>1, <2>2
<1>27. AlignedTo(venue)'
  <2>1. shown'[Len(shown')] = d2
    BY <1>17
  <2> QED BY <1>1, <1>15, <1>19, <2>1 DEF AlignedTo
<1>28. Reading'
  BY <1>1, <1>23, <1>26, <1>27 DEF Reading
<1> QED BY <1>25, <1>28

\* FileInv is kept by every step
LEMMA FileInvStep ==
  ASSUME CsvInv, FileInv, [ItchNext]_itchVars, CsvInv'
  PROVE  FileInv'
<1>1. CASE Trading
  BY <1>1, TradingFileInv
<1>2. CASE DecodeMessage
  <2>1. UNCHANGED session
    BY <1>2, NextMessage
  <2>2. ASSUME OneSymbol PROVE FileOK' /\ Reading'
    <3>1. PICK m : m = session[Len(session)]
      OBVIOUS
    <3>2. ReadDirectory(m) \/ WriteRow(m) \/ SkipMessage(m)
      BY <1>2, <3>1, NextMessage
    <3> QED BY <1>2, <2>2, <3>1, <3>2, SkippedReading, WrittenReading
  <2> QED BY <2>1, <2>2 DEF FileInv
<1>3. CASE EndDecode \/ FileKept
  <2>1. UNCHANGED <<session, csv, shown>> /\ stage' # "decode"
    BY <1>3 DEF EndDecode, FileKept, feedVars, csvVars
  <2> QED BY <2>1, FileOKKept DEF FileInv
<1>4. CASE UNCHANGED itchVars
  <2>1. UNCHANGED <<session, venue, messages, keepLocate, csv, shown, stage>>
    BY <1>4 DEF itchVars, feedVars, csvVars
  <2>2. ShownRefs(Len(shown))' = ShownRefs(Len(shown)) /\ LastTs' = LastTs
    BY <2>1 DEF ShownRefs, Has, LastTs
  <2>3. Reading => Reading'
    <3>1. \A v : AlignedTo(v)' <=> AlignedTo(v)
      BY <2>1, <2>2 DEF AlignedTo
    <3>2. \A v, m : NextFrom(v, m)' <=> NextFrom(v, m)
      BY <2>1, <3>1 DEF NextFrom
    <3>3. AlignedTo(venue)' <=> AlignedTo(venue)
      BY <2>1, <2>2 DEF AlignedTo
    <3> QED BY <2>1, <2>2, <3>2, <3>3 DEF Reading
  <2> QED BY <2>1, <2>3, FileOKKept DEF FileInv
<1> QED BY <1>1, <1>2, <1>3, <1>4, StepsAre

\* and holds at the start.
LEMMA FileInvInit ==
  ASSUME ItchInit
  PROVE  FileInv
<1>1. /\ session = <<>> /\ venue = {} /\ csv = <<>> /\ messages = 0 /\ shown = <<{}>>
  BY DEF ItchInit, CsvInit, FeedInit
<1>2. Len(session) = 0 /\ Len(csv) = 0 /\ Len(shown) = 1 /\ shown[1] = {} /\ MaxMessages \in Nat
  BY <1>1, FeedAssumption
<1>3. shown \in Seq(SUBSET DisplayedOrder)
  BY <1>1
<1>4. BookOK({}, MaxMessages)
  BY FS_EmptySet DEF BookOK, Unique, Uncrossed
<1>5. FileOK
  <2>1. \A k \in 1 .. Len(csv) + 1 : k = 1
    BY <1>2
  <2>2. \A k \in 1 .. Len(csv) : FALSE
    BY <1>2
  <2>3. \A k \in 1 .. Len(csv) + 1 : BookOK(shown[k], MaxMessages)
    BY <1>2, <1>4, <2>1
  <2>4. \A k \in 1 .. Len(csv) : RowShown(k)
    BY <2>2
  <2>5. \A j, k \in 1 .. Len(csv) : j <= k => csv[j].ts <= csv[k].ts
    BY <2>2
  <2>6. Len(shown) = Len(csv) + 1
    BY <1>2
  <2> QED BY <1>2, <1>3, <2>3, <2>4, <2>5, <2>6 DEF FileOK
<1>6. ShownRefs(Len(shown)) = {}
  BY <1>2 DEF ShownRefs, Has
<1>7. AlignedTo(venue)
  BY <1>1, <1>2, <1>6 DEF AlignedTo, Aligned
<1>8. Reading
  <2>1. \A k \in 1 .. Len(csv) : FALSE
    BY <1>2
  <2>2. \A k \in 1 .. Len(shown) : k = 1
    BY <1>2
  <2> QED BY <1>1, <1>2, <1>7, <2>1, <2>2 DEF Reading
<1> QED BY <1>2, <1>5, <1>8 DEF FileInv

(***************************************************************************)
(* Sums.                                                                   *)
(***************************************************************************)
\* Finitely many numbers have a bound.
LEMMA Bounded ==
  ASSUME NEW n \in Nat, NEW f, \A k \in 1 .. n : f[k] \in Nat
  PROVE  \E B \in Nat : \A k \in 1 .. n : f[k] \in 0 .. B
<1> DEFINE OK(i) == \E B \in Nat : \A k \in 1 .. i : f[k] \in 0 .. B
           Bad == {i \in 0 .. n : ~OK(i)}
<1>1. Bad = {}
  <2> SUFFICES ASSUME Bad # {} PROVE FALSE
    OBVIOUS
  <2>1. Bad \in SUBSET Nat
    OBVIOUS
  <2>2. PICK i \in Bad : \A j \in Bad : i <= j
    BY <2>1, MinOfNats
  <2>3. i \in 0 .. n /\ ~OK(i)
    OBVIOUS
  <2>4. OK(0)
    <3>1. \A k \in 1 .. 0 : f[k] \in 0 .. 0
      OBVIOUS
    <3> QED BY <3>1
  <2>5. i # 0 /\ i - 1 \in 0 .. n /\ i \in 1 .. n
    BY <2>3, <2>4
  <2>6. OK(i - 1)
    <3> HIDE DEF OK
    <3>1. ~(i <= i - 1)
      BY <2>3
    <3> QED BY <2>2, <2>5, <3>1
  <2>7. PICK B \in Nat : \A k \in 1 .. i - 1 : f[k] \in 0 .. B
    BY <2>6
  <2>8. PICK c \in Nat : c = f[i]
    BY <2>5
  <2>9. PICK C \in Nat : C >= B /\ C >= c
    <3>1. B + c \in Nat /\ B + c >= B /\ B + c >= c
      BY <2>7, <2>8
    <3> QED BY <3>1
  <2>10. ASSUME NEW k \in 1 .. i PROVE f[k] \in 0 .. C
    <3>1. CASE k = i
      BY <2>8, <2>9, <3>1
    <3>2. CASE k # i
      <4>1. k \in 1 .. i - 1
        BY <2>3, <3>2
      <4> QED BY <2>7, <2>9, <4>1
    <3> QED BY <3>1, <3>2
  <2>11. OK(i)
    BY <2>10
  <2> QED BY <2>3, <2>11
<1>2. OK(n)
  <2> HIDE DEF OK
  <2>1. n \in 0 .. n
    OBVIOUS
  <2> QED BY <1>1, <2>1
<1> QED BY <1>2

\* So has a finite set of them.
LEMMA BoundedSet ==
  ASSUME NEW S, IsFiniteSet(S), NEW f, \A x \in S : f[x] \in Nat
  PROVE  \E B \in Nat : \A x \in S : f[x] \in 0 .. B
<1>1. PICK n \in Nat : n = Cardinality(S) /\ ExistsBijection(1 .. n, S)
  BY FS_CardinalityType
<1>2. PICK h \in [1 .. n -> S] : \A x \in S : \E i \in 1 .. n : h[i] = x
  BY <1>1 DEF ExistsBijection, Bijection, Surjection
<1>3. PICK g : g = [i \in 1 .. n |-> f[h[i]]]
  OBVIOUS
<1>4. \A i \in 1 .. n : g[i] \in Nat /\ g[i] = f[h[i]]
  BY <1>2, <1>3
<1>5. PICK B \in Nat : \A i \in 1 .. n : g[i] \in 0 .. B
  BY <1>4, Bounded
<1>6. \A x \in S : f[x] \in 0 .. B
  BY <1>2, <1>4, <1>5
<1> QED BY <1>6

\* One unfolding of the recursion in Shares.
SharesStep(S, g) ==
  [T \in SUBSET S |->
     IF T = {} THEN 0
     ELSE (CHOOSE x \in T : TRUE).rem + g[T \ {CHOOSE x \in T : TRUE}]]

\* Shares is defined by that recursion.
LEMMA SharesChosen ==
  ASSUME NEW S, NEW g, g = SharesStep(S, g)
  PROVE  \E h : h = SharesStep(S, h) /\ Shares(S) = h[S]
  BY Zenon DEF Shares, SharesStep, MapThenSumSet, MapThenFoldSet

\* What orders have left, as a function.
Rems(S) == [x \in S |-> x.rem]

\* Shares counts the units of the orders.
LEMMA SharesIs ==
  ASSUME NEW S, IsFiniteSet(S), \A x \in S : x.rem \in Nat
  PROVE  Shares(S) = Cardinality(Units(S, Rems(S)))
<1> DEFINE Pick(T) == CHOOSE x \in T : TRUE
<1>0. PICK r : r = Rems(S)
  OBVIOUS
<1>1. \A x \in S : r[x] \in Nat /\ x.rem = r[x]
  BY <1>0 DEF Rems
<1>2. PICK B \in Nat : \A x \in S : r[x] \in 0 .. B
  BY <1>1, BoundedSet
<1>3. ASSUME NEW T \in SUBSET S, T # {} PROVE Pick(T).rem = r[Pick(T)]
  <2>1. Pick(T) \in S
    BY <1>3
  <2> QED BY <1>1, <2>1
<1>4. \A g : SharesStep(S, g) = SetSums(S, r, g)
  BY <1>3 DEF SharesStep, SetSums
<1>5. /\ \E g : g = SetSums(S, r, g)
      /\ \A g : g = SetSums(S, r, g) => g[S] = Cardinality(Units(S, r))
  BY <1>2, SetSumsAre
<1>6. PICK g : g = SetSums(S, r, g)
  BY <1>5
<1>7. g = SharesStep(S, g)
  BY <1>4, <1>6
<1>8. PICK h : h = SharesStep(S, h) /\ Shares(S) = h[S]
  BY <1>7, SharesChosen
<1>9. h = SetSums(S, r, h)
  BY <1>4, <1>8
<1> QED BY <1>0, <1>5, <1>8, <1>9

\* No orders have no shares,
LEMMA SharesNone == Shares({}) = 0
<1>1. Shares({}) = Cardinality(Units({}, Rems({})))
  BY FS_EmptySet, SharesIs
<1>2. Units({}, Rems({})) = {}
  BY DEF Units
<1> QED BY <1>1, <1>2, FS_EmptySet

\* The shares of one order and of the others.
LEMMA SharesSplit ==
  ASSUME NEW S, IsFiniteSet(S), \A x \in S : x.rem \in Nat, NEW y \in S
  PROVE  /\ Shares(S) \in Nat /\ Shares(S \ {y}) \in Nat
         /\ Shares(S) = Shares(S \ {y}) + y.rem
<1>1. PICK T : T = S \ {y}
  OBVIOUS
<1>2. IsFiniteSet(T) /\ \A x \in T : x.rem \in Nat
  BY <1>1, FS_RemoveElement
<1>3. PICK f, g : f = Rems(S) /\ g = Rems(T)
  OBVIOUS
<1>4. /\ \A x \in S : f[x] = x.rem
      /\ \A x \in T : g[x] = f[x]
  BY <1>1, <1>3 DEF Rems
<1>5. PICK B \in Nat : \A x \in S : f[x] \in 0 .. B
  BY <1>4, BoundedSet
<1>6. /\ Cardinality(Units(T, f)) \in Nat
      /\ Cardinality(Units(S, f)) = Cardinality(Units(T, f)) + f[y]
  BY <1>1, <1>5, UnitsSplit
<1>7. Units(T, g) = Units(T, f)
  BY <1>4, UnitsSame
<1>8. Shares(S) = Cardinality(Units(S, f)) /\ Shares(T) = Cardinality(Units(T, f))
  BY <1>2, <1>3, <1>7, SharesIs
<1> QED BY <1>1, <1>4, <1>6, <1>8

\* and finitely many a number of them.
LEMMA SharesNat ==
  ASSUME NEW S, IsFiniteSet(S), \A x \in S : x.rem \in Nat
  PROVE  Shares(S) \in Nat
<1>1. CASE S = {}
  BY <1>1, SharesNone
<1>2. CASE S # {}
  BY <1>2, SharesSplit
<1> QED BY <1>1, <1>2

(***************************************************************************)
(* Rows.                                                                   *)
(***************************************************************************)
\* What is known of a row and of the books before and after it.
LEMMA RowAt ==
  ASSUME CsvInv, FileOK, NEW k \in 1 .. Len(csv)
  PROVE  /\ csv[k] \in CsvRow /\ csv[k].ts \in Nat /\ Len(csv) \in Nat /\ k \in Nat /\ k >= 1
         /\ k + 1 \in 1 .. Len(csv) + 1 /\ k \in 1 .. Len(csv) + 1
         /\ BookOK(shown[k], MaxMessages) /\ BookOK(shown[k + 1], MaxMessages)
         /\ RowShown(k)
<1>1. csv \in Seq(CsvRow) /\ Len(csv) \in Nat
  BY LenProperties DEF CsvInv
<1>2. csv[k] \in CsvRow
  BY <1>1, ElementOfSeq
<1>3. csv[k].ts \in Nat
  BY <1>2 DEF CsvRow
<1>4. k + 1 \in 1 .. Len(csv) + 1 /\ k \in 1 .. Len(csv) + 1 /\ k \in Nat /\ k >= 1
  BY <1>1
<1> QED BY <1>1, <1>2, <1>3, <1>4 DEF FileOK

\* The message of a row has the columns of the row.
LEMMA RowMessageIs ==
  ASSUME NEW row
  PROVE  LET m == RowMessage(row)
         IN  /\ m.type = row.msg /\ m.ref = row.ref /\ m.side = row.side
             /\ m.shares = row.shares /\ m.price = ParsePriceRaw(row.price)
             /\ m.newRef = row.newRef
  BY DEF RowMessage

\* An executed order is the front of its side, and is there no more as it was.
LEMMA ExecutesIs ==
  ASSUME CsvInv, FileOK, NEW k \in 1 .. Len(csv), NEW side, Executes(k, side)
  PROVE  \E o \in shown[k] :
           /\ o \in DisplayedOrder /\ o.ref = csv[k].ref /\ o.side = side
           /\ IsFront(shown[k], o) /\ csv[k].shares \in 1 .. o.rem
           /\ shown[k + 1] = (shown[k] \ {o}) \cup
                (IF o.rem > csv[k].shares THEN {Less(o, csv[k].shares)} ELSE {})
           /\ o \notin shown[k + 1]
           /\ \A x \in shown[k + 1] : Has(shown[k], x.ref)
           /\ Find(shown[k], csv[k].ref) = o
           /\ \A x \in shown[k] : x.ref = csv[k].ref => x = o
<1>1. PICK o \in shown[k] : o.ref = csv[k].ref /\ o.side = side
  BY DEF Executes
<1>2. PICK b, c, m : b = shown[k] /\ c = shown[k + 1] /\ m = RowMessage(csv[k])
  OBVIOUS
<1>3. m.type = csv[k].msg /\ m.ref = csv[k].ref /\ m.shares = csv[k].shares
  BY <1>2, RowMessageIs
<1>4. /\ c = Displayed(b, m) /\ RowFacts(b, m, ShownRefs(k))
      /\ b \in SUBSET DisplayedOrder /\ Unique(b)
  BY <1>2, RowAt DEF RowShown, BookOK
<1>5. m.type \in ExecuteTypes /\ Has(b, m.ref) /\ o \in b /\ o.ref = m.ref
  BY <1>1, <1>2, <1>3 DEF Executes, Has
<1>6. IsFront(b, o) /\ m.shares \in 1 .. o.rem /\ m.shares \in Nat
  BY <1>4, <1>5 DEF RowFacts
<1>7. c = (b \ {o}) \cup (IF o.rem > m.shares THEN {Less(o, m.shares)} ELSE {})
  BY <1>4, <1>5, DisplayedHas
<1>8. o \in DisplayedOrder /\ o.rem \in Nat
  BY <1>4, <1>5 DEF DisplayedOrder
<1>9. o.rem > m.shares => Less(o, m.shares).ref = o.ref /\ Less(o, m.shares) # o
  <2>1. ASSUME o.rem > m.shares
        PROVE  Less(o, m.shares).ref = o.ref /\ Less(o, m.shares).rem = o.rem - m.shares
    BY <1>6, <1>8, <2>1, LessIs
  <2> QED BY <1>6, <1>8, <2>1
<1>10. o \notin c
  BY <1>7, <1>9
<1>11. \A x \in c : Has(b, x.ref)
  BY <1>5, <1>7, <1>9 DEF Has
<1>12. \A x \in b : x.ref = m.ref => x = o
  BY <1>4, <1>5 DEF Unique
<1>13. Find(b, m.ref) = o
  BY <1>5, <1>12 DEF Find
<1> QED BY <1>1, <1>2, <1>3, <1>6, <1>7, <1>8, <1>10, <1>11, <1>12, <1>13

(***************************************************************************)
(* Pass 1.                                                                 *)
(***************************************************************************)
RowShares == [k \in 1 .. Len(csv) |-> csv[k].shares]

\* The rows from i to j that execute orders of a side at a timestamp.
ExecRows(ts, side, i, j) == {k \in i .. j : csv[k].ts = ts /\ Executes(k, side)}

\* The shares of a set of rows.
Quantity(rows) == Cardinality(Units(rows, RowShares))

\* An aggressor of that price accepts the order that row k executes.
Accepts(side, price, k) ==
  \A o \in shown[k] : o.ref = csv[k].ref =>
    IF side = "S" THEN o.price <= price ELSE o.price >= price

\* The aggregate of a timestamp and side after n rows.
Group(ts, side, n) ==
  /\ <<ts, side>> \in DOMAIN aggregates <=> ExecRows(ts, side, 1, n) # {}
  /\ ExecRows(ts, side, 1, n) # {} =>
       /\ aggregates[<<ts, side>>].quantity = Quantity(ExecRows(ts, side, 1, n))
       /\ aggregates[<<ts, side>>].price \in Nat
       /\ \A k \in ExecRows(ts, side, 1, n) : Accepts(side, aggregates[<<ts, side>>].price, k)

\* The aggregates of the first n rows are those of their executions.
GroupsOK(n) == \A ts \in Nat, side \in {"B", "S"} : Group(ts, side, n)

\* f gives the side and price of every order of b.
Covers(f, b) ==
  \A o \in b : o.ref \in DOMAIN f /\ f[o.ref].side = o.side /\ f[o.ref].price = o.price

\* What pass 1 knows covers the displayed book and no order never displayed.
KnownOK == Covers(known, shown[at]) /\ DOMAIN known \subseteq ShownRefs(at)

\* One more row adds its shares.
LEMMA QuantitySplit ==
  ASSUME CsvInv, NEW rows \in SUBSET (1 .. Len(csv)), NEW k \in rows
  PROVE  /\ Quantity(rows \ {k}) \in Nat
         /\ Quantity(rows) = Quantity(rows \ {k}) + csv[k].shares
<1>1. csv \in Seq(CsvRow) /\ Len(csv) \in Nat
  BY LenProperties DEF CsvInv
<1>2. PICK f : f = RowShares
  OBVIOUS
<1>3. \A j \in 1 .. Len(csv) : f[j] \in Nat /\ f[j] = csv[j].shares
  <2>1. ASSUME NEW j \in 1 .. Len(csv) PROVE f[j] \in Nat /\ f[j] = csv[j].shares
    <3>1. csv[j] \in CsvRow
      BY <1>1, ElementOfSeq
    <3> QED BY <1>2, <3>1 DEF CsvRow, RowShares
  <2> QED BY <2>1
<1>4. PICK B \in Nat : \A j \in 1 .. Len(csv) : f[j] \in 0 .. B
  BY <1>1, <1>3, Bounded
<1>5. IsFiniteSet(rows)
  <2>1. PICK n \in Nat : n = Len(csv)
    BY <1>1
  <2>2. IsFiniteSet(1 .. n)
    BY FS_Interval
  <2> QED BY <2>1, <2>2, FS_Subset
<1>6. /\ Cardinality(Units(rows \ {k}, f)) \in Nat
      /\ Cardinality(Units(rows, f)) = Cardinality(Units(rows \ {k}, f)) + f[k]
  BY <1>4, <1>5, UnitsSplit
<1> QED BY <1>2, <1>3, <1>6 DEF Quantity

\* No rows have no shares.
LEMMA QuantityNone == Quantity({}) = 0
<1>1. Units({}, RowShares) = {}
  BY DEF Units
<1> QED BY <1>1, FS_EmptySet DEF Quantity

\* What was displayed up to the next row.
LEMMA ShownRefsNext ==
  ASSUME NEW k \in Nat, k >= 1, NEW ref \in Nat
  PROVE  ref \in ShownRefs(k + 1) <=> ref \in ShownRefs(k) \/ Has(shown[k + 1], ref)
<1>1. \A j : j \in 1 .. k + 1 <=> j \in 1 .. k \/ j = k + 1
  OBVIOUS
<1> QED BY <1>1 DEF ShownRefs

\* The scan of a row keeps what is known in step with the displayed book.
LEMMA ScanKnownOK ==
  ASSUME CsvInv, FileOK, ScanRow, at \in 1 .. Len(csv), KnownOK, Reconstructible(at)
  PROVE  Covers(known', shown[at + 1]) /\ DOMAIN known' \subseteq ShownRefs(at + 1)
<1>1. PICK row, m, b, c : /\ row = csv[at] /\ m = RowMessage(row) /\ b = shown[at]
                          /\ c = shown[at + 1]
  OBVIOUS
<1>2. /\ m.type = row.msg /\ m.ref = row.ref /\ m.side = row.side /\ m.shares = row.shares
      /\ m.price = ParsePriceRaw(row.price) /\ m.newRef = row.newRef
  BY <1>1, RowMessageIs
<1>3. /\ c = Displayed(b, m) /\ RowFacts(b, m, ShownRefs(at)) /\ BookOK(b, MaxMessages)
      /\ BookOK(c, MaxMessages) /\ at \in Nat /\ at >= 1
  BY <1>1, RowAt DEF RowShown
<1>4. /\ b \in SUBSET DisplayedOrder /\ Unique(b) /\ \A x \in b : x.ref \in Nat
      /\ \A x \in c : x.ref \in Nat /\ x \in DisplayedOrder
      /\ m.ref \in Nat /\ m.newRef \in Nat /\ m.price \in Nat /\ m.shares \in Nat
  BY <1>3 DEF BookOK, RowFacts, DisplayedOrder
<1>5. Covers(known, b) /\ DOMAIN known \subseteq ShownRefs(at) /\ ShownRefs(at) \subseteq Nat
  BY <1>1 DEF KnownOK, ShownRefs
<1>6. \A ref \in Nat : ref \in ShownRefs(at + 1) <=> ref \in ShownRefs(at) \/ Has(c, ref)
  BY <1>1, <1>3, ShownRefsNext
<1>7. ScanAdd(row) \/ ScanReplace(row) \/ ScanDelete(row) \/ ScanExecuted(row) \/ ScanOther(row)
  BY <1>1 DEF ScanRow
<1>8. CASE ScanAdd(row)
  <2>1. PICK e : e = [side |-> row.side, price |-> ParsePriceRaw(row.price)]
    OBVIOUS
  <2>2. /\ known' = With(known, m.ref, e) /\ m.type \in AddTypes
        /\ e.side = m.side /\ e.price = m.price
    BY <1>2, <1>8, <2>1 DEF ScanAdd
  <2>3. PICK l : l = NewOrder(m, m.ref, m.side)
    OBVIOUS
  <2>4. /\ c = b \cup {l} /\ m.side \in {"B", "S"} /\ m.shares > 0
        /\ \A x \in b : x.ref < m.ref
    BY <1>3, <2>2, <2>3, DisplayedAdd DEF RowFacts
  <2>5. l.ref = m.ref /\ l.side = m.side /\ l.price = m.price
    BY <1>4, <2>3, <2>4, NewOrderIs
  <2>6. \A x \in b : x.ref # m.ref
    BY <1>4, <2>4
  <2>7. Covers(known', c)
    BY <1>5, <2>2, <2>4, <2>5, <2>6 DEF Covers, With
  <2>8. DOMAIN known' = DOMAIN known \cup {m.ref}
    BY <2>2 DEF With
  <2>9. Has(c, m.ref)
    BY <2>4, <2>5 DEF Has
  <2> QED BY <1>1, <1>4, <1>5, <1>6, <2>7, <2>8, <2>9
<1>9. CASE ScanReplace(row)
  <2>1. m.type = "U" /\ Has(b, m.ref)
    BY <1>1, <1>2, <1>9 DEF ScanReplace, Reconstructible
  <2>2. PICK o \in b : o.ref = m.ref
    BY <2>1 DEF Has
  <2>3. PICK l : l = NewOrder(m, m.newRef, o.side)
    OBVIOUS
  <2>4. /\ c = (b \ {o}) \cup {l} /\ m.shares > 0 /\ \A x \in b : x.ref < m.newRef
    BY <1>3, <1>4, <2>1, <2>2, <2>3, DisplayedHas DEF RowFacts
  <2>5. l.ref = m.newRef /\ l.side = o.side /\ l.price = m.price
    BY <1>4, <2>3, <2>4, NewOrderIs DEF DisplayedOrder
  <2>6. \A x \in b : x.ref # m.newRef
    BY <1>4, <2>4
  <2>7. \A x \in b \ {o} : x.ref # m.ref
    BY <1>4, <2>2 DEF Unique
  <2>8. KnownSide(row.ref) = o.side
    BY <1>2, <1>5, <2>2 DEF KnownSide, Covers
  <2>9. PICK e : e = [side |-> KnownSide(row.ref), price |-> ParsePriceRaw(row.price)]
    OBVIOUS
  <2>10. PICK f : f = Without(known, m.ref)
    OBVIOUS
  <2>11. known' = With(f, m.newRef, e) /\ e.side = o.side /\ e.price = m.price
    BY <1>2, <1>9, <2>8, <2>9, <2>10 DEF ScanReplace
  <2>12. Covers(f, b \ {o}) /\ DOMAIN f \subseteq DOMAIN known
    BY <1>5, <2>7, <2>10 DEF Covers, Without
  <2>13. Covers(known', c)
    BY <2>4, <2>5, <2>6, <2>11, <2>12 DEF Covers, With
  <2>14. DOMAIN known' = DOMAIN f \cup {m.newRef}
    BY <2>11 DEF With
  <2>15. Has(c, m.newRef)
    BY <2>4, <2>5 DEF Has
  <2> QED BY <1>1, <1>4, <1>5, <1>6, <2>12, <2>13, <2>14, <2>15
<1>10. CASE ScanDelete(row)
  <2>1. known' = Without(known, m.ref) /\ m.type = "D"
    BY <1>2, <1>10 DEF ScanDelete
  <2>2. c \subseteq b /\ \A x \in c : x.ref # m.ref
    <3>1. CASE Has(b, m.ref)
      <4>1. PICK o \in b : o.ref = m.ref
        BY <3>1 DEF Has
      <4>2. c = b \ {o}
        BY <1>3, <1>4, <2>1, <4>1, DisplayedHas
      <4> QED BY <1>4, <4>1, <4>2 DEF Unique
    <3>2. CASE ~Has(b, m.ref)
      <4>1. \A x \in b : x.ref # m.ref
        BY <3>2 DEF Has
      <4>2. c = b
        BY <1>3, <2>1, <4>1, DisplayedHasNot DEF AddTypes
      <4> QED BY <4>1, <4>2
    <3> QED BY <3>1, <3>2
  <2>3. Covers(known', c) /\ DOMAIN known' \subseteq DOMAIN known
    BY <1>5, <2>1, <2>2 DEF Covers, Without
  <2> QED BY <1>1, <1>5, <1>6, <2>3
<1>11. CASE ScanExecuted(row) \/ ScanOther(row)
  <2>1. known' = known /\ m.type \notin AddTypes \cup {"U", "D"}
    BY <1>2, <1>11 DEF ScanExecuted, ScanOther, scanVars, AddTypes, ExecuteTypes
  <2>2. \A x \in c : \E y \in b : x.ref = y.ref /\ x.side = y.side /\ x.price = y.price
    <3>1. CASE Has(b, m.ref) /\ m.type \in ExecuteTypes \cup {"X"}
      <4>1. PICK o \in b : o.ref = m.ref
        BY <3>1 DEF Has
      <4>2. c = (b \ {o}) \cup (IF o.rem > m.shares THEN {Less(o, m.shares)} ELSE {})
        BY <1>3, <1>4, <3>1, <4>1, DisplayedHas
      <4>3. PICK l : l = Less(o, m.shares)
        OBVIOUS
      <4>4. o.rem > m.shares => l.ref = o.ref /\ l.side = o.side /\ l.price = o.price
        BY <1>4, <4>3, LessIs DEF DisplayedOrder
      <4> QED BY <4>2, <4>3, <4>4
    <3>2. CASE ~Has(b, m.ref)
      <4>1. \A x \in b : x.ref # m.ref
        BY <3>2 DEF Has
      <4>2. c = b
        BY <1>3, <2>1, <4>1, DisplayedHasNot
      <4> QED BY <4>2
    <3>3. CASE m.type \notin ExecuteTypes \cup {"X"}
      <4>1. m.type \notin BookTypes
        BY <2>1, <3>3 DEF BookTypes
      <4>2. c = b
        BY <1>3, <4>1, DisplayedAdd
      <4> QED BY <4>2
    <3> QED BY <3>1, <3>2, <3>3
  <2>3. Covers(known', c)
    BY <1>5, <2>1, <2>2 DEF Covers
  <2> QED BY <1>1, <1>5, <1>6, <2>1, <2>3
<1> QED BY <1>7, <1>8, <1>9, <1>10, <1>11

\* A row that is executed by an aggressor accepts the worse price too.
LEMMA AcceptsMore ==
  ASSUME CsvInv, FileOK, NEW k \in 1 .. Len(csv), NEW side, NEW p \in Nat, NEW q \in Nat,
         Accepts(side, p, k), IF side = "S" THEN p <= q ELSE p >= q
  PROVE  Accepts(side, q, k)
<1>1. \A o \in shown[k] : o.price \in Nat
  BY RowAt DEF BookOK, DisplayedOrder
<1> QED BY <1>1 DEF Accepts

\* Pass 1 finds the row of an execution, with a price that accepts the order.
LEMMA ScanExecutedIs ==
  ASSUME CsvInv, FileOK, at \in 1 .. Len(csv), KnownOK, Reconstructible(at),
         NEW side \in {"B", "S"}, Executes(at, side)
  PROVE  LET row == csv[at]
             price == IF row.msg = "C" THEN ParsePriceRaw(row.price) ELSE known[row.ref].price
         IN  /\ row.msg \in ExecuteTypes /\ row.ref \in DOMAIN known
             /\ known[row.ref].side = side
             /\ price \in Nat /\ Accepts(side, price, at) /\ row.shares \in Nat
<1>1. PICK row, m : row = csv[at] /\ m = RowMessage(row)
  OBVIOUS
<1>2. m.price = ParsePriceRaw(row.price) /\ m.shares = row.shares
  BY <1>1, RowMessageIs
<1>3. RowFacts(shown[at], m, ShownRefs(at))
  BY <1>1, RowAt DEF RowShown
<1>4. PICK o \in shown[at] :
        /\ o \in DisplayedOrder /\ o.ref = row.ref /\ o.side = side
        /\ Find(shown[at], row.ref) = o
        /\ \A x \in shown[at] : x.ref = row.ref => x = o
  BY <1>1, ExecutesIs
<1>5. row.msg \in ExecuteTypes
  BY <1>1 DEF Executes
<1>6. row.ref \in DOMAIN known /\ known[row.ref].side = side /\ known[row.ref].price = o.price
  BY <1>4 DEF KnownOK, Covers
<1>7. o.price \in Nat /\ m.price \in Nat /\ m.shares \in Nat
  BY <1>3, <1>4 DEF DisplayedOrder, RowFacts
<1>8. PICK price : price = IF row.msg = "C" THEN ParsePriceRaw(row.price) ELSE known[row.ref].price
  OBVIOUS
<1>9. price \in Nat
  BY <1>2, <1>6, <1>7, <1>8
<1>10. IF side = "S" THEN o.price <= price ELSE o.price >= price
  <2>1. CASE row.msg = "C"
    <3>1. IF side = "S" THEN m.price >= o.price ELSE m.price <= o.price
      BY <1>1, <1>2, <1>4, <2>1 DEF Reconstructible
    <3> QED BY <1>2, <1>7, <1>8, <2>1, <3>1
  <2>2. CASE row.msg # "C"
    BY <1>6, <1>7, <1>8, <2>2
  <2> QED BY <2>1, <2>2
<1>11. Accepts(side, price, at)
  BY <1>1, <1>4, <1>10 DEF Accepts
<1> QED BY <1>1, <1>2, <1>5, <1>6, <1>7, <1>8, <1>9, <1>11

\* An execution that pass 1 takes executes a displayed order.
LEMMA ScanExecutedOnly ==
  ASSUME CsvInv, FileOK, at \in 1 .. Len(csv), KnownOK,
         csv[at].msg \in ExecuteTypes, csv[at].ref \in DOMAIN known
  PROVE  Executes(at, known[csv[at].ref].side)
<1>1. PICK m : m = RowMessage(csv[at])
  OBVIOUS
<1>2. m.type = csv[at].msg /\ m.ref = csv[at].ref
  BY <1>1, RowMessageIs
<1>3. RowFacts(shown[at], m, ShownRefs(at))
  BY <1>1, RowAt DEF RowShown
<1>4. m.ref \in ShownRefs(at)
  BY <1>2 DEF KnownOK
<1>5. Has(shown[at], m.ref)
  BY <1>2, <1>3, <1>4 DEF RowFacts
<1> QED BY <1>2, <1>5 DEF Has, Executes, KnownOK, Covers

\* The scan of a row keeps the groups in step with the executions.
LEMMA ScanGroupsOK ==
  ASSUME CsvInv, FileOK, ScanRow, at \in 1 .. Len(csv), KnownOK, Reconstructible(at),
         NEW n, n = at, GroupsOK(n - 1)
  PROVE  GroupsOK(n)'
<1>1. UNCHANGED <<csv, shown>> /\ n \in Nat /\ n >= 1 /\ Len(csv) \in Nat /\ n \in 1 .. Len(csv)
  BY RowAt DEF ScanRow, csvVars
<1>2. PICK row : row = csv[n]
  OBVIOUS
<1>3. row.ts \in Nat
  BY <1>2, RowAt
<1>4. ScanAdd(row) \/ ScanReplace(row) \/ ScanDelete(row) \/ ScanExecuted(row) \/ ScanOther(row)
  BY <1>2 DEF ScanRow
<1>5. ASSUME NEW ts \in Nat, NEW side \in {"B", "S"}
      PROVE  Group(ts, side, n)'
  <2>1. PICK old, rows : old = ExecRows(ts, side, 1, n - 1) /\ rows = ExecRows(ts, side, 1, n)
    OBVIOUS
  <2>2. PICK key : key = <<ts, side>>
    OBVIOUS
  <2>3. /\ key \in DOMAIN aggregates <=> old # {}
        /\ old # {} => /\ aggregates[key].quantity = Quantity(old)
                       /\ aggregates[key].price \in Nat
                       /\ \A k \in old : Accepts(side, aggregates[key].price, k)
    BY <2>1, <2>2 DEF GroupsOK, Group
  <2>4. old \subseteq 1 .. Len(csv) /\ rows \subseteq 1 .. Len(csv) /\ n \notin old
    BY <1>1, <2>1 DEF ExecRows
  <2>5. \A k : k \in rows <=> k \in old \/ (k = n /\ csv[n].ts = ts /\ Executes(n, side))
    <3>1. \A k : k \in 1 .. n <=> k \in 1 .. n - 1 \/ k = n
      BY <1>1
    <3> QED BY <2>1, <3>1 DEF ExecRows
  <2>6. /\ ExecRows(ts, side, 1, n)' = rows
        /\ Quantity(rows)' = Quantity(rows)
        /\ \A p, k : Accepts(side, p, k)' <=> Accepts(side, p, k)
    <3>1. ExecRows(ts, side, 1, n)' = ExecRows(ts, side, 1, n)
      BY <1>1 DEF ExecRows, Executes
    <3>2. Quantity(rows)' = Quantity(rows)
      BY <1>1 DEF Quantity, RowShares
    <3>3. \A p, k : Accepts(side, p, k)' <=> Accepts(side, p, k)
      BY <1>1 DEF Accepts
    <3> QED BY <2>1, <3>1, <3>2, <3>3
  <2>7. ASSUME key \in DOMAIN aggregates' <=> rows # {},
               rows # {} => /\ aggregates'[key].quantity = Quantity(rows)
                            /\ aggregates'[key].price \in Nat
                            /\ \A k \in rows : Accepts(side, aggregates'[key].price, k)
        PROVE  Group(ts, side, n)'
    BY <2>2, <2>6, <2>7 DEF Group
  <2>8. CASE row.ts = ts /\ Executes(n, side)
    <3>1. PICK p : p = IF row.msg = "C" THEN ParsePriceRaw(row.price) ELSE known[row.ref].price
      OBVIOUS
    <3>2. /\ row.msg \in ExecuteTypes /\ row.ref \in DOMAIN known
          /\ known[row.ref].side = side
          /\ p \in Nat /\ Accepts(side, p, n) /\ row.shares \in Nat
      BY <1>2, <2>8, <3>1, ScanExecutedIs
    <3>3. ScanExecuted(row)
      BY <1>4, <3>2 DEF ScanAdd, ScanReplace, ScanDelete, ScanOther, AddTypes, ExecuteTypes
    <3>4. PICK v : v = IF key \in DOMAIN aggregates
             THEN [quantity |-> aggregates[key].quantity + row.shares,
                   price |-> Worst(side, aggregates[key].price, p)]
             ELSE [quantity |-> row.shares, price |-> p]
      OBVIOUS
    <3>5. aggregates' = With(aggregates, key, v)
      BY <2>2, <2>8, <3>1, <3>2, <3>3, <3>4 DEF ScanExecuted
    <3>6. key \in DOMAIN aggregates' /\ aggregates'[key] = v
      BY <3>5 DEF With
    <3>7. rows = old \cup {n} /\ n \in rows /\ rows \ {n} = old
      BY <1>2, <2>4, <2>5, <2>8
    <3>8. Quantity(old) \in Nat /\ Quantity(rows) = Quantity(old) + row.shares
      BY <1>2, <2>4, <3>7, QuantitySplit
    <3>9. CASE old = {}
      <4>1. v.quantity = row.shares /\ v.price = p
        BY <2>3, <3>4, <3>9
      <4>2. Quantity(rows) = row.shares
        BY <3>2, <3>8, <3>9, QuantityNone
      <4>3. \A k \in rows : k = n
        BY <3>7, <3>9
      <4> QED BY <2>7, <3>2, <3>6, <3>7, <4>1, <4>2, <4>3
    <3>10. CASE old # {}
      <4>1. PICK a \in Nat : a = aggregates[key].price /\ \A k \in old : Accepts(side, a, k)
        BY <2>3, <3>10
      <4>2. v.quantity = aggregates[key].quantity + row.shares /\ v.price = Worst(side, a, p)
        BY <2>3, <3>4, <3>10, <4>1
      <4>3. PICK q \in Nat : /\ q = Worst(side, a, p)
                             /\ IF side = "S" THEN a <= q /\ p <= q ELSE a >= q /\ p >= q
        BY <3>2, <4>1 DEF Worst
      <4>4. \A k \in rows : Accepts(side, q, k)
        <5>1. ASSUME NEW k \in rows PROVE Accepts(side, q, k)
          <6>1. k \in 1 .. Len(csv)
            BY <2>4
          <6>2. CASE k = n
            BY <3>2, <4>3, <6>1, <6>2, AcceptsMore
          <6>3. CASE k \in old
            BY <4>1, <4>3, <6>1, <6>3, AcceptsMore
          <6> QED BY <3>7, <6>2, <6>3
        <5> QED BY <5>1
      <4>5. v.quantity = Quantity(rows)
        BY <2>3, <3>8, <3>10, <4>2
      <4> QED BY <2>7, <3>6, <3>7, <4>2, <4>3, <4>4, <4>5
    <3> QED BY <3>9, <3>10
  <2>9. CASE ~(row.ts = ts /\ Executes(n, side))
    <3>1. rows = old
      BY <1>2, <2>5, <2>9
    <3>2. /\ key \in DOMAIN aggregates' <=> key \in DOMAIN aggregates
          /\ key \in DOMAIN aggregates => aggregates'[key] = aggregates[key]
      <4>1. CASE ScanExecuted(row)
        <5>1. PICK s : s = known[row.ref].side
          OBVIOUS
        <5>2. Executes(n, s)
          BY <1>2, <4>1, <5>1, ScanExecutedOnly DEF ScanExecuted
        <5>3. PICK v : aggregates' = With(aggregates, <<row.ts, s>>, v)
          BY <4>1, <5>1 DEF ScanExecuted
        <5>4. PICK other : other = <<row.ts, s>>
          OBVIOUS
        <5>5. other # key
          BY <2>2, <2>9, <5>2, <5>4
        <5> QED BY <5>3, <5>4, <5>5 DEF With
      <4>2. CASE UNCHANGED aggregates
        BY <4>2
      <4> QED BY <1>4, <4>1, <4>2 DEF ScanAdd, ScanReplace, ScanDelete, ScanOther, scanVars
    <3> QED BY <2>3, <2>7, <3>1, <3>2
  <2> QED BY <1>2, <2>8, <2>9
<1> QED BY <1>5 DEF GroupsOK

(***************************************************************************)
(* The engine.                                                             *)
(***************************************************************************)
Incoming == [ref : Nat, side : {"B", "S"}, price : Nat, rem : Nat]

\* An order with n shares left.
Having(x, n) == [x EXCEPT !.rem = n]

\* Arrival stamps are in the order of the references.
Ordered(b) == \A x, y \in b : arrived[x.ref] < arrived[y.ref] <=> x.ref < y.ref

\* The orders that o takes before x.
Ahead(b, o, x) == {y \in Acceptable(b, o) : ServedFirst(y, x)}

\* What is left of an order of r shares behind those ahead, for o shares.
LeftOf(r, ahead, o) == IF o <= ahead THEN r ELSE r - Least(r, o - ahead)

\* The orders of the book after o.
LEMMA SubmittedHas ==
  ASSUME NEW b, NEW o, NEW z
  PROVE  z \in Submitted(b, o) <=>
           \/ z \in b /\ z \notin Acceptable(b, o)
           \/ \E x \in Acceptable(b, o) :
                LeftOf(x.rem, Shares(Ahead(b, o, x)), o.rem) > 0
                  /\ z = Having(x, LeftOf(x.rem, Shares(Ahead(b, o, x)), o.rem))
           \/ Shares(Acceptable(b, o)) < o.rem
                /\ z = Having(o, o.rem - Shares(Acceptable(b, o)))
<1>1. PICK A : A = Acceptable(b, o)
  OBVIOUS
<1>2. \A x : Left(b, o, x) = LeftOf(x.rem, Shares(Ahead(b, o, x)), o.rem)
  BY Zenon DEF Left, LeftOf, Ahead
<1>3. [o EXCEPT !.rem = @ - Shares(A)] = Having(o, o.rem - Shares(A))
  BY DEF Having
<1>4. Submitted(b, o) =
        (b \ A) \cup {Having(x, Left(b, o, x)) : x \in {y \in A : Left(b, o, y) > 0}}
                 \cup IF Shares(A) < o.rem THEN {Having(o, o.rem - Shares(A))} ELSE {}
  BY <1>1, <1>3, Zenon DEF Submitted, Having
<1>5. z \in Submitted(b, o) <=>
           \/ z \in b /\ z \notin A
           \/ \E x \in A : Left(b, o, x) > 0 /\ z = Having(x, Left(b, o, x))
           \/ Shares(A) < o.rem /\ z = Having(o, o.rem - Shares(A))
  BY <1>4, Zenon
<1> QED BY <1>1, <1>2, <1>5, Zenon

\* An order without shares does nothing.
LEMMA SubmitNone ==
  ASSUME NEW N, NEW b, BookOK(b, N), NEW o \in Incoming, o.rem = 0
  PROVE  Submitted(b, o) = b
<1>1. PICK A : A = Acceptable(b, o)
  OBVIOUS
<1>2. A \subseteq b /\ b \in SUBSET DisplayedOrder /\ IsFiniteSet(b)
  BY <1>1 DEF Acceptable, BookOK
<1>3. ASSUME NEW T, T \subseteq b PROVE Shares(T) \in Nat
  <2>1. IsFiniteSet(T)
    BY <1>2, <1>3, FS_Subset
  <2>2. \A x \in T : x.rem \in Nat
    BY <1>2, <1>3 DEF DisplayedOrder
  <2> QED BY <2>1, <2>2, SharesNat
<1>4. ASSUME NEW x \in A
      PROVE  LeftOf(x.rem, Shares(Ahead(b, o, x)), o.rem) = x.rem /\ x.rem > 0
             /\ Having(x, x.rem) = x
  <2>1. Shares(Ahead(b, o, x)) \in Nat
    <3>1. Ahead(b, o, x) \subseteq b
      BY DEF Ahead, Acceptable
    <3> QED BY <1>3, <3>1
  <2>2. x.rem \in Nat \ {0} /\ x \in DisplayedOrder
    BY <1>2 DEF DisplayedOrder
  <2>3. Having(x, x.rem) = x
    BY <2>2 DEF Having, DisplayedOrder
  <2> QED BY <2>1, <2>2, <2>3 DEF LeftOf
<1>5. ~(Shares(A) < o.rem)
  <2>1. Shares(A) \in Nat
    BY <1>2, <1>3
  <2> QED BY <2>1
<1>6. ASSUME NEW z PROVE z \in Submitted(b, o) <=> z \in b
  BY <1>1, <1>2, <1>4, <1>5, SubmittedHas
<1> QED BY <1>6

\* An order that finds no counterpart rests.
LEMMA SubmitPassive ==
  ASSUME NEW b, NEW o \in Incoming, o.rem > 0, Acceptable(b, o) = {}
  PROVE  Submitted(b, o) = b \cup {o}
<1>1. Shares(Acceptable(b, o)) = 0
  BY SharesNone
<1>2. Having(o, o.rem - 0) = o /\ o.rem \in Nat
  BY DEF Having, Incoming
<1>3. ASSUME NEW z PROVE z \in Submitted(b, o) <=> z \in b \/ z = o
  BY <1>1, <1>2, SubmittedHas
<1> QED BY <1>3

\* The shares ahead, when one of the orders ahead gave up e of them.
LEMMA SharesLess ==
  ASSUME NEW F, IsFiniteSet(F), \A x \in F : x.rem \in Nat, NEW y, y \notin F, y.rem \in Nat,
         NEW e \in 1 .. y.rem, NEW l, l \notin F, l.rem = y.rem - e,
         NEW G, G = F \cup (IF y.rem > e THEN {l} ELSE {})
  PROVE  Shares(F \cup {y}) \in Nat /\ Shares(G) = Shares(F \cup {y}) - e
<1>1. Shares(F) \in Nat
  BY SharesNat
<1>2. Shares(F \cup {y}) = Shares(F) + y.rem
  <2>1. PICK S : S = F \cup {y}
    OBVIOUS
  <2>2. IsFiniteSet(S) /\ y \in S /\ S \ {y} = F /\ \A x \in S : x.rem \in Nat
    BY <2>1, FS_AddElement
  <2> QED BY <2>1, <2>2, SharesSplit
<1>3. CASE y.rem > e
  <2>1. IsFiniteSet(G) /\ l \in G /\ G \ {l} = F /\ \A x \in G : x.rem \in Nat
    BY <1>3, FS_AddElement
  <2>2. Shares(G) = Shares(F) + l.rem
    BY <2>1, SharesSplit
  <2> QED BY <1>1, <1>2, <1>3, <2>2
<1>4. CASE ~(y.rem > e)
  <2>1. G = F /\ y.rem = e
    BY <1>4
  <2> QED BY <1>1, <1>2, <2>1
<1> QED BY <1>3, <1>4

\* Taking e of the shares of the front first makes no difference.
LEMMA LeftOfFront ==
  ASSUME NEW r \in Nat, NEW q \in Nat, NEW e \in 1 .. r, e <= q
  PROVE  /\ r > e => LeftOf(r - e, 0, q - e) = LeftOf(r, 0, q)
         /\ r = e => LeftOf(r, 0, q) = 0
  BY DEF LeftOf, Least

\* Nor does it to the orders behind.
LEMMA LeftOfRest ==
  ASSUME NEW r \in Nat, NEW q \in Nat, NEW a \in Nat, NEW e \in Nat, e <= q, e <= a
  PROVE  LeftOf(r, a - e, q - e) = LeftOf(r, a, q)
  BY DEF LeftOf, Least

\* The same, with the acceptable orders named.
LEMMA SubmittedHasOf ==
  ASSUME NEW b, NEW o, NEW A, A = Acceptable(b, o), NEW z
  PROVE  z \in Submitted(b, o) <=>
           \/ z \in b /\ z \notin A
           \/ \E x \in A : /\ LeftOf(x.rem, Shares(Ahead(b, o, x)), o.rem) > 0
                          /\ z = Having(x, LeftOf(x.rem, Shares(Ahead(b, o, x)), o.rem))
           \/ Shares(A) < o.rem /\ z = Having(o, o.rem - Shares(A))
  BY SubmittedHas

\* An aggressor that takes its first e shares from the front of the book does
\* what one of e shares less does to the book without them.
LEMMA SubmitExecuted ==
  ASSUME NEW N, NEW b, BookOK(b, N), Ordered(b), NEW o \in Incoming,
         NEW y \in b, y.side # o.side, IsFront(b, y),
         IF o.side = "B" THEN y.price <= o.price ELSE y.price >= o.price,
         NEW e \in 1 .. y.rem, e <= o.rem,
         NEW c, c = (b \ {y}) \cup (IF y.rem > e THEN {Less(y, e)} ELSE {}),
         NEW p, p = Less(o, e)
  PROVE  Submitted(b, o) = Submitted(c, p)
<1>1. /\ b \in SUBSET DisplayedOrder /\ IsFiniteSet(b) /\ Unique(b)
      /\ y \in DisplayedOrder /\ y.rem \in Nat \ {0} /\ e \in Nat /\ e >= 1
      /\ o.rem \in Nat /\ o.side \in {"B", "S"} /\ y.side \in {"B", "S"}
      /\ y.price \in Nat /\ o.price \in Nat /\ e <= y.rem
  BY DEF BookOK, DisplayedOrder, Incoming
<1>2. /\ p \in Incoming /\ p.ref = o.ref /\ p.side = o.side /\ p.price = o.price
      /\ p.rem = o.rem - e
  BY <1>1 DEF Less, Incoming
<1>3. PICK l : l = Less(y, e)
  OBVIOUS
<1>4. l.ref = y.ref /\ l.side = y.side /\ l.price = y.price /\ l.rem = y.rem - e
  BY <1>1, <1>3 DEF Less, DisplayedOrder
<1>5. c = (b \ {y}) \cup (IF y.rem > e THEN {l} ELSE {})
  BY <1>3
<1>6. PICK A, R, C : A = Acceptable(b, o) /\ R = A \ {y} /\ C = Acceptable(c, p)
  OBVIOUS
<1>7. A \subseteq b /\ y \in A /\ R \subseteq b /\ A = R \cup {y}
  BY <1>1, <1>6 DEF Acceptable
<1>8. \A x \in R : x # y /\ x.ref # y.ref /\ x.ref # l.ref /\ x # l /\ x.side = y.side
                     /\ x.rem \in Nat \ {0} /\ x.price \in Nat /\ x \in DisplayedOrder
  <2>1. ASSUME NEW x \in R PROVE x.side = y.side
    <3>1. x.side # o.side /\ x.side \in {"B", "S"}
      BY <1>1, <1>6, <1>7 DEF Acceptable, DisplayedOrder
    <3> QED BY <1>1, <3>1
  <2> QED BY <1>1, <1>4, <1>6, <1>7, <2>1 DEF Unique, DisplayedOrder
<1>9. C = R \cup (IF y.rem > e THEN {l} ELSE {})
  <2>1. ASSUME NEW x PROVE x \in C <=> x \in R \/ (y.rem > e /\ x = l)
    <3>1. x \in C <=> x \in c /\ x.side # o.side
                        /\ IF o.side = "B" THEN x.price <= o.price ELSE x.price >= o.price
      BY <1>2, <1>6 DEF Acceptable
    <3>2. x \in A <=> x \in b /\ x.side # o.side
                        /\ IF o.side = "B" THEN x.price <= o.price ELSE x.price >= o.price
      BY <1>6 DEF Acceptable
    <3>3. x = l => x.side # o.side
                     /\ IF o.side = "B" THEN x.price <= o.price ELSE x.price >= o.price
      BY <1>4
    <3> QED BY <1>5, <1>6, <3>1, <3>2, <3>3
  <2> QED BY <2>1
<1>10. \A x \in R : /\ ServedFirst(y, x) /\ ServedFirst(l, x)
                    /\ ~ServedFirst(x, y) /\ ~ServedFirst(x, l)
  <2>1. ASSUME NEW x \in R
        PROVE  ServedFirst(y, x) /\ ServedFirst(l, x) /\ ~ServedFirst(x, y) /\ ~ServedFirst(x, l)
    <3>1. HasPriority(y, x)
      BY <1>7, <1>8 DEF IsFront
    <3>2. /\ arrived[y.ref] < arrived[x.ref] <=> y.ref < x.ref
          /\ arrived[x.ref] < arrived[y.ref] <=> x.ref < y.ref
      BY <1>7 DEF Ordered
    <3>3. y.ref \in Nat /\ x.ref \in Nat /\ y.price \in Nat /\ x.price \in Nat
      BY <1>1, <1>8 DEF DisplayedOrder
    <3>4. x.side = y.side
      BY <1>8
    <3> QED BY <1>1, <1>4, <3>1, <3>2, <3>3, <3>4 DEF HasPriority, ServedFirst
  <2> QED BY <2>1
<1>11. ~ServedFirst(y, y) /\ ~ServedFirst(l, l)
  <2>1. ~(arrived[y.ref] < arrived[y.ref])
    <3>1. y.ref \in Nat
      BY <1>1 DEF DisplayedOrder
    <3>2. ~(y.ref < y.ref)
      BY <3>1
    <3> QED BY <3>2 DEF Ordered
  <2> QED BY <1>1, <1>4, <2>1 DEF ServedFirst
<1>12. ASSUME NEW F, F \subseteq R
       PROVE  IsFiniteSet(F) /\ (\A x \in F : x.rem \in Nat) /\ y \notin F /\ l \notin F
  <2>1. F \in SUBSET b
    BY <1>7, <1>12
  <2>2. IsFiniteSet(F)
    BY <1>1, <2>1, FS_Subset
  <2> QED BY <1>8, <1>12, <2>2
<1>13. ASSUME NEW x \in R
       PROVE  LeftOf(x.rem, Shares(Ahead(c, p, x)), p.rem) =
                LeftOf(x.rem, Shares(Ahead(b, o, x)), o.rem)
  <2>1. PICK F : F = {z \in R : ServedFirst(z, x)}
    OBVIOUS
  <2>2. Ahead(b, o, x) = F \cup {y}
    BY <1>6, <1>7, <1>10, <2>1 DEF Ahead
  <2>3. PICK G : G = Ahead(c, p, x)
    OBVIOUS
  <2>4. G = F \cup (IF y.rem > e THEN {l} ELSE {})
    BY <1>6, <1>9, <1>10, <2>1, <2>3 DEF Ahead
  <2>5. IsFiniteSet(F) /\ (\A z \in F : z.rem \in Nat) /\ y \notin F /\ l \notin F
    BY <1>12, <2>1
  <2>6. Shares(F \cup {y}) \in Nat /\ Shares(G) = Shares(F \cup {y}) - e
    BY <1>1, <1>4, <2>4, <2>5, SharesLess
  <2>7. e <= Shares(F \cup {y})
    <3>1. PICK S : S = F \cup {y}
      OBVIOUS
    <3>2. IsFiniteSet(S) /\ y \in S /\ \A z \in S : z.rem \in Nat
      BY <1>1, <2>5, <3>1, FS_AddElement
    <3>3. Shares(S) = Shares(S \ {y}) + y.rem /\ Shares(S \ {y}) \in Nat
      BY <3>2, SharesSplit
    <3> QED BY <1>1, <3>1, <3>3
  <2>8. PICK a \in Nat : a = Shares(F \cup {y})
    BY <2>6
  <2>9. LeftOf(x.rem, a - e, o.rem - e) = LeftOf(x.rem, a, o.rem)
    BY <1>1, <1>8, <2>7, <2>8, LeftOfRest
  <2> QED BY <1>2, <2>2, <2>3, <2>6, <2>8, <2>9
<1>14. /\ LeftOf(y.rem, Shares(Ahead(b, o, y)), o.rem) = LeftOf(y.rem, 0, o.rem)
       /\ y.rem > e => LeftOf(l.rem, Shares(Ahead(c, p, l)), p.rem) = LeftOf(y.rem, 0, o.rem)
       /\ y.rem = e => LeftOf(y.rem, 0, o.rem) = 0
  <2>1. Ahead(b, o, y) = {}
    BY <1>6, <1>7, <1>10, <1>11 DEF Ahead
  <2>2. Ahead(c, p, l) = {}
    BY <1>6, <1>9, <1>10, <1>11 DEF Ahead
  <2>3. /\ y.rem > e => LeftOf(y.rem - e, 0, o.rem - e) = LeftOf(y.rem, 0, o.rem)
        /\ y.rem = e => LeftOf(y.rem, 0, o.rem) = 0
    BY <1>1, LeftOfFront
  <2> QED BY <1>2, <1>4, <2>1, <2>2, <2>3, SharesNone
<1>15. \A n : Having(l, n) = Having(y, n) /\ Having(p, n) = Having(o, n)
  BY <1>1, <1>3 DEF Having, Less, DisplayedOrder, Incoming
<1>16. Shares(A) \in Nat /\ Shares(C) = Shares(A) - e
  BY <1>1, <1>4, <1>7, <1>9, <1>12, SharesLess
<1>17. \A z : (z \in b /\ z \notin A) <=> (z \in c /\ z \notin C)
  <2>1. \A z \in b : z = l => z = y
    BY <1>1, <1>4 DEF Unique
  <2> QED BY <1>5, <1>7, <1>9, <2>1
<1>18. ASSUME NEW z
       PROVE  (\E x \in A : /\ LeftOf(x.rem, Shares(Ahead(b, o, x)), o.rem) > 0
                            /\ z = Having(x, LeftOf(x.rem, Shares(Ahead(b, o, x)), o.rem))) <=>
              (\E x \in C : /\ LeftOf(x.rem, Shares(Ahead(c, p, x)), p.rem) > 0
                            /\ z = Having(x, LeftOf(x.rem, Shares(Ahead(c, p, x)), p.rem)))
  <2> DEFINE InB(x) == /\ LeftOf(x.rem, Shares(Ahead(b, o, x)), o.rem) > 0
                       /\ z = Having(x, LeftOf(x.rem, Shares(Ahead(b, o, x)), o.rem))
             InC(x) == /\ LeftOf(x.rem, Shares(Ahead(c, p, x)), p.rem) > 0
                       /\ z = Having(x, LeftOf(x.rem, Shares(Ahead(c, p, x)), p.rem))
  <2>1. \A x \in R : InB(x) <=> InC(x)
    BY <1>13
  <2>2. y.rem > e => (InB(y) <=> InC(l))
    BY <1>14, <1>15
  <2>3. ~(y.rem > e) => ~InB(y)
    <3>1. ~(y.rem > e) => y.rem = e
      BY <1>1
    <3> QED BY <1>14, <3>1
  <2> HIDE DEF InB, InC
  <2>4. (\E x \in A : InB(x)) <=> (\E x \in C : InC(x))
    BY <1>7, <1>9, <2>1, <2>2, <2>3
  <2> QED BY <2>4 DEF InB, InC
<1>19. ASSUME NEW z
       PROVE  (Shares(A) < o.rem /\ z = Having(o, o.rem - Shares(A))) <=>
              (Shares(C) < p.rem /\ z = Having(p, p.rem - Shares(C)))
  <2>1. PICK a \in Nat : a = Shares(A)
    BY <1>16
  <2>2. o.rem - a = (o.rem - e) - (a - e) /\ (a < o.rem <=> a - e < o.rem - e)
    BY <1>1, <2>1
  <2> QED BY <1>2, <1>15, <1>16, <2>1, <2>2
<1>20. ASSUME NEW z PROVE z \in Submitted(b, o) <=> z \in Submitted(c, p)
  <2> DEFINE Rest(d, D) == z \in d /\ z \notin D
             Some(d, q, D) == \E x \in D :
               /\ LeftOf(x.rem, Shares(Ahead(d, q, x)), q.rem) > 0
               /\ z = Having(x, LeftOf(x.rem, Shares(Ahead(d, q, x)), q.rem))
             Added(q, D) == Shares(D) < q.rem /\ z = Having(q, q.rem - Shares(D))
  <2>1. \A d, q, D : D = Acceptable(d, q) =>
          (z \in Submitted(d, q) <=> Rest(d, D) \/ Some(d, q, D) \/ Added(q, D))
    BY SubmittedHasOf
  <2>2. (Rest(b, A) <=> Rest(c, C)) /\ (Some(b, o, A) <=> Some(c, p, C))
          /\ (Added(o, A) <=> Added(p, C))
    BY <1>17, <1>18, <1>19
  <2> HIDE DEF Rest, Some, Added
  <2> QED BY <1>6, <2>1, <2>2
<1> QED BY <1>20

(***************************************************************************)
(* Pass 2.                                                                 *)
(***************************************************************************)
Quiet(j) == shown[j + 1] # shown[j] => \E side \in {"B", "S"} : Executes(j, side)

\* The replay is at a row whose timestamp's executions, up to row k, are done.
Reached(k) ==
  /\ book = shown[k]
  /\ \A j \in at .. k - 1 :
       /\ Quiet(j) /\ csv[j].ts = csv[k - 1].ts
       /\ \A x \in book : Has(shown[j], x.ref)
  /\ stage # "inject" /\ k > at => at > 1 /\ csv[at - 1].ts = csv[k - 1].ts
  /\ \A j \in k .. Len(csv), side \in {"B", "S"} :
       Executes(j, side) => csv[j].ts \in DOMAIN aggressorsByTs

\* The group of the row's timestamp is about to be injected.
Ready ==
  /\ book = shown[at] /\ injecting = Aggressors(csv[at].ts)
  /\ \A j \in 1 .. at - 1 : csv[j].ts # csv[at].ts
  /\ \A j \in at .. Len(csv), side \in {"B", "S"} :
       Executes(j, side) => csv[j].ts \in DOMAIN aggressorsByTs \cup {csv[at].ts}

\* The arrivals of the replayed book are in the order of its references.
Stamped ==
  /\ Ordered(book)
  /\ \A x \in book :
       x.ref \in DOMAIN arrived /\ arrived[x.ref] \in Nat /\ arrived[x.ref] < Arrival

\* Pass 2 of an orderly file: the book is one the venue displayed, at this row
\* or after the executions of this row's timestamp.
ReplayInv ==
  /\ stage \in {"decode", "scan"} => book = {}
  /\ stage \in {"decode", "scan"} \/ Orderly =>
       reduceDesync = 0 /\ replaceDesync = 0 /\ errorCount = 0
  /\ Orderly /\ (stage \in {"replay", "inject"} \/ (stage = "done" /\ at > 1)) =>
       /\ Stamped
       /\ IF injecting # {} THEN Ready ELSE \E k \in at .. Len(csv) + 1 : Reached(k)

\* The executions of one timestamp are of one side.
LEMMA OneSide ==
  ASSUME CsvInv, FileOK, Orderly, NEW j \in 1 .. Len(csv), NEW k \in 1 .. Len(csv),
         csv[j].ts = csv[k].ts, NEW s \in {"B", "S"}, NEW t \in {"B", "S"},
         Executes(j, s), Executes(k, t)
  PROVE  s = t
<1>1. ASSUME NEW i \in 1 .. Len(csv), NEW u, NEW v, Executes(i, u), Executes(i, v)
      PROVE  u = v
  <2>1. PICK o : o.side = u /\ \A x \in shown[i] : x.ref = csv[i].ref => x = o
    BY <1>1, ExecutesIs
  <2> QED BY <1>1, <2>1 DEF Executes
<1>2. ASSUME NEW i \in 1 .. Len(csv), NEW u, Executes(i, u)
      PROVE  shown[i + 1] # shown[i]
  BY <1>2, ExecutesIs
<1>3. Reconstructible(j) /\ Reconstructible(k)
  <2>1. j \in DOMAIN csv /\ k \in DOMAIN csv
    BY LenProperties DEF CsvInv
  <2> QED BY <2>1 DEF Orderly
<1>4. CASE j = k
  BY <1>1, <1>4
<1>5. CASE j < k
  <2>1. j \in 1 .. k - 1
    BY <1>5
  <2>2. Executes(j, t)
    BY <1>2, <1>3, <2>1 DEF Reconstructible
  <2> QED BY <1>1, <2>2
<1>6. CASE k < j
  <2>1. k \in 1 .. j - 1
    BY <1>6
  <2>2. Executes(k, s)
    BY <1>2, <1>3, <2>1 DEF Reconstructible
  <2> QED BY <1>1, <2>2
<1> QED BY <1>4, <1>5, <1>6

\* The aggressor of a timestamp and side with the shares of the executions from
\* row k on turns the book before row k into the one before row n.
Fills(o, ts, side, k, n) ==
  /\ \A x \in shown[n] : Has(shown[k], x.ref)
  /\ Ordered(shown[k]) =>
       Submitted(shown[k], Having(o, Quantity(ExecRows(ts, side, k, Len(csv))))) = shown[n]

\* When no execution is left, it does nothing.
LEMMA FillsNone ==
  ASSUME CsvInv, FileOK, NEW n \in 1 .. Len(csv) + 1, NEW o \in Incoming, NEW ts, NEW side,
         ExecRows(ts, side, n, Len(csv)) = {}
  PROVE  Fills(o, ts, side, n, n)
<1>1. PICK p : p = Having(o, Quantity(ExecRows(ts, side, n, Len(csv))))
  OBVIOUS
<1>2. p = Having(o, 0)
  BY <1>1, QuantityNone
<1>3. p \in Incoming /\ p.rem = 0
  BY <1>2 DEF Having, Incoming
<1>4. BookOK(shown[n], MaxMessages)
  BY DEF FileOK
<1>5. Submitted(shown[n], p) = shown[n]
  BY <1>3, <1>4, SubmitNone
<1> QED BY <1>1, <1>5 DEF Fills, Has

\* One execution earlier, it still does.
LEMMA FillsStep ==
  ASSUME CsvInv, FileOK, NEW k \in 1 .. Len(csv), NEW side \in {"B", "S"},
         NEW ts, csv[k].ts = ts, shown[k + 1] # shown[k] => Executes(k, side),
         NEW o \in Incoming, o.side # side, Executes(k, side) => Accepts(side, o.price, k),
         NEW n, Fills(o, ts, side, k + 1, n)
  PROVE  Fills(o, ts, side, k, n)
<1>1. PICK rows, rest : /\ rows = ExecRows(ts, side, k, Len(csv))
                        /\ rest = ExecRows(ts, side, k + 1, Len(csv))
  OBVIOUS
<1>2. Len(csv) \in Nat /\ k \in Nat /\ k >= 1
  BY RowAt
<1>3. \A j : j \in k .. Len(csv) <=> j = k \/ j \in k + 1 .. Len(csv)
  BY <1>2
<1>4. /\ \A j : j \in rows <=> (j = k /\ Executes(k, side)) \/ j \in rest
      /\ k \notin rest /\ rows \subseteq 1 .. Len(csv)
  BY <1>1, <1>2, <1>3 DEF ExecRows
<1>5. PICK b, c, d : b = shown[k] /\ c = shown[k + 1] /\ d = shown[n]
  OBVIOUS
<1>6. /\ \A x \in d : Has(c, x.ref)
      /\ Ordered(c) => Submitted(c, Having(o, Quantity(rest))) = d
  BY <1>1, <1>5 DEF Fills
<1>7. CASE Executes(k, side)
  <2>1. PICK y \in b :
           /\ y \in DisplayedOrder /\ y.ref = csv[k].ref /\ y.side = side
           /\ IsFront(b, y) /\ csv[k].shares \in 1 .. y.rem
           /\ c = (b \ {y}) \cup
                (IF y.rem > csv[k].shares THEN {Less(y, csv[k].shares)} ELSE {})
           /\ \A x \in c : Has(b, x.ref)
    BY <1>5, <1>7, ExecutesIs
  <2>2. PICK e : e = csv[k].shares
    OBVIOUS
  <2>3. k \in rows /\ rows \ {k} = rest
    BY <1>4, <1>7
  <2>4. Quantity(rest) \in Nat /\ Quantity(rows) = Quantity(rest) + e
    BY <1>4, <2>2, <2>3, QuantitySplit
  <2>5. PICK q \in Nat : q = Quantity(rest)
    BY <2>4
  <2>6. y.rem \in Nat /\ e \in 1 .. y.rem /\ e \in Nat
    BY <2>1, <2>2 DEF DisplayedOrder
  <2>7. PICK p : p = Having(o, q + e)
    OBVIOUS
  <2>8. /\ p \in Incoming /\ p.side = o.side /\ p.price = o.price /\ p.rem = q + e
        /\ Less(p, e) = Having(o, q)
    <3>1. PICK r \in Nat : r = q + e /\ r - e = q
      BY <2>6
    <3>2. p = Having(o, r) /\ p \in Incoming /\ p.rem = r
      BY <2>7, <3>1 DEF Having, Incoming
    <3>3. p.side = o.side /\ p.price = o.price
      BY <3>2 DEF Having, Incoming
    <3>4. Less(p, e) = Having(o, r - e)
      BY <3>2 DEF Having, Incoming, Less
    <3> QED BY <3>1, <3>2, <3>3, <3>4
  <2>9. ASSUME Ordered(b) PROVE Ordered(c)
    <3>1. \A x \in c : \E z \in b : z.ref = x.ref
      BY <2>1 DEF Has
    <3>2. ASSUME NEW x \in c, NEW z \in c
          PROVE arrived[x.ref] < arrived[z.ref] <=> x.ref < z.ref
      <4>1. PICK u \in b : u.ref = x.ref
        BY <3>1
      <4>2. PICK v \in b : v.ref = z.ref
        BY <3>1
      <4> QED BY <2>9, <4>1, <4>2 DEF Ordered
    <3> QED BY <3>2 DEF Ordered
  <2>10. ASSUME Ordered(b) PROVE Submitted(b, p) = d
    <3>1. IF p.side = "B" THEN y.price <= p.price ELSE y.price >= p.price
      <4>1. IF side = "S" THEN y.price <= o.price ELSE y.price >= o.price
        BY <1>5, <1>7, <2>1 DEF Accepts
      <4>2. p.side = "B" <=> side = "S"
        BY <2>8 DEF Incoming
      <4> QED BY <2>8, <4>1, <4>2
    <3>2. BookOK(b, MaxMessages)
      BY <1>5, RowAt
    <3>3. y.side # p.side /\ e <= p.rem
      BY <2>1, <2>5, <2>6, <2>8
    <3>4. c = (b \ {y}) \cup (IF y.rem > e THEN {Less(y, e)} ELSE {})
      BY <2>1, <2>2
    <3>5. Submitted(b, p) = Submitted(c, Less(p, e))
      BY <2>6, <2>8, <2>10, <2>1, <3>1, <3>2, <3>3, <3>4, SubmitExecuted
    <3> QED BY <1>6, <2>5, <2>8, <2>9, <2>10, <3>5
  <2>11. \A x \in d : Has(b, x.ref)
    BY <1>6, <2>1 DEF Has
  <2> QED BY <1>1, <1>5, <2>2, <2>4, <2>5, <2>7, <2>10, <2>11 DEF Fills
<1>8. CASE ~Executes(k, side)
  <2>1. c = b
    BY <1>5, <1>8
  <2>2. rows = rest
    BY <1>4, <1>8
  <2> QED BY <1>1, <1>5, <1>6, <2>1, <2>2 DEF Fills
<1> QED BY <1>7, <1>8

\* A set of rows has a last one.
LEMMA LastRow ==
  ASSUME NEW N \in Nat, NEW S \in SUBSET (1 .. N), S # {}
  PROVE  \E m \in S : \A x \in S : x <= m
<1>1. PICK T : T = {N - x : x \in S}
  OBVIOUS
<1>2. T \in SUBSET Nat /\ T # {}
  <2>1. ASSUME NEW x \in S PROVE N - x \in Nat
    BY x \in 1 .. N
  <2> QED BY <1>1, <2>1
<1>3. Min(T) \in T /\ \A y \in T : Min(T) <= y
  BY <1>2, MinOfNats
<1>4. PICK d \in T : \A y \in T : d <= y
  BY <1>3
<1>5. PICK m \in S : d = N - m
  BY <1>1
<1>6. ASSUME NEW x \in S PROVE x <= m
  <2>1. N - x \in T
    BY <1>1
  <2>2. N - m <= N - x
    BY <1>4, <1>5, <2>1
  <2> QED BY <2>2
<1> QED BY <1>6

\* The aggressor stands for the executions of rows i .. n - 1.
StandsFor(o, ts, side, i, n) ==
  /\ Fills(o, ts, side, i, n)
  /\ \A j \in i .. n - 1 : /\ Quiet(j) /\ csv[j].ts = ts
                           /\ \A x \in shown[n] : Has(shown[j], x.ref)
  /\ \A k \in n .. Len(csv), t \in {"B", "S"} : Executes(k, t) => csv[k].ts # ts

\* The aggressor of a timestamp does what the executions of its group did, up
\* to the last of them.
LEMMA AggressorFills ==
  ASSUME CsvInv, FileOK, Orderly, NEW side \in {"B", "S"}, NEW i \in 1 .. Len(csv),
         NEW ts, csv[i].ts = ts, ExecRows(ts, side, i, Len(csv)) # {},
         NEW o \in Incoming, o.side # side,
         \A k \in ExecRows(ts, side, i, Len(csv)) : Accepts(side, o.price, k)
  PROVE  \E n \in i + 1 .. Len(csv) + 1 : StandsFor(o, ts, side, i, n)
<1>1. PICK rows : rows = ExecRows(ts, side, i, Len(csv))
  OBVIOUS
<1>2. Len(csv) \in Nat /\ i \in Nat /\ i >= 1
  BY RowAt
<1>3. \A k : k \in rows <=> k \in i .. Len(csv) /\ csv[k].ts = ts /\ Executes(k, side)
  BY <1>1 DEF ExecRows
<1>4. rows \in SUBSET (1 .. Len(csv)) /\ rows # {}
  BY <1>1, <1>2, <1>3
<1>5. PICK m \in rows : \A x \in rows : x <= m
  BY <1>2, <1>4, LastRow
<1>6. /\ m \in i .. Len(csv) /\ m \in 1 .. Len(csv) /\ m \in Nat
      /\ csv[m].ts = ts /\ Executes(m, side)
  BY <1>2, <1>3, <1>4
<1>7. PICK n : n = m + 1
  OBVIOUS
<1>8. n \in i + 1 .. Len(csv) + 1 /\ n \in Nat /\ n \in 1 .. Len(csv) + 1
  BY <1>2, <1>6, <1>7
<1>9. ASSUME NEW j \in i .. m
      PROVE  /\ j \in 1 .. Len(csv) /\ csv[j].ts = ts
             /\ shown[j + 1] # shown[j] => Executes(j, side)
  <2>1. j \in 1 .. Len(csv) /\ i <= j /\ j <= m
    BY <1>2, <1>6
  <2>2. csv[i].ts <= csv[j].ts /\ csv[j].ts <= csv[m].ts
    BY <1>6, <2>1 DEF FileOK
  <2>3. csv[j].ts \in Nat /\ ts \in Nat
    BY <1>6, <2>1, RowAt
  <2>4. csv[j].ts = ts
    BY <1>6, <2>2, <2>3
  <2>5. Reconstructible(m)
    <3>1. m \in DOMAIN csv
      BY <1>6, LenProperties DEF CsvInv
    <3> QED BY <3>1 DEF Orderly
  <2>6. j = m \/ j \in 1 .. m - 1
    BY <1>6, <2>1
  <2>7. shown[j + 1] # shown[j] => Executes(j, side)
    BY <1>6, <2>4, <2>5, <2>6 DEF Reconstructible
  <2> QED BY <2>1, <2>4, <2>7
<1>10. Fills(o, ts, side, n, n)
  <2>1. ExecRows(ts, side, n, Len(csv)) = {}
    <3>1. ASSUME NEW k \in ExecRows(ts, side, n, Len(csv)) PROVE FALSE
      <4>1. k \in n .. Len(csv) /\ csv[k].ts = ts /\ Executes(k, side)
        BY DEF ExecRows
      <4>2. k \in i .. Len(csv) /\ ~(k <= m)
        BY <1>2, <1>6, <1>7, <4>1
      <4> QED BY <1>3, <1>5, <4>1, <4>2
    <3> QED BY <3>1
  <2> QED BY <1>8, <2>1, FillsNone
<1>11. ASSUME NEW k \in i .. m, Fills(o, ts, side, k + 1, n)
       PROVE  Fills(o, ts, side, k, n)
  <2>1. Executes(k, side) => Accepts(side, o.price, k)
    <3>1. k \in i .. Len(csv)
      BY <1>2, <1>6
    <3> QED BY <1>1, <1>3, <1>9, <3>1
  <2> QED BY <1>9, <1>11, <2>1, FillsStep
<1>12. \A k \in i .. n : Fills(o, ts, side, k, n)
  <2> DEFINE Bad == {d \in 0 .. n - i : ~Fills(o, ts, side, n - d, n)}
  <2>1. SUFFICES ASSUME Bad # {} PROVE FALSE
    <3>1. ASSUME NEW k \in i .. n PROVE Fills(o, ts, side, k, n)
      <4>1. PICK d : d = n - k
        OBVIOUS
      <4>2. d \in 0 .. n - i /\ n - d = k
        BY <1>2, <1>8, <4>1
      <4> QED BY <2>1, <4>2
    <3> QED BY <3>1
  <2>2. Bad \in SUBSET Nat
    BY <1>2, <1>8
  <2>3. PICK S : S = Bad
    OBVIOUS
  <2>4. Min(S) \in S /\ \A y \in S : Min(S) <= y
    BY <2>1, <2>2, <2>3, MinOfNats
  <2>5. PICK d \in S : \A y \in S : d <= y
    BY <2>4
  <2>6. d \in 0 .. n - i /\ ~Fills(o, ts, side, n - d, n) /\ d \in Nat
    BY <2>2, <2>3, <2>5
  <2>7. d # 0
    <3>1. n - 0 = n
      BY <1>8
    <3> QED BY <1>10, <2>6, <3>1
  <2>8. d - 1 \in 0 .. n - i /\ ~(d <= d - 1)
    BY <1>2, <1>8, <2>6, <2>7
  <2>9. Fills(o, ts, side, n - (d - 1), n)
    BY <2>3, <2>5, <2>8
  <2>10. PICK k : k = n - d
    OBVIOUS
  <2>11. k \in i .. m /\ n - (d - 1) = k + 1
    BY <1>2, <1>6, <1>7, <2>6, <2>7, <2>10
  <2> QED BY <1>11, <2>6, <2>9, <2>10, <2>11
<1>13. ASSUME NEW j \in i .. n - 1
       PROVE  Quiet(j) /\ csv[j].ts = ts /\ \A x \in shown[n] : Has(shown[j], x.ref)
  <2>1. j \in i .. m /\ j \in i .. n
    BY <1>2, <1>6, <1>7
  <2> QED BY <1>9, <1>12, <2>1 DEF Quiet, Fills
<1>14. ASSUME NEW k \in n .. Len(csv), NEW t \in {"B", "S"}, Executes(k, t), csv[k].ts = ts
       PROVE  FALSE
  <2>1. k \in 1 .. Len(csv) /\ k \in i .. Len(csv) /\ ~(k <= m)
    BY <1>2, <1>6, <1>7
  <2>2. t = side
    BY <1>6, <1>14, <2>1, OneSide
  <2> QED BY <1>3, <1>5, <1>14, <2>1, <2>2
<1>15. Fills(o, ts, side, i, n)
  <2>1. i \in i .. n
    BY <1>2, <1>8
  <2> QED BY <1>12, <2>1
<1>16. StandsFor(o, ts, side, i, n)
  BY <1>13, <1>14, <1>15 DEF StandsFor
<1> QED BY <1>8, <1>16

\* What a row does to the displayed book is said by the file.
LEMMA SameFile ==
  ASSUME UNCHANGED <<csv, shown>>
  PROVE  /\ Orderly' <=> Orderly
         /\ \A k, side : Executes(k, side)' <=> Executes(k, side)
         /\ \A k : Quiet(k)' <=> Quiet(k)
         /\ \A k : Reconstructible(k)' <=> Reconstructible(k)
<1>1. \A k, side : Executes(k, side)' <=> Executes(k, side)
  BY DEF Executes
<1>2. \A k : Quiet(k)' <=> Quiet(k)
  BY <1>1 DEF Quiet
<1>3. \A k : Reconstructible(k)' <=> Reconstructible(k)
  BY <1>1 DEF Reconstructible, Has, Find
<1>4. OneSymbol' <=> OneSymbol
  BY DEF OneSymbol
<1>5. Orderly' <=> Orderly
  BY <1>3, <1>4 DEF Orderly
<1> QED BY <1>1, <1>2, <1>3, <1>5

\* The group of a timestamp no row of which was replayed is one aggressor.
LEMMA OneAggressor ==
  ASSUME CsvInv, FileOK, ScanInv, Orderly, GroupsOK(Len(csv)), at \in 1 .. Len(csv),
         \A j \in 1 .. at - 1 : csv[j].ts # csv[at].ts,
         NEW a \in Aggressors(csv[at].ts)
  PROVE  /\ Aggressors(csv[at].ts) = {a}
         /\ \E side \in {"B", "S"} :
              LET rows == ExecRows(csv[at].ts, side, at, Len(csv))
              IN  /\ a.side = (IF side = "S" THEN "B" ELSE "S") /\ rows # {}
                  /\ a.price \in Nat /\ a.rem = Quantity(rows) /\ a.rem \in Nat
                  /\ \A k \in rows : Accepts(side, a.price, k)
<1>1. PICK ts : ts = csv[at].ts
  OBVIOUS
<1>2. ts \in Nat /\ Len(csv) \in Nat /\ at \in Nat /\ at >= 1
  BY <1>1, RowAt
<1>3. PICK keys : keys = {x \in DOMAIN aggregates : x[1] = ts}
  OBVIOUS
<1>4. ASSUME NEW key \in keys
      PROVE  \E side \in {"B", "S"} :
               /\ key = <<ts, side>> /\ key[2] = side
               /\ ExecRows(ts, side, 1, Len(csv)) # {}
  <2>1. key \in DOMAIN aggregates /\ key \in Nat \X {"B", "S"} /\ key[1] = ts
    BY <1>3 DEF ScanInv
  <2>2. PICK side \in {"B", "S"} : key = <<ts, side>>
    BY <2>1
  <2>3. Group(ts, side, Len(csv))
    BY <1>2 DEF GroupsOK
  <2> QED BY <2>1, <2>2, <2>3 DEF Group
<1>5. ASSUME NEW x \in keys, NEW y \in keys PROVE x = y
  <2>1. PICK s \in {"B", "S"} : x = <<ts, s>> /\ ExecRows(ts, s, 1, Len(csv)) # {}
    BY <1>4
  <2>2. PICK t \in {"B", "S"} : y = <<ts, t>> /\ ExecRows(ts, t, 1, Len(csv)) # {}
    BY <1>4
  <2>3. PICK j \in 1 .. Len(csv) : csv[j].ts = ts /\ Executes(j, s)
    BY <2>1 DEF ExecRows
  <2>4. PICK k \in 1 .. Len(csv) : csv[k].ts = ts /\ Executes(k, t)
    BY <2>2 DEF ExecRows
  <2>5. s = t
    BY <2>3, <2>4, OneSide
  <2> QED BY <2>1, <2>2, <2>5
<1>6. PICK key \in keys :
        a = [side |-> IF key[2] = "S" THEN "B" ELSE "S", rem |-> aggregates[key].quantity,
             price |-> aggregates[key].price]
  BY <1>1, <1>3 DEF Aggressors
<1>7. keys = {key}
  BY <1>5, <1>6
<1>8. Aggressors(ts) = {a}
  BY <1>3, <1>6, <1>7 DEF Aggressors
<1>9. PICK side \in {"B", "S"} : /\ key = <<ts, side>> /\ key[2] = side
                                 /\ ExecRows(ts, side, 1, Len(csv)) # {}
  BY <1>4, <1>6
<1>10. PICK rows : rows = ExecRows(ts, side, at, Len(csv))
  OBVIOUS
<1>11. rows = ExecRows(ts, side, 1, Len(csv))
  <2>1. \A j : j \in 1 .. Len(csv) /\ csv[j].ts = ts => j \in at .. Len(csv)
    <3>1. ASSUME NEW j \in 1 .. Len(csv), csv[j].ts = ts PROVE j \in at .. Len(csv)
      <4>1. ~(j \in 1 .. at - 1)
        BY <1>1, <3>1
      <4> QED BY <1>2, <4>1
    <3> QED BY <3>1
  <2>2. \A j : j \in at .. Len(csv) => j \in 1 .. Len(csv)
    BY <1>2
  <2> QED BY <1>10, <2>1, <2>2 DEF ExecRows
<1>12. Group(ts, side, Len(csv))
  BY <1>2 DEF GroupsOK
<1>13. /\ aggregates[key].quantity = Quantity(rows) /\ aggregates[key].price \in Nat
       /\ \A k \in rows : Accepts(side, aggregates[key].price, k)
  BY <1>9, <1>11, <1>12 DEF Group
<1>14. Quantity(rows) \in Nat
  <2>1. rows \in SUBSET (1 .. Len(csv))
    BY <1>11 DEF ExecRows
  <2>2. PICK k \in rows : TRUE
    BY <1>9, <1>11
  <2>3. csv[k].shares \in Nat
    <3>1. csv[k] \in CsvRow
      BY <2>1, RowAt
    <3> QED BY <3>1 DEF CsvRow
  <2>4. Quantity(rows \ {k}) \in Nat /\ Quantity(rows) = Quantity(rows \ {k}) + csv[k].shares
    BY <2>1, QuantitySplit
  <2> QED BY <2>3, <2>4
<1>15. /\ a.side = (IF side = "S" THEN "B" ELSE "S") /\ a.price = aggregates[key].price
       /\ a.rem = aggregates[key].quantity
  BY <1>6, <1>9
<1> QED BY <1>1, <1>8, <1>9, <1>10, <1>11, <1>13, <1>14, <1>15

\* The injection takes the book to where the last execution of its timestamp
\* leaves it.
LEMMA InjectReplayInv ==
  ASSUME CsvInv, FileOK, ScanInv, InjectInv, Orderly, GroupsOK(Len(csv)),
         Stamped, Ready, InjectAggressor
  PROVE  Stamped' /\ injecting' = {} /\ \E n \in at .. Len(csv) + 1 : Reached(n)'
<1>1. /\ stage = "inject" /\ at \in 1 .. Len(csv) /\ syntheticIdCounter \in Nat
      /\ csv[at].ts \notin DOMAIN aggressorsByTs /\ stage' = stage
      /\ UNCHANGED <<csv, shown, at, aggressorsByTs>>
      /\ syntheticIdCounter' = syntheticIdCounter + 1
  BY DEF InjectInv, InjectAggressor, csvVars
<1>2. PICK ts : ts = csv[at].ts
  OBVIOUS
<1>3. /\ book = shown[at] /\ injecting = Aggressors(ts)
      /\ \A j \in 1 .. at - 1 : csv[j].ts # csv[at].ts
      /\ \A j \in at .. Len(csv), side \in {"B", "S"} :
           Executes(j, side) => csv[j].ts \in DOMAIN aggressorsByTs \cup {ts}
  BY <1>2 DEF Ready
<1>4. PICK a, o :
        /\ a \in injecting
        /\ o = [ref |-> SyntheticIdBase + syntheticIdCounter, side |-> a.side,
                price |-> a.price, rem |-> a.rem]
        /\ book' = Submitted(book, o)
        /\ arrived' = With(arrived, o.ref, Arrival)
        /\ injecting' = injecting \ {a}
  BY DEF InjectAggressor
<1>5. PICK side, rows :
        /\ side \in {"B", "S"}
        /\ rows = ExecRows(ts, side, at, Len(csv))
        /\ a.side = (IF side = "S" THEN "B" ELSE "S") /\ rows # {}
        /\ a.price \in Nat /\ a.rem = Quantity(rows) /\ a.rem \in Nat
        /\ \A k \in rows : Accepts(side, a.price, k)
  BY <1>1, <1>2, <1>3, <1>4, OneAggressor
<1>6. injecting = {a}
  BY <1>1, <1>2, <1>3, <1>4, OneAggressor
<1>7. PICK r \in Nat : r = SyntheticIdBase + syntheticIdCounter /\ r > MaxMessages
  BY <1>1, ReplayAssumption, FeedAssumption
<1>8. o \in Incoming /\ o.side # side /\ o.price = a.price /\ o.ref = r
      /\ Having(o, Quantity(rows)) = o
  BY <1>4, <1>5, <1>7 DEF Incoming, Having
<1>9. PICK n \in at + 1 .. Len(csv) + 1 : StandsFor(o, ts, side, at, n)
  BY <1>1, <1>2, <1>5, <1>8, AggressorFills
<1>10. book' = shown[n]
  <2>1. Ordered(shown[at])
    BY <1>3 DEF Stamped
  <2>2. Submitted(shown[at], Having(o, Quantity(ExecRows(ts, side, at, Len(csv))))) = shown[n]
    BY <1>9, <2>1 DEF StandsFor, Fills
  <2>3. Having(o, Quantity(ExecRows(ts, side, at, Len(csv)))) = o
    BY <1>5, <1>8
  <2> QED BY <1>3, <1>4, <2>2, <2>3, Zenon
<1>11. /\ at \in Nat /\ Len(csv) \in Nat /\ n \in Nat
       /\ n \in at .. Len(csv) + 1 /\ n - 1 \in at .. n - 1
  BY <1>1, <1>9, RowAt
<1>12. Stamped'
  <2>1. BookOK(book, MaxMessages)
    BY <1>1, <1>3, RowAt
  <2>2. \A x \in book' : \E y \in book : y.ref = x.ref
    <3>1. at \in at .. n - 1
      BY <1>9, <1>11
    <3> QED BY <1>3, <1>9, <1>10, <3>1 DEF StandsFor, Has
  <2>3. Arrival \in Nat /\ Arrival' = Arrival + 1
    BY <1>1, <1>11 DEF Arrival
  <2>4. ASSUME NEW x \in book'
        PROVE  /\ x.ref \in DOMAIN arrived' /\ arrived'[x.ref] = arrived[x.ref]
               /\ arrived[x.ref] \in Nat /\ arrived[x.ref] < Arrival'
    <3>1. PICK y \in book : y.ref = x.ref
      BY <2>2
    <3>2. x.ref \in DOMAIN arrived /\ arrived[x.ref] \in Nat /\ arrived[x.ref] < Arrival
      BY <3>1 DEF Stamped
    <3>3. x.ref # r
      <4>1. y.ref \in Nat /\ y.ref <= MaxMessages
        BY <2>1, <3>1 DEF BookOK, DisplayedOrder
      <4> QED BY <1>7, <3>1, <4>1, FeedAssumption
    <3>4. x.ref \in DOMAIN arrived' /\ arrived'[x.ref] = arrived[x.ref]
      BY <1>4, <1>8, <3>2, <3>3 DEF With
    <3>5. arrived[x.ref] < Arrival'
      BY <2>3, <3>2
    <3> QED BY <3>2, <3>4, <3>5
  <2>5. ASSUME NEW x \in book', NEW y \in book'
        PROVE  arrived'[x.ref] < arrived'[y.ref] <=> x.ref < y.ref
    <3>1. PICK u \in book : u.ref = x.ref
      BY <2>2
    <3>2. PICK v \in book : v.ref = y.ref
      BY <2>2
    <3>3. arrived[u.ref] < arrived[v.ref] <=> u.ref < v.ref
      BY DEF Stamped, Ordered
    <3> QED BY <2>4, <3>1, <3>2, <3>3
  <2> QED BY <2>4, <2>5 DEF Stamped, Ordered
<1>13. Reached(n)'
  <2>1. \A j \in at .. n - 1 : /\ Quiet(j)' /\ csv[j].ts = csv[n - 1].ts
                               /\ \A x \in book' : Has(shown[j], x.ref)
    BY <1>1, <1>9, <1>10, <1>11, SameFile DEF StandsFor
  <2>2. \A j \in n .. Len(csv), t \in {"B", "S"} :
          Executes(j, t)' => csv[j].ts \in DOMAIN aggressorsByTs
    <3>1. \A j \in n .. Len(csv) : j \in at .. Len(csv)
      BY <1>11
    <3> QED BY <1>1, <1>3, <1>9, <3>1, SameFile DEF StandsFor
  <2> QED BY <1>1, <1>10, <2>1, <2>2 DEF Reached, Has
<1> QED BY <1>4, <1>6, <1>11, <1>12, <1>13

\* A row that changes the displayed book, if at all, by an execution changes
\* nothing of a book with no other orders.
LEMMA QuietRow ==
  ASSUME CsvInv, FileOK, at \in 1 .. Len(csv), Quiet(at), Reconstructible(at),
         \A x \in book : Has(shown[at], x.ref), NEW row, row = csv[at],
         \/ ReplayAdd(row) \/ ReplayDelete(row) \/ ReplayReduce(row)
         \/ ReplayReplace(row) \/ ReplayOther(row)
  PROVE  UNCHANGED <<book, arrived, counterVars>>
<1>1. PICK m, b, c : m = RowMessage(row) /\ b = shown[at] /\ c = shown[at + 1]
  OBVIOUS
<1>2. /\ m.type = row.msg /\ m.ref = row.ref /\ m.side = row.side /\ m.shares = row.shares
      /\ m.newRef = row.newRef
  BY <1>1, RowMessageIs
<1>3. /\ c = Displayed(b, m) /\ RowFacts(b, m, ShownRefs(at))
      /\ b \in SUBSET DisplayedOrder /\ Unique(b)
  BY <1>1, RowAt DEF RowShown, BookOK
<1>4. /\ m.shares \in Nat /\ m.ref \in Nat /\ m.newRef \in Nat /\ m.price \in Nat
      /\ \A x \in b : x.ref \in Nat /\ x.rem \in Nat /\ x.side \in {"B", "S"}
  BY <1>3 DEF RowFacts, DisplayedOrder
<1>5. c # b => row.msg \in ExecuteTypes
  BY <1>1 DEF Quiet, Executes
<1>6. row.msg \notin AddTypes
  <2>1. SUFFICES ASSUME m.type \in AddTypes PROVE FALSE
    BY <1>2
  <2>2. PICK l : l = NewOrder(m, m.ref, m.side)
    OBVIOUS
  <2>3. c = b \cup {l} /\ l.ref = m.ref
    BY <1>3, <1>4, <2>1, <2>2, DisplayedAdd, NewOrderIs DEF RowFacts
  <2>4. l \notin b
    BY <1>3, <1>4, <2>1, <2>3 DEF RowFacts
  <2>5. m.type \notin ExecuteTypes
    BY <2>1 DEF AddTypes, ExecuteTypes
  <2> QED BY <1>2, <1>5, <2>3, <2>4, <2>5
<1>7. row.msg # "U"
  <2>1. SUFFICES ASSUME m.type = "U" PROVE FALSE
    BY <1>2
  <2>2. Has(b, m.ref)
    BY <1>1, <1>2, <2>1 DEF Reconstructible
  <2>3. PICK o \in b : o.ref = m.ref
    BY <2>2 DEF Has
  <2>4. PICK l : l = NewOrder(m, m.newRef, o.side)
    OBVIOUS
  <2>5. m.shares > 0 /\ \A x \in b : x.ref < m.newRef
    BY <1>3, <2>1, <2>2 DEF RowFacts
  <2>6. c = (b \ {o}) \cup {l} /\ l.ref = m.newRef
    BY <1>3, <1>4, <2>1, <2>3, <2>4, <2>5, DisplayedHas, NewOrderIs
  <2>7. l \notin b
    BY <1>4, <2>5, <2>6
  <2> QED BY <1>2, <1>5, <2>1, <2>6, <2>7 DEF ExecuteTypes
<1>8. row.msg \in {"D", "X"} => ~Has(book, row.ref)
  <2>1. SUFFICES ASSUME m.type \in {"D", "X"}, Has(b, m.ref) PROVE FALSE
    BY <1>1, <1>2 DEF Has
  <2>2. PICK o \in b : o.ref = m.ref
    BY <2>1 DEF Has
  <2>3. c = b
    BY <1>2, <1>5, <2>1 DEF ExecuteTypes
  <2>4. CASE m.type = "D"
    <3>1. c = b \ {o}
      BY <1>3, <2>2, <2>4, DisplayedHas
    <3> QED BY <2>2, <2>3, <3>1
  <2>5. CASE m.type = "X"
    <3>1. m.shares > 0 /\ m.shares < o.rem
      BY <1>3, <2>2, <2>5 DEF RowFacts
    <3>2. PICK l : l = Less(o, m.shares)
      OBVIOUS
    <3>3. c = (b \ {o}) \cup {l}
      BY <1>3, <1>4, <2>2, <2>5, <3>1, <3>2, DisplayedHas
    <3>4. l.rem = o.rem - m.shares
      BY <1>3, <1>4, <3>1, <3>2, LessIs
    <3>5. l # o
      BY <1>4, <3>1, <3>4
    <3> QED BY <2>2, <2>3, <3>3, <3>5
  <2> QED BY <2>1, <2>4, <2>5
<1>9. CASE ReplayDelete(row)
  <2>1. \A x \in book : x.ref # row.ref
    BY <1>8, <1>9 DEF Has, ReplayDelete
  <2>2. Cancelled(book, row.ref) = book
    BY <2>1 DEF Cancelled
  <2> QED BY <1>9, <2>2 DEF ReplayDelete
<1>10. ~ReplayAdd(row) /\ ~ReplayReplace(row) /\ ~ReplayReduce(row)
  BY <1>6, <1>7, <1>8 DEF ReplayAdd, ReplayReplace, ReplayReduce
<1>11. CASE ReplayOther(row)
  BY <1>11 DEF ReplayOther
<1> QED BY <1>9, <1>10, <1>11

\* An order that leaves the book uncrossed rests.
LEMMA NewRests ==
  ASSUME NEW d \in SUBSET DisplayedOrder, NEW l \in DisplayedOrder, Uncrossed(d \cup {l})
  PROVE  Submitted(d, l) = d \cup {l}
<1>1. l \in Incoming /\ l.rem > 0 /\ l.side \in {"B", "S"} /\ l.price \in Nat
  BY DEF DisplayedOrder, Incoming
<1>2. ASSUME NEW x \in d, x.side # l.side
      PROVE  ~(IF l.side = "B" THEN x.price <= l.price ELSE x.price >= l.price)
  <2>1. x.side \in {"B", "S"} /\ x.price \in Nat
    BY DEF DisplayedOrder
  <2>2. /\ l.side = "B" /\ x.side = "S" => l.price < x.price
        /\ x.side = "B" /\ l.side = "S" => x.price < l.price
    BY DEF Uncrossed
  <2> QED BY <1>1, <1>2, <2>1, <2>2
<1>3. Acceptable(d, l) = {}
  BY <1>2 DEF Acceptable
<1> QED BY <1>1, <1>3, SubmitPassive

\* Stamps stay in order when orders leave the book or change in size,
LEMMA StampedKept ==
  ASSUME Stamped, at \in Nat, syntheticIdCounter \in Nat, at' = at + 1,
         UNCHANGED <<arrived, syntheticIdCounter>>,
         \A x \in book' : \E y \in book : y.ref = x.ref
  PROVE  Stamped'
<1>1. Arrival \in Nat /\ Arrival' = Arrival + 1
  BY DEF Arrival
<1>2. ASSUME NEW x \in book'
      PROVE  x.ref \in DOMAIN arrived /\ arrived[x.ref] \in Nat /\ arrived[x.ref] < Arrival'
  <2>1. x.ref \in DOMAIN arrived /\ arrived[x.ref] \in Nat /\ arrived[x.ref] < Arrival
    BY DEF Stamped
  <2> QED BY <1>1, <2>1
<1>3. ASSUME NEW x \in book', NEW y \in book'
      PROVE  arrived[x.ref] < arrived[y.ref] <=> x.ref < y.ref
  <2>1. PICK u \in book : u.ref = x.ref
    OBVIOUS
  <2>2. PICK v \in book : v.ref = y.ref
    OBVIOUS
  <2>3. arrived[u.ref] < arrived[v.ref] <=> u.ref < v.ref
    BY DEF Stamped, Ordered
  <2> QED BY <2>1, <2>2, <2>3
<1> QED BY <1>2, <1>3 DEF Stamped, Ordered

\* and when an order with a higher reference comes last.
LEMMA StampedNew ==
  ASSUME Stamped, at \in Nat, syntheticIdCounter \in Nat, at' = at + 1,
         UNCHANGED syntheticIdCounter, NEW ref \in Nat,
         arrived' = With(arrived, ref, Arrival),
         \A x \in book : x.ref \in Nat /\ x.ref < ref,
         \A x \in book' : x.ref = ref \/ \E y \in book : y.ref = x.ref
  PROVE  Stamped'
<1>1. Arrival \in Nat /\ Arrival' = Arrival + 1
  BY DEF Arrival
<1>2. ref \in DOMAIN arrived' /\ arrived'[ref] = Arrival
  BY DEF With
<1>3. ASSUME NEW y \in book
      PROVE  /\ y.ref \in DOMAIN arrived' /\ arrived'[y.ref] = arrived[y.ref]
             /\ arrived[y.ref] \in Nat /\ arrived[y.ref] < Arrival
  <2>1. y.ref \in DOMAIN arrived /\ arrived[y.ref] \in Nat /\ arrived[y.ref] < Arrival
    BY DEF Stamped
  <2>2. y.ref # ref
    OBVIOUS
  <2> QED BY <2>1, <2>2 DEF With
<1>4. ASSUME NEW x \in book'
      PROVE  /\ x.ref \in DOMAIN arrived' /\ arrived'[x.ref] \in Nat
             /\ arrived'[x.ref] < Arrival'
             /\ x.ref # ref => arrived'[x.ref] < Arrival /\ x.ref < ref
  <2>1. CASE x.ref = ref
    BY <1>1, <1>2, <2>1
  <2>2. CASE x.ref # ref
    <3>1. PICK y \in book : y.ref = x.ref
      BY <2>2
    <3>2. arrived'[x.ref] \in Nat /\ arrived'[x.ref] < Arrival /\ x.ref \in DOMAIN arrived'
      BY <1>3, <3>1
    <3>3. x.ref < ref
      BY <3>1
    <3> QED BY <1>1, <3>2, <3>3
  <2> QED BY <2>1, <2>2
<1>5. ASSUME NEW x \in book', NEW y \in book'
      PROVE  arrived'[x.ref] < arrived'[y.ref] <=> x.ref < y.ref
  <2>1. CASE x.ref # ref /\ y.ref # ref
    <3>1. PICK u \in book : u.ref = x.ref
      BY <2>1
    <3>2. PICK v \in book : v.ref = y.ref
      BY <2>1
    <3>3. arrived[u.ref] < arrived[v.ref] <=> u.ref < v.ref
      BY DEF Stamped, Ordered
    <3> QED BY <1>3, <3>1, <3>2, <3>3
  <2>2. CASE x.ref # ref /\ y.ref = ref
    BY <1>2, <1>4, <2>2
  <2>3. CASE x.ref = ref /\ y.ref # ref
    <3>1. PICK p, q \in Nat : p = arrived'[y.ref] /\ q = Arrival /\ p < q
      BY <1>1, <1>4, <2>3
    <3>2. ~(q < p)
      BY <3>1
    <3>3. y.ref \in Nat /\ y.ref < ref
      BY <2>3
    <3> QED BY <1>2, <2>3, <3>1, <3>2, <3>3
  <2>4. CASE x.ref = ref /\ y.ref = ref
    BY <1>1, <1>2, <2>4
  <2> QED BY <2>1, <2>2, <2>3, <2>4
<1> QED BY <1>4, <1>5 DEF Stamped, Ordered

\* A row other than an execution does to the venue's book what it did there.
LEMMA ActiveRow ==
  ASSUME CsvInv, FileOK, at \in 1 .. Len(csv), book = shown[at], Stamped,
         \A side \in {"B", "S"} : ~Executes(at, side), Reconstructible(at),
         syntheticIdCounter \in Nat, UNCHANGED syntheticIdCounter, at' = at + 1,
         NEW row, row = csv[at],
         \/ ReplayAdd(row) \/ ReplayDelete(row) \/ ReplayReduce(row)
         \/ ReplayReplace(row) \/ ReplayOther(row)
  PROVE  book' = shown[at + 1] /\ UNCHANGED counterVars /\ Stamped'
<1>1. PICK m, b, c : m = RowMessage(row) /\ b = shown[at] /\ c = shown[at + 1]
  OBVIOUS
<1>2. /\ m.type = row.msg /\ m.ref = row.ref /\ m.side = row.side /\ m.shares = row.shares
      /\ m.price = ParsePriceRaw(row.price) /\ m.newRef = row.newRef
  BY <1>1, RowMessageIs
<1>3. /\ c = Displayed(b, m) /\ RowFacts(b, m, ShownRefs(at))
      /\ b \in SUBSET DisplayedOrder /\ Unique(b) /\ Uncrossed(c) /\ at \in Nat
      /\ c \in SUBSET DisplayedOrder
  BY <1>1, RowAt DEF RowShown, BookOK
<1>4. /\ m.shares \in Nat /\ m.ref \in Nat /\ m.newRef \in Nat /\ m.price \in Nat
      /\ \A x \in b : x.ref \in Nat /\ x.rem \in Nat /\ x.side \in {"B", "S"}
  BY <1>3 DEF RowFacts, DisplayedOrder
<1>5. book = b
  BY <1>1
<1>6. ASSUME book' = c, UNCHANGED arrived, \A x \in c : \E y \in b : y.ref = x.ref
      PROVE  Stamped'
  BY <1>3, <1>5, <1>6, StampedKept
<1>7. ASSUME NEW ref \in Nat, NEW side \in {"B", "S"}, NEW d, d \subseteq b, New(d, ref, side, row),
             m.shares > 0, \A x \in b : x.ref < ref,
             c = d \cup {NewOrder(m, ref, side)}
      PROVE  book' = c /\ UNCHANGED counterVars /\ Stamped'
  <2>1. PICK l : l = NewOrder(m, ref, side)
    OBVIOUS
  <2>2. l \in DisplayedOrder /\ l.ref = ref
    BY <1>4, <1>7, <2>1, NewOrderIs
  <2>3. ~Has(d, ref)
    BY <1>4, <1>7 DEF Has
  <2>4. l = [ref |-> ref, side |-> side, rem |-> row.shares, price |-> ParsePriceRaw(row.price)]
    BY <1>2, <2>1 DEF NewOrder
  <2>5. /\ book' = Submitted(d, l) /\ arrived' = With(arrived, ref, Arrival)
        /\ UNCHANGED counterVars
    BY <1>7, <2>3, <2>4 DEF New
  <2>6. d \in SUBSET DisplayedOrder /\ Uncrossed(d \cup {l})
    BY <1>3, <1>7, <2>1
  <2>7. book' = c
    BY <1>7, <2>1, <2>2, <2>5, <2>6, NewRests
  <2>8. \A x \in book' : x.ref = ref \/ \E y \in book : y.ref = x.ref
    BY <1>5, <1>7, <2>1, <2>2, <2>7
  <2>9. \A x \in book : x.ref \in Nat /\ x.ref < ref
    BY <1>4, <1>5, <1>7
  <2>10. Stamped'
    BY <1>3, <2>5, <2>8, <2>9, StampedNew
  <2> QED BY <2>5, <2>7, <2>10
<1>8. CASE ReplayAdd(row)
  <2>1. m.type \in AddTypes /\ m.side \in {"B", "S"} /\ m.shares > 0 /\ \A x \in b : x.ref < m.ref
    BY <1>2, <1>3, <1>8 DEF ReplayAdd, RowFacts
  <2>2. New(b, m.ref, m.side, row)
    <3>1. (IF row.side = "B" THEN "B" ELSE "S") = m.side
      BY <1>2, <2>1
    <3> QED BY <1>2, <1>5, <1>8, <3>1 DEF ReplayAdd
  <2>3. c = b \cup {NewOrder(m, m.ref, m.side)}
    BY <1>3, <2>1, DisplayedAdd
  <2> QED BY <1>1, <1>4, <1>7, <2>1, <2>2, <2>3
<1>9. CASE ReplayDelete(row)
  <2>1. m.type = "D" /\ book' = Cancelled(b, m.ref) /\ UNCHANGED <<arrived, counterVars>>
    BY <1>2, <1>5, <1>9 DEF ReplayDelete
  <2>2. c = Cancelled(b, m.ref)
    <3>1. CASE Has(b, m.ref)
      <4>1. PICK o \in b : o.ref = m.ref
        BY <3>1 DEF Has
      <4>2. c = b \ {o}
        BY <1>3, <2>1, <4>1, DisplayedHas
      <4> QED BY <1>3, <4>1, <4>2 DEF Cancelled, Unique
    <3>2. CASE ~Has(b, m.ref)
      <4>1. \A x \in b : x.ref # m.ref
        BY <3>2 DEF Has
      <4>2. c = b
        BY <1>3, <2>1, <4>1, DisplayedHasNot DEF AddTypes
      <4> QED BY <4>1, <4>2 DEF Cancelled
    <3> QED BY <3>1, <3>2
  <2>3. \A x \in c : \E y \in b : y.ref = x.ref
    BY <2>2 DEF Cancelled
  <2> QED BY <1>1, <1>6, <2>1, <2>2, <2>3
<1>10. CASE ReplayReduce(row)
  <2>1. m.type = "X" /\ Has(b, m.ref)
    BY <1>2, <1>5, <1>10 DEF ReplayReduce
  <2>2. PICK o \in b : o.ref = m.ref
    BY <2>1 DEF Has
  <2>3. \A x \in b : x.ref = m.ref => x = o
    BY <1>3, <2>2 DEF Unique
  <2>4. Find(b, m.ref) = o
    BY <2>2, <2>3 DEF Find
  <2>5. m.shares > 0 /\ m.shares < o.rem
    BY <1>3, <2>1, <2>2 DEF RowFacts
  <2>6. Cancelled(b, m.ref) = b \ {o}
    BY <2>2, <2>3 DEF Cancelled
  <2>7. PICK l : l = Less(o, m.shares)
    OBVIOUS
  <2>8. c = (b \ {o}) \cup {l} /\ l.ref = o.ref
    BY <1>3, <1>4, <2>1, <2>2, <2>5, <2>7, DisplayedHas, LessIs
  <2>9. book' = (b \ {o}) \cup {l} /\ UNCHANGED <<arrived, counterVars>>
    <3>1. row.shares < Find(book, row.ref).rem
      BY <1>2, <1>5, <2>4, <2>5
    <3>2. [o EXCEPT !.rem = @ - row.shares] = l
      BY <1>2, <2>7 DEF Less
    <3>3. book' = Cancelled(b, m.ref) \cup {[o EXCEPT !.rem = @ - row.shares]}
          /\ UNCHANGED <<arrived, reduceDesync, replaceDesync, errorCount>>
      BY <1>2, <1>5, <1>10, <2>4, <3>1, Zenon DEF ReplayReduce
    <3> QED BY <2>6, <3>2, <3>3 DEF counterVars
  <2> QED BY <1>1, <1>6, <2>2, <2>8, <2>9
<1>11. CASE ReplayReplace(row)
  <2>1. m.type = "U" /\ Has(b, m.ref)
    BY <1>1, <1>2, <1>11 DEF ReplayReplace, Reconstructible
  <2>2. PICK o \in b : o.ref = m.ref
    BY <2>1 DEF Has
  <2>3. \A x \in b : x.ref = m.ref => x = o
    BY <1>3, <2>2 DEF Unique
  <2>4. Find(b, m.ref) = o /\ o.side \in {"B", "S"}
    BY <1>4, <2>2, <2>3 DEF Find
  <2>5. m.shares > 0 /\ \A x \in b : x.ref < m.newRef
    BY <1>3, <2>1 DEF RowFacts
  <2>6. Cancelled(b, m.ref) = b \ {o}
    BY <2>2, <2>3 DEF Cancelled
  <2>7. c = (b \ {o}) \cup {NewOrder(m, m.newRef, o.side)}
    BY <1>3, <2>1, <2>2, DisplayedHas
  <2>8. New(b \ {o}, m.newRef, o.side, row)
    BY <1>2, <1>5, <1>11, <2>1, <2>4, <2>6 DEF ReplayReplace
  <2>9. b \ {o} \subseteq b
    OBVIOUS
  <2> QED BY <1>1, <1>4, <1>7, <2>4, <2>5, <2>7, <2>8, <2>9
<1>12. CASE ReplayOther(row)
  <2>1. /\ m.type \notin AddTypes \cup {"D", "U"} /\ (m.type = "X" => ~Has(b, m.ref))
        /\ UNCHANGED <<book, arrived, counterVars>>
    BY <1>2, <1>5, <1>12 DEF ReplayOther
  <2>2. m.type \in ExecuteTypes => ~Has(b, m.ref)
    BY <1>1, <1>2, <1>4 DEF Executes, Has
  <2>3. c = b
    <3>1. CASE m.type \in BookTypes
      <4>1. \A x \in b : x.ref # m.ref
        BY <2>1, <2>2, <3>1 DEF BookTypes, Has
      <4> QED BY <1>3, <2>1, <4>1, DisplayedHasNot
    <3>2. CASE m.type \notin BookTypes
      BY <1>3, <3>2, DisplayedAdd
    <3> QED BY <3>1, <3>2
  <2> QED BY <1>1, <1>5, <1>6, <2>1, <2>3
<1> QED BY <1>8, <1>9, <1>10, <1>11, <1>12

\* Pass 1 knows the displayed book and has grouped the executions so far.
GroupsInv ==
  Orderly =>
    /\ stage = "scan" => at \in 1 .. Len(csv) + 1 /\ KnownOK /\ GroupsOK(at - 1)
    /\ stage \in {"replay", "inject", "done"} => GroupsOK(Len(csv))

\* In an orderly file, rows and books are known to match.
LEMMA OrderlyFile ==
  ASSUME FileInv, Orderly
  PROVE  FileOK
BY DEF FileInv, Orderly

\* The groups stay as long as the file does.
LEMMA GroupsKept ==
  ASSUME UNCHANGED <<csv, shown, aggregates>>, NEW n, GroupsOK(n)
  PROVE  GroupsOK(n)'
<1>1. \A ts, side, i, j : ExecRows(ts, side, i, j)' = ExecRows(ts, side, i, j)
  BY DEF ExecRows, Executes
<1>2. \A rows : Quantity(rows)' = Quantity(rows)
  BY DEF Quantity, RowShares
<1>3. \A side, p, k : Accepts(side, p, k)' <=> Accepts(side, p, k)
  BY DEF Accepts
<1>4. ASSUME NEW ts \in Nat, NEW side \in {"B", "S"}
      PROVE  Group(ts, side, n)'
  <2>1. Group(ts, side, n)
    BY DEF GroupsOK
  <2>2. PICK key, rows : key = <<ts, side>> /\ rows = ExecRows(ts, side, 1, n)
    OBVIOUS
  <2>3. /\ key \in DOMAIN aggregates <=> rows # {}
        /\ rows # {} => /\ aggregates[key].quantity = Quantity(rows)
                        /\ aggregates[key].price \in Nat
                        /\ \A k \in rows : Accepts(side, aggregates[key].price, k)
    BY <2>1, <2>2 DEF Group
  <2>4. ExecRows(ts, side, 1, n)' = rows
    BY <1>1, <2>2
  <2> QED BY <1>2, <1>3, <2>2, <2>3, <2>4 DEF Group
<1> QED BY <1>4 DEF GroupsOK

\* The step from one row of pass 1 to the next.
LEMMA ScanRowGroupsInv ==
  ASSUME CsvInv, FileInv, GroupsInv, ScanRow
  PROVE  GroupsInv'
<1>1. /\ stage = "scan" /\ stage' = "scan" /\ at <= Len(csv) /\ at' = at + 1
      /\ UNCHANGED <<csv, shown>>
  BY DEF ScanRow, csvVars
<1>2. SUFFICES ASSUME Orderly'
               PROVE  (at \in 1 .. Len(csv) + 1 /\ KnownOK /\ GroupsOK(at - 1))'
  BY <1>1 DEF GroupsInv
<1>3. Orderly /\ FileOK
  BY <1>1, <1>2, SameFile, OrderlyFile
<1>4. at \in 1 .. Len(csv) + 1 /\ KnownOK /\ GroupsOK(at - 1)
  BY <1>1, <1>3 DEF GroupsInv
<1>5. Len(csv) \in Nat
  BY LenProperties DEF CsvInv
<1>6. at \in 1 .. Len(csv) /\ at' \in 1 .. Len(csv) + 1 /\ at' - 1 = at
  BY <1>1, <1>4, <1>5
<1>7. Reconstructible(at)
  <2>1. at \in DOMAIN csv
    BY <1>6, LenProperties DEF CsvInv
  <2> QED BY <1>3, <2>1 DEF Orderly
<1>8. Covers(known', shown[at + 1]) /\ DOMAIN known' \subseteq ShownRefs(at + 1)
  BY <1>3, <1>4, <1>6, <1>7, ScanKnownOK
<1>9. KnownOK'
  <2>1. \A k : ShownRefs(k)' = {ref \in Nat : \E j \in 1 .. k : Has(shown[j], ref)}
    BY <1>1 DEF ShownRefs, Has
  <2>2. ShownRefs(at)' = ShownRefs(at + 1)
    BY <1>1 DEF ShownRefs, Has
  <2> QED BY <1>1, <1>8, <2>2 DEF KnownOK, Covers
<1>10. PICK n : n = at
  OBVIOUS
<1>11. GroupsOK(n)'
  BY <1>3, <1>4, <1>6, <1>7, <1>10, ScanGroupsOK
<1>12. GroupsOK(at - 1)'
  <2>1. (at - 1)' = n
    BY <1>6, <1>10
  <2> QED BY <1>11, <2>1 DEF GroupsOK, Group, ExecRows
<1> QED BY <1>1, <1>6, <1>9, <1>12

\* GroupsInv is kept by every step.
LEMMA GroupsInvStep ==
  ASSUME CsvInv, ScanInv, FileInv, GroupsInv, [ItchNext]_itchVars, CsvInv', ScanInv', FileInv'
  PROVE  GroupsInv'
<1>1. CASE (Trading \/ DecodeMessage \/ EndDecode) /\ UNCHANGED replayVars
  <2>1. stage = "decode" /\ stage' \in {"decode", "scan"}
    BY <1>1 DEF DecodeMessage, Trading, EndDecode
  <2>2. UNCHANGED <<at, known, aggregates>>
    BY <1>1 DEF replayVars, scanVars
  <2>3. at = 1 /\ DOMAIN known = {} /\ DOMAIN aggregates = {}
    BY <2>1 DEF ScanInv
  <2>4. ASSUME Orderly'
        PROVE  (at \in 1 .. Len(csv) + 1 /\ KnownOK /\ GroupsOK(at - 1))'
    <3>1. FileOK'
      BY <2>4 DEF FileInv, Orderly
    <3>2. at' = 1 /\ DOMAIN known' = {} /\ DOMAIN aggregates' = {}
      BY <2>2, <2>3
    <3>3. Len(csv') \in Nat
      BY LenProperties DEF CsvInv
    <3>4. at' \in 1 .. Len(csv') + 1 /\ at' - 1 = 0
      BY <3>2, <3>3
    <3>5. KnownOK'
      BY <3>1, <3>2 DEF KnownOK, Covers, FileOK
    <3>6. ASSUME NEW ts, NEW side PROVE ExecRows(ts, side, 1, 0)' = {}
      BY DEF ExecRows
    <3>7. GroupsOK(0)'
      BY <3>2, <3>6 DEF GroupsOK, Group
    <3>8. GroupsOK(at - 1)'
      BY <3>4, <3>7 DEF GroupsOK, Group, ExecRows
    <3> QED BY <3>4, <3>5, <3>8
  <2> QED BY <2>1, <2>4 DEF GroupsInv
<1>2. CASE ScanRow
  BY <1>2, ScanRowGroupsInv
<1>3. ASSUME UNCHANGED <<csv, shown, aggregates>>, stage \in {"replay", "inject", "done"},
             stage' \in {"replay", "inject", "done"}
      PROVE  GroupsInv'
  <2>1. SUFFICES ASSUME Orderly' PROVE GroupsOK(Len(csv))'
    BY <1>3 DEF GroupsInv
  <2>2. Orderly
    BY <1>3, <2>1, SameFile
  <2>3. PICK n : n = Len(csv)
    OBVIOUS
  <2>4. GroupsOK(n)'
    BY <1>3, <2>2, <2>3, GroupsKept DEF GroupsInv
  <2> QED BY <1>3, <2>3, <2>4 DEF GroupsOK, Group, ExecRows
<1>4. CASE EndScan
  <2>1. /\ stage = "scan" /\ at > Len(csv) /\ stage' \in {"replay", "done"}
        /\ UNCHANGED <<csv, shown, aggregates>>
    BY <1>4 DEF EndScan, csvVars, scanVars
  <2>2. SUFFICES ASSUME Orderly' PROVE GroupsOK(Len(csv))'
    BY <2>1 DEF GroupsInv
  <2>3. Orderly
    BY <2>1, <2>2, SameFile
  <2>4. at \in 1 .. Len(csv) + 1 /\ GroupsOK(at - 1) /\ Len(csv) \in Nat
    BY <2>1, <2>3, LenProperties DEF GroupsInv, CsvInv
  <2>5. at - 1 = Len(csv)
    BY <2>1, <2>4
  <2>6. PICK n : n = Len(csv)
    OBVIOUS
  <2>7. GroupsOK(n)'
    BY <2>1, <2>4, <2>5, <2>6, GroupsKept
  <2> QED BY <2>1, <2>6, <2>7 DEF GroupsOK, Group, ExecRows
<1>5. CASE TakeGroup \/ InjectAggressor \/ ReplayRow
  <2>1. /\ UNCHANGED <<csv, shown, aggregates>> /\ stage \in {"replay", "inject"}
        /\ stage' \in {"replay", "inject", "done"}
    BY <1>5 DEF TakeGroup, InjectAggressor, ReplayRow, csvVars, scanVars
  <2> QED BY <1>3, <2>1
<1>6. CASE UNCHANGED itchVars
  <2>1. UNCHANGED <<stage, csv, shown, aggregates, known, at>>
    BY <1>6 DEF itchVars, csvVars, replayVars, scanVars
  <2>2. Orderly' <=> Orderly
    BY <2>1, SameFile
  <2>3. KnownOK' <=> KnownOK
    BY <2>1 DEF KnownOK, Covers, ShownRefs, Has
  <2>4. PICK n, p : n = Len(csv) /\ p = at - 1
    OBVIOUS
  <2>5. GroupsOK(n) => GroupsOK(n)'
    BY <2>1, GroupsKept
  <2>6. GroupsOK(p) => GroupsOK(p)'
    BY <2>1, GroupsKept
  <2>7. (GroupsOK(n)' => GroupsOK(Len(csv))') /\ (GroupsOK(p)' => GroupsOK(at - 1)')
    BY <2>1, <2>4 DEF GroupsOK, Group, ExecRows
  <2> QED BY <2>1, <2>2, <2>3, <2>4, <2>5, <2>6, <2>7 DEF GroupsInv
<1> QED BY <1>1, <1>2, <1>4, <1>5, <1>6 DEF ItchNext

\* What pass 2 starts from.
LEMMA EndScanReplayInv ==
  ASSUME CsvInv, ScanInv, InjectInv, FileInv, GroupsInv, ReplayInv, EndScan
  PROVE  ReplayInv'
<1>1. /\ stage = "scan" /\ at > Len(csv) /\ at' = 1
      /\ UNCHANGED <<csv, shown, aggregates, injecting, book, arrived, syntheticIdCounter,
                     reduceDesync, replaceDesync, errorCount>>
      /\ stage' = IF AnyPrice THEN "replay" ELSE "done"
  BY DEF EndScan, csvVars, scanVars, counterVars
<1>2. /\ book = {} /\ injecting = {} /\ reduceDesync = 0 /\ replaceDesync = 0 /\ errorCount = 0
  BY <1>1 DEF ReplayInv, ScanInv
<1>3. ASSUME Orderly', AnyPrice
      PROVE  Stamped' /\ Reached(1)' /\ 1 \in 1 .. Len(csv) + 1
  <2>1. Orderly /\ FileOK /\ Len(csv) \in Nat
    BY <1>1, <1>3, SameFile, OrderlyFile, LenProperties DEF CsvInv
  <2>2. at \in 1 .. Len(csv) + 1 /\ GroupsOK(at - 1)
    BY <1>1, <2>1 DEF GroupsInv
  <2>3. at - 1 = Len(csv)
    BY <1>1, <2>1, <2>2
  <2>4. aggressorsByTs' = [ts \in {key[1] : key \in DOMAIN aggregates} |-> Aggressors(ts)]
    BY <1>3 DEF EndScan
  <2>5. ASSUME NEW j \in 1 .. Len(csv), NEW side \in {"B", "S"}, Executes(j, side)
        PROVE  csv[j].ts \in DOMAIN aggressorsByTs'
    <3>1. PICK ts \in Nat : ts = csv[j].ts
      BY <2>1, RowAt
    <3>2. j \in ExecRows(ts, side, 1, Len(csv))
      BY <2>5, <3>1 DEF ExecRows
    <3>3. Group(ts, side, Len(csv))
      BY <2>2, <2>3 DEF GroupsOK
    <3>4. PICK key \in DOMAIN aggregates : key = <<ts, side>>
      BY <3>2, <3>3 DEF Group
    <3>5. key[1] = ts
      BY <3>4
    <3> QED BY <2>4, <3>1, <3>4, <3>5
  <2>6. shown[1] = {}
    BY <2>1 DEF FileOK
  <2>7. \A j \in 1 .. 1 - 1 : FALSE
    OBVIOUS
  <2>8. \A k, side : Executes(k, side)' <=> Executes(k, side)
    BY <1>1, SameFile
  <2>9. Reached(1)'
    BY <1>1, <1>2, <2>5, <2>6, <2>7, <2>8 DEF Reached
  <2>10. Stamped'
    BY <1>1, <1>2 DEF Stamped, Ordered
  <2> QED BY <2>1, <2>9, <2>10
<1>4. stage' = "done" => ~(at' > 1)
  BY <1>1
<1> QED BY <1>1, <1>2, <1>3, <1>4 DEF ReplayInv

\* The group that is taken is of a timestamp of which no row was replayed.
LEMMA TakeGroupReplayInv ==
  ASSUME CsvInv, ScanInv, InjectInv, FileInv, ReplayInv, TakeGroup
  PROVE  ReplayInv'
<1>1. PICK ts : ts = csv[at].ts
  OBVIOUS
<1>2. /\ stage = "replay" /\ ts \in DOMAIN aggressorsByTs /\ stage' = "inject"
      /\ injecting' = aggressorsByTs[ts] /\ aggressorsByTs' = Without(aggressorsByTs, ts)
      /\ UNCHANGED <<csv, shown, at, aggregates, book, arrived, syntheticIdCounter,
                     reduceDesync, replaceDesync, errorCount>>
  BY <1>1 DEF TakeGroup, Injected, csvVars, scanVars, counterVars
<1>3. /\ at \in 1 .. Len(csv) /\ injecting = {} /\ aggressorsByTs[ts] = Aggressors(ts)
      /\ \A j \in 1 .. at - 1 : csv[j].ts # ts
  BY <1>2 DEF InjectInv
<1>4. injecting' # {}
  <2>1. PICK key \in DOMAIN aggregates : key[1] = ts
    BY <1>2 DEF InjectInv
  <2>2. Aggressors(ts) # {}
    BY <2>1 DEF Aggressors
  <2> QED BY <1>2, <1>3, <2>2
<1>5. ASSUME Orderly'
      PROVE  /\ Stamped' /\ Ready' /\ reduceDesync = 0 /\ replaceDesync = 0 /\ errorCount = 0
  <2>1. Orderly
    BY <1>2, <1>5, SameFile
  <2>2. FileOK
    BY <2>1, OrderlyFile
  <2>3. Stamped /\ reduceDesync = 0 /\ replaceDesync = 0 /\ errorCount = 0
    BY <1>2, <2>1 DEF ReplayInv
  <2>4. PICK k \in at .. Len(csv) + 1 : Reached(k)
    BY <1>2, <1>3, <2>1 DEF ReplayInv
  <2>5. at \in Nat /\ Len(csv) \in Nat /\ k \in Nat
    BY <1>3, <2>2, RowAt
  <2>6. k = at
    <3>1. SUFFICES ASSUME k > at PROVE FALSE
      BY <2>4, <2>5
    <3>2. at > 1 /\ csv[at - 1].ts = csv[k - 1].ts
      BY <1>2, <2>4, <3>1 DEF Reached
    <3>3. at \in at .. k - 1 /\ at - 1 \in 1 .. at - 1
      BY <2>5, <3>1, <3>2
    <3>4. csv[at].ts = csv[k - 1].ts
      BY <2>4, <3>3 DEF Reached
    <3> QED BY <1>1, <1>3, <3>2, <3>3, <3>4
  <2>7. /\ book = shown[at]
        /\ \A j \in at .. Len(csv), side \in {"B", "S"} :
             Executes(j, side) => csv[j].ts \in DOMAIN aggressorsByTs
    BY <2>4, <2>6 DEF Reached
  <2>8. \A x : x \in DOMAIN aggressorsByTs => x \in DOMAIN aggressorsByTs' \cup {ts}
    BY <1>2 DEF Without
  <2>9. Aggressors(ts)' = Aggressors(ts)
    BY <1>2 DEF Aggressors
  <2>10. \A j, side : Executes(j, side)' <=> Executes(j, side)
    BY <1>2, SameFile
  <2>11. Ready'
    BY <1>1, <1>2, <1>3, <2>7, <2>8, <2>9, <2>10 DEF Ready
  <2>12. Stamped'
    BY <1>2, <2>3 DEF Stamped, Ordered, Arrival
  <2> QED BY <2>3, <2>11, <2>12
<1> QED BY <1>2, <1>4, <1>5 DEF ReplayInv

\* A replayed row keeps the book where it is, or takes it to the next one.
LEMMA ReplayRowReplayInv ==
  ASSUME CsvInv, ScanInv, InjectInv, FileInv, ReplayInv, ReplayRow
  PROVE  ReplayInv'
<1>1. /\ stage \in {"replay", "inject"} /\ at' = at + 1
      /\ UNCHANGED <<csv, shown, aggregates, aggressorsByTs, injecting, syntheticIdCounter>>
      /\ stage' \in {"replay", "done"}
  BY DEF ReplayRow, csvVars, scanVars
<1>2. /\ at \in 1 .. Len(csv) /\ injecting = {} /\ csv[at].ts \notin DOMAIN aggressorsByTs
      /\ syntheticIdCounter \in Nat
  BY DEF ReplayRow, InjectInv
<1>3. PICK row : /\ row = csv[at]
                 /\ \/ ReplayAdd(row) \/ ReplayDelete(row) \/ ReplayReduce(row)
                    \/ ReplayReplace(row) \/ ReplayOther(row)
  BY DEF ReplayRow
<1>4. ASSUME Orderly'
      PROVE  /\ Stamped' /\ (\E k \in at' .. Len(csv) + 1 : Reached(k)')
             /\ reduceDesync' = 0 /\ replaceDesync' = 0 /\ errorCount' = 0
  <2>1. Orderly
    BY <1>1, <1>4, SameFile
  <2>2. FileOK
    BY <2>1, OrderlyFile
  <2>3. Stamped /\ reduceDesync = 0 /\ replaceDesync = 0 /\ errorCount = 0
    BY <1>1, <2>1 DEF ReplayInv
  <2>4. PICK k \in at .. Len(csv) + 1 : Reached(k)
    BY <1>1, <1>2, <2>1 DEF ReplayInv
  <2>5. at \in Nat /\ Len(csv) \in Nat /\ k \in Nat
    BY <1>2, <2>2, RowAt
  <2>6. Reconstructible(at)
    <3>1. at \in DOMAIN csv
      BY <1>2, LenProperties DEF CsvInv
    <3> QED BY <2>1, <3>1 DEF Orderly
  <2>7. /\ \A j, side : Executes(j, side)' <=> Executes(j, side)
        /\ \A j : Quiet(j)' <=> Quiet(j)
    BY <1>1, SameFile
  <2>8. CASE k > at
    <3>1. k \in at' .. Len(csv) + 1 /\ at \in at .. k - 1
      BY <1>1, <2>5, <2>8
    <3>2. /\ Quiet(at) /\ csv[at].ts = csv[k - 1].ts /\ \A x \in book : Has(shown[at], x.ref)
      BY <2>4, <3>1 DEF Reached
    <3>3. UNCHANGED <<book, arrived, counterVars>>
      BY <1>2, <1>3, <2>2, <2>6, <3>2, QuietRow
    <3>4. Stamped'
      BY <1>1, <1>2, <2>3, <2>5, <3>3, StampedKept
    <3>5. Reached(k)'
      <4>1. \A j \in at' .. k - 1 : j \in at .. k - 1
        BY <1>1, <2>5
      <4>2. at' > 1 /\ at' - 1 = at
        BY <1>1, <1>2, <2>5
      <4>3. /\ book' = shown[k]
            /\ \A j \in at' .. k - 1 : /\ Quiet(j)' /\ csv[j].ts = csv[k - 1].ts
                                       /\ \A x \in book' : Has(shown[j], x.ref)
        BY <2>4, <2>7, <3>3, <4>1 DEF Reached
      <4>4. \A j \in k .. Len(csv), side \in {"B", "S"} :
              Executes(j, side)' => csv[j].ts \in DOMAIN aggressorsByTs'
        BY <1>1, <2>4, <2>7 DEF Reached
      <4> QED BY <1>1, <3>2, <4>2, <4>3, <4>4 DEF Reached, Has
    <3> QED BY <2>3, <3>1, <3>3, <3>4, <3>5 DEF counterVars
  <2>9. CASE k = at
    <3>1. /\ book = shown[at]
          /\ \A j \in at .. Len(csv), side \in {"B", "S"} :
               Executes(j, side) => csv[j].ts \in DOMAIN aggressorsByTs
      BY <2>4, <2>9 DEF Reached
    <3>2. \A side \in {"B", "S"} : ~Executes(at, side)
      <4>1. at \in at .. Len(csv)
        BY <1>2, <2>5
      <4> QED BY <1>2, <3>1, <4>1
    <3>3. book' = shown[at + 1] /\ UNCHANGED counterVars /\ Stamped'
      BY <1>1, <1>2, <1>3, <2>2, <2>3, <2>6, <3>1, <3>2, ActiveRow
    <3>4. PICK n : n = at + 1
      OBVIOUS
    <3>5. n \in at' .. Len(csv) + 1 /\ at' = n /\ n \in Nat
      BY <1>1, <1>2, <2>5, <3>4
    <3>6. (\A j \in n .. n - 1 : FALSE) /\ ~(n > n) /\ \A j \in n .. Len(csv) : j \in at .. Len(csv)
      BY <2>5, <3>4, <3>5
    <3>7. Reached(n)'
      BY <1>1, <2>7, <3>1, <3>3, <3>4, <3>5, <3>6 DEF Reached
    <3> QED BY <2>3, <3>3, <3>5, <3>7 DEF counterVars
  <2> QED BY <2>4, <2>5, <2>8, <2>9
<1> QED BY <1>1, <1>2, <1>4 DEF ReplayInv

\* ReplayInv is kept by every step.
LEMMA ReplayInvStep ==
  ASSUME CsvInv, ScanInv, InjectInv, FileInv, GroupsInv, ReplayInv, [ItchNext]_itchVars
  PROVE  ReplayInv'
<1>1. ASSUME stage \in {"decode", "scan"}, stage' \in {"decode", "scan"},
             UNCHANGED <<book, reduceDesync, replaceDesync, errorCount>>
      PROVE  ReplayInv'
  BY <1>1 DEF ReplayInv
<1>2. CASE (Trading \/ DecodeMessage \/ EndDecode) /\ UNCHANGED replayVars
  <2>1. stage = "decode" /\ stage' \in {"decode", "scan"}
    BY <1>2 DEF DecodeMessage, Trading, EndDecode
  <2>2. UNCHANGED <<book, reduceDesync, replaceDesync, errorCount>>
    BY <1>2 DEF replayVars, counterVars
  <2> QED BY <1>1, <2>1, <2>2
<1>3. CASE ScanRow
  BY <1>1, <1>3 DEF ScanRow, counterVars
<1>4. CASE InjectAggressor
  <2>1. /\ stage = "inject" /\ stage' = "inject" /\ injecting # {} /\ UNCHANGED <<csv, shown, at>>
        /\ UNCHANGED <<reduceDesync, replaceDesync, errorCount>>
    BY <1>4 DEF InjectAggressor, csvVars, counterVars
  <2>2. ASSUME Orderly'
        PROVE  /\ reduceDesync = 0 /\ replaceDesync = 0 /\ errorCount = 0
               /\ Stamped' /\ injecting' = {} /\ \E n \in at .. Len(csv) + 1 : Reached(n)'
    <3>1. Orderly
      BY <2>1, <2>2, SameFile
    <3>2. FileOK /\ GroupsOK(Len(csv))
      BY <2>1, <3>1, OrderlyFile DEF GroupsInv
    <3>3. Stamped /\ Ready /\ reduceDesync = 0 /\ replaceDesync = 0 /\ errorCount = 0
      BY <2>1, <3>1 DEF ReplayInv
    <3> QED BY <1>4, <3>1, <3>2, <3>3, InjectReplayInv
  <2> QED BY <2>1, <2>2 DEF ReplayInv
<1>5. CASE UNCHANGED itchVars
  <2>1. UNCHANGED <<stage, csv, shown, aggregates, at, aggressorsByTs, injecting, book, arrived,
                    syntheticIdCounter, reduceDesync, replaceDesync, errorCount>>
    BY <1>5 DEF itchVars, csvVars, replayVars, scanVars, counterVars
  <2>2. /\ Orderly' <=> Orderly
        /\ \A j, side : Executes(j, side)' <=> Executes(j, side)
        /\ \A j : Quiet(j)' <=> Quiet(j)
    BY <2>1, SameFile
  <2>3. (Stamped' <=> Stamped) /\ (Ready' <=> Ready)
    BY <2>1, <2>2 DEF Stamped, Ordered, Arrival, Ready, Aggressors
  <2>4. \A k : Reached(k)' <=> Reached(k)
    BY <2>1, <2>2 DEF Reached, Has
  <2> QED BY <2>1, <2>2, <2>3, <2>4 DEF ReplayInv
<1> QED BY <1>2, <1>3, <1>4, <1>5, EndScanReplayInv, TakeGroupReplayInv, ReplayRowReplayInv
        DEF ItchNext

\* The inductive invariant of the whole tool chain.
ChainInv == ItchInv /\ FileInv /\ GroupsInv /\ ReplayInv

\* It holds at the start,
LEMMA ChainInvInit ==
  ASSUME ItchInit
  PROVE  ChainInv
<1>1. /\ stage = "decode" /\ book = {} /\ reduceDesync = 0 /\ replaceDesync = 0 /\ errorCount = 0
  BY DEF ItchInit, CsvInit
<1>2. GroupsInv /\ ReplayInv
  BY <1>1 DEF GroupsInv, ReplayInv
<1> QED BY <1>2, ItchInvInit, FileInvInit DEF ChainInv

\* and always: what pass 1 knows and groups, and the book of pass 2, follow the
\* books the file displays.
THEOREM ChainInvHolds == ItchSpec => []ChainInv
<1>1. ASSUME ChainInv, [ItchNext]_itchVars
      PROVE  ChainInv'
  <2>1. ItchInv'
    BY <1>1, CsvInvStep, SidesOKStep, ScanInvStep, InjectInvStep DEF ItchInv, ChainInv
  <2>2. FileInv'
    BY <1>1, <2>1, FileInvStep DEF ItchInv, ChainInv
  <2>3. GroupsInv'
    BY <1>1, <2>1, <2>2, GroupsInvStep DEF ItchInv, ChainInv
  <2>4. ReplayInv'
    BY <1>1, ReplayInvStep DEF ItchInv, ChainInv
  <2> QED BY <2>1, <2>2, <2>3, <2>4 DEF ChainInv
<1>2. ChainInv /\ [ItchNext]_itchVars => ChainInv'
  BY <1>1
<1> QED BY <1>2, ChainInvInit, PTL DEF ItchSpec

\* It says what ReplayMatchesVenue asks for.
LEMMA ChainInvGives ==
  ASSUME ChainInv
  PROVE  ReplayMatchesVenue
<1>1. CsvInv /\ InjectInv /\ FileInv /\ ReplayInv
  BY DEF ChainInv, ItchInv
<1>2. SUFFICES ASSUME AtBoundary, Orderly
               PROVE  BookIsShown /\ reduceDesync = 0 /\ replaceDesync = 0 /\ errorCount = 0
  BY DEF ReplayMatchesVenue
<1>3. /\ stage \in {"replay", "done"} /\ at > 1 /\ injecting = {}
      /\ at > Len(csv) \/ csv[at].ts # csv[at - 1].ts
  BY <1>1, <1>2 DEF AtBoundary, InjectInv
<1>4. Stamped /\ reduceDesync = 0 /\ replaceDesync = 0 /\ errorCount = 0
  BY <1>1, <1>2, <1>3 DEF ReplayInv
<1>5. PICK k \in at .. Len(csv) + 1 : Reached(k)
  BY <1>1, <1>2, <1>3 DEF ReplayInv
<1>6. Len(csv) \in Nat /\ at \in Nat /\ k \in Nat
  BY <1>1, <1>5, LenProperties DEF CsvInv, ChainInv, ItchInv, ScanInv
<1>7. k = at
  <2>1. SUFFICES ASSUME k > at PROVE FALSE
    BY <1>5, <1>6
  <2>2. csv[at - 1].ts = csv[k - 1].ts
    BY <1>3, <1>5, <2>1 DEF Reached
  <2>3. at \in at .. k - 1
    BY <1>6, <2>1
  <2>4. csv[at].ts = csv[k - 1].ts
    BY <1>5, <2>3 DEF Reached
  <2>5. ~(at > Len(csv))
    BY <1>5, <1>6, <2>1
  <2> QED BY <1>3, <2>2, <2>4, <2>5
<1>8. book = shown[at]
  BY <1>5, <1>7 DEF Reached
<1> QED BY <1>4, <1>8 DEF BookIsShown, Stamped, Ordered

\* Whenever the rows of a timestamp are done, the replayed book is the one the
\* venue displayed, with its time priority, and no counter has counted, for every
\* session whose executions can be reconstructed (itch_replay.cpp, both passes).
THEOREM ReplayMatchesVenueHolds == ItchSpec => []ReplayMatchesVenue
<1> QED BY ChainInvHolds, ChainInvGives, PTL
=============================================================================

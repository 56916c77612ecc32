---------------------------- MODULE MCItchReplay ----------------------------
(***************************************************************************)
(* Small sessions: two symbols, of which one is wanted.                    *)
(***************************************************************************)
EXTENDS ItchReplay

MCDirectory == <<"SYM", "OTHER">>

\* A message about no order: a session event (S), an imbalance (I), which has
\* no row, the directory entry of the symbol (R).
Notice(type, locate, stock) ==
  [BookMessage(type, 0, "", 0, 0, 0) EXCEPT !.locate = locate, !.stock = stock]
Listing == Notice("R", Locate, "SYM")

Order(ref, side, price, shares) ==
  BookMessage(IF side = "B" THEN "A" ELSE "F", ref, side, shares, price, 0)

\* The notices, and an order of the other symbol.
MCBystanders ==
  {Notice("S", 0, ""), Notice("I", Locate, ""), Listing,
   [Order(99, "B", 1, 1) EXCEPT !.locate = Locate + 1, !.stock = "OTHER"]}

\* The orders in the book when the session begins: two levels of either side,
\* both sides, or one order sent before the directory message.
MCOpenings ==
  {<<Listing, Order(2, "S", 2, 2), Order(3, "S", 1, 2)>>,
   <<Listing, Order(2, "B", 1, 2), Order(3, "B", 2, 2)>>,
   <<Listing, Order(2, "B", 1, 2), Order(3, "S", 2, 2)>>,
   <<Order(1, "S", 2, 2), Notice("I", Locate, ""), Listing>>}

PlainOpenings == {<<Listing>>}
=============================================================================

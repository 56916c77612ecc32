---------------------------- MODULE MCOrderBook ----------------------------
(***************************************************************************)
(* Small instance of the order book driven through its public calls.       *)
(***************************************************************************)
EXTENDS OrderBookHistory

\* Fresh limit orders of one or two units and a remainder of one unit, at
\* every price, and each way a submission can be refused up front or by
\* isValid.
MCRequests ==
  LET base == [id |-> InvalidId, side |-> "BUY", type |-> "LIMIT",
               price |-> MinPrice, orig |-> 2, rem |-> 2, seq |-> 1,
               wellFormed |-> TRUE]
      limit(id, side, price, orig, rem) ==
        [base EXCEPT !.id = id, !.side = side, !.price = price,
                     !.orig = orig, !.rem = rem]
      valid == {limit(id, side, price, q[1], q[2]) :
                  id \in OrderIds, side \in Sides, price \in Prices,
                  q \in {<<1, 1>>, <<2, 2>>, <<2, 1>>}}
      named == {[base EXCEPT !.id = id] : id \in OrderIds}
      refused == UNION {{[r EXCEPT !.type = "MARKET"], [r EXCEPT !.rem = 0],
                         [r EXCEPT !.orig = 0], [r EXCEPT !.rem = 3],
                         [r EXCEPT !.seq = 0],
                         [r EXCEPT !.wellFormed = FALSE]} : r \in named}
  IN  valid \cup refused \cup {base}

Symmetry == Permutations(Slots) \cup Permutations(OrderIds)
=============================================================================

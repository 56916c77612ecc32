-------------------------- MODULE MCMatchingEngine --------------------------
(***************************************************************************)
(* Small instance of the matching engine.                                  *)
(***************************************************************************)
EXTENDS MatchingEngine

\* Limit orders at every price and market orders, of one and two units, and
\* each way validation can refuse a submission.
MCRequests ==
  LET base == [id |-> InvalidId, side |-> "BUY", type |-> "LIMIT",
               price |-> MinPrice, orig |-> 2, rem |-> 0, seq |-> 0,
               wellFormed |-> TRUE]
      new(id, side, type, price, qty) ==
        [base EXCEPT !.id = id, !.side = side, !.type = type,
                     !.price = price, !.orig = qty]
      named == {[base EXCEPT !.id = id] : id \in OrderIds}
      refused == UNION {{[r EXCEPT !.type = "MARKET"], [r EXCEPT !.orig = 0],
                         [r EXCEPT !.wellFormed = FALSE]} : r \in named}
  IN  {new(id, side, "LIMIT", price, qty) :
         id \in OrderIds, side \in Sides, price \in Prices, qty \in 1 .. 2}
      \cup {new(id, side, "MARKET", 0, qty) :
              id \in OrderIds, side \in Sides, qty \in 1 .. 3}
      \cup refused \cup {base}

Symmetry == Permutations(Slots) \cup Permutations(OrderIds)
=============================================================================

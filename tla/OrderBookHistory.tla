-------------------------- MODULE OrderBookHistory --------------------------
(***************************************************************************)
(* The order book with one history variable: the book as it was when the   *)
(* running insertion was accepted for allocation.  It is what the strong   *)
(* exception guarantee of addOrderWithQuantities is stated against.        *)
(***************************************************************************)
EXTENDS OrderBook

VARIABLE before   \* bookVars at the start of the running call

HistInit == BookInit /\ before = bookVars

HistNext ==
  /\ BookNext
  /\ before' = IF pc' \in {"idle", "alloc"} THEN bookVars' ELSE before

HistSpec == HistInit /\ [][HistNext]_<<bookVars, callVars, before>>

\* An insertion that throws, at whatever step, leaves every structure exactly
\* as it found it: queue order, aggregates, occupancy, cached best, index and
\* pool ("On failure, the level link and any newly created level are removed
\* before pool release").
FailedAddRestoresBook ==
  [][pc # "idle" /\ pc' = "idle" /\ result' # "ok"
       => bookVars' = before]_<<bookVars, callVars, before>>
=============================================================================

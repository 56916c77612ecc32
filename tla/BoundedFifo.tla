---------------------------- MODULE BoundedFifo ----------------------------
(***************************************************************************)
(* What SpscEventQueue promises: a FIFO of at most Capacity events, each   *)
(* delivered once, and nothing left constructed when it is destroyed.      *)
(***************************************************************************)
EXTENDS Naturals, Sequences

CONSTANTS Events, Capacity, Nothing

VARIABLES
  items,    \* events pushed and not yet popped, oldest first
  taken,    \* the event the last successful pop returned
  closed    \* the queue has been destroyed

fifoVars == <<items, taken, closed>>

FifoInit ==
  /\ items = <<>>
  /\ taken = Nothing
  /\ closed = FALSE

Push(e) ==
  /\ ~closed
  /\ Len(items) < Capacity
  /\ items' = Append(items, e)
  /\ UNCHANGED <<taken, closed>>

Pop ==
  /\ ~closed
  /\ items # <<>>
  /\ taken' = Head(items)
  /\ items' = Tail(items)
  /\ UNCHANGED closed

Close ==
  /\ ~closed
  /\ closed' = TRUE
  /\ items' = <<>>
  /\ UNCHANGED taken

FifoNext == (\E e \in Events : Push(e)) \/ Pop \/ Close

FifoSpec == FifoInit /\ [][FifoNext]_fifoVars
=============================================================================

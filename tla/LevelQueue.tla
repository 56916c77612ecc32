----------------------------- MODULE LevelQueue -----------------------------
(***************************************************************************)
(* What the price levels promise the order book: each is a FIFO queue that *)
(* an order joins at the back and can leave from anywhere, and an order is *)
(* in at most one of them.                                                 *)
(***************************************************************************)
EXTENDS Naturals, SequencesExt

CONSTANTS Levels, Orders

VARIABLE fifo   \* per level, the orders from first to last

QueueInit == fifo = [l \in Levels |-> <<>>]

Join(l, o) ==
  /\ \A m \in Levels : ~Contains(fifo[m], o)
  /\ fifo' = [fifo EXCEPT ![l] = Append(@, o)]

Leave(l, o) ==
  /\ Contains(fifo[l], o)
  /\ fifo' = [fifo EXCEPT ![l] = RemoveFirst(@, o)]

QueueNext == \E l \in Levels, o \in Orders : Join(l, o) \/ Leave(l, o)

QueueSpec == QueueInit /\ [][QueueNext]_fifo
=============================================================================

--------------------------- MODULE SpscEventQueue ---------------------------
(***************************************************************************)
(* lob::SpscEventQueue (src/include/lob/concurrency/spsc_event_queue.hpp): *)
(* the wait-free ring between the feed-handler and the matching thread.    *)
(*                                                                         *)
(* One action per shared access of tryPush and tryPop.  The cursors are    *)
(* free-running unsigned integers that wrap at CursorModulus (2^64 in the  *)
(* code).  An atomic load may return any value of the other cursor since   *)
(* the last one this thread saw, as the memory model allows; the release   *)
(* stores and acquire loads make the slot accesses that precede a store    *)
(* visible to whoever reads its value, which is why plain interleaving of  *)
(* the slot accesses is enough.                                            *)
(***************************************************************************)
EXTENDS Naturals, Sequences

CONSTANTS
  Events,         \* values pushed
  Capacity,       \* slots of the ring
  CursorModulus,  \* 2^64
  Dead            \* contents of a slot that holds no constructed event

\* Both are powers of two in the code; what the cursor arithmetic needs of
\* that is that the ring divides the range of the cursors, more than once.
ASSUME CapacityAssumption ==
  /\ Capacity \in Nat \ {0}
  /\ \E k \in 2 .. CursorModulus : CursorModulus = k * Capacity
  /\ CursorModulus \in Nat

ASSUME EventAssumption == Dead \notin Events

VARIABLES
  head, tail,               \* the shared cursors
  cachedHead, cachedTail,   \* each thread's private view of the other's cursor
  storage,                  \* the slots
  ppc, event,               \* tryPush: program counter and argument
  cpc, out,                 \* tryPop: program counter and destination
  taken,                    \* what the last successful tryPop returned
  destroyed                 \* ~SpscEventQueue has run

producerVars == <<tail, cachedHead, ppc, event>>
consumerVars == <<head, cachedTail, cpc, out, taken>>
queueVars == <<producerVars, consumerVars, storage, destroyed>>

Cursors == 0 .. CursorModulus - 1

\* Mutant of Succ: the cursor does not wrap.
SuccUnwrapped(c) == c + 1

\* Unsigned arithmetic on cursors.
Succ(c) == (c + 1) % CursorModulus
Distance(from, to) == (to + CursorModulus - from) % CursorModulus

SlotOf(c) == c % Capacity

\* What an atomic load can return: a value the cursor has had since the last
\* one this thread read.
Visible(last, current) ==
  {(last + k) % CursorModulus : k \in 0 .. Distance(last, current)}

QueueInit ==
  /\ head = 0 /\ tail = 0 /\ cachedHead = 0 /\ cachedTail = 0
  /\ storage = [i \in 0 .. Capacity - 1 |-> Dead]
  /\ ppc = "idle" /\ event = Dead
  /\ cpc = "idle" /\ out = Dead
  /\ taken = Dead
  /\ destroyed = FALSE

(***************************************************************************)
(* tryPush, on the producer's thread.                                      *)
(***************************************************************************)
\* Mutant of LooksFull: one event too many.
LooksFullLate(c) == Distance(c, tail) > Capacity

LooksFull(c) == Distance(c, tail) >= Capacity

TryPush(e) ==
  /\ ppc = "idle" /\ ~destroyed
  /\ event' = e
  /\ ppc' = IF LooksFull(cachedHead) THEN "refresh" ELSE "construct"
  /\ UNCHANGED <<tail, cachedHead, consumerVars, storage, destroyed>>

\* Re-reads the consumer's cursor; returns false when still full.
RefreshHead(seen) ==
  /\ ppc = "refresh"
  /\ seen \in Visible(cachedHead, head)
  /\ cachedHead' = seen
  /\ ppc' = IF LooksFull(seen) THEN "idle" ELSE "construct"
  /\ UNCHANGED <<tail, event, consumerVars, storage, destroyed>>

Construct ==
  /\ ppc = "construct"
  /\ storage' = [storage EXCEPT ![SlotOf(tail)] = event]
  /\ ppc' = "publish"
  /\ UNCHANGED <<tail, cachedHead, event, consumerVars, destroyed>>

PublishTail ==
  /\ ppc = "publish"
  /\ tail' = Succ(tail)
  /\ ppc' = "idle"
  /\ UNCHANGED <<cachedHead, event, consumerVars, storage, destroyed>>

(***************************************************************************)
(* tryPop, on the consumer's thread.                                       *)
(***************************************************************************)
\* Mutant of LooksEmpty: the emptiness test is ignored.
LooksEmptyIgnored(c) == c \notin Cursors

LooksEmpty(c) == head = c

TryPop ==
  /\ cpc = "idle" /\ ~destroyed
  /\ cpc' = IF LooksEmpty(cachedTail) THEN "refresh" ELSE "take"
  /\ UNCHANGED <<producerVars, head, cachedTail, out, taken, storage, destroyed>>

\* Mutant of RefreshTail: the private copy is never refreshed.
RefreshTailStale(seen) ==
  /\ cpc = "refresh"
  /\ seen \in Visible(cachedTail, tail)
  /\ cpc' = IF LooksEmpty(cachedTail) THEN "idle" ELSE "take"
  /\ UNCHANGED <<producerVars, head, cachedTail, out, taken, storage, destroyed>>

\* Re-reads the producer's cursor; returns false when still empty.
RefreshTail(seen) ==
  /\ cpc = "refresh"
  /\ seen \in Visible(cachedTail, tail)
  /\ cachedTail' = seen
  /\ cpc' = IF LooksEmpty(seen) THEN "idle" ELSE "take"
  /\ UNCHANGED <<producerVars, head, out, taken, storage, destroyed>>

Take ==
  /\ cpc = "take"
  /\ out' = storage[SlotOf(head)]
  /\ cpc' = "destroy"
  /\ UNCHANGED <<producerVars, head, cachedTail, taken, storage, destroyed>>

DestroyEvent ==
  /\ cpc = "destroy"
  /\ storage' = [storage EXCEPT ![SlotOf(head)] = Dead]
  /\ cpc' = "publish"
  /\ UNCHANGED <<producerVars, head, cachedTail, out, taken, destroyed>>

PublishHead ==
  /\ cpc = "publish"
  /\ head' = Succ(head)
  /\ taken' = out
  /\ cpc' = "idle"
  /\ UNCHANGED <<producerVars, cachedTail, out, storage, destroyed>>

(***************************************************************************)
(* The destructor, once both threads are done with the queue.              *)
(***************************************************************************)
\* Mutant of DestroyQueue: events still queued are not destroyed.
DestroyQueueLeaks ==
  /\ ppc = "idle" /\ cpc = "idle" /\ ~destroyed
  /\ destroyed' = TRUE
  /\ UNCHANGED <<producerVars, consumerVars, storage>>

DestroyQueue ==
  /\ ppc = "idle" /\ cpc = "idle" /\ ~destroyed
  /\ destroyed' = TRUE
  /\ storage' = [i \in DOMAIN storage |->
                   IF \E k \in 0 .. Distance(head, tail) - 1 : i = SlotOf(head + k)
                     THEN Dead ELSE storage[i]]
  /\ UNCHANGED <<producerVars, consumerVars>>

QueueNext ==
  \/ \E e \in Events : TryPush(e)
  \/ \E seen \in Cursors : RefreshHead(seen) \/ RefreshTail(seen)
  \/ Construct \/ PublishTail
  \/ TryPop \/ Take \/ DestroyEvent \/ PublishHead
  \/ DestroyQueue

QueueSpec == QueueInit /\ [][QueueNext]_queueVars
-----------------------------------------------------------------------------
\* Type correctness of the queue and of the two running calls.
QueueTypeOK ==
  /\ head \in Cursors /\ tail \in Cursors
  /\ cachedHead \in Cursors /\ cachedTail \in Cursors
  /\ storage \in [0 .. Capacity - 1 -> Events \cup {Dead}]
  /\ ppc \in {"idle", "refresh", "construct", "publish"}
  /\ cpc \in {"idle", "refresh", "take", "destroy", "publish"}
  /\ event \in Events \cup {Dead}
  /\ out \in Events \cup {Dead}
  /\ taken \in Events \cup {Dead}
  /\ destroyed \in BOOLEAN

\* The private views are behind the cursors they copy and never further apart
\* than the ring is long, also when a cursor has wrapped past its maximum.
CursorsOrdered ==
  /\ Distance(head, tail) <= Capacity
  /\ Distance(cachedHead, head) + Distance(head, tail) <= Capacity
  /\ Distance(head, cachedTail) + Distance(cachedTail, tail) <= Capacity
  /\ ppc \in {"construct", "publish"} =>
       Distance(cachedHead, head) + Distance(head, tail) < Capacity
  /\ cpc \in {"take", "destroy", "publish"} => head # cachedTail

\* The slots that hold a constructed event.
Occupied == {i \in DOMAIN storage : storage[i] # Dead}

\* Exactly the published slots are constructed, but for the one either thread
\* is working on: nothing is constructed over a live event, read or destroyed
\* when dead, leaked, or left behind by the destructor.
SlotsExact ==
  Occupied =
    IF destroyed THEN {}
    ELSE ({SlotOf(head + k) : k \in 0 .. Distance(head, tail) - 1}
            \cup (IF ppc = "publish" THEN {SlotOf(tail)} ELSE {}))
         \ (IF cpc = "publish" THEN {SlotOf(head)} ELSE {})

\* The two threads never touch the same slot in an order the cursors do not
\* establish: a slot is written only when its last reader has published.
NoSlotRace ==
  ppc \in {"construct", "publish"} /\ cpc \in {"take", "destroy", "publish"} =>
    SlotOf(tail) # SlotOf(head)
-----------------------------------------------------------------------------
(***************************************************************************)
(* The queue implements a bounded FIFO: a push takes effect at the store   *)
(* to the tail cursor, a pop at the store to the head cursor.              *)
(***************************************************************************)
Published ==
  [k \in 1 .. Distance(head, tail) |->
     IF k = 1 /\ cpc = "publish" THEN out ELSE storage[SlotOf(head + k - 1)]]

Fifo == INSTANCE BoundedFifo WITH
  items <- IF destroyed THEN <<>> ELSE Published,
  closed <- destroyed,
  Nothing <- Dead

\* Whatever the interleaving of the two threads and however stale the cursors
\* they read, events come out once each, in the order they went in.
ImplementsBoundedFifo == Fifo!FifoSpec
=============================================================================

-------------------------- MODULE OrderIndexProofs --------------------------
(***************************************************************************)
(* Proofs about the order index, for every initial capacity, every set of  *)
(* identifiers and every hash function: lookup is exact after any history  *)
(* of insertions, doublings and backward-shift deletions, probes end, the  *)
(* counter is exact, and no loop loses or duplicates an entry.             *)
(*                                                                         *)
(* The invariant that makes linear probing correct is Settled: from the    *)
(* natural index of an entry up to its slot there is no free slot.  A      *)
(* removal breaks it at the hole it leaves.  ShiftOK says how far: only    *)
(* paths through the hole are broken, only those of entries the shift has  *)
(* not examined yet, and the examined ones form an unbroken run behind the *)
(* hole.  The table a rehash fills satisfies Settled throughout.           *)
(***************************************************************************)
EXTENDS OrderIndex, DataLemmas

\* A stored pair.  A slot holds one or is empty.
Entry == [key : Ids, value : Orders]
\* t is a table of c slots.
IsTable(t, c) == t \in [0 .. c - 1 -> Entry \cup {Empty}]
\* The slots that hold an entry.
Used(t) == {i \in DOMAIN t : ~Free(t[i])}

\* x is met going round from n to i, both included.
Between(n, x, i) == IF n <= i THEN n <= x /\ x <= i ELSE n <= x \/ x <= i

\* The natural index of the entry in slot i.
Home(t, i) == IndexFor(t[i].key, Capacity(t))

\* A probe for a stored identifier reaches it before any free slot.
Settled(t) ==
  \A i, x \in DOMAIN t :
    ~Free(t[i]) /\ Between(Home(t, i), x, i) => ~Free(t[x])

\* No identifier is stored twice.
UniqueKeys(t) ==
  \A i, j \in Used(t) : t[i].key = t[j].key => i = j

\* x lies strictly between v and s going round from v; all slots but v when
\* the round is complete.
Passed(v, s, x) ==
  x # v /\ IF v < s THEN v < x /\ x < s ELSE v < x \/ x < s

\* The running shift has examined slot x since the hole is where it is.
Scanned(x) == Passed(vacated, scan, x)

\* The state of the table during a backward shift.
ShiftOK ==
  /\ scan \in DOMAIN slots /\ vacated \in DOMAIN slots
  /\ Free(slots[vacated])
  /\ \A x \in DOMAIN slots : Scanned(x) => ~Free(slots[x])
  /\ \A i, x \in DOMAIN slots :
       ~Free(slots[i]) /\ Between(Home(slots, i), x, i)
         => ~Free(slots[x]) \/ (x = vacated /\ ~Scanned(i))

\* The larger table holds exactly the entries of the slots already scanned.
Copied ==
  /\ \A i \in Used(slots) : i < scan => \E j \in Used(grown) : grown[j] = slots[i]
  /\ \A j \in Used(grown) : \E i \in Used(slots) : i < scan /\ grown[j] = slots[i]

\* The state of a rehash: the larger table is a correct one throughout, and
\* large enough for everything that will be in it.
RehashOK ==
  /\ scan \in 0 .. Capacity(slots)
  /\ \E c \in Nat \ {0, 1} : IsTable(grown, c)
  /\ Settled(grown) /\ UniqueKeys(grown) /\ Copied
  /\ Cardinality(Used(grown)) = Cardinality({i \in Used(slots) : i < scan})
  /\ 2 * count <= Capacity(grown)
  /\ pending # Empty => 2 * (count + 1) <= Capacity(grown)

\* Types of the variables.
IndexTypeOK ==
  /\ hash \in [Ids -> HashValues]
  /\ slots = NoTable \/ \E c \in Nat \ {0, 1} : IsTable(slots, c)
  /\ count \in Nat
  /\ at \in {"idle", "rehash", "insert", "shift"}
  /\ pending \in Entry \cup {Empty}

\* The inductive invariant.
IndexInv ==
  /\ IndexTypeOK
  /\ UniqueKeys(slots)
  /\ count = Cardinality(Used(slots))
  /\ 2 * count <= Capacity(slots)
  /\ at # "shift" => Settled(slots)
  /\ at # "rehash" => grown = NoTable
  /\ at = "rehash" => RehashOK
  /\ at = "insert" => pending \in Entry /\ slots # NoTable
                      /\ 2 * (count + 1) <= Capacity(slots)
  /\ at = "shift" => slots # NoTable /\ ShiftOK

-----------------------------------------------------------------------------
\* A remainder, for numbers below twice the modulus.
LEMMA ModOnce ==
  ASSUME NEW m \in Nat, 0 < m, NEW x \in 0 .. 2 * m - 1
  PROVE  (x < m => x % m = x) /\ (m <= x => x % m = x - m)
<1>1. CASE x < m
  BY <1>1, SMT
<1>2. CASE m <= x
  BY <1>2, SMT
<1> QED BY <1>1, <1>2

\* The capacity is the number of slots.
LEMMA CapacityOf ==
  ASSUME NEW c \in Nat, NEW t, DOMAIN t = 0 .. c - 1
  PROVE  Capacity(t) = c
<1>1. Cardinality(0 .. c - 1) = IF 0 > c - 1 THEN 0 ELSE c - 1 - 0 + 1
  BY FS_Interval
<1> QED BY <1>1 DEF Capacity

\* What a table consists of.
LEMMA TableFacts ==
  ASSUME NEW c \in Nat, NEW t, IsTable(t, c)
  PROVE  /\ DOMAIN t = 0 .. c - 1 /\ Capacity(t) = c
         /\ \A i \in 0 .. c - 1 :
              /\ t[i] \in Entry \cup {Empty}
              /\ Free(t[i]) <=> t[i] = Empty
              /\ ~Free(t[i]) => t[i] \in Entry
         /\ Used(t) \subseteq 0 .. c - 1
         /\ IsFiniteSet(Used(t)) /\ Cardinality(Used(t)) \in Nat
<1>1. DOMAIN t = 0 .. c - 1
  BY DEF IsTable
<1>2. Capacity(t) = c
  BY <1>1, CapacityOf
<1>3. ASSUME NEW i \in 0 .. c - 1
      PROVE  /\ t[i] \in Entry \cup {Empty}
             /\ Free(t[i]) <=> t[i] = Empty
             /\ ~Free(t[i]) => t[i] \in Entry
  <2>1. t[i] \in Entry \cup {Empty}
    BY DEF IsTable
  <2> QED BY <2>1, IndexAssumption DEF Entry, Empty, Free
<1>4. Used(t) \subseteq 0 .. c - 1
  BY <1>1 DEF Used
<1>5. IsFiniteSet(0 .. c - 1)
  BY FS_Interval
<1>6. IsFiniteSet(Used(t)) /\ Cardinality(Used(t)) \in Nat
  BY <1>4, <1>5, FS_Subset, FS_CardinalityType
<1> QED BY <1>1, <1>2, <1>3, <1>4, <1>6

\* A table with fewer entries than slots has a free one.
LEMMA FreeSlotExists ==
  ASSUME NEW c \in Nat, NEW t, IsTable(t, c), Cardinality(Used(t)) < c
  PROVE  \E i \in 0 .. c - 1 : Free(t[i])
<1> SUFFICES ASSUME \A i \in 0 .. c - 1 : ~Free(t[i]) PROVE FALSE
  OBVIOUS
<1>1. Used(t) = 0 .. c - 1
  BY TableFacts DEF Used
<1>2. Cardinality(0 .. c - 1) = c
  BY CapacityOf, TableFacts DEF Capacity
<1> QED BY <1>1, <1>2

\* The natural index of an identifier is a slot.
LEMMA HomeType ==
  ASSUME hash \in [Ids -> HashValues], NEW id \in Ids, NEW c \in Nat, 0 < c
  PROVE  IndexFor(id, c) \in 0 .. c - 1
<1>1. hash[id] \in Nat
  BY IndexAssumption
<1>2. ASSUME NEW n \in Nat PROVE n % c \in 0 .. c - 1
  BY SMT
<1> QED BY <1>1, <1>2 DEF IndexFor

\* Where a probe stops: at a free slot or at the identifier, having met neither
\* on its way.
LEMMA ProbeFacts ==
  ASSUME hash \in [Ids -> HashValues], NEW c \in Nat, 0 < c,
         NEW t, IsTable(t, c), NEW id \in Ids,
         \E i \in 0 .. c - 1 : Free(t[i])
  PROVE  /\ FindSlot(t, id) \in 0 .. c - 1
         /\ Free(t[FindSlot(t, id)]) \/ t[FindSlot(t, id)].key = id
         /\ \A x \in 0 .. c - 1 :
              Between(IndexFor(id, c), x, FindSlot(t, id)) /\ x # FindSlot(t, id)
                => ~Free(t[x]) /\ t[x].key # id
<1> DEFINE n == IndexFor(id, c)
           S == Stops(t, id)
           m == Min(S)
           p == FindSlot(t, id)
           Off(y) == IF n <= y THEN y - n ELSE y - n + c
<1>1. n \in 0 .. c - 1 /\ Capacity(t) = c
  BY HomeType, TableFacts
<1>2. S = {d \in 0 .. c - 1 : Free(t[(n + d) % c]) \/ t[(n + d) % c].key = id}
  BY <1>1 DEF Stops
<1>3. p = (n + m) % c
  BY <1>1 DEF FindSlot
<1> HIDE DEF n, S, m, p
<1>4. ASSUME NEW d \in 0 .. c - 1
      PROVE  (n + d) % c = IF n + d < c THEN n + d ELSE n + d - c
  <2>1. PICK x \in 0 .. 2 * c - 1 : x = n + d
    BY <1>1
  <2>2. (x < c => x % c = x) /\ (c <= x => x % c = x - c)
    BY ModOnce
  <2> QED BY <1>1, <2>1, <2>2
<1>5. ASSUME NEW y \in 0 .. c - 1
      PROVE  Off(y) \in 0 .. c - 1 /\ (n + Off(y)) % c = y
  <2>1. Off(y) \in 0 .. c - 1
    BY <1>1
  <2>2. PICK d \in 0 .. c - 1 : d = Off(y)
    BY <2>1
  <2>3. (n + d) % c = IF n + d < c THEN n + d ELSE n + d - c
    BY <1>4
  <2>4. (n + d) % c = y
    BY <1>1, <2>2, <2>3
  <2> QED BY <2>1, <2>2, <2>4
<1>6. ASSUME NEW y \in 0 .. c - 1, Free(t[y]) \/ t[y].key = id
      PROVE  Off(y) \in S
  <2>1. PICK d \in 0 .. c - 1 : d = Off(y) /\ (n + d) % c = y
    BY <1>5
  <2>2. d \in S
    BY <1>2, <1>6, <2>1
  <2> QED BY <2>1, <2>2
<1>7. S \subseteq 0 .. c - 1 /\ S # {}
  <2>1. PICK y \in 0 .. c - 1 : Free(t[y])
    OBVIOUS
  <2>2. Off(y) \in S
    BY <1>6, <2>1
  <2> QED BY <1>2, <2>2
<1>8. m \in S /\ \A d \in S : m <= d
  <2>1. S \in SUBSET Nat
    BY <1>7
  <2> QED BY <1>7, <2>1, MinOfNats DEF m
<1>9. m \in 0 .. c - 1 /\ (Free(t[p]) \/ t[p].key = id)
  BY <1>2, <1>3, <1>8
<1>10. p = IF n + m < c THEN n + m ELSE n + m - c
  BY <1>3, <1>4, <1>9
<1>11. p \in 0 .. c - 1
  BY <1>1, <1>9, <1>10
<1>12. ASSUME NEW x \in 0 .. c - 1, Between(n, x, p), x # p
       PROVE  ~Free(t[x]) /\ t[x].key # id
  <2> SUFFICES ASSUME Free(t[x]) \/ t[x].key = id PROVE FALSE
    OBVIOUS
  <2>1. Off(x) \in S
    BY <1>6
  <2>2. PICK d \in 0 .. c - 1 : d = Off(x) /\ m <= d
    BY <1>5, <1>8, <2>1
  <2>3. d = IF n <= x THEN x - n ELSE x - n + c
    BY <2>2
  <2> QED BY <1>1, <1>9, <1>10, <1>11, <1>12, <2>2, <2>3 DEF Between
<1> QED BY <1>9, <1>11, <1>12 DEF n, p

\* In a settled table the probe for a stored identifier stops at its slot.
LEMMA LookupFacts ==
  ASSUME hash \in [Ids -> HashValues], NEW c \in Nat, 0 < c,
         NEW t, IsTable(t, c), NEW id \in Ids,
         \E i \in 0 .. c - 1 : Free(t[i]), Settled(t), UniqueKeys(t),
         NEW i \in Used(t), t[i].key = id
  PROVE  FindSlot(t, id) = i
<1> DEFINE p == FindSlot(t, id)
           n == IndexFor(id, c)
<1>1. /\ p \in 0 .. c - 1
      /\ Free(t[p]) \/ t[p].key = id
      /\ \A x \in 0 .. c - 1 :
           Between(n, x, p) /\ x # p => ~Free(t[x]) /\ t[x].key # id
  BY ProbeFacts
<1>2. DOMAIN t = 0 .. c - 1 /\ Capacity(t) = c /\ i \in 0 .. c - 1 /\ ~Free(t[i])
  BY TableFacts DEF Used
<1>3. n \in 0 .. c - 1 /\ Home(t, i) = n
  BY <1>2, HomeType DEF Home
<1> HIDE DEF p, n
<1>4. CASE ~Free(t[p])
  BY <1>1, <1>2, <1>4 DEF UniqueKeys, Used, p
<1>5. CASE Free(t[p])
  <2>1. ~Between(n, p, i)
    BY <1>1, <1>2, <1>3, <1>5 DEF Settled
  <2>2. i # p
    BY <1>2, <1>5
  <2>3. Between(n, i, p)
    BY <1>1, <1>2, <1>3, <2>1, <2>2 DEF Between
  <2> QED BY <1>1, <1>2, <2>2, <2>3
<1> QED BY <1>4, <1>5

\* A correct table that can take another entry.
Ready(t, c) ==
  /\ IsTable(t, c) /\ Settled(t) /\ UniqueKeys(t)
  /\ \E i \in 0 .. c - 1 : Free(t[i])

\* u is t with the new entry e in slot p, and again a correct table.
Inserted(t, c, e, p, u) ==
  /\ \A i \in Used(t) : t[i].key # e.key
  /\ IsTable(u, c) /\ Settled(u) /\ UniqueKeys(u)
  /\ p \notin Used(t) /\ Used(u) = Used(t) \cup {p}
  /\ u[p] = e /\ \A i \in Used(t) : u[i] = t[i]

\* Storing an entry in the free slot its probe found keeps a table correct.
LEMMA InsertFacts ==
  ASSUME hash \in [Ids -> HashValues], NEW c \in Nat, 0 < c,
         NEW t, Ready(t, c), NEW e \in Entry,
         NEW p, p = FindSlot(t, e.key), Free(t[p])
  PROVE  Inserted(t, c, e, p, [t EXCEPT ![p] = e])
<1> USE DEF Ready
<1> DEFINE u == [t EXCEPT ![p] = e]
<1> DEFINE n == IndexFor(e.key, c)
<1>1. e.key \in Ids /\ ~Free(e)
  BY IndexAssumption DEF Entry, Free
<1>2. /\ p \in 0 .. c - 1
      /\ \A x \in 0 .. c - 1 :
           Between(n, x, p) /\ x # p => ~Free(t[x]) /\ t[x].key # e.key
  BY <1>1, ProbeFacts
<1>3. ASSUME NEW i \in Used(t) PROVE t[i].key # e.key
  <2> SUFFICES ASSUME t[i].key = e.key PROVE FALSE
    OBVIOUS
  <2>1. p = i
    BY <1>1, LookupFacts
  <2> QED BY <2>1 DEF Used
<1>4. /\ DOMAIN t = 0 .. c - 1 /\ Capacity(t) = c
      /\ \A i \in 0 .. c - 1 : ~Free(t[i]) => t[i] \in Entry
  BY TableFacts
<1>5. Free(t[p])
  OBVIOUS
<1>6. n \in 0 .. c - 1
  BY <1>1, HomeType
<1> HIDE DEF n
<1>7. IsTable(u, c)
  BY <1>2 DEF IsTable
<1>8. DOMAIN u = 0 .. c - 1 /\ Capacity(u) = c
  BY <1>7, TableFacts
<1>9. u[p] = e /\ \A i \in 0 .. c - 1 : i # p => u[i] = t[i]
  BY <1>2, <1>4
<1> HIDE DEF u
<1>10. p \notin Used(t) /\ Used(u) = Used(t) \cup {p}
  BY <1>1, <1>2, <1>4, <1>5, <1>8, <1>9 DEF Used
<1>11. UniqueKeys(u)
  BY <1>2, <1>3, <1>4, <1>9, <1>10 DEF UniqueKeys, Used
<1>12. ASSUME NEW i \in 0 .. c - 1, NEW x \in 0 .. c - 1, ~Free(u[i]),
              Between(Home(u, i), x, i)
       PROVE  ~Free(u[x])
  <2>1. CASE x = p
    BY <1>1, <1>9, <2>1
  <2>2. CASE x # p /\ i = p
    <3>1. Home(u, i) = n
      BY <1>8, <1>9, <2>2 DEF Home, n
    <3> QED BY <1>2, <1>9, <1>12, <2>2, <3>1
  <2>3. CASE x # p /\ i # p
    <3>1. Home(u, i) = Home(t, i)
      BY <1>4, <1>8, <1>9, <2>3 DEF Home
    <3> QED BY <1>4, <1>9, <1>12, <2>3, <3>1 DEF Settled
  <2> QED BY <2>1, <2>2, <2>3
<1>13. Settled(u)
  BY <1>8, <1>12 DEF Settled
<1>14. \A i \in Used(t) : u[i] = t[i]
  BY <1>4, <1>9, <1>10 DEF Used
<1>15. Inserted(t, c, e, p, u)
  BY <1>3, <1>7, <1>9, <1>10, <1>11, <1>13, <1>14 DEF Inserted
<1> QED BY <1>15 DEF u

\* The entries of a table.
EntriesOf(t) == {t[i] : i \in DOMAIN t} \ {Empty}

\* They are what the used slots hold.
LEMMA EntriesUsed ==
  ASSUME NEW c \in Nat, NEW t, IsTable(t, c)
  PROVE  EntriesOf(t) = {t[i] : i \in Used(t)}
  BY TableFacts DEF EntriesOf, Used

\* Before the first insertion there is no table, and that is a correct one.
LEMMA NoTableFacts ==
  /\ IsTable(NoTable, 0) /\ Used(NoTable) = {} /\ Capacity(NoTable) = 0
  /\ Settled(NoTable) /\ UniqueKeys(NoTable)
  /\ Cardinality(Used(NoTable)) = 0 /\ EntriesOf(NoTable) = {}
<1>1. IsTable(NoTable, 0)
  BY DEF IsTable, NoTable
<1>2. DOMAIN NoTable = {}
  BY DEF NoTable
<1>3. Used(NoTable) = {}
  BY <1>2 DEF Used
<1>4. Capacity(NoTable) = 0
  BY <1>1, TableFacts
<1>5. Settled(NoTable) /\ UniqueKeys(NoTable)
  BY <1>2, <1>3 DEF Settled, UniqueKeys
<1>6. Cardinality(Used(NoTable)) = 0
  BY <1>3, FS_EmptySet
<1>7. EntriesOf(NoTable) = {}
  BY <1>2 DEF EntriesOf
<1> QED BY <1>1, <1>3, <1>4, <1>5, <1>6, <1>7

\* A new table is correct.
LEMMA NewTableFacts ==
  ASSUME NEW c \in Nat
  PROVE  LET t == NewTable(c)
         IN  /\ IsTable(t, c) /\ Used(t) = {} /\ Capacity(t) = c
             /\ Settled(t) /\ UniqueKeys(t) /\ Cardinality(Used(t)) = 0
<1> DEFINE t == NewTable(c)
<1>1. IsTable(t, c) /\ DOMAIN t = 0 .. c - 1 /\ \A i \in DOMAIN t : t[i] = Empty
  BY DEF IsTable, NewTable
<1> HIDE DEF t
<1>2. Capacity(t) = c /\ \A i \in DOMAIN t : Free(t[i])
  BY <1>1, TableFacts
<1>3. Used(t) = {}
  BY <1>2 DEF Used
<1>4. Settled(t) /\ UniqueKeys(t)
  BY <1>2, <1>3 DEF Settled, UniqueKeys
<1>5. Cardinality(Used(t)) = 0
  BY <1>3, FS_EmptySet
<1> QED BY <1>1, <1>2, <1>3, <1>4, <1>5 DEF t

\* At half load every table has a free slot.
LEMMA SlotsFacts ==
  ASSUME IndexInv
  PROVE  \E c \in Nat :
           /\ IsTable(slots, c) /\ Capacity(slots) = c /\ 2 * count <= c
           /\ slots = NoTable <=> c = 0
           /\ slots # NoTable => 2 <= c /\ \E i \in 0 .. c - 1 : Free(slots[i])
<1>1. CASE slots = NoTable
  BY <1>1, NoTableFacts DEF IndexInv, IndexTypeOK
<1>2. CASE slots # NoTable
  <2>1. PICK c \in Nat \ {0, 1} : IsTable(slots, c)
    BY <1>2 DEF IndexInv, IndexTypeOK
  <2>2. Capacity(slots) = c
    BY <2>1, TableFacts
  <2>3. 2 * count <= c /\ count \in Nat /\ 2 <= c
    BY <2>2 DEF IndexInv, IndexTypeOK
  <2>4. count < c
    BY <2>3
  <2>5. \E i \in 0 .. c - 1 : Free(slots[i])
    BY <2>1, <2>4, FreeSlotExists DEF IndexInv
  <2> QED BY <1>2, <2>1, <2>2, <2>3, <2>5
<1> QED BY <1>1, <1>2

\* Settled in terms of the next state, for either table.
LEMMA SettledSame ==
  ASSUME NEW t, hash' = hash, Settled(t), slots' = t
  PROVE  Settled(slots)'
  BY DEF Settled, Home, IndexFor

\* The same for the table a rehash fills.
LEMMA SettledGrown ==
  ASSUME NEW t, hash' = hash, Settled(t), grown' = t
  PROVE  Settled(grown)'
  BY DEF Settled, Home, IndexFor

\* A call that returns from a settled table.
LEMMA StepDone ==
  ASSUME IndexInv, NEW o, Done(o), UNCHANGED <<slots, count>>, Settled(slots)
  PROVE  IndexInv'
<1>1. /\ at' = "idle" /\ grown' = NoTable /\ pending' = Empty /\ hash' = hash
      /\ slots' = slots /\ count' = count
  BY DEF Done
<1>2. IndexTypeOK'
  BY <1>1 DEF IndexInv, IndexTypeOK
<1>3. Settled(slots)'
  BY <1>1, SettledSame
<1> QED BY <1>1, <1>2, <1>3 DEF IndexInv

\* The start of a growth, or its failure.
LEMMA StepGrow ==
  ASSUME IndexInv, at = "idle", NEW cap \in Nat \ {0, 1}, 2 * count <= cap,
         NEW e \in Entry \cup {Empty}, e # Empty => 2 * (count + 1) <= cap,
         Grow(cap, e)
  PROVE  IndexInv'
<1>0. Settled(slots)
  BY DEF IndexInv
<1>1. CASE Done("bad_alloc") /\ UNCHANGED <<slots, count>>
  BY <1>0, <1>1, StepDone
<1>2. CASE /\ at' = "rehash" /\ grown' = NewTable(cap) /\ scan' = 0
           /\ pending' = e
           /\ UNCHANGED <<hash, slots, count, vacated, result>>
  <2>1. IndexTypeOK'
    BY <1>2 DEF IndexInv, IndexTypeOK
  <2>2. Settled(slots)'
    BY <1>0, <1>2, SettledSame
  <2>3. PICK c \in Nat : IsTable(slots, c) /\ Capacity(slots) = c
    BY SlotsFacts
  <2>4. Used(slots) \subseteq Nat
    BY <2>3, TableFacts
  <2> DEFINE t == NewTable(cap)
  <2>5. /\ IsTable(t, cap) /\ Used(t) = {} /\ Capacity(t) = cap
        /\ Settled(t) /\ UniqueKeys(t) /\ Cardinality(Used(t)) = 0
    BY NewTableFacts
  <2>6. grown' = t
    BY <1>2
  <2> HIDE DEF t
  <2>7. Settled(grown)' /\ UniqueKeys(grown')
    BY <1>2, <2>5, <2>6, SettledGrown
  <2>8. Copied'
    BY <1>2, <2>4, <2>5, <2>6 DEF Copied
  <2>9. Cardinality(Used(grown')) = Cardinality({i \in Used(slots') : i < scan'})
    <3>1. {i \in Used(slots') : i < scan'} = {}
      BY <1>2, <2>4
    <3> QED BY <2>5, <2>6, <3>1
  <2>10. RehashOK'
    <3>1. scan' \in 0 .. Capacity(slots')
      BY <1>2, <2>3
    <3>2. \E k \in Nat \ {0, 1} : IsTable(grown', k)
      BY <2>5, <2>6
    <3>3. /\ 2 * count' <= Capacity(grown')
          /\ pending' # Empty => 2 * (count' + 1) <= Capacity(grown')
      BY <1>2, <2>5, <2>6
    <3> QED BY <2>7, <2>8, <2>9, <3>1, <3>2, <3>3 DEF RehashOK
  <2> QED BY <1>2, <2>1, <2>2, <2>10 DEF IndexInv
<1> QED BY <1>1, <1>2 DEF Grow

\* addOrder up to the insertion: the load limit leaves room for one more.
LEMMA StepAdd ==
  ASSUME IndexInv, NEW id \in Ids, NEW order \in Orders, AddOrder(id, order)
  PROVE  IndexInv'
<1> DEFINE e == [key |-> id, value |-> order]
<1>1. e \in Entry /\ e # Empty /\ at = "idle"
  BY IndexAssumption DEF Entry, Empty, AddOrder
<1>2. PICK c \in Nat :
        /\ IsTable(slots, c) /\ Capacity(slots) = c /\ 2 * count <= c
        /\ slots = NoTable <=> c = 0
        /\ slots # NoTable => 2 <= c
  BY SlotsFacts
<1>3. count \in Nat /\ Settled(slots)
  BY <1>1 DEF IndexInv, IndexTypeOK
<1>4. CASE slots = NoTable
  <2>1. Grow(InitialCapacity, e)
    BY <1>4 DEF AddOrder
  <2>2. InitialCapacity \in Nat \ {0, 1} /\ count = 0
    BY <1>2, <1>3, <1>4, IndexAssumption
  <2>3. 2 * count <= InitialCapacity /\ 2 * (count + 1) <= InitialCapacity
    BY <2>2
  <2> QED BY <1>1, <2>1, <2>2, <2>3, StepGrow
<1>5. CASE slots # NoTable /\ 2 * (count + 1) <= Capacity(slots)
  <2>1. /\ at' = "insert" /\ pending' = e
        /\ UNCHANGED <<hash, slots, count, grown, scan, vacated, result>>
    BY <1>5 DEF AddOrder
  <2>2. IndexTypeOK'
    BY <1>1, <2>1 DEF IndexInv, IndexTypeOK
  <2>3. Settled(slots)'
    BY <1>3, <2>1, SettledSame
  <2> QED BY <1>1, <1>5, <2>1, <2>2, <2>3 DEF IndexInv
<1>6. CASE slots # NoTable /\ ~(2 * (count + 1) <= Capacity(slots))
  <2>1. Grow(2 * Capacity(slots), e)
    BY <1>6 DEF AddOrder
  <2>2. PICK cap \in Nat \ {0, 1} : cap = 2 * Capacity(slots)
    BY <1>2, <1>6
  <2>3. 2 * count <= cap /\ 2 * (count + 1) <= cap
    BY <1>2, <1>3, <1>6, <2>2
  <2> QED BY <1>1, <2>1, <2>2, <2>3, StepGrow
<1> QED BY <1>4, <1>5, <1>6

\* reserve: any of the doublings it may choose is large enough.
LEMMA StepReserve ==
  ASSUME IndexInv, NEW n \in Reservations, Reserve(n)
  PROVE  IndexInv'
<1> DEFINE start == IF slots = NoTable THEN InitialCapacity ELSE Capacity(slots)
           doublings == {c \in start .. MaxCapacity :
                           /\ \E k \in 0 .. MaxCapacity : c = start * 2 ^ k
                           /\ 2 * n <= c}
<1>1. PICK c \in Nat :
        /\ IsTable(slots, c) /\ Capacity(slots) = c /\ 2 * count <= c
        /\ slots = NoTable <=> c = 0
        /\ slots # NoTable => 2 <= c
  BY SlotsFacts
<1>2. at = "idle" /\ Settled(slots) /\ count \in Nat
  BY DEF Reserve, IndexInv, IndexTypeOK
<1>3. start \in Nat /\ 2 <= start /\ 2 * count <= start
  BY <1>1, <1>2, IndexAssumption
<1>4. doublings # {} /\ doublings \subseteq start .. MaxCapacity
  BY DEF Reserve
<1>5. \/ Done("ok") /\ UNCHANGED <<slots, count>>
      \/ Grow(Min(doublings), Empty)
  BY DEF Reserve
<1> HIDE DEF start, doublings
<1>6. Min(doublings) \in doublings
  <2>1. doublings \in SUBSET Nat
    BY <1>3, <1>4, IndexAssumption
  <2> QED BY <1>4, <2>1, MinOfNats
<1>7. PICK cap \in Nat \ {0, 1} : cap = Min(doublings) /\ 2 * count <= cap
  <2>1. PICK cap \in start .. MaxCapacity : cap = Min(doublings)
    BY <1>4, <1>6
  <2>2. cap \in Nat \ {0, 1} /\ 2 * count <= cap
    BY <1>2, <1>3, <2>1, IndexAssumption
  <2> QED BY <2>1, <2>2
<1>8. CASE Done("ok") /\ UNCHANGED <<slots, count>>
  BY <1>2, <1>8, StepDone
<1>9. CASE Grow(Min(doublings), Empty)
  <2>1. Grow(cap, Empty) /\ Empty \in Entry \cup {Empty}
    BY <1>7, <1>9
  <2> QED BY <1>2, <1>7, <2>1, StepGrow
<1> QED BY <1>5, <1>8, <1>9

\* The table being filled never runs full.
LEMMA GrownFacts ==
  ASSUME IndexInv, at = "rehash"
  PROVE  \E g \in Nat \ {0, 1} :
           /\ IsTable(grown, g) /\ Capacity(grown) = g
           /\ Cardinality(Used(grown)) <= count
           /\ \E i \in 0 .. g - 1 : Free(grown[i])
<1>1. RehashOK /\ count \in Nat /\ count = Cardinality(Used(slots))
  BY DEF IndexInv, IndexTypeOK
<1>2. PICK g \in Nat \ {0, 1} : IsTable(grown, g)
  BY <1>1 DEF RehashOK
<1>3. Capacity(grown) = g
  BY <1>2, TableFacts
<1>4. PICK c \in Nat : IsTable(slots, c)
  BY SlotsFacts
<1>5. IsFiniteSet(Used(slots))
  BY <1>4, TableFacts
<1>6. Cardinality(Used(grown)) <= count
  <2> DEFINE T == {i \in Used(slots) : i < scan}
  <2>1. T \in SUBSET Used(slots)
    OBVIOUS
  <2>2. Cardinality(T) <= Cardinality(Used(slots))
    BY <1>5, <2>1, FS_Subset
  <2> QED BY <1>1, <2>2 DEF RehashOK
<1>7. Cardinality(Used(grown)) \in Nat
  BY <1>2, TableFacts
<1>8. 2 * count <= g
  BY <1>1, <1>3 DEF RehashOK
<1>9. Cardinality(Used(grown)) < g
  BY <1>1, <1>6, <1>7, <1>8
<1>10. \E i \in 0 .. g - 1 : Free(grown[i])
  BY <1>2, <1>9, FreeSlotExists
<1> QED BY <1>2, <1>3, <1>6, <1>10

\* One iteration of the rehash.  The probe finds a free slot, for otherwise the
\* old table held the identifier twice.
LEMMA RehashCopies ==
  ASSUME IndexInv, Rehash, scan < Capacity(slots)
  PROVE  IndexInv'
<1>1. /\ at = "rehash" /\ at' = at /\ scan' = scan + 1 /\ slots' = slots
      /\ pending' = pending /\ hash' = hash /\ count' = count
      /\ grown' = IF Free(slots[scan]) THEN grown
                  ELSE [grown EXCEPT
                          ![FindSlot(grown, slots[scan].key)] = slots[scan]]
  BY DEF Rehash
<1>2. RehashOK /\ count \in Nat /\ Settled(slots) /\ UniqueKeys(slots)
  BY <1>1 DEF IndexInv, IndexTypeOK
<1>3. PICK g \in Nat \ {0, 1} :
        /\ IsTable(grown, g) /\ Capacity(grown) = g
        /\ \E i \in 0 .. g - 1 : Free(grown[i])
  BY <1>1, GrownFacts
<1>4. PICK c \in Nat : IsTable(slots, c) /\ Capacity(slots) = c
  BY SlotsFacts
<1>5. scan \in 0 .. c - 1 /\ scan' \in 0 .. c
  BY <1>1, <1>2, <1>4 DEF RehashOK
<1>6. hash \in [Ids -> HashValues] /\ IndexTypeOK'
  BY <1>1 DEF IndexInv, IndexTypeOK
<1>7. Settled(slots)'
  BY <1>1, <1>2, SettledSame
<1>8. /\ DOMAIN slots = 0 .. c - 1 /\ Used(slots) \subseteq 0 .. c - 1
      /\ IsFiniteSet(Used(slots))
      /\ ~Free(slots[scan]) => slots[scan] \in Entry
      /\ scan \in Used(slots) <=> ~Free(slots[scan])
  BY <1>4, <1>5, TableFacts DEF Used
<1> DEFINE T == {i \in Used(slots) : i < scan}
           U == {i \in Used(slots) : i < scan + 1}
<1>9. Cardinality(Used(grown)) = Cardinality(T) /\ IsFiniteSet(T) /\ scan \notin T
  BY <1>2, <1>5, <1>8, FS_Subset DEF RehashOK
<1>10. CASE Free(slots[scan])
  <2>1. \A i \in Used(slots) : i < scan + 1 <=> i < scan
    BY <1>5, <1>8, <1>10
  <2>2. U = T
    BY <2>1
  <2>3. grown' = grown
    BY <1>1, <1>10
  <2>4. Copied'
    BY <1>1, <1>2, <2>1, <2>3 DEF Copied, RehashOK
  <2>5. Settled(grown)' /\ UniqueKeys(grown')
    BY <1>1, <1>2, <2>3, SettledGrown DEF RehashOK
  <2>6. Cardinality(Used(grown')) = Cardinality({i \in Used(slots') : i < scan'})
    BY <1>1, <1>9, <2>2, <2>3
  <2>7. RehashOK'
    BY <1>1, <1>2, <1>4, <1>5, <2>3, <2>4, <2>5, <2>6 DEF RehashOK
  <2> QED BY <1>1, <1>6, <1>7, <2>7 DEF IndexInv
<1>11. CASE ~Free(slots[scan])
  <2> DEFINE e == slots[scan]
             p == FindSlot(grown, e.key)
             u == [grown EXCEPT ![p] = e]
  <2>1. e \in Entry /\ e.key \in Ids
    BY <1>8, <1>11 DEF Entry
  <2>2. p \in 0 .. g - 1 /\ (Free(grown[p]) \/ grown[p].key = e.key)
    BY <1>3, <1>6, <2>1, ProbeFacts
  <2>3. Free(grown[p])
    <3> SUFFICES ASSUME ~Free(grown[p]) PROVE FALSE
      OBVIOUS
    <3>1. p \in Used(grown) /\ grown[p].key = e.key
      BY <1>3, <2>2, TableFacts DEF Used
    <3>2. PICK i \in Used(slots) : i < scan /\ grown[p] = slots[i]
      BY <1>2, <3>1 DEF RehashOK, Copied
    <3>3. i = scan
      BY <1>2, <1>8, <1>11, <3>1, <3>2 DEF UniqueKeys
    <3> QED BY <1>5, <3>2, <3>3
  <2>4. /\ IsTable(u, g) /\ Settled(u) /\ UniqueKeys(u)
        /\ p \notin Used(grown) /\ Used(u) = Used(grown) \cup {p}
        /\ u[p] = e /\ \A i \in Used(grown) : u[i] = grown[i]
    <3> HIDE DEF e, p, u
    <3>1. p = FindSlot(grown, e.key) /\ u = [grown EXCEPT ![p] = e]
      BY DEF p, u
    <3>2. g \in Nat /\ 0 < g
      OBVIOUS
    <3>3. Ready(grown, g)
      BY <1>2, <1>3 DEF RehashOK, Ready
    <3>4. Inserted(grown, g, e, p, u)
      BY <1>6, <2>1, <2>3, <3>1, <3>2, <3>3, InsertFacts
    <3> QED BY <3>4 DEF Inserted
  <2>5. grown' = u
    BY <1>1, <1>11
  <2> HIDE DEF u, p
  <2>6. \A i \in Used(slots) : i < scan + 1 <=> i < scan \/ i = scan
    BY <1>5, <1>8
  <2>7. scan \in Used(slots) /\ scan < scan + 1
    BY <1>5, <1>8, <1>11
  <2>8. Copied'
    <3>1. ASSUME NEW i \in Used(slots), i < scan + 1
          PROVE  \E j \in Used(u) : u[j] = slots[i]
      BY <1>2, <2>4, <2>6, <3>1 DEF Copied, RehashOK
    <3>2. ASSUME NEW j \in Used(u)
          PROVE  \E i \in Used(slots) : i < scan + 1 /\ u[j] = slots[i]
      <4>1. CASE j = p
        BY <2>4, <2>7, <4>1
      <4>2. CASE j \in Used(grown)
        BY <1>2, <2>4, <2>6, <4>2 DEF Copied, RehashOK
      <4> QED BY <2>4, <4>1, <4>2
    <3> QED BY <1>1, <2>5, <3>1, <3>2 DEF Copied
  <2>9. Settled(grown)' /\ UniqueKeys(grown')
    BY <1>1, <2>4, <2>5, SettledGrown
  <2>10. Cardinality(Used(grown')) = Cardinality({i \in Used(slots') : i < scan'})
    <3>1. U = T \cup {scan}
      BY <2>6, <2>7
    <3>2. Cardinality(U) = Cardinality(T) + 1
      BY <1>9, <3>1, FS_AddElement
    <3>3. IsFiniteSet(Used(grown))
      BY <1>3, TableFacts
    <3>4. Cardinality(Used(u)) = Cardinality(Used(grown)) + 1
      BY <2>4, <3>3, FS_AddElement
    <3> QED BY <1>1, <1>9, <2>5, <3>2, <3>4
  <2>11. Capacity(grown') = g
    BY <2>4, <2>5, TableFacts
  <2>12. RehashOK'
    <3>1. \E k \in Nat \ {0, 1} : IsTable(grown', k)
      BY <2>4, <2>5
    <3> QED BY <1>1, <1>2, <1>3, <1>4, <1>5, <2>8, <2>9, <2>10, <2>11, <3>1
               DEF RehashOK
  <2> QED BY <1>1, <1>6, <1>7, <2>12 DEF IndexInv
<1> QED BY <1>10, <1>11

\* The swap exchanges two tables with the same entries.
LEMMA RehashSwaps ==
  ASSUME IndexInv, Rehash, ~(scan < Capacity(slots))
  PROVE  IndexInv' /\ EntriesOf(slots)' = EntriesOf(slots)
<1>1. /\ at = "rehash" /\ hash' = hash /\ count' = count /\ slots' = grown
      /\ grown' = NoTable
      /\ IF pending = Empty THEN at' = "idle" /\ pending' = Empty
         ELSE at' = "insert" /\ pending' = pending
  BY DEF Rehash, Done
<1>2. /\ RehashOK /\ count \in Nat /\ count = Cardinality(Used(slots))
      /\ pending \in Entry \cup {Empty}
  BY <1>1 DEF IndexInv, IndexTypeOK
<1>3. PICK g \in Nat \ {0, 1} : IsTable(grown, g) /\ Capacity(grown) = g
  BY <1>1, GrownFacts
<1>4. PICK c \in Nat : IsTable(slots, c) /\ Capacity(slots) = c
  BY SlotsFacts
<1>5. \A i \in Used(slots) : i < scan
  <2>1. Used(slots) \subseteq 0 .. c - 1
    BY <1>4, TableFacts
  <2>2. scan = c
    BY <1>2, <1>4 DEF RehashOK
  <2> QED BY <2>1, <2>2
<1>6. count = Cardinality(Used(grown))
  <2>1. {i \in Used(slots) : i < scan} = Used(slots)
    BY <1>5
  <2> QED BY <1>2, <2>1 DEF RehashOK
<1>7. EntriesOf(grown) = EntriesOf(slots)
  <2>1. EntriesOf(grown) = {grown[i] : i \in Used(grown)}
    BY <1>3, EntriesUsed
  <2>2. EntriesOf(slots) = {slots[i] : i \in Used(slots)}
    BY <1>4, EntriesUsed
  <2> QED BY <1>2, <1>5, <2>1, <2>2 DEF RehashOK, Copied
<1>8. grown # NoTable
  BY <1>3, NoTableFacts
<1>9. IndexTypeOK'
  <2>1. \E k \in Nat \ {0, 1} : IsTable(slots', k)
    BY <1>1, <1>3
  <2> QED BY <1>1, <1>2, <2>1 DEF IndexInv, IndexTypeOK
<1>10. Settled(slots)' /\ UniqueKeys(slots')
  BY <1>1, <1>2, SettledSame DEF RehashOK
<1>11. /\ 2 * count <= Capacity(slots')
       /\ pending # Empty => 2 * (count + 1) <= Capacity(slots')
  BY <1>1, <1>2 DEF RehashOK
<1>12. IndexInv'
  BY <1>1, <1>2, <1>6, <1>8, <1>9, <1>10, <1>11 DEF IndexInv
<1>13. EntriesOf(slots)' = EntriesOf(slots)
  BY <1>1, <1>7 DEF EntriesOf
<1> QED BY <1>12, <1>13

\* The insertion adds the pending entry, or refuses a duplicate.
LEMMA StepInsert ==
  ASSUME IndexInv, Insert
  PROVE  /\ IndexInv'
         /\ \/ EntriesOf(slots)' = EntriesOf(slots)
            \/ /\ EntriesOf(slots)' = EntriesOf(slots) \cup {pending}
               /\ \A e \in EntriesOf(slots) : e.key # pending.key
<1> DEFINE p == FindSlot(slots, pending.key)
           u == [slots EXCEPT ![p] = pending]
<1>1. /\ at = "insert" /\ pending \in Entry /\ slots # NoTable
      /\ 2 * (count + 1) <= Capacity(slots) /\ Settled(slots)
      /\ UniqueKeys(slots) /\ count \in Nat /\ count = Cardinality(Used(slots))
      /\ hash \in [Ids -> HashValues] /\ grown = NoTable
  BY DEF IndexInv, IndexTypeOK, Insert
<1>2. PICK c \in Nat :
        /\ IsTable(slots, c) /\ Capacity(slots) = c /\ 2 <= c
        /\ \E i \in 0 .. c - 1 : Free(slots[i])
  BY <1>1, SlotsFacts
<1>3. CASE ~Free(slots[p])
  <2>1. Done("logic_error") /\ UNCHANGED <<slots, count>>
    BY <1>3 DEF Insert
  <2> QED BY <1>1, <2>1, StepDone DEF EntriesOf
<1>4. CASE Free(slots[p])
  <2>1. /\ slots' = u /\ count' = count + 1 /\ at' = "idle" /\ hash' = hash
        /\ grown' = NoTable /\ pending' = Empty
    BY <1>4 DEF Insert, Done
  <2>2. /\ \A i \in Used(slots) : slots[i].key # pending.key
        /\ IsTable(u, c) /\ Settled(u) /\ UniqueKeys(u)
        /\ p \notin Used(slots) /\ Used(u) = Used(slots) \cup {p}
        /\ u[p] = pending /\ \A i \in Used(slots) : u[i] = slots[i]
    <3> HIDE DEF p, u
    <3>1. p = FindSlot(slots, pending.key) /\ u = [slots EXCEPT ![p] = pending]
      BY DEF p, u
    <3>2. 0 < c
      BY <1>2
    <3>3. Ready(slots, c)
      BY <1>1, <1>2 DEF Ready
    <3>4. Inserted(slots, c, pending, p, u)
      BY <1>1, <1>4, <3>1, <3>2, <3>3, InsertFacts
    <3> QED BY <3>4 DEF Inserted
  <2> HIDE DEF u, p
  <2>3. Cardinality(Used(u)) = count + 1
    <3>1. IsFiniteSet(Used(slots))
      BY <1>2, TableFacts
    <3> QED BY <1>1, <2>2, <3>1, FS_AddElement
  <2>4. IndexTypeOK'
    <3>1. \E k \in Nat \ {0, 1} : IsTable(slots', k)
      BY <1>2, <2>1, <2>2
    <3> QED BY <1>1, <2>1, <3>1 DEF IndexInv, IndexTypeOK
  <2>5. Settled(slots)'
    BY <2>1, <2>2, SettledSame
  <2>6. Capacity(slots') = Capacity(slots)
    BY <1>2, <2>1, <2>2, TableFacts
  <2>7. IndexInv'
    BY <1>1, <2>1, <2>2, <2>3, <2>4, <2>5, <2>6 DEF IndexInv
  <2>8. EntriesOf(slots) = {slots[i] : i \in Used(slots)}
    BY <1>2, EntriesUsed
  <2>9. EntriesOf(u) = {u[i] : i \in Used(u)}
    BY <2>2, EntriesUsed
  <2>10. EntriesOf(u) = EntriesOf(slots) \cup {pending}
    BY <2>2, <2>8, <2>9
  <2>11. EntriesOf(slots)' = EntriesOf(u)
    BY <2>1 DEF EntriesOf
  <2> QED BY <2>2, <2>7, <2>8, <2>10, <2>11
<1> QED BY <1>3, <1>4

\* The slot after s.
After(s, c) == IF s + 1 < c THEN s + 1 ELSE 0

\* It is what the code computes with a remainder.
LEMMA AfterIs ==
  ASSUME NEW c \in Nat \ {0, 1}, NEW s \in 0 .. c - 1
  PROVE  /\ (s + 1) % c = After(s, c)
         /\ After(s, c) \in 0 .. c - 1 /\ After(s, c) # s
<1>1. PICK x \in 0 .. 2 * c - 1 : x = s + 1
  OBVIOUS
<1>2. (x < c => x % c = x) /\ (c <= x => x % c = x - c)
  BY ModOnce
<1> QED BY <1>1, <1>2 DEF After

\* Cyclic geometry of the backward shift, v being the hole and s the slot
\* examined.  In turn: a path through the hole to an entry beyond s passes s; an
\* entry whose natural index lies behind the hole does not need it; examining
\* s adds only s; an entry moved into the hole keeps its path; after a move
\* nothing has been examined yet.
LEMMA CyclicFacts ==
  ASSUME NEW c \in Nat \ {0, 1}, NEW v \in 0 .. c - 1, NEW s \in 0 .. c - 1,
         NEW n \in 0 .. c - 1, NEW i \in 0 .. c - 1
  PROVE  /\ Between(n, v, i) /\ i # v /\ i # s /\ s # v /\ ~Passed(v, s, i)
              => Between(n, s, i)
         /\ InCyclicRange(n, v, s) /\ s # v => ~Between(n, v, s)
         /\ Passed(v, After(s, c), i) /\ i # s /\ s # v => Passed(v, s, i)
         /\ ~InCyclicRange(n, v, s) /\ s # v /\ Between(n, i, v)
              => Between(n, i, s) /\ i # s
         /\ ~Passed(s, After(s, c), i)
<1>1. Between(n, v, i) /\ i # v /\ i # s /\ s # v /\ ~Passed(v, s, i)
        => Between(n, s, i)
  BY DEF Between, Passed
<1>2. InCyclicRange(n, v, s) /\ s # v => ~Between(n, v, s)
  BY DEF Between, InCyclicRange
<1>3. Passed(v, After(s, c), i) /\ i # s /\ s # v => Passed(v, s, i)
  BY DEF Passed, After
<1>4. ~InCyclicRange(n, v, s) /\ s # v /\ Between(n, i, v)
        => Between(n, i, s) /\ i # s
  BY DEF Between, InCyclicRange
<1>5. ~Passed(s, After(s, c), i)
  BY DEF Passed, After
<1> QED BY <1>1, <1>2, <1>3, <1>4, <1>5

\* removeOrder up to the shift: the entry is gone and its slot is the hole.
LEMMA StepRemove ==
  ASSUME IndexInv, NEW id \in Ids, NEW order \in Orders, RemoveOrder(id, order)
  PROVE  /\ IndexInv'
         /\ \/ EntriesOf(slots)' = EntriesOf(slots)
            \/ /\ at = "idle" /\ at' = "shift"
               /\ \E e \in EntriesOf(slots) :
                    EntriesOf(slots)' = EntriesOf(slots) \ {e}
<1> DEFINE hole == FindSlot(slots, id)
           u == [slots EXCEPT ![hole] = Empty]
<1>1. /\ at = "idle" /\ Settled(slots) /\ UniqueKeys(slots) /\ count \in Nat
      /\ count = Cardinality(Used(slots)) /\ hash \in [Ids -> HashValues]
      /\ grown = NoTable
  BY DEF RemoveOrder, IndexInv, IndexTypeOK
<1>2. CASE FindOrder(id) # order
  <2>1. Done("logic_error") /\ UNCHANGED <<slots, count>>
    BY <1>2 DEF RemoveOrder
  <2> QED BY <1>1, <2>1, StepDone DEF EntriesOf
<1>3. CASE FindOrder(id) = order
  <2>1. slots # NoTable /\ slots[hole].value = order
    BY <1>3, IndexAssumption DEF FindOrder
  <2>2. PICK c \in Nat \ {0, 1} :
          /\ IsTable(slots, c) /\ Capacity(slots) = c /\ 2 * count <= c
          /\ \E i \in 0 .. c - 1 : Free(slots[i])
    <3>1. PICK c \in Nat :
            /\ IsTable(slots, c) /\ Capacity(slots) = c /\ 2 * count <= c
            /\ 2 <= c /\ \E i \in 0 .. c - 1 : Free(slots[i])
      BY <2>1, SlotsFacts
    <3>2. c \in Nat \ {0, 1}
      BY <3>1
    <3> QED BY <3>1, <3>2
  <2>3. hole \in 0 .. c - 1
    <3>1. c \in Nat /\ 0 < c
      OBVIOUS
    <3> QED BY <1>1, <2>2, <3>1, ProbeFacts
  <2>4. hole \in Used(slots) /\ slots[hole] \in Entry /\ DOMAIN slots = 0 .. c - 1
    BY <2>1, <2>2, <2>3, TableFacts, IndexAssumption DEF Used, Free
  <2>5. /\ slots' = u /\ count' = count - 1 /\ at' = "shift"
        /\ vacated' = hole /\ scan' = (hole + 1) % c
        /\ UNCHANGED <<hash, grown, pending>>
    BY <1>3, <2>2 DEF RemoveOrder
  <2> HIDE DEF hole
  <2>6. IsTable(u, c) /\ u[hole] = Empty /\ Free(u[hole])
        /\ \A i \in 0 .. c - 1 : i # hole => u[i] = slots[i]
    BY <2>2, <2>3, <2>4 DEF IsTable, Free, Empty
  <2> HIDE DEF u
  <2>7. DOMAIN u = 0 .. c - 1 /\ Capacity(u) = c
    BY <2>6, TableFacts
  <2>8. Used(u) = Used(slots) \ {hole}
    BY <2>4, <2>6, <2>7 DEF Used
  <2>9. count - 1 = Cardinality(Used(u)) /\ count - 1 \in Nat
    <3>1. IsFiniteSet(Used(slots))
      BY <2>2, TableFacts
    <3>2. Cardinality(Used(u)) = count - 1
      BY <1>1, <2>4, <2>8, <3>1, FS_RemoveElement
    <3>3. Cardinality(Used(u)) \in Nat
      BY <2>6, TableFacts
    <3> QED BY <3>2, <3>3
  <2>10. UniqueKeys(u)
    BY <1>1, <2>4, <2>6, <2>8 DEF UniqueKeys, Used
  <2>11. scan' = After(hole, c) /\ scan' \in 0 .. c - 1
    BY <2>3, <2>5, AfterIs
  <2>12. ASSUME NEW i \in 0 .. c - 1 PROVE ~Scanned(i)'
    BY <2>3, <2>5, <2>11, CyclicFacts DEF Scanned
  <2>13. ASSUME NEW i \in 0 .. c - 1, NEW x \in 0 .. c - 1,
                ~Free(u[i]), Between(Home(slots, i)', x, i)
         PROVE  ~Free(u[x]) \/ x = hole
    <3>1. i # hole /\ u[i] = slots[i]
      BY <2>6, <2>13
    <3>2. Home(slots, i)' = Home(slots, i)
      BY <2>2, <2>5, <2>7, <3>1 DEF Home, IndexFor
    <3> QED BY <1>1, <2>4, <2>6, <2>13, <3>1, <3>2 DEF Settled
  <2>14. ShiftOK'
    BY <2>3, <2>5, <2>6, <2>7, <2>11, <2>12, <2>13 DEF ShiftOK
  <2>15. u # NoTable
    BY <2>7, NoTableFacts
  <2>16. IndexTypeOK'
    BY <1>1, <2>5, <2>6, <2>9 DEF IndexInv, IndexTypeOK
  <2>17. IndexInv'
    BY <1>1, <2>2, <2>5, <2>7, <2>9, <2>10, <2>14, <2>15, <2>16 DEF IndexInv
  <2>18. EntriesOf(slots) = {slots[i] : i \in Used(slots)}
    BY <2>2, EntriesUsed
  <2>19. EntriesOf(u) = {u[i] : i \in Used(u)}
    BY <2>6, EntriesUsed
  <2>20. EntriesOf(u) = EntriesOf(slots) \ {slots[hole]}
    <3>1. \A i \in Used(u) : u[i] = slots[i] /\ i \in Used(slots) /\ i # hole
      BY <2>4, <2>6, <2>8 DEF Used
    <3>2. \A i \in Used(slots) : i # hole <=> slots[i] # slots[hole]
      BY <1>1, <2>4 DEF UniqueKeys
    <3> QED BY <2>8, <2>18, <2>19, <3>1, <3>2
  <2>21. EntriesOf(slots)' = EntriesOf(u) /\ slots[hole] \in EntriesOf(slots)
    BY <2>4, <2>5, <2>18 DEF EntriesOf
  <2> QED BY <1>1, <2>5, <2>17, <2>20, <2>21
<1> QED BY <1>2, <1>3

\* One iteration of the backward shift.  When it meets a free slot every path is
\* whole again: one still broken would pass through that slot.
LEMMA StepShift ==
  ASSUME IndexInv, Shift
  PROVE  IndexInv' /\ EntriesOf(slots)' = EntriesOf(slots)
<1>1. /\ at = "shift" /\ slots # NoTable /\ ShiftOK /\ UniqueKeys(slots)
      /\ count \in Nat /\ count = Cardinality(Used(slots))
      /\ hash \in [Ids -> HashValues] /\ grown = NoTable
  BY DEF Shift, IndexInv, IndexTypeOK
<1>2. PICK c \in Nat \ {0, 1} :
        IsTable(slots, c) /\ Capacity(slots) = c /\ 2 * count <= c
  <2>1. PICK c \in Nat :
          IsTable(slots, c) /\ Capacity(slots) = c /\ 2 * count <= c /\ 2 <= c
    BY <1>1, SlotsFacts
  <2>2. c \in Nat \ {0, 1}
    BY <2>1
  <2> QED BY <2>1, <2>2
<1>3. /\ DOMAIN slots = 0 .. c - 1
      /\ \A i \in 0 .. c - 1 :
           /\ ~Free(slots[i]) => slots[i] \in Entry
           /\ Free(slots[i]) <=> slots[i] = Empty
  BY <1>2, TableFacts
<1>4. vacated \in 0 .. c - 1 /\ scan \in 0 .. c - 1 /\ Free(slots[vacated])
  BY <1>1, <1>3 DEF ShiftOK
<1>5. ASSUME NEW i \in 0 .. c - 1, ~Free(slots[i])
      PROVE  /\ Home(slots, i) \in 0 .. c - 1
             /\ Home(slots, i) = IndexFor(slots[i].key, c)
  <2>1. slots[i].key \in Ids /\ 0 < c /\ c \in Nat
    BY <1>3, <1>5 DEF Entry
  <2> QED BY <1>1, <1>2, <2>1, HomeType DEF Home
<1>6. ASSUME NEW i \in 0 .. c - 1, NEW x \in 0 .. c - 1, ~Free(slots[i]),
             Between(Home(slots, i), x, i)
      PROVE  ~Free(slots[x]) \/ (x = vacated /\ ~Scanned(i))
  BY <1>1, <1>3, <1>6 DEF ShiftOK
<1>7. CASE Free(slots[scan])
  <2>1. Done("ok") /\ UNCHANGED <<slots, count>>
    BY <1>7 DEF Shift
  <2>2. ASSUME NEW i \in 0 .. c - 1, NEW x \in 0 .. c - 1, ~Free(slots[i]),
               Between(Home(slots, i), x, i), Free(slots[x])
        PROVE  FALSE
    <3>1. x = vacated /\ ~Passed(vacated, scan, i)
      BY <1>6, <2>2 DEF Scanned
    <3>2. i # vacated /\ i # scan
      BY <1>4, <1>7, <2>2
    <3>3. scan # vacated
      BY <1>4, <3>1, <3>2 DEF Passed
    <3>4. Home(slots, i) \in 0 .. c - 1
      BY <1>5, <2>2
    <3>5. Between(Home(slots, i), scan, i)
      BY <1>4, <2>2, <3>1, <3>2, <3>3, <3>4, CyclicFacts
    <3> QED BY <1>4, <1>6, <1>7, <2>2, <3>3, <3>5
  <2>3. Settled(slots)
    BY <1>3, <2>2 DEF Settled
  <2> QED BY <2>1, <2>3, StepDone DEF EntriesOf
<1> DEFINE n == IndexFor(slots[scan].key, c)
<1>8. ASSUME ~Free(slots[scan])
      PROVE  /\ scan # vacated /\ n \in 0 .. c - 1 /\ Home(slots, scan) = n
             /\ scan' = After(scan, c) /\ scan' \in 0 .. c - 1
             /\ UNCHANGED <<hash, count, at, grown, pending>>
  <2>1. scan # vacated /\ n \in 0 .. c - 1 /\ Home(slots, scan) = n
    BY <1>4, <1>5, <1>8
  <2>2. /\ scan' = (scan + 1) % c
        /\ UNCHANGED <<hash, count, at, grown, pending>>
    BY <1>2, <1>8 DEF Shift
  <2> QED BY <1>4, <2>1, <2>2, AfterIs
<1>9. CASE ~Free(slots[scan]) /\ InCyclicRange(n, vacated, scan)
  <2>1. slots' = slots /\ vacated' = vacated
    BY <1>2, <1>9 DEF Shift
  <2>2. /\ scan # vacated /\ n \in 0 .. c - 1 /\ Home(slots, scan) = n
        /\ scan' = After(scan, c) /\ scan' \in 0 .. c - 1
        /\ UNCHANGED <<hash, count, at, grown, pending>>
    BY <1>8, <1>9
  <2> HIDE DEF n
  <2>3. ASSUME NEW i \in 0 .. c - 1, i # scan, Scanned(i)' PROVE Scanned(i)
    BY <1>4, <2>1, <2>2, <2>3, CyclicFacts DEF Scanned
  <2>4. ~Between(n, vacated, scan)
    BY <1>4, <1>9, <2>2, CyclicFacts
  <2>5. ASSUME NEW i \in 0 .. c - 1, Scanned(i)' PROVE ~Free(slots[i])
    BY <1>1, <1>3, <1>9, <2>3, <2>5 DEF ShiftOK
  <2>6. ASSUME NEW i \in 0 .. c - 1, NEW x \in 0 .. c - 1, ~Free(slots[i]),
               Between(Home(slots, i), x, i)
        PROVE  ~Free(slots[x]) \/ (x = vacated /\ ~Scanned(i)')
    BY <1>6, <2>2, <2>3, <2>4, <2>6
  <2>7. \A i \in 0 .. c - 1 : Home(slots, i)' = Home(slots, i)
    BY <2>1, <2>2 DEF Home, IndexFor
  <2>8. ShiftOK'
    BY <1>3, <1>4, <2>1, <2>2, <2>5, <2>6, <2>7 DEF ShiftOK
  <2>9. IndexTypeOK'
    BY <2>1, <2>2 DEF IndexInv, IndexTypeOK
  <2> QED BY <1>1, <2>1, <2>2, <2>8, <2>9 DEF IndexInv, EntriesOf
<1>10. CASE ~Free(slots[scan]) /\ ~InCyclicRange(n, vacated, scan)
  <2> DEFINE u == [slots EXCEPT ![vacated] = slots[scan], ![scan] = Empty]
  <2>1. slots' = u /\ vacated' = scan
    BY <1>2, <1>10 DEF Shift
  <2>2. /\ scan # vacated /\ n \in 0 .. c - 1 /\ Home(slots, scan) = n
        /\ scan' = After(scan, c) /\ scan' \in 0 .. c - 1
        /\ UNCHANGED <<hash, count, at, grown, pending>>
    BY <1>8, <1>10
  <2>3. /\ IsTable(u, c) /\ u[scan] = Empty /\ u[vacated] = slots[scan]
        /\ \A i \in 0 .. c - 1 : i # scan /\ i # vacated => u[i] = slots[i]
    BY <1>2, <1>3, <1>4, <2>2 DEF IsTable
  <2> HIDE DEF u
  <2>4. DOMAIN u = 0 .. c - 1 /\ Capacity(u) = c /\ Free(u[scan])
    BY <1>4, <2>3, TableFacts
  <2>5. /\ scan \in Used(slots) /\ vacated \notin Used(slots)
        /\ Used(u) = (Used(slots) \ {scan}) \cup {vacated}
    BY <1>3, <1>4, <1>10, <2>2, <2>3, <2>4 DEF Used
  <2>6. Cardinality(Used(u)) = count
    <3>1. IsFiniteSet(Used(slots))
      BY <1>2, TableFacts
    <3>2. /\ IsFiniteSet(Used(slots) \ {scan})
          /\ Cardinality(Used(slots) \ {scan}) = count - 1
      BY <1>1, <2>5, <3>1, FS_RemoveElement
    <3>3. Cardinality(Used(u)) = count - 1 + 1
      BY <2>5, <3>2, FS_AddElement
    <3> QED BY <1>1, <3>3
  <2>7. UniqueKeys(u)
    <3>1. \A i \in Used(u) : \E k \in Used(slots) :
            u[i] = slots[k] /\ k = (IF i = vacated THEN scan ELSE i)
      BY <1>3, <2>3, <2>5 DEF Used
    <3>2. \A i, j \in Used(u) : u[i].key = u[j].key => i = j
      BY <1>1, <2>5, <3>1 DEF UniqueKeys
    <3> QED BY <3>2 DEF UniqueKeys
  <2>8. ASSUME NEW i \in 0 .. c - 1 PROVE ~Scanned(i)'
    BY <1>4, <2>1, <2>2, CyclicFacts DEF Scanned
  <2>9. ASSUME NEW i \in 0 .. c - 1, NEW x \in 0 .. c - 1, ~Free(u[i]),
               Between(Home(slots, i)', x, i)
        PROVE  ~Free(u[x]) \/ x = scan
    <3> SUFFICES ASSUME x # scan PROVE ~Free(u[x])
      OBVIOUS
    <3>1. CASE x = vacated
      BY <1>10, <2>3, <3>1
    <3>2. CASE x # vacated /\ i = vacated
      <4>1. Home(slots, i)' = n
        BY <2>1, <2>2, <2>3, <2>4, <3>2 DEF Home, IndexFor
      <4>2. Between(n, x, scan)
        BY <1>4, <1>10, <2>2, <2>9, <3>2, <4>1, CyclicFacts
      <4> QED BY <1>4, <1>6, <1>10, <2>2, <2>3, <3>2, <4>2
    <3>3. CASE x # vacated /\ i # vacated
      <4>1. i # scan /\ u[i] = slots[i]
        BY <2>3, <2>4, <2>9, <3>3
      <4>2. Home(slots, i)' = Home(slots, i)
        BY <1>2, <2>1, <2>2, <2>4, <4>1 DEF Home, IndexFor
      <4> QED BY <1>6, <2>3, <2>9, <3>3, <4>1, <4>2
    <3> QED BY <3>1, <3>2, <3>3
  <2>10. ShiftOK'
    BY <1>4, <2>1, <2>2, <2>4, <2>8, <2>9 DEF ShiftOK
  <2>11. u # NoTable
    BY <2>4, NoTableFacts
  <2>12. IndexTypeOK'
    BY <2>1, <2>2, <2>3 DEF IndexInv, IndexTypeOK
  <2>13. IndexInv'
    BY <1>1, <1>2, <2>1, <2>2, <2>4, <2>6, <2>7, <2>10, <2>11, <2>12 DEF
       IndexInv
  <2>14. EntriesOf(slots) = {slots[i] : i \in Used(slots)}
    BY <1>2, EntriesUsed
  <2>15. EntriesOf(u) = {u[i] : i \in Used(u)}
    BY <2>3, EntriesUsed
  <2>16. EntriesOf(u) = EntriesOf(slots)
    <3>1. \A i \in Used(u) : u[i] \in {slots[k] : k \in Used(slots)}
      BY <1>3, <2>3, <2>5 DEF Used
    <3>2. \A k \in Used(slots) : slots[k] \in {u[i] : i \in Used(u)}
      <4>1. ASSUME NEW k \in Used(slots), k # scan
            PROVE  k \in Used(u) /\ u[k] = slots[k]
        BY <1>3, <2>3, <2>5, <4>1 DEF Used
      <4> QED BY <2>3, <2>5, <4>1
    <3> QED BY <2>14, <2>15, <3>1, <3>2
  <2> QED BY <2>1, <2>13, <2>16 DEF EntriesOf
<1> QED BY <1>7, <1>9, <1>10

\* The empty index satisfies the invariant.
LEMMA IndexInvInit == IndexInit => IndexInv
<1> SUFFICES ASSUME IndexInit PROVE IndexInv
  OBVIOUS
<1>1. IndexTypeOK
  BY DEF IndexInit, IndexTypeOK
<1> QED BY <1>1, NoTableFacts DEF IndexInit, IndexInv

\* Every step of the index keeps it.
LEMMA IndexInvStep == IndexInv /\ [IndexNext]_indexVars => IndexInv'
<1> SUFFICES ASSUME IndexInv, [IndexNext]_indexVars PROVE IndexInv'
  OBVIOUS
<1>1. CASE UNCHANGED indexVars
  <2>1. /\ UNCHANGED <<hash, slots, count, at, grown, scan, vacated, pending>>
    BY <1>1 DEF indexVars
  <2>2. /\ Settled(slots) => Settled(slots)'
        /\ Settled(grown) => Settled(grown)'
        /\ ShiftOK => ShiftOK'
    BY <2>1 DEF Settled, Home, IndexFor, ShiftOK, Scanned
  <2> QED BY <2>1, <2>2 DEF IndexInv, IndexTypeOK, RehashOK, Copied
<1>2. CASE IndexNext
  <2>1. CASE Rehash
    BY <2>1, RehashCopies, RehashSwaps
  <2> QED BY <1>2, <2>1, StepAdd, StepRemove, StepReserve, StepInsert, StepShift
             DEF IndexNext
<1> QED BY <1>1, <1>2

\* The inductive invariant holds in every reachable state of the index.
THEOREM IndexInvariant == IndexSpec => []IndexInv
  BY IndexInvInit, IndexInvStep, PTL DEF IndexSpec

\* The entries the properties speak of.
LEMMA EntriesAre == Entries = EntriesOf(slots)
  BY DEF Entries, EntriesOf

\* findOrder returns exactly what was added and not removed, whatever the
\* collisions, the doublings and the backward shifts were.
THEOREM IndexLookupExact == IndexSpec => []LookupExact
<1>1. IndexInv => LookupExact
  <2> SUFFICES ASSUME IndexInv, at = "idle", NEW id \in Ids
               PROVE  IF FindOrder(id) = NULL
                        THEN \A e \in Entries : e.key # id
                        ELSE {e \in Entries : e.key = id}
                               = {[key |-> id, value |-> FindOrder(id)]}
    BY DEF LookupExact
  <2>1. CASE slots = NoTable
    BY <2>1, NoTableFacts, EntriesAre DEF FindOrder
  <2>2. CASE slots # NoTable
    <3> DEFINE p == FindSlot(slots, id)
    <3>1. PICK c \in Nat : /\ IsTable(slots, c) /\ 0 < c
                           /\ \E i \in 0 .. c - 1 : Free(slots[i])
      <4>1. PICK c \in Nat : /\ IsTable(slots, c) /\ 2 <= c
                             /\ \E i \in 0 .. c - 1 : Free(slots[i])
        BY <2>2, SlotsFacts
      <4> QED BY <4>1
    <3>2. /\ Settled(slots) /\ UniqueKeys(slots)
          /\ hash \in [Ids -> HashValues]
      BY DEF IndexInv, IndexTypeOK
    <3>3. /\ p \in 0 .. c - 1
          /\ Free(slots[p]) \/ slots[p].key = id
      BY <3>1, <3>2, ProbeFacts
    <3>4. Entries = {slots[i] : i \in Used(slots)}
      BY <3>1, EntriesUsed, EntriesAre
    <3>5. ASSUME NEW i \in Used(slots), slots[i].key = id PROVE i = p
      BY <3>1, <3>2, <3>5, LookupFacts
    <3>6. FindOrder(id) = slots[p].value
      BY <2>2 DEF FindOrder
    <3> HIDE DEF p
    <3>7. CASE Free(slots[p])
      <4>1. FindOrder(id) = NULL /\ p \notin Used(slots)
        BY <3>6, <3>7 DEF Free, Used
      <4> QED BY <3>4, <3>5, <4>1
    <3>8. CASE ~Free(slots[p])
      <4>1. FindOrder(id) # NULL
        BY <3>6, <3>8 DEF Free
      <4>2. p \in Used(slots) /\ slots[p] \in Entry
        BY <3>1, <3>3, <3>8, TableFacts DEF Used
      <4>3. slots[p].key = id
        BY <3>3, <3>8
      <4>4. slots[p] = [key |-> id, value |-> FindOrder(id)]
        BY <3>6, <4>2, <4>3 DEF Entry
      <4>5. {e \in Entries : e.key = id} = {slots[p]}
        BY <3>4, <3>5, <4>2, <4>3
      <4> QED BY <4>1, <4>4, <4>5
    <3> QED BY <3>7, <3>8
  <2> QED BY <2>1, <2>2
<1> QED BY <1>1, IndexInvariant, PTL

\* findSlot always ends: there is a free slot in the table it runs on, the one
\* a rehash is filling included.
THEOREM IndexProbesEnd == IndexSpec => []ProbesEnd
<1>1. IndexInv => ProbesEnd
  <2> SUFFICES ASSUME IndexInv PROVE ProbesEnd
    OBVIOUS
  <2>1. slots # NoTable => \E i \in DOMAIN slots : Free(slots[i])
    BY SlotsFacts, TableFacts
  <2>2. grown # NoTable => \E i \in DOMAIN grown : Free(grown[i])
    <3> SUFFICES ASSUME grown # NoTable
                 PROVE  \E i \in DOMAIN grown : Free(grown[i])
      OBVIOUS
    <3>1. at = "rehash"
      BY DEF IndexInv
    <3>2. PICK g \in Nat \ {0, 1} :
            IsTable(grown, g) /\ \E i \in 0 .. g - 1 : Free(grown[i])
      BY <3>1, GrownFacts
    <3> QED BY <3>2, TableFacts
  <2> QED BY <2>1, <2>2 DEF ProbesEnd
<1> QED BY <1>1, IndexInvariant, PTL

\* The counter that drives growth is the number of entries, each in one slot,
\* and at most half the capacity.
THEOREM IndexCountExact == IndexSpec => []CountExact
<1>1. IndexInv => CountExact
  <2> SUFFICES ASSUME IndexInv PROVE CountExact
    OBVIOUS
  <2>1. PICK c \in Nat : IsTable(slots, c)
    BY SlotsFacts
  <2>2. IsFiniteSet(Used(slots))
    BY <2>1, TableFacts
  <2>3. Entries = {slots[i] : i \in Used(slots)}
    BY <2>1, EntriesUsed, EntriesAre
  <2> DEFINE f == [i \in Used(slots) |-> slots[i]]
  <2>4. f \in Bijection(Used(slots), Entries)
    BY <2>3 DEF IndexInv, UniqueKeys, Bijection, Injection, Surjection,
       IsInjective
  <2>5. ExistsBijection(Used(slots), Entries)
    BY <2>4 DEF ExistsBijection
  <2>6. Cardinality(Entries) = Cardinality(Used(slots))
    BY <2>2, <2>5, FS_Bijection
  <2> QED BY <2>6 DEF CountExact, IndexInv, Used
<1> QED BY <1>1, IndexInvariant, PTL

\* Rehash and backward shift lose, duplicate and alter nothing; only the calls
\* addOrder and removeOrder change the contents, by the one entry they name.
THEOREM IndexContentsKept == IndexSpec => ContentsKept
<1> DEFINE Kept ==
      \/ Entries' = Entries
      \/ /\ at = "insert" /\ Entries' = Entries \cup {pending}
         /\ \A e \in Entries : e.key # pending.key
      \/ /\ at = "idle" /\ at' = "shift"
         /\ \E e \in Entries : Entries' = Entries \ {e}
<1>1. IndexInv /\ [IndexNext]_indexVars => [Kept]_indexVars
  <2> SUFFICES ASSUME IndexInv, IndexNext PROVE Kept
    OBVIOUS
  <2>0. Entries = EntriesOf(slots) /\ Entries' = EntriesOf(slots)'
    BY DEF Entries, EntriesOf
  <2>1. slots' = slots => Entries' = Entries
    BY DEF Entries
  <2>2. ASSUME NEW id \in Ids, NEW order \in Orders, AddOrder(id, order)
        PROVE  slots' = slots
    BY <2>2 DEF AddOrder, Grow
  <2>3. ASSUME NEW n \in Reservations, Reserve(n) PROVE slots' = slots
    BY <2>3 DEF Reserve, Grow
  <2>4. ASSUME NEW id \in Ids, NEW order \in Orders, RemoveOrder(id, order)
        PROVE  Kept
    BY <2>0, <2>4, StepRemove
  <2>5. CASE Rehash
    <3>1. CASE scan < Capacity(slots)
      BY <2>1, <2>5, <3>1 DEF Rehash
    <3>2. CASE ~(scan < Capacity(slots))
      BY <2>0, <2>5, <3>2, RehashSwaps
    <3> QED BY <3>1, <3>2
  <2>6. CASE Insert
    BY <2>0, <2>6, StepInsert DEF Insert
  <2>7. CASE Shift
    BY <2>0, <2>7, StepShift
  <2> QED BY <2>1, <2>2, <2>3, <2>4, <2>5, <2>6, <2>7 DEF IndexNext
<1> QED BY <1>1, IndexInvariant, PTL DEF IndexSpec, ContentsKept
=============================================================================

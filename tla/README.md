# Leka in TLA+

Leka (`src/`) is a limit order book and matching engine in C++: one book per
instrument, price-time priority, NEW / CANCEL / REDUCE events, a single-threaded
engine fed by a lock-free queue, and tools that replay recorded sessions through
it. This directory models that program, checks the models with TLC on small
instances and proves most of their safety properties with TLAPS for every instance.

`PROJECT.json` lists components, runs, mutants, the map from definitions to source
lines, findings, hazards and theorems. Paths below are relative to the repository.

## 1. Inventory

| Component | State it keeps | Operations | Hard behaviour |
|---|---|---|---|
| `OrderBook` (`src/book/order_book.cpp`) | a pool, two ladders of levels, an index | `addOrder`, `addRestingRemainder`, `cancelOrder`, `reduceOrder`, `removeOrder`, `captureSnapshot` | four structures must agree after every call; every step of an insertion may throw and is rolled back |
| `MatchingEngine` (`src/matching/`) | nothing of its own but the shared sequence counter | `processEvent`, `processOrder` → `matchOrder` | exceptions between two executions; priority; termination of the loop |
| `PriceLadder` (`src/book/price_ladder.cpp`) | array of levels, occupancy bitset, cached best index | `indexOf`, `markOccupied`, `markEmpty`, `forEachOccupied` | stale cache; word boundaries; 64-bit range |
| `PriceLevel` (`src/book/price_level.cpp`) | head, tail, count, aggregate; links inside the orders | `addOrder`, `removeOrder`, `reduceTotalQuantity` | pointer surgery; unsigned aggregate |
| `OrderPool` (`src/book/order_pool.cpp`) | pages of slots, free chains, list of pages with a free slot | `allocate`, `reserve`, `release` | slot reuse; a page that cannot be mapped |
| `OrderIndex` (`src/index/order_index.cpp`) | open-addressed table | `addOrder`, `findOrder`, `removeOrder`, `reserve` | collisions, backward-shift deletion, growth |
| `SequenceNumberGenerator` | one static counter per process | `generate` | shared between engines; exhaustion |
| `SpscEventQueue` (`include/lob/concurrency/`) | ring, two atomic cursors, two private copies | `tryPush`, `tryPop`, destructor | two threads without locks; stale views; wrapping cursors |
| `threaded_replay_benchmark` | events, stamps, counters | feed thread, matching thread | two spin loops; stamps written outside the queue's ordering |
| `itch_to_csv` (`tools/itch/`) | symbol directory, filter, rows written | the decode loop | the filter is learnt from the stream it filters |
| `itch_replay` (`tools/itch/`) | sides and prices of the file's orders, execution groups, pending aggressors, desync counters | pass 1 (scan), pass 2 (replay) | aggressors are not published and are reconstructed per timestamp; the replay reads its own book |
| `benchmark_interchange`, `snapshot_recorder` | price range, ladder geometry, counters | scan, size, replay, `captureSnapshot` | off-grid ladders; snapshots from cached state |
| `benchmark_main`, viewer | none that matters | timing, drawing | – |

The engine calls the book through `findOrder`, `getBestBid/Ask`, `removeOrder` and
`addRestingRemainder`, and writes to two objects it does not own: the resting order's
remaining quantity and the level's aggregate. The book owns pool, ladders and index;
levels and orders point at each other. The replay tools own a book and an engine, and the
threaded one puts the queue between two threads. `market_data`, `apps/*` and `util/*` are
empty files.

What makes each component correct:

* book: pool, queues, ladders and index describe the same set of orders, at every step
  of every call; a failed insertion changes nothing;
* engine: executions go to the best-priced, oldest order; the book is never crossed;
  quantity is conserved; every event returns;
* ladder: prices and indices correspond one to one; the cached best is the lowest
  occupied level;
* level: the links forward and backward are one queue; the aggregate is its sum;
* pool: no live slot is handed out, none is lost, addresses do not move;
* index: exactly the entries added and not removed are found, under any collisions;
* queue: a bounded FIFO without races;
* tools: every observed price has a level; every event is processed once, in order; a
  snapshot shows the resting orders; the CSV is the session and the book replayed from it
  is the venue's.

## 2. Modules

| Module | Models | State and actions |
|---|---|---|
| `OrderBook` | `OrderBook` over abstract components | `order`/`live` the pool, `queue`/`total` the levels, `occ`/`best` the ladders, `index`; `pc`/`req`/`slot`/`result` the running call. `AddOrder` is the head of `addOrderWithQuantities`; `Allocate`, `Link`, `AddToIndex` its three commits, each with the action that throws instead; `RollbackLevel` and `RollbackPool` the catch block; `CancelOrder` and `ReduceOrder` whole calls; `CaptureSnapshot` is what a viewer reads between calls |
| `OrderBookHistory` | – | adds the book as it was before the running insertion |
| `MatchingEngine` | `MatchingEngine`, `SequenceNumberGenerator` | extends `OrderBook` with the execution buffer `out` and the counter `seqno`. `ProcessNew` is the head of `matchOrder`, `Execute` one iteration of its loop, `ExecuteThrows` a buffer that cannot grow, `EndMatching` the exit and the decision to rest, `InsertRemainder` the book's insertion steps; `OtherEngineGenerates` another engine of the process |
| `PriceTimeBook` | abstract | a set of resting orders and at most one incoming order, served by price and time; what `MatchingEngine` promises |
| `PriceLadder` | `PriceLadder` | words as sets of bits, integers of a given width |
| `PriceLevel`, `LevelQueue` | `PriceLevel` | pointer-level lists; the abstract FIFO they implement |
| `OrderPool` | `OrderPool` | pages, free chains, free-page list; `reserve` one page per step |
| `OrderIndex` | `OrderIndex` | the table; rehash and backward shift one iteration per step; the hash function is an arbitrary function chosen at the start |
| `SpscEventQueue`, `BoundedFifo` | `SpscEventQueue` | one step per memory access of each thread; the abstract FIFO |
| `ThreadedReplay` | `threaded_replay_benchmark` | extends `SpscEventQueue` with the two threads, the stamps and a clock; `OtherClient` is any other pair of threads using a queue |
| `LadderSizing` | who builds a ladder | extends `PriceLadder`: any caller (`BuildDirectly`), or pass 1 of a replay tool, which notes the price range of its file and computes the geometry from it |
| `ItchFeed` | external: the venue | the displayed book `venue` and the messages `session` it sends, as the tools of `tools/itch` rely on them: one action per kind of change to the traded symbol's book (`AddOrder`, `Executed`, `CancelPartial`, `DeleteOrder`, `ReplaceOrder`), and any message of a set `Bystanders` that leaves this book alone (directory entries, session events, other symbols). `Openings` restricts a run to sessions that begin in some way |
| `ItchToCsv` | `itch_to_csv` | extends `ItchFeed`; `DecodeMessage` is one iteration of the decode loop (`ReadDirectory`, `WriteRow` or `SkipMessage`), `Row` the columns a type fills, `EndDecode` the end of the session file. `shown` is a history variable: the book that the rows written so far display |
| `ItchReplay` | `itch_replay` | extends `ItchToCsv`; `ScanRow` is one row of pass 1 (`ScanAdd`, `ScanReplace`, `ScanDelete`, `ScanExecuted`), `EndScan` the fold into aggressors by timestamp. In pass 2 `TakeGroup` finds the aggressors due before a row, `InjectAggressor` submits one of them, `ReplayRow` handles the row (`ReplayAdd`, `ReplayDelete`, `ReplayReduce`, `ReplayReplace`) |
| `MatchingEngineProofs` (the book, its history variable and the engine), `ThreadedReplayProofs` (with the queue under it), `OrderIndexProofs`, `OrderPoolProofs`, `LadderSizingProofs`, `PriceLevelProofs`, `ItchReplayProofs` (with the conversion) | – | lemmas and theorems about the module each is named after |
| `DataLemmas` | – | facts about sequences, injections and sums that several of these use |
| `MC*` | – | the requests a run submits and the symmetry sets |

Each operator whose comment says *Mutant of* is a plausible bug in the definition that
follows it; nothing else uses it. Every property of a passing run is violated by at least
one of them (`PROJECT.json`, `mutants`).

Abstractions. Identifiers, slots and pages are model values. `wellFormed` stands for a
nonzero timestamp and enumerators in range, which only validation looks at. `OrderBook`
uses the ladder as a set of indices with a cached minimum, a level as a sequence, the pool
as a set of live slots and the index as a partial map; `PriceLadder`, `PriceLevel`,
`OrderPool` and `OrderIndex` check that the code behind each has those contents. Unsigned
subtraction wraps at `MaxQuantity + 1`. In `SpscEventQueue` a load of the other thread's
cursor returns any value between the last one seen and the current one: a release/acquire
pair orders the slot contents, and does not promise freshness. The destructor runs when
neither thread is in a call, as its documentation demands. In the ITCH modules a message
is a record of the fields the tools read, a price column its whole and decimal parts, and
the engine what `PriceTimeBook` says of it: a set of resting orders served by price and then
by arrival (`arrived`), in which every price of the file has a level (`LadderSizing` with
`--tick 1`). An iteration of the matching loop takes shares of the best order, so what a
call leaves of each order is a function of the shares ahead of it (`Left`, `Submitted`).
Timestamps are offsets within the session; the epoch column is left out. A session may be
extended until it has been read to its end: which message comes next is settled when it is
about to be decoded, which gives the same conversions as a complete file.

## 3. Runs

| Run | Shows | Bounds and why they suffice |
|---|---|---|
| `order_book` | The four structures agree in every state, intermediate states included; a failed insertion restores the book; a snapshot of any depth is the resting orders, aggregates included | 3 orders, 3 levels, prices on, off and outside the grid, quantities up to 3: a level at the overflow limit, a middle level that empties, every throw at every step |
| `matching_engine` | Never crossed, time priority, conservation, executions by priority, queue order kept, no defensive check ever fires, every event ends; the engine implements `PriceTimeBook` | 3 orders (a sweep over two levels or two orders of one level), 3 sequence numbers and another engine, so exhaustion is reached |
| `threaded_replay` | No race, no leak, implements `BoundedFifo`; every event once, in file order; the replay ends | 5 events through a ring of 2, cursors modulo 4, so both wrap, and other clients that destroy the queue with events in it |
| `order_index` | Every entry stays findable, probes end, contents kept by growth and deletion, calls return | 4 identifiers with all hash functions into 3 values that collide and wrap, capacity 4 growing to 8 |
| `price_ladder` | Price map, bitset, best index and snapshot walk are exact; the rounded sizing covers the observed prices | all ladders of up to 7 levels in prices to 23, words of 3 bits: three words, the last partly used; files with prices to 8, ticks 1, 2, 3, four headrooms, grids with and without zero |
| `price_level` | Lists consistent both ways, aggregate is the sum, implements `LevelQueue` | 4 orders over 2 levels |
| `order_pool` | Free chains and page list exact, live orders keep their slot | 4 pages of 2 slots |
| `itch_replay` | The CSV is the session of the symbol; every aggressor is injected once; the replayed book is the venue's at the end of every timestamp, if executions can be reconstructed | sessions of 6 messages from four openings (two levels of either side, both sides, an order older than the directory message), two prices, orders of 2 shares, two symbols, with and without a row limit of 3: sweeps over two levels, two aggressors of one timestamp, partial cancellations and replacements of partly executed orders |

`ReplayMatchesVenue` is conditional, and its condition is the result of asking TLC until it
agreed. An execution can be reconstructed (`Reconstructible`) when nothing but executions
of the same side changed the book before it at its timestamp, and it was not at a price
better for the aggressor than the displayed one; a replacement, when the file holds the
order it replaces. The file must be that of one symbol (`OneSymbol`), as the tool's usage
text demands. The run reaches files inside and outside the condition;
`AggressorsInjectedOnce` and `CsvIsSession` hold for all of them.

`EventProgress` is the termination of the matching loop as a decreasing measure rather
than as a leads-to: every step of a call lowers the number of stages left or, within the
loop, the quantity the incoming order has left. It needs no fairness beyond the thread
running, and it is proved as well as checked.

Deadlock checking is off only where the system may stop: a sized ladder, a destroyed
queue, a finished replay, and a ladder that was refused.

### Disagreements between code and documentation

Four runs check what a comment says and find the code violating it.

* `engine_aggregate`: a full fill zeroes the resting order before it is removed, so the
  removal takes nothing off `totalQuantity`. "Returns the aggregate remaining quantity"
  (`include/lob/book/price_level.hpp:38`) and snapshots are wrong from then on.
  `NoInternalError` (run `matching_engine`, and proved) shows the error is one-sided: the aggregate
  still covers every order of the level, so no removal or reduction wraps or throws because
  of it; what can happen is an early `overflow_error`.
* `threaded_replay_handoff`: the stamp is stored after the event is published, so the
  consumer can read 0 or a stamp later than its own.
* `ladder_sizing_itch`: `itch_replay` does not round the headroom to the tick; with a tick
  other than 1 the ladder misses the file's prices.
* `itch_replay_desync`: the counters are said to be "the way to check" that the replay has
  not left the venue's book (`tools/itch/itch_replay.cpp:37`). They count a partial
  cancellation that empties an order and a replacement of an unknown one, and nothing else.
  In the shortest behaviour a bid is executed, at its timestamp, at a price above its own;
  the reconstructed sell does not reach it and rests as an offer the venue never had. Two
  orders added at the timestamp of an execution do the same: the aggressor is injected
  before both and trades with whichever row comes first.

Two more are visible without a run of their own. `captureSnapshot` with depth 0 reports a
best price of 0 while orders rest (`SnapshotExact` says so; `include/lob/book/order_book_snapshot.hpp`
says "or 0 when no bids rest"). And in `MatchingEngine` a LIMIT price without a
level passes `ValidNew`, takes a sequence number, may trade, and is refused by `LinkThrows`,
while `README.md:261` says invalid inputs are rejected before a number is allocated.

### Fairness

`IndexFairSpec` assumes weak fairness of the steps of a running call only: they are
straight-line code of one thread. Nothing obliges a caller to make one. `ReplayFairSpec`
assumes that both threads keep being scheduled, and strong fairness of seeing the current
cursor (`SeesHead`, `SeesTail`): a thread that reloads an atomic over and over eventually
gets its latest value, which the C++ standard asks of implementations ("in a reasonable amount of time"). Without it the replay need not end.

## 4. Proofs

TLAPS proves the following for every value of the constants that satisfies the `ASSUME`s
of the module: any numbers of identifiers, slots, levels and events, any capacities, ticks,
integer widths and hash functions. The runs evaluate those assumptions on their instances.

| Theorem | Statement |
|---|---|
| `BookInvariant`, `BookTypeCorrect` | `BookSpec => []BookInv`, `[]BookTypeOK` |
| `BookIndexMatchesPool`, `BookQueuesMatchOrders` | pool, index, queues and orders agree in every state of every call |
| `BookAggregateExact`, `BookSnapshotExact` | `BookSpec => []AggregateExact`, `[]SnapshotExact` |
| `BookFailedAddRestores` (from `HistoryInvariant`) | `HistSpec => FailedAddRestoresBook` |
| `EngineInvariant` | `Spec => []EngineInv` |
| `EngineTypeCorrect`, `EngineNeverCrossed`, `EngineTimePriority`, `EngineTouchExact` | the parts a reader would ask for |
| `EngineExecutionsFollowPriority`, `EnginePriorityKept`, `EngineEventProgress` | the action properties of matching |
| `EngineNoInternalError` (from `EngineAggregateCovers`) | `Spec => []NoInternalError` |
| `EngineQuantityConserved` | `Spec => []QuantityConserved` |
| `EngineRefinesPriceTimeBook` | `Spec => ImplementsPriceTimeBook` |
| `LevelListsConsistent`, `LevelRefinesQueue` (from `ListInvariant`), `LevelTotalIsSum` (from `TotalInvariant`) | the intrusive lists and their aggregates: `LevelSpec => []ListsConsistent`, `ImplementsLevelQueue`, `[]TotalIsSum` |
| `QueueTypeCorrect`, `QueueCursorsOrdered`, `QueueSlotsExact`, `QueueNoSlotRace` (from `QueueInvariant`) | safety of the lock-free queue |
| `QueueRefinesFifo` | `QueueSpec => ImplementsBoundedFifo` |
| `ReplayProcessesInOrder`, `ReplayQueueSafety`, `ReplayRefinesFifo` (from `ReplayInvariant`) | the same under the two threads of the replay, and that events are processed in file order |
| `IndexLookupExact`, `IndexProbesEnd`, `IndexCountExact`, `IndexContentsKept` (from `IndexInvariant`) | the hash table |
| `PoolFreeChainExact`, `PoolFreePagesExact`, `PoolOrdersStable` (from `PoolInvariant`) | the pool: `PoolSpec => []FreeChainExact`, `[]FreePagesExact`, `OrdersStable` |
| `InterchangePriceMap`, `InterchangeBitset`, `InterchangeWalk` (from `InterchangeInvariant`), `ItchReplayLadderExact` (from `ItchReplayInvariant`) | the ladder, whoever built it |
| `InterchangeLadderFits` | `HeadroomFits` implies `InterchangeSpec => []LadderFitsRange` |
| `CsvIsSessionHolds` (from `CsvInvHolds`) | `ItchSpec => []CsvIsSession`: the CSV is the session |
| `AggressorsInjectedOnceHolds` (from `ItchInvHolds`) | `ItchSpec => []AggressorsInjectedOnce`, for any file |
| `ReplayMatchesVenueHolds` (from `ChainInvHolds`) | `ItchSpec => []ReplayMatchesVenue`: the replayed book is the venue's |

**Book and engine.** None of the safety properties is inductive alone. That the touch is
exact after a level empties needs the bits to be the non-empty queues; that they stay so
when an order is removed needs `IndexOf(order.price)` to be the level the order is in, which
is what `QueuesMatchOrders` adds, together with injectivity of the queues (removing an order
once must remove it altogether). That a rollback removes the right order needs the order
under insertion to be separated from the indexed ones (`InFlight`, `Unlinked`, `CallOK`).
These parts are `BookInv`. The engine's invariant adds `SequencesBehind` (an order joins
behind all others because its number is newer than theirs, whatever other engines took),
`RemainderDoesNotCross` (when the loop has ended, no opposing order is within the limit:
this uses that the cached touch is the best price) and from both `NotCrossed` and
`TimePriority`. `RequestBounded` keeps the remainder within what was submitted.

`EngineExecutionsFollowPriority` is an action property: in a state satisfying `EngineInv`
the head of the queue at `best` precedes every other resting order of its side
(`TouchHeadFirst`), and `Execute` is the only step that extends the buffer.
`EngineEventProgress` needs the invariant too: an execution makes progress because no
resting order has zero remaining quantity. `EnginePriorityKept` says of each step what it does
to a queue: nothing, an order at the back that was in no queue, or one order taken out.

**Aggregates.** A sum of natural numbers is the cardinality of a set of units, one for each
unit of each order (`Open`; `OpenIsFold` shows that the fold in `OpenQuantity` computes it).
Every step leaves a level alone or adds or removes the units of one order, and changes its
aggregate by as much (`LevelStep`). Of a book changed by its own calls only, the aggregate is
therefore exact, in the middle of an insertion and of its rollback too
(`BookAggregateExact`). Under the engine it is not (the finding `engine_aggregate`): a full
fill empties the order first. `LevelStep` has a weak mode for that step, and what survives is
`Covered`, the aggregate is at least the sum. Together with `EngineInv` this is enough that
no subtraction wraps and no defensive check fires: `EngineNoInternalError`. So the finding
is confined to what is reported, for every instance.

**Snapshot.** The walk over a ladder is a recursion that starts at the cached best index and
scans for the next bit. It has one solution, the occupied indices by rank (`Ranked`: the index
in place k has k - 1 occupied ones before it; `VisitsAre`, by least counterexample), and a
depth cuts it off (`RankedWalk`). `SnapshotExact` speaks of identifiers and prices and not of
levels: between calls the indexed orders of one price are the queue of one level
(`RestingLinked`, `LevelOrders`), the prices are the occupied levels and a better price is a
lower index (`PriceCounts`), so the ranks agree. The quantities are `BookAggregateExact`,
carried over to a sum over identifiers by renaming the units (`UnitsRenamed`).

**Conservation.** `Traded` counts the units of the execution buffer in the same way; an
execution appends its quantity and takes it off the incoming order.

**Refinement to `PriceTimeBook`.** `VisibleBook` is the set of indexed orders without their
pointers, `IncomingOrder` the order of the running event, `LastFailed` whether the last one
threw. Taking an order in is `Accept`, an iteration of the loop `Trade`, storing the
remainder in the index (or ending without one) `Complete`, returning an exception `Fail`,
and cancel and reduce map to their own; allocation, linking and the rollback stutter, because
an order is not visible before it is indexed. `Trade` is with an eligible order by
`TouchHeadFirst`, and `Complete` is enabled by `RemainderDoesNotCross`. `InsertionInv`
relates the slot under insertion to the request, so that what becomes visible is the
remainder. Abstract steps replace set elements; that the concrete ones change one element and
no other rests on visible orders being distinct (`VisibleDistinct`). The
mapping uses the null pointer for "no incoming order"; `IncomingAssumption` says that it is not one.

**Failed insertions.** `HistInv` states, for each stage of `addOrderWithQuantities` and of
its catch block, how the pool, the queues, the aggregates and the index differ from the book
saved when the call began. The bits and the cached best are not undone by the code but
derived anew when a level fills or empties; they return to what they were because both
before and after they are determined by the queues.

**Queue.** Cursors wrap, so nothing can be said about their values; `QueueInv` is about the
distances from one to the other. A cached cursor is at most one ring behind, and
`CursorModulus` is at least twice the capacity, so the sums of distances in `CursorsOrdered`
never wrap themselves. `CallsMatch` records what each thread has established in the middle of
a call (the consumer's copy of an event is the one the abstract queue is about to hand
over). Under the refinement mapping the publishing stores are the abstract push and pop;
every other step stutters.

**Replay.** `Pipeline` places every event: processed, popped and being stamped, in the
queue, or not yet pushed. With `QueueRefinesFifo` it yields `ProcessedInOrder` for any
number of events. That the replay ends is liveness and stays with TLC.

**Index.** `Settled` is what makes linear probing correct: no free slot lies between the
natural index of an entry and its slot. A removal breaks it at the hole. `ShiftOK` says by
how much: only paths through the hole are broken, only those of entries the shift has not
examined yet. When the scan meets a free slot, an entry whose path is still broken would
have that slot on its path, so there is none. `RehashOK` says that the table being filled
is settled, has exactly the entries already copied, and is never full.

**Level.** `ListsConsistent` speaks of walks along pointers, which say nothing by themselves
about the state after a pointer changes. `ListInv` says that each level represents some
sequence: the forward links chain its elements, the backward links chain them the other way,
and its elements are the orders that point at the level. A walk reads the represented
sequence back, and unlinking turns the chain of `s` into the chain of `s` without the order,
wherever it stood. For the aggregate, `TotalInv` counts: a sum of natural numbers is the
cardinality of a set of units here too (`SummedIs` shows that the fold in `TotalIsSum` computes it),
and each operation adds or removes the units of one order. The guard in `addOrder` is what
keeps it within 64 bits, and covering its orders is what keeps the subtraction from wrapping.

**Pool.** `FreeChainExact` and `FreePagesExact` are about walks along links too. `TableInv` says
that the `nextFree` links of each page chain some sequence of distinct slots, exactly its
unoccupied ones and as many as `freeCount`; that the links between pages chain, in both
directions, some sequence of exactly the created pages with a free slot; and that a page
not created yet has all of its slots free. A walk reads such a sequence back (`ChainReads`), and
it fits because distinct slots are no more than the slots there are (`DistinctBound`).
`allocate` takes the first slot off the chain of the first page, so the page that fills up is
always the head, and the unlinking in `removeFromFreePageList` only needs its case without a
predecessor; `release` and `createPage` put an element in front. `PoolStep` also
says what a step does to the live orders, which gives `OrdersStable`: the slot `allocate`
hands out is on a free chain, hence occupied by no order.

**Ladder.** The constructor tests a quotient, `count - 1 > (MaxRaw - min) / tick`;
`DivBound` shows that this is exactly "the highest price does not fit", so on a built
ladder no arithmetic wraps and the price map follows from division with remainder. `Holds`
relates the words to the set of filled levels; `NextSetBitFinds` shows that the scan from the
middle of a word finds the least filled index at or after its start, where there is one, and
that the final bounds test never rejects it; `NextSetBitEnds` that it finds nothing where
there is none. The walk is then the filled indices by rank, as in the snapshot. For sizing, the
rounded headroom keeps the lowest price congruent to the
file's prices, so every price of the file is a whole number of ticks above it. This theorem
has one hypothesis beyond the `ASSUME`s, `HeadroomFits`: the highest file price plus the
largest rounded headroom is representable. With 32-bit feed prices and 64-bit arithmetic it
holds for any headroom and tick below 2^30, and the run's constants satisfy it; without it
`maxPriceRaw + headroom` overflows in the tools. The price map, the bitset and the walk need no
such hypothesis, and hold under `itch_replay`'s unrounded sizing too.

**Conversion.** `CsvInv` relates the loop to the messages read so far: those it kept, in
order and without gaps, are the rows, each row transcribes its message (a price survives
`AppendPrice` and `ParsePriceRaw` by division with remainder), and the filter is what the
directory entries read so far say. When the loop ends, by the limit too, this is
`CsvIsSession`.

**Injection.** `ItchInv` adds what holds of any file: a group has executions only at
timestamps of the file, what is pending for a timestamp is its groups, and nothing is
pending for a timestamp that was passed. The injections are then counted: those made and
those still to make for the current row are as many as the groups taken out.

**Replay of a session.** The argument has four layers; 1, 2 and 4 are the parts of `ChainInv`
beyond `ItchInv`, 3 is the lemma that carries a step of 4.

1. *The feed is legal* (`Legal`, `FileInv`). With one symbol wanted the book that the rows display is the
   venue's, up to orders older than the directory entry, which the file does not hold. Every row
   is therefore legal for it (`RowFacts`): an execution takes from the front, references are
   new and higher than all before, the book stays uncrossed.
2. *The groups are right* (`GroupsInv`). Pass 1 knows exactly the sides and prices of the
   displayed orders, and the aggregate of a timestamp and side is the quantity and the worst
   price of the executions read so far.
3. *An aggressor stands for its executions* (`Fills`, `StandsFor`). One that takes shares from the
   front of a book leaves what a smaller one leaves of the book without those shares
   (`SubmitExecuted`): this is proved for one execution and carried over the rows of a
   timestamp backward from the last, by least counterexample. At the last one nothing remains,
   so nothing of the aggressor rests. It needs the worst price: with a better one the
   aggressor would stop before the last order. It needs that the executions are the first change of
   their timestamp, which is `Reconstructible`.
4. *The replayed book* (`ReplayInv`) is the displayed one either at this row or, once the group of
   its timestamp was injected, after the executions of that timestamp; its orders arrived in the
   order of their references, and no counter has moved. The rows of executions change
   nothing, and at the end of the timestamp the two cases meet.

`ReplayInv` was checked by TLC on the instance of the run before it was proved. The assumption
on the identifiers, `SyntheticIdBase > MaxMessages`, is that those of injected orders do not
meet reference numbers: the code takes 2^62 (`tools/itch/itch_replay.cpp:393`), and in the
model the reference of an order is the place of its message in the session.

The inductive invariants that TLC can evaluate were checked on the instances of the runs before
they were proved; `ListInv` and `TableInv` ask for the existence of a sequence and are not among
them, the walks they imply are. Induction over the naturals is by least counterexample (`MinOfNats`). The lemmas are
in layers: arithmetic, sequences or sets, then one lemma per action.

Every safety invariant and every action property the passing runs check is proved. Only
model-checked, and why: liveness (`ReplayTerminates`, `IndexCallReturns`), which rests on fairness and
`ENABLED`, out of the prover's reach. The four disagreements of section 3 are counterexamples
and need no proof.

## 5. Not modelled

The event loops of `benchmark_interchange` and `snapshot_recorder`: each gives one event
after another to the engine, which is `MatchingEngine`, and otherwise keeps counters, a
tape and latency samples. One weakness there is known and listed as a hazard: an event that
trades and then throws is missing from the tape. Byte offsets, date and clock columns and
output buffering of `itch_to_csv`; text parsing, percentiles and reports of all tools;
mapping and alignment of pages beyond success or failure; the memory layout of the ring and
cache-line padding; `sizeApprox`, which promises nothing; `OrderIdGenerator`, which nothing
calls. Concurrent use of one book or of the static counter by several threads is outside
what the code supports; engines sharing the counter are interleaved event by event.

## 6. Plan

What is left is the composition of `OrderBook` with the pointer-level components: refinement
from `OrderIndex`, `OrderPool`, `PriceLevel` and `PriceLadder` to the parts `OrderBook` assumes,
and from `MatchingEngine` to the engine of `ItchReplay`, which today both follow
`PriceTimeBook`.

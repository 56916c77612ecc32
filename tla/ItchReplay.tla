----------------------------- MODULE ItchReplay -----------------------------
(***************************************************************************)
(* src/tools/itch/itch_replay.cpp over the rows itch_to_csv wrote.  Pass 1 *)
(* groups the executions of one timestamp and resting side into an         *)
(* aggressor, which ITCH does not publish; pass 2 replays the rows through *)
(* the engine, each aggressor before the first row of its timestamp.       *)
(*                                                                         *)
(* The engine is what MatchingEngine promises (PriceTimeBook): a set of    *)
(* resting orders served by price, then by arrival.  The ladder has a      *)
(* level for every price of the file (LadderSizing, with --tick 1).        *)
(***************************************************************************)
EXTENDS ItchToCsv

CONSTANT SyntheticIdBase   \* 2^62, above every reference number

ASSUME ReplayAssumption == SyntheticIdBase \in Nat /\ SyntheticIdBase > MaxMessages

VARIABLES
  at,               \* the next row of the pass
  known,            \* refSide and refPrice, which always change together
  aggregates,       \* executions by timestamp and resting side
  aggressorsByTs,   \* pending aggressors: timestamp -> set
  injecting,        \* those of the current row's timestamp still to inject
  book,             \* the replayed book
  arrived,          \* when the orders of the replayed book came, by reference
  syntheticIdCounter, reduceDesync, replaceDesync, errorCount

scanVars == <<known, aggregates>>
counterVars == <<reduceDesync, replaceDesync, errorCount>>
replayVars ==
  <<at, scanVars, aggressorsByTs, injecting, book, arrived, syntheticIdCounter,
    counterVars>>
itchVars == <<feedVars, stage, csvVars, replayVars>>

ItchInit ==
  /\ CsvInit
  /\ at = 1
  /\ known = <<>> /\ aggregates = <<>>
  /\ aggressorsByTs = <<>> /\ injecting = {}
  /\ book = {} /\ arrived = <<>>
  /\ syntheticIdCounter = 0
  /\ reduceDesync = 0 /\ replaceDesync = 0 /\ errorCount = 0

(***************************************************************************)
(* Pass 1.                                                                 *)
(***************************************************************************)
Without(f, x) == [y \in DOMAIN f \ {x} |-> f[y]]
With(f, x, v) == [y \in DOMAIN f \cup {x} |-> IF y = x THEN v ELSE f[y]]

\* Mutant of Worst: the best price of the group.
WorstReversed(restingSide, a, b) ==
  IF (restingSide = "S") = (a >= b) THEN b ELSE a

\* Highest for a buy aggressor, lowest for a sell.
Worst(restingSide, a, b) == IF (restingSide = "S") = (a >= b) THEN a ELSE b

KnownSide(ref) == IF ref \in DOMAIN known THEN known[ref].side ELSE "B"

ScanAdd(row) ==
  /\ row.msg \in AddTypes
  /\ known' = With(known, row.ref,
                   [side |-> row.side, price |-> ParsePriceRaw(row.price)])
  /\ UNCHANGED aggregates

ScanReplace(row) ==
  /\ row.msg = "U"
  /\ known' = With(Without(known, row.ref), row.newRef,
                   [side |-> KnownSide(row.ref), price |-> ParsePriceRaw(row.price)])
  /\ UNCHANGED aggregates

ScanDelete(row) ==
  /\ row.msg = "D"
  /\ known' = Without(known, row.ref)
  /\ UNCHANGED aggregates

\* An execution of an order added before this file's window began is left out.
ScanExecuted(row) ==
  /\ row.msg \in ExecuteTypes /\ row.ref \in DOMAIN known
  /\ LET side == known[row.ref].side
         price == IF row.msg = "C" THEN ParsePriceRaw(row.price)
                                   ELSE known[row.ref].price
         key == <<row.ts, side>>
     IN  aggregates' = With(aggregates, key,
           IF key \in DOMAIN aggregates
             THEN [quantity |-> aggregates[key].quantity + row.shares,
                   price |-> Worst(side, aggregates[key].price, price)]
             ELSE [quantity |-> row.shares, price |-> price])
  /\ UNCHANGED known

ScanOther(row) ==
  /\ row.msg \notin AddTypes \cup {"U", "D"}
  /\ row.msg \in ExecuteTypes => row.ref \notin DOMAIN known
  /\ UNCHANGED scanVars

ScanRow ==
  /\ stage = "scan"
  /\ at <= Len(csv)
  /\ LET row == csv[at]
     IN  \/ ScanAdd(row) \/ ScanReplace(row) \/ ScanDelete(row)
         \/ ScanExecuted(row) \/ ScanOther(row)
  /\ at' = at + 1
  /\ UNCHANGED <<feedVars, stage, csvVars, aggressorsByTs, injecting, book, arrived,
                 syntheticIdCounter, counterVars>>

\* Some row has a price to size the ladder with.
AnyPrice == \E k \in DOMAIN csv : csv[k].msg \in AddTypes \cup {"U"}

\* The aggressors of a timestamp.
Aggressors(ts) ==
  {[side |-> IF key[2] = "S" THEN "B" ELSE "S", rem |-> aggregates[key].quantity,
    price |-> aggregates[key].price] : key \in {x \in DOMAIN aggregates : x[1] = ts}}

EndScan ==
  /\ stage = "scan"
  /\ at > Len(csv)
  /\ IF AnyPrice
       THEN /\ stage' = "replay"
            /\ aggressorsByTs' = [ts \in {key[1] : key \in DOMAIN aggregates} |->
                                    Aggressors(ts)]
       ELSE stage' = "done" /\ UNCHANGED aggressorsByTs
  /\ at' = 1
  /\ UNCHANGED <<feedVars, csvVars, scanVars, injecting, book, arrived,
                 syntheticIdCounter, counterVars>>

(***************************************************************************)
(* The engine, on a book b.                                                *)
(***************************************************************************)
Has(b, ref) == \E o \in b : o.ref = ref
Find(b, ref) == CHOOSE o \in b : o.ref = ref
Cancelled(b, ref) == {o \in b : o.ref # ref}

\* The resting orders that o accepts.
Acceptable(b, o) ==
  {x \in b : /\ x.side # o.side
             /\ IF o.side = "B" THEN x.price <= o.price ELSE x.price >= o.price}

\* x is served before y, an order of the same side.
ServedFirst(x, y) ==
  \/ IF x.side = "S" THEN x.price < y.price ELSE x.price > y.price
  \/ x.price = y.price /\ arrived[x.ref] < arrived[y.ref]

Shares(orders) == MapThenSumSet(LAMBDA x : x.rem, orders)

Least(a, b) == IF a <= b THEN a ELSE b

\* What is left of x, which o accepts, after o took the shares of the orders
\* served before it.
Left(b, o, x) ==
  LET ahead == Shares({y \in Acceptable(b, o) : ServedFirst(y, x)})
  IN  IF o.rem <= ahead THEN x.rem ELSE x.rem - Least(x.rem, o.rem - ahead)

\* A NEW limit order: it trades, then its remainder rests.
Submitted(b, o) ==
  LET able == Acceptable(b, o)
      kept == {x \in able : Left(b, o, x) > 0}
  IN  (b \ able) \cup {[x EXCEPT !.rem = Left(b, o, x)] : x \in kept}
                 \cup IF Shares(able) < o.rem
                        THEN {[o EXCEPT !.rem = @ - Shares(able)]} ELSE {}

(***************************************************************************)
(* Pass 2.                                                                 *)
(***************************************************************************)
\* Mutant of Injected: the group stays pending.
InjectedAgain(ts) == aggressorsByTs

\* What is still pending once the group of a timestamp was taken.
Injected(ts) == Without(aggressorsByTs, ts)

\* Grows with every NEW.
Arrival == at + syntheticIdCounter

\* The group of the row's timestamp is pending, and taken out.
TakeGroup ==
  /\ stage = "replay" /\ csv[at].ts \in DOMAIN aggressorsByTs
  /\ stage' = "inject"
  /\ injecting' = aggressorsByTs[csv[at].ts]
  /\ aggressorsByTs' = Injected(csv[at].ts)
  /\ UNCHANGED <<feedVars, csvVars, at, scanVars, book, arrived, syntheticIdCounter,
                 counterVars>>

\* The group is injected in the order the hash tables happened to give it.
InjectAggressor ==
  /\ stage = "inject"
  /\ \E a \in injecting :
       LET o == [ref |-> SyntheticIdBase + syntheticIdCounter, side |-> a.side,
                 price |-> a.price, rem |-> a.rem]
       IN  /\ book' = Submitted(book, o)
           /\ arrived' = With(arrived, o.ref, Arrival)
           /\ injecting' = injecting \ {a}
  /\ syntheticIdCounter' = syntheticIdCounter + 1
  /\ UNCHANGED <<feedVars, stage, csvVars, at, scanVars, aggressorsByTs, counterVars>>

\* A NEW on the book b.  It throws under a reference in use.
New(b, ref, side, row) ==
  IF Has(b, ref)
    THEN /\ book' = b /\ errorCount' = errorCount + 1
         /\ UNCHANGED <<arrived, reduceDesync, replaceDesync>>
    ELSE /\ book' = Submitted(b, [ref |-> ref, side |-> side, rem |-> row.shares,
                                  price |-> ParsePriceRaw(row.price)])
         /\ arrived' = With(arrived, ref, Arrival)
         /\ UNCHANGED counterVars

ReplayAdd(row) ==
  /\ row.msg \in AddTypes
  /\ New(book, row.ref, IF row.side = "B" THEN "B" ELSE "S", row)

ReplayDelete(row) ==
  /\ row.msg = "D"
  /\ book' = Cancelled(book, row.ref)
  /\ UNCHANGED <<arrived, counterVars>>

\* The remaining quantity is computed from the live book.
ReplayReduce(row) ==
  /\ row.msg = "X" /\ Has(book, row.ref)
  /\ LET o == Find(book, row.ref)
     IN  IF row.shares < o.rem
           THEN /\ book' = Cancelled(book, row.ref) \cup {[o EXCEPT !.rem = @ - row.shares]}
                /\ UNCHANGED reduceDesync
           ELSE /\ book' = Cancelled(book, row.ref)
                /\ reduceDesync' = reduceDesync + 1
  /\ UNCHANGED <<arrived, replaceDesync, errorCount>>

\* The side is that of the live order, which is cancelled before the NEW.
ReplayReplace(row) ==
  /\ row.msg = "U"
  /\ IF Has(book, row.ref)
       THEN New(Cancelled(book, row.ref), row.newRef, Find(book, row.ref).side, row)
       ELSE /\ replaceDesync' = replaceDesync + 1
            /\ UNCHANGED <<book, arrived, reduceDesync, errorCount>>

ReplayOther(row) ==
  /\ row.msg \notin AddTypes \cup {"D", "U"}
  /\ row.msg = "X" => ~Has(book, row.ref)
  /\ UNCHANGED <<book, arrived, counterVars>>

ReplayRow ==
  /\ \/ stage = "replay" /\ csv[at].ts \notin DOMAIN aggressorsByTs
     \/ stage = "inject" /\ injecting = {}
  /\ LET row == csv[at]
     IN  \/ ReplayAdd(row) \/ ReplayDelete(row) \/ ReplayReduce(row)
         \/ ReplayReplace(row) \/ ReplayOther(row)
  /\ at' = at + 1
  /\ stage' = IF at = Len(csv) THEN "done" ELSE "replay"
  /\ UNCHANGED <<feedVars, csvVars, scanVars, aggressorsByTs, injecting,
                 syntheticIdCounter>>

ItchNext ==
  \/ (Trading \/ DecodeMessage \/ EndDecode) /\ UNCHANGED replayVars
  \/ ScanRow \/ EndScan
  \/ TakeGroup \/ InjectAggressor \/ ReplayRow

ItchSpec == ItchInit /\ [][ItchNext]_itchVars
-----------------------------------------------------------------------------
(***************************************************************************)
(* When the reconstruction is right.                                       *)
(***************************************************************************)
\* Row k is an execution of an order of the file, on the given side.
Executes(k, side) ==
  /\ csv[k].msg \in ExecuteTypes
  /\ \E o \in shown[k] : o.ref = csv[k].ref /\ o.side = side

\* An execution can be reconstructed when only executions of the same side
\* changed the book before it at its timestamp and its price is not better for
\* the aggressor than the displayed one; a replacement, when its order is known.
Reconstructible(k) ==
  /\ \A side \in {"B", "S"} : Executes(k, side) =>
       /\ \A j \in 1 .. k - 1 :
            csv[j].ts = csv[k].ts /\ shown[j + 1] # shown[j] => Executes(j, side)
       /\ LET price == ParsePriceRaw(csv[k].price)
              shownPrice == Find(shown[k], csv[k].ref).price
          IN  csv[k].msg = "C" =>
                IF side = "S" THEN price >= shownPrice ELSE price <= shownPrice
  /\ csv[k].msg = "U" => Has(shown[k], csv[k].ref)

\* "FILE.csv is per-symbol output from itch_to_csv" (itch_replay.cpp:233).
OneSymbol ==
  Wanted # {} /\ \A locate \in DOMAIN Directory :
                   Directory[locate] \in Wanted => locate = Locate

Orderly == OneSymbol /\ \A k \in DOMAIN csv : Reconstructible(k)

AtBoundary ==
  /\ stage \in {"replay", "done"} /\ at > 1
  /\ at > Len(csv) \/ csv[at].ts # csv[at - 1].ts

\* The replayed book is the one the venue displayed, time priority included.
BookIsShown ==
  /\ book = shown[at]
  /\ \A x, y \in book : arrived[x.ref] < arrived[y.ref] <=> x.ref < y.ref

\* Whenever the rows of a timestamp are done, the replayed book is the one the
\* venue displayed, time priority included: reconstructed aggressors, partial
\* cancellations computed from the live book and replacements that inherit its
\* side add up to the session, if every execution can be reconstructed.
ReplayMatchesVenue ==
  AtBoundary =>
    \/ BookIsShown /\ reduceDesync = 0 /\ replaceDesync = 0 /\ errorCount = 0
    \/ ~Orderly

\* In any file, every aggressor is injected exactly once and before the last
\* row: none is pending for a timestamp that has passed, none is injected
\* again, and none is left.
AggressorsInjectedOnce ==
  /\ \A ts \in DOMAIN aggressorsByTs, k \in 1 .. at - 1 : csv[k].ts # ts
  /\ syntheticIdCounter <= Cardinality(DOMAIN aggregates)
  /\ stage = "done" =>
       /\ DOMAIN aggressorsByTs = {} /\ injecting = {}
       /\ syntheticIdCounter = Cardinality(DOMAIN aggregates)

\* "The desync counters this tool prints at the end are the way to check that
\* assumption" (itch_replay.cpp:37): a replay that ends with both at zero ends
\* with the venue's book.
DesyncsReported ==
  stage = "done" /\ at > Len(csv) /\ reduceDesync = 0 /\ replaceDesync = 0 =>
    book = shown[at]
=============================================================================

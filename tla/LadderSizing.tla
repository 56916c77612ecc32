---------------------------- MODULE LadderSizing ----------------------------
(***************************************************************************)
(* Who builds a ladder.  Any caller may choose its range; the replay tools *)
(* size it from the file: pass 1 notes the lowest and highest price, then  *)
(* the ladder is built over that range plus headroom.                      *)
(* benchmark_interchange, threaded_replay_benchmark and snapshot_recorder  *)
(* round the headroom up to a whole tick; itch_replay does not.  The       *)
(* prices of a file lie on one tick grid, which need not contain zero.     *)
(***************************************************************************)
EXTENDS PriceLadder

CONSTANTS
  Ticks,        \* values given to --tick
  Headrooms,    \* values given to --headroom-pct
  Origins,      \* where the grid of a file starts, modulo the tick
  MaxFilePrice  \* bound on the raw prices of a file

ASSUME SizingAssumption ==
  /\ MaxFilePrice \in Nat
  /\ Ticks \subseteq Nat \ {0} /\ Headrooms \subseteq Nat /\ Origins \subseteq Nat

VARIABLES
  tick, headroomPct,         \* options; tick is 0 when no tool is running
  minPriceRaw, maxPriceRaw   \* range noted so far

fileVars == <<tick, headroomPct, minPriceRaw, maxPriceRaw>>

SizingInit ==
  /\ LadderInit
  /\ tick = 0 /\ headroomPct = 0
  /\ minPriceRaw = MaxRaw /\ maxPriceRaw = 0

\* Tests, demos and fixed configurations.
BuildDirectly ==
  /\ tick = 0
  /\ \E min, step \in Raw, count \in 0 .. MaxLevels, descending \in BOOLEAN :
       Construct(min, step, count, descending)
  /\ UNCHANGED fileVars

ParseOptions(t, pct) ==
  /\ ladder = None /\ tick = 0
  /\ tick' = t /\ headroomPct' = pct
  /\ UNCHANGED <<minPriceRaw, maxPriceRaw, ladderVars>>

\* A price of the file; zero is not a price.
NoteRange(p) ==
  /\ ladder = None /\ tick # 0
  /\ p # 0 => /\ \E o \in Origins : p % tick = o % tick
              /\ maxPriceRaw # 0 => p % tick = maxPriceRaw % tick
  /\ IF p = 0 THEN UNCHANGED <<minPriceRaw, maxPriceRaw>>
     ELSE /\ minPriceRaw' = IF p < minPriceRaw THEN p ELSE minPriceRaw
          /\ maxPriceRaw' = IF p > maxPriceRaw THEN p ELSE maxPriceRaw
  /\ UNCHANGED <<tick, headroomPct, ladderVars>>

RawHeadroom == ((maxPriceRaw - minPriceRaw) * headroomPct) \div 100 + tick

\* The tool gives up on a file without prices.  Both sides of the book get
\* the same range, bids descending.
Configure(bottom, headroom) ==
  /\ tick # 0 /\ minPriceRaw <= maxPriceRaw
  /\ \E descending \in BOOLEAN :
       Construct(bottom, tick, (maxPriceRaw + headroom - bottom) \div tick + 1, descending)
  /\ UNCHANGED fileVars

\* itch_replay.  (As the mutant of SizeRounded: the rounding is forgotten.)
SizeUnrounded ==
  LET bottom == IF minPriceRaw > RawHeadroom THEN minPriceRaw - RawHeadroom
                                             ELSE tick
  IN  Configure(bottom, RawHeadroom)

\* The other three tools.
SizeRounded ==
  LET headroom == ((RawHeadroom + tick - 1) \div tick) * tick
      bottom == IF minPriceRaw > headroom THEN minPriceRaw - headroom
                                          ELSE minPriceRaw % tick
  IN  Configure(IF bottom = 0 THEN tick ELSE bottom, headroom)

Use ==
  \/ BuildDirectly
  \/ \E t \in Ticks, pct \in Headrooms : ParseOptions(t, pct)
  \/ \E p \in 0 .. MaxFilePrice : NoteRange(p)
  \/ Fill /\ UNCHANGED fileVars

InterchangeSpec ==
  SizingInit /\ [][Use \/ SizeRounded]_<<ladderVars, fileVars>>
ItchReplaySpec ==
  SizingInit /\ [][Use \/ SizeUnrounded]_<<ladderVars, fileVars>>
-----------------------------------------------------------------------------
\* "Constructs the book's PriceLadder to fit that range plus headroom"
\* (tools/itch/itch_replay.cpp:9): the constructor accepts the range, and
\* every price on the file's grid within it has a level, whatever the tick,
\* the headroom and the grid's origin.
LadderFitsRange ==
  tick # 0 /\ ladder # None =>
    /\ Built
    /\ \A p \in minPriceRaw .. maxPriceRaw :
         p % tick = minPriceRaw % tick => ~IndexOf(p).error
=============================================================================

----------------------------- MODULE ItchToCsv -----------------------------
(***************************************************************************)
(* src/tools/itch/itch_to_csv.cpp: one CSV row per trading message of the  *)
(* wanted symbols.  Messages name their symbol by locate code, so the      *)
(* filter is only known once the symbol's directory message has been read. *)
(* A frame cut off by the end of the file is not decoded.                  *)
(***************************************************************************)
EXTENDS ItchFeed

CONSTANTS
  Wanted,       \* --symbol; the empty set keeps every symbol
  KeepSystem,   \* FALSE for --no-system
  Limits,       \* values given to --limit; 0 for none
  PriceScale    \* 10000: prices have four implied decimals

ASSUME CsvAssumption ==
  KeepSystem \in BOOLEAN /\ Limits \subseteq Nat /\ PriceScale \in Nat \ {0}

VARIABLES
  stage,            \* what runs: "decode", "scan", "replay", "inject", "done"
  limit,            \* options.limit
  messages,         \* how many messages were read
  locateToSymbol,   \* the symbols of the codes read
  keepLocate,       \* the codes of wanted symbols
  csv,              \* the rows written
  shown             \* history: shown[k] is the book rows 1 .. k - 1 display

csvVars == <<limit, messages, locateToSymbol, keepLocate, csv, shown>>

\* The name is OTHER for every type not listed.
NamedTypes ==
  {"A", "F", "E", "C", "X", "D", "U", "P", "Q", "B", "S", "H"}

NoPrice == [whole |-> 0, frac |-> 0, blank |-> TRUE]
AppendPrice(raw) ==
  [whole |-> raw \div PriceScale, frac |-> raw % PriceScale, blank |-> FALSE]
ParsePriceRaw(p) == IF p.blank THEN 0 ELSE p.whole * PriceScale + p.frac

\* The columns of the row of message m.
Row(m) ==
  LET has(types, field, blank) == IF m.type \in types THEN field ELSE blank
  IN  [seq |-> Len(csv) + 1, ts |-> m.ts, msg |-> m.type,
       symbol |-> CASE m.type \in {"A", "F", "P", "Q", "H"} -> m.stock
                    [] m.type = "S" -> ""
                    [] OTHER -> IF m.locate \in DOMAIN locateToSymbol
                                  THEN locateToSymbol[m.locate] ELSE "",
       ref |-> has({"A", "F", "E", "C", "X", "D", "U", "P"}, m.ref, 0),
       side |-> has({"A", "F", "P"}, m.side, ""),
       shares |-> has({"A", "F", "P", "E", "C", "X", "U", "Q"}, m.shares, 0),
       price |-> has({"A", "F", "P", "C", "U", "Q"}, AppendPrice(m.price), NoPrice),
       newRef |-> has({"U"}, m.newRef, 0)]

\* What a row tells about the displayed book.
RowMessage(row) ==
  [type |-> row.msg, ref |-> row.ref, side |-> row.side, shares |-> row.shares,
   price |-> ParsePriceRaw(row.price), newRef |-> row.newRef]

CsvInit ==
  /\ FeedInit
  /\ stage = "decode" /\ limit \in Limits /\ messages = 0
  /\ locateToSymbol = <<>> /\ keepLocate = {}
  /\ csv = <<>> /\ shown = <<{}>>

\* The session file is complete when it is decoded; what its next message is
\* may as well be settled when it is about to be read.
Trading ==
  /\ stage = "decode" /\ messages = Len(session)
  /\ FeedNext
  /\ UNCHANGED <<stage, csvVars>>

\* Mutant of KeepsRow: system events are filtered by locate code as well.
KeepsRowFiltersAll(m) ==
  /\ m.type \in {"S", "H"} => KeepSystem
  /\ Wanted = {} \/ m.locate \in keepLocate
  /\ m.type \in NamedTypes

KeepsRow(m) ==
  /\ m.type \in {"S", "H"} => KeepSystem
  /\ Wanted = {} \/ m.type = "S" \/ m.locate \in keepLocate
  /\ m.type \in NamedTypes

\* The symbol of a code is the first one given for it, the filter follows the
\* last.
ReadDirectory(m) ==
  /\ m.type = "R"
  /\ locateToSymbol' = [l \in DOMAIN locateToSymbol \cup {m.locate} |->
        IF l \in DOMAIN locateToSymbol THEN locateToSymbol[l] ELSE m.stock]
  /\ keepLocate' = IF m.stock \in Wanted THEN keepLocate \cup {m.locate}
                                         ELSE keepLocate \ {m.locate}
  /\ UNCHANGED <<csv, shown>>

WriteRow(m) ==
  /\ m.type # "R" /\ KeepsRow(m)
  /\ csv' = Append(csv, Row(m))
  /\ shown' = Append(shown, Displayed(shown[Len(shown)], RowMessage(Row(m))))
  /\ UNCHANGED <<locateToSymbol, keepLocate>>

SkipMessage(m) ==
  /\ m.type # "R" /\ ~KeepsRow(m)
  /\ UNCHANGED <<locateToSymbol, keepLocate, csv, shown>>

\* One iteration of the decode loop.
DecodeMessage ==
  /\ stage = "decode"
  /\ messages < Len(session)
  /\ LET m == session[messages + 1]
     IN  ReadDirectory(m) \/ WriteRow(m) \/ SkipMessage(m)
  /\ messages' = messages + 1
  /\ stage' = IF limit # 0 /\ Len(csv') >= limit THEN "scan" ELSE stage
  /\ UNCHANGED <<feedVars, limit>>

\* The end of the session file.
EndDecode ==
  /\ stage = "decode"
  /\ messages = Len(session)
  /\ stage' = "scan"
  /\ UNCHANGED <<feedVars, csvVars>>
-----------------------------------------------------------------------------
\* The messages the file is to hold: those of the wanted symbols after their
\* directory entry, and the session's own, each of a type with a name.
Listed(k) == \E j \in 1 .. k - 1 :
  session[j].type = "R" /\ session[j].locate = session[k].locate
                        /\ session[j].stock \in Wanted
ToKeep(k) ==
  /\ session[k].type \in NamedTypes
  /\ session[k].type \in {"S", "H"} => KeepSystem
  /\ session[k].type = "S" \/ Wanted = {} \/ Listed(k)
Expected == {k \in 1 .. Len(session) : ToKeep(k)}

\* "A faithful, lossless transcription of the ITCH trading messages"
\* (itch_to_csv.cpp:7): with a symbol filter, the file holds exactly the rows
\* of that symbol and the system events among the messages read, up to the
\* limit, in session order and numbered without gaps, and every order row names
\* the symbol although most messages carry only the locate code: no change goes
\* missing between two rows.
CsvIsSession ==
  stage = "scan" =>
    LET expected == Expected
        place(k) == Cardinality({j \in expected : j <= k})
    IN  /\ Len(csv) = Cardinality(expected) /\ (limit = 0 \/ Len(csv) <= limit)
        /\ \A k \in expected :
             LET row == csv[place(k)]
                 m == session[k]
             IN  /\ row.seq = place(k) /\ row.msg = m.type /\ row.ts = m.ts
                 /\ row.ref = m.ref /\ row.newRef = m.newRef
                 /\ row.side = m.side /\ row.shares = m.shares
                 /\ ParsePriceRaw(row.price) = m.price
                 /\ m.type # "S" /\ Wanted # {} => row.symbol \in Wanted
=============================================================================

------------------------------- MODULE CsvRows -------------------------------
(***************************************************************************)
(* csv_to_html() in src/csv.cpp: a text is read character by character     *)
(* into the rows and cells of an HTML table.                               *)
(*                                                                         *)
(* Of a character it matters whether it is a quote, the delimiter, a       *)
(* carriage return, a line feed, or any other; a line break in a cell is   *)
(* shown as "break".  How other characters are escaped is left out, and    *)
(* so are the limits on size and encoding, which end the call before it    *)
(* reads.                                                                  *)
(*                                                                         *)
(* An operator Buggy... is its neighbour with a plausible mistake, and is  *)
(* not used (see README.md).                                               *)
(***************************************************************************)
EXTENDS Integers, FiniteSetsExt, SequencesExt

CONSTANT MaxText           \* bound of the texts that are read

VARIABLES
  text, place,             \* the text, and the place of the next character
  field,                   \* State: of the cell that is being read
  table,                   \* the rows written, each a sequence of cells
  reading                  \* "called", "text", then "end", or an exception: "malformed"

csvVars == <<text, place, field, table, reading>>

CsvInit ==
  /\ text = <<>> /\ reading = "called"
  /\ place = 1 /\ field = "start" /\ table = << << <<>> >> >>

ReadText ==
  /\ reading = "called" /\ reading' = "text"
  /\ \E n \in 1 .. MaxText : text' \in [1 .. n -> {"quote", "delimiter", "cr", "lf", "other"}]
  /\ UNCHANGED <<place, field, table>>

Char == text[place]
PairAt(s, k) == s[k] = "cr" /\ k < Len(s) /\ s[k + 1] = "lf"
Go(n, f) == place' = place + n /\ field' = f /\ UNCHANGED <<text, reading>>

\* Adds to the cell, to the row, or to the table.
Emit(x) == table' = [table EXCEPT ![Len(table)][Len(table[Len(table)])] = Append(@, x)]
NewCell == table' = [table EXCEPT ![Len(table)] = Append(@, <<>>)]
NewRow == table' = Append(table, << <<>> >>)

More == reading = "text" /\ place <= Len(text)

Quoted ==
  /\ More /\ field = "quoted"
  /\ \/ Char = "quote" /\ Go(1, "closed") /\ UNCHANGED table
     \/ Char = "cr" /\ Emit("break") /\ Go(IF PairAt(text, place) THEN 2 ELSE 1, "quoted")
     \/ Char = "lf" /\ Emit("break") /\ Go(1, "quoted")
     \/ Char \in {"delimiter", "other"} /\ Emit(Char) /\ Go(1, "quoted")

\* A quote that ended the cell was the first of two.
QuoteAgain ==
  /\ More /\ field = "closed" /\ Char = "quote"
  /\ Emit(Char) /\ Go(1, "quoted")

Delimiter ==
  /\ More /\ field # "quoted" /\ Char = "delimiter"
  /\ NewCell /\ Go(1, "start")

\* The last line break of the text begins no row.
BuggyBreakLength == 1
BreakLength == IF PairAt(text, place) THEN 2 ELSE 1
LineBreak ==
  /\ More /\ field # "quoted" /\ Char \in {"cr", "lf"}
  /\ IF place + BreakLength <= Len(text) THEN NewRow ELSE UNCHANGED table
  /\ Go(BreakLength, "start")

Quote ==
  /\ More /\ field = "start" /\ Char = "quote"
  /\ Go(1, "quoted") /\ UNCHANGED table

Plain ==
  /\ More /\ field \in {"start", "plain"} /\ Char = "other"
  /\ Emit(Char) /\ Go(1, "plain")

Malformed ==
  /\ \/ More /\ field = "plain" /\ Char = "quote"
     \/ More /\ field = "closed" /\ Char = "other"
     \/ reading = "text" /\ place > Len(text) /\ field = "quoted"
  /\ reading' = "malformed"
  /\ UNCHANGED <<text, place, field, table>>

Done ==
  /\ reading = "text" /\ place > Len(text) /\ field # "quoted"
  /\ reading' = "end"
  /\ UNCHANGED <<text, place, field, table>>

CsvNext == ReadText \/ Quoted \/ QuoteAgain \/ Delimiter \/ LineBreak \/ Quote \/ Plain \/ Malformed \/ Done

-----------------------------------------------------------------------------
(* The reference: a delimiter or a line break counts if an even number of   *)
(* quotes is before it; between those lie the cells.                        *)

\* What s holds at a set of places.
At(s, places) ==
  [n \in 1 .. Cardinality(places) |->
     s[CHOOSE k \in places : Cardinality({j \in places : j < k}) = n - 1]]

\* A carriage return and its line feed are one line break.
Unit(c) == IF c \in {"cr", "lf"} THEN "break" ELSE c
Units(s) ==
  LET kept == At(s, {k \in DOMAIN s : ~(k > 1 /\ PairAt(s, k - 1))})
  IN  [n \in DOMAIN kept |-> Unit(kept[n])]

Outside(s, k) == Cardinality({m \in 1 .. k - 1 : s[m] = "quote"}) % 2 = 0
Cuts(s, kinds) == {k \in DOMAIN s : s[k] \in kinds /\ Outside(s, k)}

\* The pieces of s between the places of a set, each after as many of these as pieces.
Pieces(s, cuts) ==
  [n \in 1 .. Cardinality(cuts) + 1 |->
     At(s, {k \in DOMAIN s \ cuts : Cardinality({c \in cuts : c < k}) = n - 1})]

\* What is in a cell: all of it, or what is between quotes, where each quote is doubled.
Inner(s) == SubSeq(s, 2, Len(s) - 1)
InQuotes(s) == Len(s) >= 2 /\ s[1] = "quote" /\ s[Len(s)] = "quote"
FirstOfTwo(s, k) == Cardinality({m \in 1 .. k : \A j \in m .. k : s[j] = "quote"}) % 2 = 1
IsCell(s) ==
  \/ \A k \in DOMAIN s : s[k] # "quote"
  \/ InQuotes(s) /\ \A k \in DOMAIN Inner(s) :
       FirstOfTwo(Inner(s), k) => k < Len(Inner(s)) /\ Inner(s)[k + 1] = "quote"
Content(s) ==
  IF InQuotes(s) THEN At(Inner(s), {k \in DOMAIN Inner(s) : ~FirstOfTwo(Inner(s), k)}) ELSE s

\* Without the last line break, if that is where the text ends.
Lines(s) ==
  LET all == Pieces(s, Cuts(s, {"break"}))
  IN  IF Len(s) \in Cuts(s, {"break"}) THEN Front(all) ELSE all
Fields(line) == Pieces(line, Cuts(line, {"delimiter"}))

\* A text is read if each of its cells is one, as the rows and cells it consists of:
\* nothing in quotes ends a cell, and no cell, row or line break is lost or made up.
CsvReads ==
  LET lines == Lines(Units(text)) IN
  /\ reading = "malformed" =>
       \E l \in Range(lines) : \E f \in Range(Fields(l)) : ~IsCell(f)
  /\ reading = "end" =>
       /\ \A l \in Range(lines) : \A f \in Range(Fields(l)) : IsCell(f)
       /\ table = [n \in DOMAIN lines |->
                     [m \in DOMAIN Fields(lines[n]) |-> Content(Fields(lines[n])[m])]]
=============================================================================

------------------------------ MODULE TableOtsl ------------------------------
(***************************************************************************)
(* table_to_html() in src/table.cpp: the tokens of a recognised table are  *)
(* read row by row.  <fcel> and <ecel> begin a cell; <lcel>, <ucel> and    *)
(* <xcel> say that a place belongs to the cell on its left, above it, or   *)
(* both; <nl> ends a row.  What comes out is an HTML table, whose cells    *)
(* have spans and no places.                                               *)
(*                                                                         *)
(* A cell's text goes where the cell goes and is left out, so one token    *)
(* "cell" stands for both that begin one.  Rows and columns count from 1.  *)
(*                                                                         *)
(* An operator Buggy... is its neighbour with a plausible mistake, and is  *)
(* not used (see README.md).                                               *)
(***************************************************************************)
EXTENDS Integers, Sequences, FiniteSetsExt, SequencesExt

CONSTANTS MaxRows, MaxColumns      \* bounds of the tables that are read
ASSUME OtslAssumption == MaxRows \in Nat /\ MaxColumns \in Nat

VARIABLES
  otsl,      \* the tokens read, by row, without the <nl>
  grid,      \* the cell each of them belongs to
  cells,     \* where each cell begins and ends
  verdict    \* "reading", then "table", or an exception: "misplaced" or "refused"

otslVars == <<otsl, grid, cells, verdict>>

OtslInit ==
  /\ otsl = << <<>> >> /\ grid = << <<>> >> /\ cells = <<>>
  /\ verdict = "reading"

Row == Len(grid)
Column == Len(grid[Row]) + 1
LeftOwner == grid[Row][Column - 1]
UpperOwner == grid[Row - 1][Column]
HasLeft == Column > 1
HasUpper == Row > 1 /\ Column <= Len(grid[Row - 1])

\* What a token needs to continue a cell, and the cell it continues.
Continues(t) ==
  CASE t = "lcel" -> HasLeft /\ cells[LeftOwner].row = Row
    [] t = "ucel" -> HasUpper /\ cells[UpperOwner].column = Column
    [] t = "xcel" -> HasLeft /\ HasUpper /\ LeftOwner = UpperOwner
Owner(t) == IF t = "lcel" THEN LeftOwner ELSE UpperOwner

Place(t, owner) ==
  /\ otsl' = [otsl EXCEPT ![Row] = Append(@, t)]
  /\ grid' = [grid EXCEPT ![Row] = Append(@, owner)]

HasRoom == Row <= MaxRows /\ Column <= MaxColumns

Begin ==
  /\ verdict = "reading" /\ HasRoom
  /\ Place("cell", Len(cells) + 1)
  /\ cells' = Append(cells, [row |-> Row, column |-> Column, bottom |-> Row, right |-> Column])
  /\ UNCHANGED verdict

Continue(t) ==
  /\ verdict = "reading" /\ HasRoom
  /\ Continues(t)
  /\ Place(t, Owner(t))
  /\ cells' = [cells EXCEPT ![Owner(t)].bottom = Max({@, Row}),
                            ![Owner(t)].right = Max({@, Column})]
  /\ UNCHANGED verdict

\* The token has nothing to continue.
Misplaced(t) ==
  /\ verdict = "reading" /\ HasRoom
  /\ ~Continues(t)
  /\ otsl' = [otsl EXCEPT ![Row] = Append(@, t)]
  /\ verdict' = "misplaced"
  /\ UNCHANGED <<grid, cells>>

NewLine ==
  /\ verdict = "reading" /\ Row <= MaxRows
  /\ IF grid[Row] = <<>>
     THEN /\ verdict' = "refused" /\ UNCHANGED <<otsl, grid>>
     ELSE /\ otsl' = Append(otsl, <<>>) /\ grid' = Append(grid, <<>>)
          /\ UNCHANGED verdict
  /\ UNCHANGED cells

\* The last row may end with or without <nl>.
Rows(g) == IF Last(g) = <<>> THEN Front(g) ELSE g

Ragged(g) == \E r \in DOMAIN g : Len(g[r]) # Len(g[1])

Area(c) == (c.row .. c.bottom) \X (c.column .. c.right)

\* Every place between a cell's first and last belongs to it.
BuggyRectangular(g) == TRUE
Rectangular(g) == \A k \in DOMAIN cells : \A p \in Area(cells[k]) : g[p[1]][p[2]] = k

\* The text ends.  It is a table only if a cell began: see the first line.
End ==
  /\ verdict = "reading" /\ cells # <<>>
  /\ verdict' = IF ~Ragged(Rows(grid)) /\ Rectangular(Rows(grid)) THEN "table" ELSE "refused"
  /\ otsl' = Rows(otsl) /\ grid' = Rows(grid)
  /\ UNCHANGED cells

OtslNext ==
  \/ Begin \/ NewLine \/ End
  \/ \E t \in {"lcel", "ucel", "xcel"} : Continue(t) \/ Misplaced(t)

\* The HTML: in reading order each cell where it begins, with the row (<tr>) that
\* it is in and its spans.
ReadsBefore(p, q) == p[1] < q[1] \/ (p[1] = q[1] /\ p[2] < q[2])
Html ==
  LET cellAt(p) == cells[grid[p[1]][p[2]]]
      starts == {p \in UNION {{r} \X DOMAIN grid[r] : r \in DOMAIN grid} :
                   cellAt(p).row = p[1] /\ cellAt(p).column = p[2]}
      td(p) == [row |-> p[1], rowspan |-> cellAt(p).bottom - p[1] + 1,
                              colspan |-> cellAt(p).right - p[2] + 1]
  IN  [n \in 1 .. Cardinality(starts) |->
         td(CHOOSE p \in starts : Cardinality({q \in starts : ReadsBefore(q, p)}) = n - 1)]

-----------------------------------------------------------------------------
(* What the table means.                                                   *)

\* A browser puts each cell of a row at the first free place; a cell is known
\* by its number in the text.
Browser(html) ==
  LET taken[n \in 0 .. Len(html)] ==
        IF n = 0 THEN {}
        ELSE LET td == html[n]
                 before == taken[n - 1]
                 c == Min({d \in 1 .. MaxColumns + 1 : \A k \in 1 .. n - 1 : <<td.row, d, k>> \notin before})
             IN  before \cup ((td.row .. td.row + td.rowspan - 1) \X (c .. c + td.colspan - 1) \X {n})
  IN  taken[Len(html)]

\* Tokens that cut a table into rectangles, each of which begins with a cell,
\* goes on with <lcel> in its first row and with <ucel> in its first column.
SpanRight(t, p) ==
  CHOOSE n \in 1 .. Len(t[1]) - p[2] + 1 :
    /\ \A c \in 1 .. n - 1 : t[p[1]][p[2] + c] = "lcel"
    /\ p[2] + n <= Len(t[1]) => t[p[1]][p[2] + n] # "lcel"
SpanDown(t, p) ==
  CHOOSE n \in 1 .. Len(t) - p[1] + 1 :
    /\ \A r \in 1 .. n - 1 : t[p[1] + r][p[2]] = "ucel"
    /\ p[1] + n <= Len(t) => t[p[1] + n][p[2]] # "ucel"
RectangleAt(t, p) == (p[1] .. p[1] + SpanDown(t, p) - 1) \X (p[2] .. p[2] + SpanRight(t, p) - 1)

IsTiling(t) ==
  LET places == (DOMAIN t) \X (DOMAIN t[1])
      first == {p \in places : t[p[1]][p[2]] = "cell"}
  IN  \A q \in places :
        \E p \in first :
          /\ q \in RectangleAt(t, p)
          /\ \A o \in first \ {p} : q \notin RectangleAt(t, o)
          /\ t[q[1]][q[2]] = CASE q = p -> "cell"
                               [] q # p /\ q[1] = p[1] -> "lcel"
                               [] q # p /\ q[2] = p[2] -> "ucel"
                               [] OTHER -> "xcel"

Tilings ==
  UNION {{t \in [1 .. h -> [1 .. w -> {"cell", "lcel", "ucel", "xcel"}]] : IsTiling(t)} :
           h \in 1 .. MaxRows, w \in 1 .. MaxColumns}

BeginsLike(t) ==
  /\ Len(t) >= Len(otsl)
  /\ \A r \in 1 .. Len(otsl) : IsPrefix(otsl[r], t[r])
  /\ \A r \in 1 .. Len(otsl) - 1 : Len(otsl[r]) = Len(t[r])

\* An accepted table appears in the browser as the tokens say, every place filled
\* once; a token is refused only if no table begins like this, and a text only if
\* it is not a table.
TableReads ==
  /\ verdict = "table" =>
       Browser(Html) = {<<r, c, grid[r][c]>> : r \in DOMAIN grid, c \in DOMAIN grid[1]}
  /\ verdict = "misplaced" => \A t \in Tilings : ~BeginsLike(t)
  /\ verdict \in {"table", "refused"} => (verdict = "table" <=> otsl \in Tilings)
=============================================================================

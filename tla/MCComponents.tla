---------------------------- MODULE MCComponents ----------------------------
(***************************************************************************)
(* The components that share no state with the others, side by side: a     *)
(* behaviour is one of one of them, which `part' says.                     *)
(***************************************************************************)
EXTENDS TableOtsl, TablePages, PageBoxes, VisualWave, AclStream, DocumentReader,
        PluginHost, CsvRows, InputSize, LayoutFrames, BudgetController

CONSTANT Parts

VARIABLE part

\* The input of a part is of interest only where the part runs.
Given(name, input, inputs) == part = name \/ input = CHOOSE i \in inputs : TRUE

Init ==
  /\ part \in Parts
  /\ OtslInit /\ TableInit /\ BoxInit /\ WaveInit /\ AclInit
  /\ ReaderInit /\ Given("DocumentReader", document, Documents)
  /\ PluginInit /\ Given("PluginHost", plugin, [Libraries -> Plugins])
  /\ CsvInit /\ SizeInit
  /\ LayoutInit /\ Given("LayoutFrames", layout, ValidSettings)
  /\ ControllerInit /\ Given("BudgetController", <<curve, tokenBudget>>, Curves \X Budget)

\* The parts that do not run stay as they are.
Others ==
  /\ UNCHANGED part
  /\ IF part = "TableOtsl" THEN TRUE ELSE UNCHANGED otslVars
  /\ IF part = "TablePages" THEN TRUE ELSE UNCHANGED tableVars
  /\ IF part = "PageBoxes" THEN TRUE ELSE UNCHANGED boxVars
  /\ IF part = "VisualWave" THEN TRUE ELSE UNCHANGED waveVars
  /\ IF part = "AclStream" THEN TRUE ELSE UNCHANGED aclVars
  /\ IF part = "DocumentReader" THEN TRUE ELSE UNCHANGED readerVars
  /\ IF part = "PluginHost" THEN TRUE ELSE UNCHANGED pluginVars
  /\ IF part = "CsvRows" THEN TRUE ELSE UNCHANGED csvVars
  /\ IF part = "InputSize" THEN TRUE ELSE UNCHANGED sizeVars
  /\ IF part = "LayoutFrames" THEN TRUE ELSE UNCHANGED layoutVars
  /\ IF part = "BudgetController" THEN TRUE ELSE UNCHANGED controllerVars

Next ==
  \/ part = "TableOtsl" /\ OtslNext /\ Others
  \/ part = "TablePages" /\ TableNext /\ Others
  \/ part = "PageBoxes" /\ BoxNext /\ Others
  \/ part = "VisualWave" /\ WaveNext /\ Others
  \/ part = "AclStream" /\ AclNext /\ Others
  \/ part = "DocumentReader" /\ ReaderNext /\ Others
  \/ part = "PluginHost" /\ PluginNext /\ Others
  \/ part = "CsvRows" /\ CsvNext /\ Others
  \/ part = "InputSize" /\ SizeNext /\ Others
  \/ part = "LayoutFrames" /\ LayoutNext /\ Others
  \/ part = "BudgetController" /\ ControllerNext /\ Others

vars ==
  <<part, otslVars, tableVars, boxVars, waveVars, aclVars, readerVars,
    pluginVars, csvVars, sizeVars, layoutVars, controllerVars>>

Spec == Init /\ [][Next]_vars

-----------------------------------------------------------------------------
(* Pages for TablePages: a part of a table, alone or beside something else. *)

Header2 == [text |-> "header", columns |-> 2]
Row2 == [text |-> "row", columns |-> 2]
Row3 == [text |-> "row", columns |-> 3]
TablePart ==
  [type |-> "table", content |-> <<Header2, Row2>>, plain |-> TRUE, ordered |-> TRUE,
   asset |-> FALSE, error |-> FALSE, at |-> {"top", "bottom"}, x |-> 1]
Text == [TablePart EXCEPT !.type = "text", !.content = <<Row2>>]
Regions ==
  {TablePart, Text,
   [TablePart EXCEPT !.content = <<Header2>>],            \* the header and nothing more
   [TablePart EXCEPT !.content = <<Row2, Row3>>],         \* not as wide in every row
   [TablePart EXCEPT !.at = {"top"}],                     \* ends before the page does
   [TablePart EXCEPT !.x = 2],                            \* in another column
   [Text EXCEPT !.ordered = FALSE],                       \* not part of the text
   [Text EXCEPT !.content = <<>>, !.error = TRUE],        \* not recognised
   [Text EXCEPT !.content = <<>>, !.asset = TRUE]}        \* a picture
MCLayouts ==
  {<<>>} \cup {<<r>> : r \in Regions}
  \cup {<<TablePart, r>> : r \in Regions} \cup {<<r, TablePart>> : r \in Regions}

\* Boxes for PageBoxes: three that lie in each other, and one beside them.
MCExtents == {<<0, 20>>, <<1, 17>>, <<2, 9>>, <<8, 22>>}
MCKinds == {<<"chart", 8>>, <<"chart", 6>>, <<"formula", 8>>, <<"text", 8>>, <<"header", 8>>}
MCRedetections == {<<>>, << [left |-> 19, right |-> 26, type |-> "text", score |-> 8] >>}

MCCaptures == {{}, {1, 2}, {2, 3}}

\* Limits for InputSize: wide and narrow ones, one pair below every image, areas that
\* leave nearly nothing, and only primes, which no multiple of a factor is.
MCLimits == {<<1, 8>>, <<3, 8>>, <<1, 4>>, <<4, 7>>}
MCAreas == {<<0, 100>>, <<8, 10>>, <<13, 20>>, <<7, 7>>, <<11, 11>>}

\* Sizes for LayoutFrames: one axis grows and the other shrinks, by different factors.
MCPageSize == <<10, 20>>
MCInputSizes == {<<5, 40>>, <<20, 10>>}
MCRectangles == {<<2, 4, 14, 80>>, <<6, 0, 40, 14>>}

\* Curves for BudgetController: work that saturates at a budget, and work that falls off
\* beyond it.
Saturates(k) == [b \in 4 .. 32 |-> 2 * (IF b < k THEN b ELSE k)]
Thrashes(k) == [b \in 4 .. 32 |-> IF b < k THEN 2 * b ELSE 3 * k - b]
MCCurves == {Saturates(k) : k \in {6, 15, 40}} \cup {Thrashes(k) : k \in {12, 20}}
=============================================================================

------------------------------ MODULE MCBoxPage ------------------------------
(* Small instances of BoxPage for TLC.                                     *)
EXTENDS BoxPage, TLC

CONSTANT p1
UnitSize == [c \in Crop |-> 1]
\* The last of three boxes is too large for the recognition pool.
LargeLast == [c \in Crop |-> IF c[2] = 3 THEN 3 ELSE 1]

\* The BOX pool may refuse tasks of a page that records its errors and
\* recognises its crops itself; or crops go to the recognition pool; or to it from
\* the threads that the page itself starts, of which one may not start.
Mode(r, f, a, t) == [record |-> r, refuse |-> f, async |-> a, threads |-> t]
Plain == {Mode(FALSE, FALSE, FALSE, FALSE)}
Three == {Mode(TRUE, TRUE, FALSE, FALSE), Mode(FALSE, FALSE, TRUE, FALSE), Mode(FALSE, TRUE, TRUE, TRUE)}
=============================================================================

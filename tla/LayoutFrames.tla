----------------------------- MODULE LayoutFrames -----------------------------
(***************************************************************************)
(* Where the boxes of a page are: process_page()'s detect (src/            *)
(* pipeline.cpp) shows the page, possibly resized, to the layout model;    *)
(* parse_legacy_layout() (src/layout.cpp) and parse_doclayout_v3() (src/   *)
(* doclayout_v3.cpp) read what it answers, in the coordinates the layout   *)
(* is configured for, and Image::crop() (src/image.cpp) cuts the boxes out.*)
(*                                                                         *)
(* Lengths are in quarters of a pixel; a size is in pixels.  The lengths   *)
(* and sizes given to the model let every scaling come out even.  A        *)
(* polygon is known by its extents.                                        *)
(*                                                                         *)
(* An operator Buggy... is its neighbour with a plausible mistake, and is  *)
(* not used (see README.md).                                               *)
(***************************************************************************)
EXTENDS Integers, FiniteSetsExt, SequencesExt

CONSTANTS
  PageSize,                \* width and height of the page
  InputSizes,              \* sizes it may be resized to
  Rectangles,              \* extents of regions on the page
  MaxRegions,              \* bound of the regions on a page
  Margin                   \* what an explicit transform takes off

VARIABLES
  layout,                  \* its configuration
  shown,                   \* size of the image the model is given
  present,                 \* what is on the page, in the order the model finds it
  found,                   \* what detect returns
  detecting                \* "page", "model", then "done"

layoutVars == <<layout, shown, present, found, detecting>>

NoSize == <<0, 0>>
Settings == [mineru : BOOLEAN, v3 : BOOLEAN, coordinates : {"pixel", "normalized", "model_input"},
            imageSize : InputSizes \cup {NoSize}, resized : BOOLEAN, transform : BOOLEAN]

\* What validation lets through (src/config.cpp).
Valid(l) ==
  /\ l.coordinates = "model_input" => l.v3
  /\ l.imageSize # NoSize => l.mineru \/ (l.v3 /\ l.coordinates = "model_input")
  /\ l.transform => ~l.resized /\ l.v3 /\ l.coordinates = "model_input" /\ l.imageSize # NoSize

ValidSettings == {l \in Settings : Valid(l)}

LayoutInit ==
  /\ layout \in ValidSettings
  /\ shown = NoSize /\ present = <<>> /\ found = <<>> /\ detecting = "page"

\* image_size first, then the model's input_resize.
ShowPage ==
  /\ detecting = "page" /\ detecting' = "model"
  /\ LET first == IF layout.imageSize = NoSize THEN PageSize ELSE layout.imageSize IN
       shown' \in IF layout.resized THEN InputSizes \cup {first} ELSE {first}
  /\ UNCHANGED <<layout, present, found>>

-----------------------------------------------------------------------------
(* A box is <<left, top, right, bottom>>: horizontal and vertical by turns. *)

Axis(k) == IF k % 2 = 1 THEN 1 ELSE 2

\* A region lies on the page, where all the numbers that can stand for its edges are
\* integers.
ASSUME LayoutAssumption ==
  /\ PageSize \in (Nat \ {0}) \X (Nat \ {0}) /\ InputSizes \subseteq (Nat \ {0}) \X (Nat \ {0})
  /\ MaxRegions \in Nat /\ Margin \in Int
  /\ \A b \in Rectangles :
       /\ b \in [1 .. 4 -> Nat]
       /\ \A k \in 1 .. 4 : LET page == PageSize[Axis(k)] IN
            /\ b[k] <= 4 * page /\ (b[k] * 1000) % (4 * page) = 0 /\ (b[k] * 80) % (4 * page) = 0
            /\ \A size \in InputSizes : (b[k] * size[Axis(k)]) % page = 0

Each(b, F(_, _)) == [k \in 1 .. 4 |-> F(b[k], Axis(k))]
Within(n, low, high) == IF n < low THEN low ELSE IF n > high THEN high ELSE n

\* The numbers the model gives for a place of the page: thousandths of its edges, or
\* fractions, of which the model has eightieths, or pixels.
Thousandths == layout.mineru /\ ~layout.v3
Normalized == Thousandths \/ layout.coordinates = "normalized"
Whole == IF Thousandths THEN 1000 ELSE 80
Model(b) ==
  Each(b, LAMBDA n, a :
    IF Normalized THEN (n * Whole) \div (4 * PageSize[a])
    ELSE (n * shown[a]) \div PageSize[a] + (IF layout.transform THEN Margin ELSE 0))

\* The size that parse_layout() is given, and what it makes of such a number.
BuggyModelSize == IF layout.imageSize # NoSize THEN layout.imageSize ELSE shown
ModelSize == shown
InPixels == layout.coordinates = "pixel" /\ shown # PageSize
GivenSize == IF InPixels THEN shown ELSE PageSize
Placed(n, a) ==
  CASE Normalized -> (n * (4 * GivenSize[a])) \div Whole
    [] ~Normalized /\ layout.coordinates = "pixel" -> n
    [] layout.coordinates = "model_input" ->
         IF layout.transform THEN ((n - Margin) * PageSize[a]) \div layout.imageSize[a]
         ELSE (n * PageSize[a]) \div ModelSize[a]
Parsed(b) == Each(b, LAMBDA n, a : Within(Placed(n, a), 0, 4 * GivenSize[a]))

\* Boxes in pixels of a resized image are brought back to the page.
ToPage(b) == IF InPixels THEN Each(b, LAMBDA n, a : (n * PageSize[a]) \div shown[a]) ELSE b

\* The box of a region: its rectangle, or that of its polygon; and the rectangle to cut
\* out, if it is another, as wide as both.
Union(b, p) == <<Min({b[1], p[1]}), Min({b[2], p[2]}), Max({b[3], p[3]}), Max({b[4], p[4]})>>
Box(k, r) ==
  LET bbox == Parsed(Model(r.bbox))
      crop == IF layout.v3 THEN Union(bbox, Parsed(Model(r.polygon))) ELSE bbox
  IN  [bbox |-> ToPage(bbox), crop |-> ToPage(crop), index |-> k,
       order |-> IF Thousandths THEN k ELSE r.order]

\* Those with a place in the reading order come first.
Before(b, d) ==
  IF (b.order = 0) # (d.order = 0) THEN d.order = 0
  ELSE IF b.order # d.order THEN b.order < d.order ELSE b.index < d.index

InReadingOrder(bs) ==
  [k \in 1 .. Cardinality(bs) |->
     CHOOSE b \in bs : Cardinality({d \in bs : Before(d, b)}) = k - 1]

\* The model answers; below the threshold a region is not a box.
DetectBoxes ==
  /\ detecting = "model" /\ detecting' = "done"
  /\ \E n \in 0 .. MaxRegions :
       \E rs \in [1 .. n -> [bbox : Rectangles, polygon : Rectangles, order : 0 .. 2, kept : BOOLEAN]] :
         /\ present' = rs
         /\ found' = InReadingOrder({Box(k, rs[k]) : k \in {j \in 1 .. n : rs[j].kept}})
  /\ UNCHANGED <<layout, shown>>

LayoutNext == ShowPage \/ DetectBoxes

\* The pixels from the first to the last that crop() takes on either axis.
Crop(b) ==
  [a \in 1 .. 2 |->
     LET first == Within(b[a] \div 4, 0, PageSize[a])
         end == Within(-((-b[a + 2]) \div 4), 0, PageSize[a])
     IN  first .. end - 1]

-----------------------------------------------------------------------------

\* In whatever coordinates a valid configuration has the model answer, and however the
\* page was resized for it: the boxes are the regions above the threshold, each where
\* the region is, in reading order, and what is cut out is what they lie on.
BoxesInPlace ==
  detecting = "done" =>
    /\ {b.index : b \in Range(found)} = {k \in DOMAIN present : present[k].kept}
    /\ \A j, k \in DOMAIN found : j < k =>
         LET b == found[j]
             d == found[k]
         IN  ~Thousandths /\ b.order # d.order => d.order = 0 \/ (b.order # 0 /\ b.order < d.order)
    /\ \A b \in Range(found) :
         LET r == present[b.index]
             shape == IF layout.v3 THEN Union(r.bbox, r.polygon) ELSE r.bbox
         IN  /\ b.bbox = r.bbox /\ b.crop = shape
             /\ \A a \in 1 .. 2 :
                  Crop(b.crop)[a] = {p \in 0 .. PageSize[a] - 1 : shape[a] < 4 * (p + 1) /\ 4 * p < shape[a + 2]}
=============================================================================

------------------------------ MODULE PageBoxes ------------------------------
(***************************************************************************)
(* Which boxes of a page end up in its result: postprocess_boxes() before  *)
(* they are recognised and finalize_composite_page() afterwards            *)
(* (src/postprocess.cpp).  A chart or table around other boxes, a          *)
(* composite, is kept instead of its contents or gives way to them; what   *)
(* was hidden beside a composite is detected again; of two boxes on the    *)
(* same place one is dropped.                                              *)
(*                                                                         *)
(* Boxes are as high as the page, so their left and right edges decide     *)
(* what overlaps; scores are in tenths.  A text is the set of words it     *)
(* contains, of which "a" alone has min_inner_text_chars.  Boxes have no   *)
(* reading order of their own: they stay in the order they were found in.  *)
(*                                                                         *)
(* An operator Buggy... is its neighbour with a plausible mistake, and is  *)
(* not used (see README.md).                                               *)
(***************************************************************************)
EXTENDS Integers, FiniteSetsExt, SequencesExt

CONSTANTS
  MaxBoxes,
  Extents, Kinds,          \* edges, and types with scores, that a box can have
  Redetections             \* what the second detection can find

VARIABLES
  stage,                   \* "detected", "postprocessed", "recognised", "finalized"
  settings,                \* inspect_inner_text, overlap, expand_if_uncovered_text
  boxes,                   \* the boxes the layout model found
  ancestors,               \* their forest: of each the boxes around it
  recovered,               \* those it found beside the composites
  chosen,                  \* the boxes to recognise: source_index, provisional_children
  readings,                \* what was recognised in them
  regions                  \* source_index of the regions of the result

BoxRecord == [left : Int, right : Int, type : STRING, score : Int]

ASSUME BoxesAssumption ==
  /\ MaxBoxes \in Nat
  /\ Extents \subseteq Int \X Int /\ \A e \in Extents : e[1] < e[2]
  /\ Kinds \subseteq STRING \X Int
  /\ \A found \in Redetections :
       found \in Seq(BoxRecord) /\ \A k \in DOMAIN found : found[k].left < found[k].right

boxVars == <<stage, settings, boxes, ancestors, recovered, chosen, readings, regions>>

BoxInit ==
  /\ stage = "detected"
  /\ settings = [inspect |-> FALSE, overlap |-> FALSE, uncovered |-> FALSE]
  /\ boxes = <<>> /\ ancestors = <<>> /\ recovered = <<>> /\ chosen = <<>> /\ readings = <<>> /\ regions = {}

-----------------------------------------------------------------------------
(* Geometry.                                                               *)

Width(b) == b.right - b.left
Common(a, b) == Max({0, Min({a.right, b.right}) - Max({a.left, b.left})})
Encloses(outer, inner) ==
  /\ 100 * Width(outer) > 105 * Width(inner)
  /\ 10 * Common(outer, inner) >= 9 * Width(inner)
SamePlace(a, b) == 2 * Common(a, b) >= Width(a) + Width(b) - Common(a, b)

Outer == {"chart", "figure", "table"}
Semantic == {"table", "formula", "equation", "title", "heading"}
Header == {"header", "footer", "page_header", "page_footer"}
Priority == <<"footer", "header", "text", "formula", "title", "figure", "chart", "table">>
Rank(b) == CHOOSE k \in DOMAIN Priority : Priority[k] = b.type

\* The elements of a sequence in a set of places.
Subsequence(bs, S) ==
  [k \in 1 .. Cardinality(S) |->
     bs[CHOOSE i \in S : Cardinality({j \in S : j < i}) = k - 1]]

\* low_score and header_footer.
Wanted(b) == b.score >= 3 /\ b.type \notin Header

-----------------------------------------------------------------------------
(* composite: the boxes form a forest, given by the ancestors of each.     *)

\* The parent is the smallest box around a box, 0 if there is none.
Parents(bs) ==
  [i \in DOMAIN bs |->
     LET around == {o \in DOMAIN bs \ {i} : Encloses(bs[o], bs[i])}
         smallest == {o \in around : \A p \in around : Width(bs[o]) <= Width(bs[p])}
     IN  IF around = {} THEN 0 ELSE Min(smallest)]

\* What is come to from a box, going from parent to parent.
Forest(bs) ==
  LET parent == Parents(bs)
      upward(i, S) == \A k \in S \cup {i} : parent[k] \in S \cup {0}
  IN  [i \in DOMAIN bs |-> {a \in DOMAIN bs : \A S \in SUBSET (DOMAIN bs) : upward(i, S) => a \in S}]

Descendants(forest, i) == {d \in DOMAIN forest : i \in forest[d]}

Composites(bs, forest) ==
  {i \in DOMAIN bs : bs[i].type \in Outer /\ Descendants(forest, i) # {}}

\* A sure composite with nothing but text in it is kept, any other gives way.
BuggyRetained(bs, forest) ==
  {i \in Composites(bs, forest) :
     /\ bs[i].score >= 7
     /\ \A d \in DOMAIN bs : bs[d].type \in Semantic => Parents(bs)[d] # i}
Retained(bs, forest) ==
  {i \in Composites(bs, forest) :
     /\ bs[i].score >= 7
     /\ \A d \in Descendants(forest, i) : bs[d].type \notin Semantic}

\* The nearest kept composite around a box has it as a child.
Children(forest, retained, i) ==
  {d \in Descendants(forest, i) : i \in retained /\ forest[d] \cap retained \subseteq forest[i] \cup {i}}

\* Of the boxes found again, those that no composite hides.
Beside(bs, composites, found) ==
  Subsequence(found, {k \in DOMAIN found :
    Wanted(found[k]) /\ \A i \in composites : 10 * Common(found[k], bs[i]) < 2 * Width(found[k])})

\* What composite leaves: with inspect_inner_text a kept composite and its contents,
\* otherwise the composite alone.
Expanded(bs, forest, inspect) ==
  LET retained == Retained(bs, forest)
      dropped == Composites(bs, forest) \ retained
      inside == {d \in DOMAIN bs : forest[d] \cap retained # {}}
      children(i) == IF inspect /\ i \in retained THEN Children(forest, retained, i) ELSE {}
  IN  Subsequence([i \in DOMAIN bs |-> [index |-> i, children |-> children(i)]],
                  DOMAIN bs \ (dropped \cup IF inspect THEN {} ELSE inside))

\* The source_index of a box that was found again comes after those.
Contenders(bs, forest, inspect, found) ==
  Expanded(bs, forest, inspect) \o [k \in DOMAIN found |-> [index |-> Len(bs) + k, children |-> {}]]

-----------------------------------------------------------------------------
(* overlap.                                                                *)

\* A clearly better score, then the type, then any better score, then the order.
Wins(a, b) ==
  CASE a.score >= b.score + 3 -> TRUE
    [] b.score >= a.score + 3 -> FALSE
    [] OTHER -> Rank(a) > Rank(b) \/ (Rank(a) = Rank(b) /\ a.score >= b.score)

Related(a, b) == a.index \in b.children \/ b.index \in a.children

\* Each box is compared with the later ones until it loses.
Duels(page, bs, i, removed) ==
  LET box(k) == page[bs[k].index]
      rivals == {j \in i + 1 .. Len(bs) :
                   j \notin removed /\ SamePlace(box(i), box(j)) /\ ~Related(bs[i], bs[j])}
      better == {j \in rivals : ~Wins(box(i), box(j))}
  IN  IF better = {} THEN rivals ELSE {j \in rivals : j < Min(better)} \cup {i}

Deduplicate(page, bs) ==
  LET removed[k \in 0 .. Len(bs)] ==
        IF k = 0 THEN {}
        ELSE IF k \in removed[k - 1] THEN removed[k - 1]
        ELSE removed[k - 1] \cup Duels(page, bs, k, removed[k - 1])
  IN  Subsequence(bs, DOMAIN bs \ removed[Len(bs)])

-----------------------------------------------------------------------------
(* The page.                                                               *)

\* The layout model finds one more box.
Detect ==
  /\ stage = "detected" /\ Len(boxes) < MaxBoxes
  /\ \E e \in Extents, kind \in Kinds :
       boxes' = Append(boxes, [left |-> e[1], right |-> e[2], type |-> kind[1], score |-> kind[2]])
  /\ UNCHANGED <<stage, settings, ancestors, recovered, chosen, readings, regions>>

\* The source_index of a box is its place here.
All == boxes \o recovered

\* postprocess_boxes()
Postprocess ==
  /\ stage = "detected"
  /\ \E inspect, overlap, uncovered \in BOOLEAN :
       settings' = [inspect |-> inspect, overlap |-> overlap, uncovered |-> inspect /\ uncovered]
  /\ boxes' = Subsequence(boxes, {k \in DOMAIN boxes : Wanted(boxes[k])}) /\ ancestors' = Forest(boxes')
  /\ LET composites == Composites(boxes', ancestors') IN
     \E found \in IF composites = {} THEN {<<>>} ELSE Redetections :
       recovered' = Beside(boxes', composites, found)
  /\ LET bs == Contenders(boxes', ancestors', settings'.inspect, recovered')
     IN  chosen' = IF settings'.overlap THEN Deduplicate(All', bs) ELSE bs
  /\ stage' = "postprocessed"
  /\ UNCHANGED <<readings, regions>>

\* The texts of composites and their contents are all that matters later.
Words == [error : {FALSE}, text : {{}, {"b"}, {"a"}, {"a", "b"}}]
         \cup {[error |-> TRUE, text |-> {}]}
Inside(p) == {k \in DOMAIN chosen : chosen[k].index \in chosen[p].children}
Inspected == UNION {Inside(p) \cup {p} : p \in {k \in DOMAIN chosen : chosen[k].children # {}}}

Recognise ==
  /\ stage = "postprocessed"
  /\ stage' = "recognised"
  /\ readings' \in [Inspected -> Words]
  /\ UNCHANGED <<settings, boxes, ancestors, recovered, chosen, regions>>

-----------------------------------------------------------------------------
(* finalize_composite_page()                                               *)

Long(t) == "a" \in t
Uncovered(outer, inner) ==
  /\ ~readings[inner].error /\ Long(readings[inner].text)
  /\ \/ readings[outer].text = {}
     \/ settings.uncovered /\ ~(readings[inner].text \subseteq readings[outer].text)

\* A composite stays unless a text inside it is missing from its own.
Decide(p, removed) ==
  LET inner == Inside(p) \ removed
  IN  IF \E k \in inner : Uncovered(p, k) THEN removed \cup {p} ELSE removed \cup inner

\* The largest first; one that is removed already decides nothing.
Larger(a, b) ==
  LET width(k) == Width(All[chosen[k].index])
  IN  width(a) > width(b) \/ (width(a) = width(b) /\ a < b)
Suppressed ==
  LET parents == {k \in DOMAIN chosen : chosen[k].children # {}}
      next(n) == CHOOSE p \in parents : Cardinality({q \in parents : Larger(q, p)}) = n - 1
      removed[n \in 0 .. Cardinality(parents)] ==
        IF n = 0 THEN {}
        ELSE IF next(n) \in removed[n - 1] THEN removed[n - 1]
        ELSE Decide(next(n), removed[n - 1])
  IN  removed[Cardinality(parents)]

Finalize ==
  /\ stage = "recognised"
  /\ stage' = "finalized"
  /\ regions' = {chosen[k].index : k \in DOMAIN chosen \ Suppressed}
  /\ UNCHANGED <<settings, boxes, ancestors, recovered, chosen, readings>>

BoxNext == Detect \/ Postprocess \/ Recognise \/ Finalize

-----------------------------------------------------------------------------

Replaces(a, b) ==
  \/ settings.overlap /\ SamePlace(All[a], All[b])
  \/ {a, b} \subseteq DOMAIN boxes /\ (a \in ancestors[b] \/ b \in ancestors[a])

\* Nothing on the page is lost: a box gives way only to one around it, inside it or
\* on its place, and in the end one of those that gave way to one another is in the
\* result.  A formula or a title never gives way to the chart around it.  And a composite
\* is not in the result together with the boxes it was kept instead of.
PageAccountedFor == stage = "finalized" =>
  /\ \A S \in SUBSET (DOMAIN All) :
       (\A a \in DOMAIN All \ S, b \in S : ~Replaces(a, b)) => S = {} \/ S \cap regions # {}
  /\ \A b \in DOMAIN boxes : boxes[b].type \in Semantic \ Outer /\ b \notin regions =>
       settings.overlap /\ \E a \in DOMAIN All \ {b} : SamePlace(All[a], All[b])
  /\ LET retained == Retained(boxes, ancestors)
     IN  \A c \in regions \cap retained : Children(ancestors, retained, c) \cap regions = {}

\* docs/configuration.md: a composite that is kept suppresses all its descendants.
KeptStandsForItsContents == stage = "finalized" =>
  \A c \in regions \cap Retained(boxes, ancestors) :
    Descendants(ancestors, c) \cap regions = {}
=============================================================================

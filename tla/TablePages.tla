----------------------------- MODULE TablePages -----------------------------
(***************************************************************************)
(* postprocess_document() (src/postprocess.cpp): a table at the foot of a  *)
(* page and one at the head of the next become one, page after page, in    *)
(* the region where the table began; the later region stays, emptied, with *)
(* a link to it.                                                           *)
(*                                                                         *)
(* A region's content is the sequence of a table's rows, or one token for  *)
(* a text.  `plain': the table is one that table_html() and simple()       *)
(* understand; `at': the edges of the page it comes close to.              *)
(*                                                                         *)
(* An operator Buggy... is its neighbour with a plausible mistake, and is  *)
(* not used (see README.md).                                               *)
(***************************************************************************)
EXTENDS Integers, FiniteSetsExt, SequencesExt

CONSTANTS
  MaxPages,
  Layouts                  \* the pages a document can have, as sequences of regions

ASSUME TablesAssumption ==
  /\ MaxPages \in Nat
  /\ Layouts \subseteq
       Seq([type : STRING, plain : BOOLEAN, ordered : BOOLEAN, asset : BOOLEAN, error : BOOLEAN,
            at : SUBSET STRING, x : Int, content : Seq([text : STRING, columns : Nat])])

VARIABLES
  original,                \* the document's pages as they were recognised
  pages,                   \* as they are now
  requireHeader,           \* require_header_match
  current                  \* the page whose head is looked at next, 0 while pages come

tableVars == <<original, pages, requireHeader, current>>

TableInit == original = <<>> /\ pages = <<>> /\ requireHeader = FALSE /\ current = 0

NoLink == [page |-> 0, region |-> 0]

\* Headers are alike everywhere, other rows are not.
Own(row, place) == IF row.text = "header" THEN [row EXCEPT !.text = <<>>] ELSE [row EXCEPT !.text = place]

Region(r, number, k) ==
  [type |-> r.type, plain |-> r.plain, ordered |-> r.ordered, asset |-> r.asset, error |-> r.error,
   at |-> r.at, x |-> r.x, link |-> NoLink, mergedPages |-> {},
   content |-> [m \in DOMAIN r.content |-> Own(r.content[m], <<number, k, m>>)]]

\* A page is recognised; the one before it may be missing.
Recognised ==
  /\ current = 0 /\ Len(original) < MaxPages
  /\ \E layout \in Layouts, gap \in {1, 2} :
       LET number == IF original = <<>> THEN 1 ELSE Last(original).number + gap
       IN  original' = Append(original,
             [number |-> number, regions |-> [k \in DOMAIN layout |-> Region(layout[k], number, k)]])
  /\ pages' = original'
  /\ UNCHANGED <<requireHeader, current>>

Start ==
  /\ current = 0 /\ pages # <<>>
  /\ current' = 2
  /\ requireHeader' \in BOOLEAN
  /\ UNCHANGED <<original, pages>>

-----------------------------------------------------------------------------

\* edge_region(): the last or first region of a page in reading order that shows
\* something, or that did before it was merged.
BuggyShows(r) == r.ordered /\ r.content # <<>>
Shows(r) == r.ordered /\ (r.content # <<>> \/ r.asset)

Merged(r) == r.link # NoLink

Foot(p) ==
  Max({0} \cup {k \in DOMAIN p.regions :
                 \/ Shows(p.regions[k])
                 \/ p.regions[k].ordered /\ Merged(p.regions[k])})
Top(p) == Min({k \in DOMAIN p.regions : Shows(p.regions[k])} \cup {Len(p.regions) + 1})

IsTable(r) == r.type = "table" /\ ~r.error /\ ~r.asset

\* The two regions lie on either side of the page break, one below the other.
Adjacent(a, b) ==
  /\ IsTable(a) /\ IsTable(b)
  /\ "bottom" \in a.at /\ "top" \in b.at /\ a.x = b.x

\* Where the table began: the region itself, or the one it was merged into.
Root(i, a) ==
  LET link == pages[i].regions[a].link
  IN  IF ~Merged(pages[i].regions[a]) THEN [page |-> i, region |-> a]
      ELSE [page |-> CHOOSE k \in DOMAIN pages : pages[k].number = link.page, region |-> link.region]

\* Tables of the same number of columns, not none, in every row; a header may be repeated.
Repeated(first, second) == Len(second) > 1 /\ Head(first) = Head(second)
Joins(first, second) ==
  /\ first.plain /\ second.plain /\ Last(first.content).columns # 0
  /\ \A k \in DOMAIN second.content : second.content[k].columns = Last(first.content).columns
  /\ \A k \in DOMAIN first.content : first.content[k].columns = Last(first.content).columns
  /\ requireHeader => Repeated(first.content, second.content)

Merge(i, b, root) ==
  LET first == pages[root.page].regions[root.region]
      second == pages[i].regions[b]
      rest == IF Repeated(first.content, second.content) THEN Tail(second.content) ELSE second.content
      link == [page |-> pages[root.page].number, region |-> root.region]
  IN  pages' = [pages EXCEPT
        ![root.page].regions[root.region] =
          [first EXCEPT !.content = first.content \o rest,
                        !.mergedPages = first.mergedPages \cup {pages[i].number}],
        ![i].regions[b] = [second EXCEPT !.content = <<>>, !.link = link]]

\* The loop of postprocess_document() goes on with page `current'.
NextPage ==
  /\ current \in 2 .. Len(pages)
  /\ LET i == current
         a == Foot(pages[i - 1])
         b == Top(pages[i])
         root == Root(i - 1, a)
     IN  IF /\ pages[i].number = pages[i - 1].number + 1
            /\ a # 0 /\ b <= Len(pages[i].regions)
            /\ Adjacent(pages[i - 1].regions[a], pages[i].regions[b])
            /\ Joins(pages[root.page].regions[root.region], pages[i].regions[b])
         THEN Merge(i, b, root) ELSE UNCHANGED pages
  /\ current' = current + 1
  /\ UNCHANGED <<original, requireHeader>>

TableNext == Recognised \/ Start \/ NextPage

-----------------------------------------------------------------------------

\* What a reader sees, in order: rows, texts and pictures.
Seen(p, r) == IF r.asset THEN << [text |-> <<p.number>>, columns |-> 0] >> ELSE r.content
Shown(p, k) == IF p.regions[k].ordered THEN Seen(p, p.regions[k]) ELSE <<>>
PageText(p) == FlattenSeq([k \in DOMAIN p.regions |-> Shown(p, k)])
Reading(ps) == FlattenSeq([i \in DOMAIN ps |-> PageText(ps[i])])

\* The original, without the headers that merged regions repeat.
HeaderOf(link) == Head(original[CHOOSE k \in DOMAIN pages : pages[k].number = link.page]
                         .regions[link.region].content)
Trimmed(i, k) ==
  LET r == original[i].regions[k]
      link == pages[i].regions[k].link
  IN  IF Merged(pages[i].regions[k]) /\ Len(r.content) > 1 /\ Head(r.content) = HeaderOf(link)
      THEN [r EXCEPT !.content = Tail(@)] ELSE r
Expected ==
  [i \in DOMAIN original |->
     [original[i] EXCEPT !.regions = [k \in DOMAIN original[i].regions |-> Trimmed(i, k)]]]

\* Merging moves rows across pages and nothing else: read in order, the document says
\* what it said before, less repeated headers; and every emptied region leads to the
\* region that holds its rows, however many pages back.
EveryRowOnce == current > Len(pages) =>
  /\ Reading(pages) = Reading(Expected)
  /\ \A i \in DOMAIN pages : \A k \in DOMAIN pages[i].regions :
       LET link == pages[i].regions[k].link IN
       Merged(pages[i].regions[k]) => \E j \in DOMAIN pages :
         /\ pages[j].number = link.page
         /\ pages[i].number \in pages[j].regions[link.region].mergedPages
         /\ ~Merged(pages[j].regions[link.region])
=============================================================================

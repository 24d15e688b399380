------------------------------ MODULE InputSize ------------------------------
(***************************************************************************)
(* Pool::input_size() in src/model_pool.cpp: the size an image is given    *)
(* before its model sees it, under the limits of input_resize and in       *)
(* multiples of a factor.                                                  *)
(*                                                                         *)
(* A size is a pair of a width and a height.  By how much the image is     *)
(* scaled is left open, only whether it grows, shrinks or stays; and so is *)
(* which of the sizes the search looks at comes closest.                   *)
(*                                                                         *)
(* An operator Buggy... is its neighbour with a plausible mistake, and is  *)
(* not used (see README.md).                                               *)
(***************************************************************************)
EXTENDS Integers, FiniteSetsExt, SequencesExt

CONSTANTS
  MaxEdge,                 \* bound of the edges of images
  Limits,                  \* limits of an edge, as pairs
  Areas,                   \* min_pixels and max_pixels, as pairs
  Factors                  \* the multiples a model may ask for

\* What bounded() enforces (src/config.cpp:109-110); a missing min_pixels is zero.
ASSUME SizeAssumption ==
  /\ MaxEdge \in Nat /\ Factors \subseteq Nat \ {0}
  /\ Limits \subseteq (Nat \ {0}) \X (Nat \ {0}) /\ Areas \subseteq Nat \X (Nat \ {0})

VARIABLES
  image,                   \* its size; Open before there is one
  limits,                  \* input_resize of its model
  size                     \* what input_size() returns; Open before, Refused for an exception

sizeVars == <<image, limits, size>>

Open == <<0, 0>>
Refused == <<-1, -1>>

Edge == {1, 2}             \* width and height
Up(n, f) == ((n + f - 1) \div f) * f
Down(n, f) == (n \div f) * f
Clamp(n, low, high) == IF n < low THEN low ELSE IF n > high THEN high ELSE n
PixelArea(s) == s[1] * s[2]

\* What the configuration lets through.
Configured(l) ==
  LET low == [e \in Edge |-> Up(l.edge[e][1], l.factor)]
      high == [e \in Edge |-> Down(l.edge[e][2], l.factor)]
  IN  /\ \A e \in Edge : low[e] <= high[e]
      /\ PixelArea(low) <= l.area[2] /\ PixelArea(high) >= l.area[1]

ConfiguredLimits ==
  {l \in [edge : Limits \X Limits, area : Areas, factor : Factors] : Configured(l)}

SizeInit == image = Open /\ limits = [factor |-> 1] /\ size = Open

\* An image comes to a model that has input_resize.
Arrives ==
  /\ image = Open /\ image' \in (1 .. MaxEdge) \X (1 .. MaxEdge)
  /\ limits' \in ConfiguredLimits
  /\ UNCHANGED size

Factor == limits.factor
Low == [e \in Edge |-> Up(limits.edge[e][1], Factor)]
High == [e \in Edge |-> Down(limits.edge[e][2], Factor)]
Multiples(low, high) == {n \in low .. high : n % Factor = 0}
Grid == Multiples(Low[1], High[1]) \X Multiples(Low[2], High[2])
Fits(s) == s \in Grid /\ limits.area[1] <= PixelArea(s) /\ PixelArea(s) <= limits.area[2]

\* Rounded as std::round does, and an image thinner than the factor is made as thick first.
Round(n, d) == (2 * n + d) \div (2 * d)
Tall == IF image[2] < Factor THEN <<Round(image[1] * Factor, image[2]), Factor>> ELSE image
Source == IF Tall[1] < Factor THEN <<Factor, Round(Tall[2] * Factor, Tall[1])>> ELSE Tall

\* min_scale and max_scale against 1, which scale is as near as they allow.
MustGrow == (\E e \in Edge : Low[e] > Source[e]) \/ limits.area[1] > PixelArea(Source)
MayGrow == (\A e \in Edge : High[e] > Source[e]) /\ limits.area[2] > PixelArea(Source)
MustShrink == (\E e \in Edge : High[e] < Source[e]) \/ limits.area[2] < PixelArea(Source)
MayShrink == (\A e \in Edge : Low[e] < Source[e]) /\ limits.area[1] < PixelArea(Source)

Candidates ==
  LET at(n, e) == Clamp(n, Low[e], High[e]) IN
  CASE MustGrow /\ MayGrow -> {s \in Grid : \A e \in Edge : s[e] >= at(Up(Source[e], Factor), e)}
    [] MustShrink /\ MayShrink -> {s \in Grid : \A e \in Edge : s[e] <= at(Down(Source[e], Factor), e)}
    [] OTHER -> {[e \in Edge |-> at(Round(Source[e], Factor) * Factor, e)]}

\* The heights between which the search looks at three, for a width.
BuggyLowest(w) == Max({Low[2], Down((limits.area[1] + w - 1) \div w, Factor)})
Lowest(w) == Max({Low[2], Up((limits.area[1] + w - 1) \div w, Factor)})
Highest(w) == Min({High[2], Down(limits.area[2] \div w, Factor)})
Found == UNION {{w} \X Multiples(Lowest(w), Highest(w)) : w \in Multiples(Low[1], High[1])}

Resize ==
  /\ image # Open /\ size = Open
  /\ \/ \E s \in Candidates : Fits(s) /\ size' = s
     \/ \E s \in Candidates : ~Fits(s) /\ size' \in IF Found = {} THEN {Refused} ELSE Found
  /\ UNCHANGED <<image, limits>>

SizeNext == Arrives \/ Resize

-----------------------------------------------------------------------------

\* The model gets a size within all its limits; an image that has one keeps it, and one
\* is refused only where there is none, for this image or any other.
InputsFit ==
  /\ size \notin {Open, Refused} => Fits(size)
  /\ size = Refused => \A s \in Grid : ~Fits(s)
  /\ size # Open /\ Fits(image) => size = image
=============================================================================

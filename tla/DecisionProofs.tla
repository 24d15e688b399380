--------------------------- MODULE DecisionProofs ---------------------------
(***************************************************************************)
(* Proofs about the parts that decide.  LayoutFrames: for any size of the  *)
(* page and of the model's input, boxes are where the model saw them.      *)
(* PageBoxes: for any boxes, none that was detected is forgotten.          *)
(* TablePages: for any pages and any tables on them, no row is lost,       *)
(* doubled or read out of order.  VisualWave: for any requests, sizes and  *)
(* budget, those sent together are a wave that ModelPool allows.           *)
(*                                                                         *)
(* Induction over a finite set or over the natural numbers is stated with  *)
(* sets: a set that holds 0 and, with a number, the next one, holds all of *)
(* them.                                                                   *)
(***************************************************************************)
EXTENDS LayoutFrames, PageBoxes, TablePages, VisualWave,
        FiniteSetTheorems, SequenceTheorems, TLAPS

\* The components by themselves.
LayoutSpec == LayoutInit /\ [][LayoutNext]_layoutVars
BoxSpec == BoxInit /\ [][BoxNext]_boxVars
TableSpec == TableInit /\ [][TableNext]_tableVars
WaveSpec == WaveInit /\ [][WaveNext]_waveVars

-----------------------------------------------------------------------------
(* Induction, on sets.                                                     *)

\* A nonempty set of natural numbers has a least element.
LEMMA LeastNatural ==
  ASSUME NEW T \in SUBSET Nat, T # {}
  PROVE \E n \in T : \A m \in T : n <= m
<1>1. IsWellFoundedOn(OpToRel(<, Nat), Nat)
  BY NatLessThanWellFounded
<1>2. PICK n \in T : \A m \in T : ~(<<m, n>> \in OpToRel(<, Nat))
  BY <1>1, WFMin
<1>3. \A m \in T : <<m, n>> \in OpToRel(<, Nat) <=> m < n
  BY DEF OpToRel
<1>4. \A m \in T : ~(m < n)
  BY <1>2, <1>3
<1> QED BY <1>4

\* Induction over the natural numbers, on a set.
LEMMA NatInductive ==
  ASSUME NEW T, 0 \in T, \A n \in Nat : n \in T => n + 1 \in T
  PROVE Nat \subseteq T
<1> SUFFICES ASSUME Nat \ T # {} PROVE FALSE
  OBVIOUS
<1>1. PICK n \in Nat \ T : \A m \in Nat \ T : n <= m
  BY LeastNatural
<1>2. n # 0 /\ n - 1 \in Nat /\ ~(n <= n - 1)
  BY <1>1
<1> QED BY <1>1, <1>2

\* Among subsets of a finite set a property without a smallest exception has none.
LEMMA FiniteInductive ==
  ASSUME NEW S, IsFiniteSet(S), NEW X \in SUBSET SUBSET S, X # {}
  PROVE \E T \in X : \A U \in X : U \subseteq T => U = T
<1>1. FiniteSubsetsOf(S) = SUBSET S
  BY FS_FiniteSubsetsOfFinite
<1>2. IsWellFoundedOn(StrictSubsetOrdering(S), SUBSET S)
  BY <1>1, FS_StrictSubsetOrderingWellFounded
<1>3. PICK T \in X : \A U \in X : ~(<<U, T>> \in StrictSubsetOrdering(S))
  BY <1>2, WFMin
<1> QED BY <1>3 DEF StrictSubsetOrdering

\* A function that is defined by recursion over an interval exists.
Recurs(f, N, Y, base, step) ==
  f \in [0 .. N -> Y] /\ f[0] = base /\ \A k \in 1 .. N : f[k] = step[<<k, f[k - 1]>>]

\* There is a function for every recursion over an interval.
LEMMA RecursionExists ==
  ASSUME NEW N \in Nat, NEW Y, NEW base \in Y, NEW step \in [(1 .. N) \X Y -> Y]
  PROVE  \E f : Recurs(f, N, Y, base, step)
<1> DEFINE Upto(n, f) == f \in [0 .. n -> Y] /\ f[0] = base /\ \A k \in 1 .. n : f[k] = step[<<k, f[k - 1]>>]
           T == {n \in Nat : n <= N => \E f : Upto(n, f)}
<1>1. 0 \in T
  <2>1. Upto(0, [k \in 0 .. 0 |-> base])
    OBVIOUS
  <2> QED BY <2>1
<1>2. \A n \in Nat : n \in T => n + 1 \in T
  <2> SUFFICES ASSUME NEW n \in T, n + 1 <= N PROVE \E f : Upto(n + 1, f)
    OBVIOUS
  <2>1. PICK f : Upto(n, f)
    OBVIOUS
  <2> DEFINE g == [k \in 0 .. n + 1 |-> IF k = n + 1 THEN step[<<n + 1, f[n]>>] ELSE f[k]]
  <2>2. n \in Nat /\ f[n] \in Y /\ n + 1 \in 1 .. N
    BY <2>1
  <2>3. step[<<n + 1, f[n]>>] \in Y
    BY <2>2
  <2>4. g \in [0 .. n + 1 -> Y] /\ g[0] = base
    BY <2>1, <2>2, <2>3
  <2>5. \A k \in 1 .. n + 1 : g[k] = step[<<k, g[k - 1]>>]
    <3> TAKE k \in 1 .. n + 1
    <3>1. CASE k = n + 1
      <4>1. k - 1 = n /\ n \in 0 .. n + 1 /\ n # n + 1
        BY <3>1, <2>2
      <4>2. g[n] = f[n] /\ g[n + 1] = step[<<n + 1, f[n]>>]
        BY <4>1, <2>2
      <4> HIDE DEF g
      <4> QED BY <4>1, <4>2, <3>1
    <3>2. CASE k # n + 1
      <4>1. k \in 1 .. n /\ k - 1 \in 0 .. n /\ k - 1 # n + 1 /\ k \in 0 .. n + 1 /\ k - 1 \in 0 .. n + 1
        BY <3>2, <2>2
      <4> QED BY <4>1, <3>2, <2>1
    <3> QED BY <3>1, <3>2
  <2>6. Upto(n + 1, g)
    BY <2>4, <2>5
  <2> QED BY <2>6
<1>3. N \in T
  <2> HIDE DEF T
  <2>1. Nat \subseteq T
    BY <1>1, <1>2, NatInductive
  <2> QED BY <2>1
<1>4. PICK f : Upto(N, f)
  BY <1>3
<1>5. Recurs(f, N, Y, base, step)
  BY <1>4 DEF Recurs
<1> QED BY <1>5

\* The least number of a set is in it.
LEMMA MinType ==
  ASSUME NEW T \in SUBSET Nat, T # {}
  PROVE  Min(T) \in T /\ \A m \in T : Min(T) <= m
  BY LeastNatural DEF Min

\* The greatest number of a bounded set is in it.
LEMMA MaxType ==
  ASSUME NEW T \in SUBSET Nat, T # {}, NEW n \in Nat, \A m \in T : m <= n
  PROVE  Max(T) \in T /\ \A m \in T : m <= Max(T)
<1> DEFINE above == {k \in Nat : \A m \in T : m <= k}
<1>1. n \in above
  OBVIOUS
<1>2. PICK k \in above : \A j \in above : k <= j
  BY <1>1, LeastNatural
<1>3. k \in T
  <2> SUFFICES ASSUME k \notin T PROVE FALSE
    OBVIOUS
  <2>1. \A m \in T : m < k
    BY <1>2
  <2>2. k - 1 \in above
    <3>1. PICK m \in T : TRUE
      OBVIOUS
    <3>2. m < k /\ m \in Nat /\ k \in Nat
      BY <2>1, <3>1
    <3>3. k - 1 \in Nat
      BY <3>2
    <3>4. \A j \in T : j <= k - 1
      BY <2>1
    <3> QED BY <3>3, <3>4
  <2> QED BY <1>2, <2>2
<1>4. \A m \in T : m <= k
  BY <1>2
<1> QED BY <1>3, <1>4 DEF Max

-----------------------------------------------------------------------------
(* Sorting by rank.                                                        *)

\* A relation orders a set strictly and totally.
Orders(R, S) ==
  /\ \A a, b \in S : a # b => <<a, b>> \in R \/ <<b, a>> \in R
  /\ \A a, b, c \in S : <<a, b>> \in R /\ <<b, c>> \in R => <<a, c>> \in R
  /\ \A a \in S : <<a, a>> \notin R

\* The number of elements before one is its place among them.
LEMMA CountOrder ==
  ASSUME NEW S, IsFiniteSet(S), NEW R, Orders(R, S)
  PROVE  /\ Cardinality(S) \in Nat
         /\ \E count \in [S -> 0 .. Cardinality(S) - 1] :
              /\ \A b \in S : count[b] = Cardinality({d \in S : <<d, b>> \in R})
              /\ \A a, b \in S : count[a] < count[b] <=> <<a, b>> \in R
              /\ \A k \in 0 .. Cardinality(S) - 1 : \E b \in S : count[b] = k
<1> DEFINE below(b) == {d \in S : <<d, b>> \in R}
           n == Cardinality(S)
           count == [b \in S |-> Cardinality(below(b))]
<1>1. n \in Nat
  BY FS_CardinalityType
<1>2. \A b \in S : IsFiniteSet(below(b)) /\ Cardinality(below(b)) \in Nat /\ Cardinality(below(b)) < n
  <2> TAKE b \in S
  <2>1. below(b) \in SUBSET S /\ below(b) # S
    BY DEF Orders
  <2>2. IsFiniteSet(below(b)) /\ Cardinality(below(b)) <= n /\ Cardinality(below(b)) # n
    BY <2>1, FS_Subset
  <2>3. Cardinality(below(b)) \in Nat
    BY <2>2, FS_CardinalityType
  <2> QED BY <2>2, <2>3, <1>1
<1>3. \A a, b \in S : <<a, b>> \in R => Cardinality(below(a)) < Cardinality(below(b))
  <2> SUFFICES ASSUME NEW a \in S, NEW b \in S, <<a, b>> \in R
               PROVE  Cardinality(below(a)) < Cardinality(below(b))
    OBVIOUS
  <2>1. below(a) \in SUBSET below(b) /\ below(a) # below(b)
    BY DEF Orders
  <2>2. Cardinality(below(a)) <= Cardinality(below(b)) /\ Cardinality(below(a)) # Cardinality(below(b))
    BY <2>1, <1>2, FS_Subset
  <2>3. Cardinality(below(a)) \in Nat /\ Cardinality(below(b)) \in Nat
    BY <1>2
  <2> HIDE DEF below
  <2> QED BY <2>2, <2>3
<1> HIDE DEF below
<1>4. \A b \in S : count[b] = Cardinality(below(b))
  OBVIOUS
<1>20. count = [b \in S |-> count[b]]
  OBVIOUS
<1> HIDE DEF count
<1>5. \A b \in S : count[b] \in 0 .. n - 1
  BY <1>1, <1>2, <1>4
<1>6. count \in [S -> 0 .. n - 1]
  BY <1>5, <1>20
<1>7. \A a, b \in S : <<a, b>> \in R => count[a] < count[b]
  BY <1>3, <1>4
<1>8. \A a, b \in S : <<a, b>> \in R <=> count[a] < count[b]
  <2> TAKE a, b \in S
  <2>1. count[a] \in Int /\ count[b] \in Int
    BY <1>5
  <2>2. <<a, b>> \in R => count[a] < count[b]
    BY <1>7
  <2>3. a # b /\ <<a, b>> \notin R => count[b] < count[a]
    BY <1>7 DEF Orders
  <2> QED BY <2>1, <2>2, <2>3
<1>9. \A a, b \in S : count[a] = count[b] => a = b
  <2> TAKE a, b \in S
  <2>1. count[a] \in Int /\ count[b] \in Int
    BY <1>5
  <2>2. a # b => count[a] < count[b] \/ count[b] < count[a]
    BY <1>7 DEF Orders
  <2> QED BY <2>1, <2>2
<1>10. count \in Injection(S, 0 .. n - 1)
  BY <1>6, <1>9 DEF Injection, IsInjective
<1>11. IsFiniteSet(0 .. n - 1) /\ Cardinality(0 .. n - 1) = n
  BY <1>1, FS_Interval
<1>12. count \in Surjection(S, 0 .. n - 1)
  BY <1>10, <1>11, FS_Injection
<1>13. \A k \in 0 .. n - 1 : \E b \in S : count[b] = k
  BY <1>12 DEF Surjection
<1> QED BY <1>1, <1>4, <1>6, <1>8, <1>13 DEF below

\* What is read off by rank: all of the set, in order.
LEMMA RankSequence ==
  ASSUME NEW S, IsFiniteSet(S), NEW R, Orders(R, S),
         NEW s, s = [k \in 1 .. Cardinality(S) |-> s[k]],
         \A k \in 1 .. Cardinality(S) :
           s[k] = CHOOSE b \in S : Cardinality({d \in S : <<d, b>> \in R}) = k - 1
  PROVE  /\ Cardinality(S) \in Nat
         /\ s \in [1 .. Cardinality(S) -> S]
         /\ \A b \in S : \E k \in 1 .. Cardinality(S) : s[k] = b
         /\ \A j, k \in 1 .. Cardinality(S) : j < k <=> <<s[j], s[k]>> \in R
<1> DEFINE n == Cardinality(S)
<1>0. n \in Nat
  BY CountOrder
<1>1. PICK count \in [S -> 0 .. n - 1] :
      /\ \A b \in S : count[b] = Cardinality({d \in S : <<d, b>> \in R})
      /\ \A a, b \in S : count[a] < count[b] <=> <<a, b>> \in R
      /\ \A k \in 0 .. n - 1 : \E b \in S : count[b] = k
  BY CountOrder
<1>2. \A a, b \in S : count[a] = count[b] => a = b
  <2> TAKE a, b \in S
  <2>1. count[a] \in Int /\ count[b] \in Int
    BY <1>1
  <2>2. a # b => count[a] < count[b] \/ count[b] < count[a]
    BY <1>1 DEF Orders
  <2> QED BY <2>1, <2>2
<1>4. \A k \in 1 .. n : s[k] \in S /\ count[s[k]] = k - 1
  <2> TAKE k \in 1 .. n
  <2>1. k - 1 \in 0 .. n - 1
    BY <1>0
  <2>2. \E b \in S : Cardinality({d \in S : <<d, b>> \in R}) = k - 1
    BY <1>1, <2>1
  <2>3. s[k] = CHOOSE b \in S : Cardinality({d \in S : <<d, b>> \in R}) = k - 1
    OBVIOUS
  <2>4. s[k] \in S /\ Cardinality({d \in S : <<d, s[k]>> \in R}) = k - 1
    BY <2>2, <2>3
  <2> QED BY <1>1, <2>4
<1>5. \A b \in S : \E k \in 1 .. n : s[k] = b
  <2> TAKE b \in S
  <2>1. PICK k \in 1 .. n : k - 1 = count[b]
    <3>1. count[b] \in 0 .. n - 1
      OBVIOUS
    <3> DEFINE k == count[b] + 1
    <3> HIDE DEF n
    <3>2. k \in 1 .. n /\ k - 1 = count[b]
      BY <1>0, <3>1
    <3> HIDE DEF k
    <3> QED BY <3>2
  <2>2. s[k] \in S /\ count[s[k]] = count[b]
    BY <2>1, <1>4
  <2> QED BY <2>2, <1>2
<1>6. s \in [1 .. n -> S]
  BY <1>4
<1>7. \A j, k \in 1 .. n : j < k <=> <<s[j], s[k]>> \in R
  <2> TAKE j, k \in 1 .. n
  <2>1. count[s[j]] < count[s[k]] <=> <<s[j], s[k]>> \in R
    BY <1>1, <1>4
  <2>2. count[s[j]] = j - 1 /\ count[s[k]] = k - 1
    BY <1>4
  <2> QED BY <2>1, <2>2
<1> QED BY <1>0, <1>5, <1>6, <1>7

-----------------------------------------------------------------------------
(* LayoutFrames.  Arithmetic.                                              *)

\* Min and Max of a pair.
LEMMA LesserOfTwo ==
  ASSUME NEW a \in Int, NEW b \in Int
  PROVE  Min({a, b}) = IF a <= b THEN a ELSE b
  BY DEF Min

\* The greater of two.
LEMMA GreaterOfTwo ==
  ASSUME NEW a \in Int, NEW b \in Int
  PROVE  Max({a, b}) = IF a <= b THEN b ELSE a
  BY DEF Max

\* A division that leaves nothing can be undone.
LEMMA Quotient ==
  ASSUME NEW n \in Int, NEW d \in Nat \ {0}, n % d = 0
  PROVE  d * (n \div d) = n
<1> DEFINE q == n \div d
<1>1. n % d = n - d * q
  OBVIOUS
<1>2. q \in Int
  OBVIOUS
<1> HIDE DEF q
<1>3. d * q \in Int
  BY <1>2
<1>4. d * q = n
  BY <1>1, <1>3
<1> QED BY <1>4 DEF q

\* So can a multiplication.
LEMMA QuotientOfProduct ==
  ASSUME NEW n \in Nat, NEW d \in Nat \ {0}
  PROVE  (n * d) \div d = n
<1> DEFINE q == (n * d) \div d
<1>1. q \in Int
  OBVIOUS
<1>2. d * q <= n * d
  OBVIOUS
<1>3. n * d < d * q + d
  OBVIOUS
<1> HIDE DEF q
<1>4. ~(q <= n - 1)
  <2>1. q <= n - 1 => d * q <= d * (n - 1)
    BY <1>1
  <2> QED BY <2>1, <1>1, <1>3
<1>5. ~(n + 1 <= q)
  <2>1. n + 1 <= q => d * (n + 1) <= d * q
    BY <1>1
  <2> QED BY <2>1, <1>1, <1>2
<1>6. q = n
  BY <1>1, <1>4, <1>5
<1> QED BY <1>6 DEF q

\* A multiple leaves nothing.
LEMMA ProductRemainder ==
  ASSUME NEW n \in Nat, NEW d \in Nat \ {0}
  PROVE  (n * d) % d = 0
<1> DEFINE m == n * d
<1>1. m \in Int
  OBVIOUS
<1>2. m \div d = n /\ m = d * n
  BY QuotientOfProduct
<1> HIDE DEF m
<1>3. m % d = m - d * (m \div d)
  BY <1>1
<1>4. m % d = 0
  BY <1>1, <1>2, <1>3
<1> QED BY <1>4 DEF m

\* A length that scales by a / d evenly comes back.
LEMMA EvenScale ==
  ASSUME NEW n \in Nat, NEW a \in Nat \ {0}, NEW d \in Nat \ {0}, (n * a) % d = 0
  PROVE  /\ (n * a) \div d \in Nat
         /\ ((n * a) \div d) * d = n * a
         /\ (((n * a) \div d) * d) \div a = n
<1> DEFINE q == (n * a) \div d
<1>1. n * a \in Nat
  OBVIOUS
<1>2. d * q = n * a
  <2> DEFINE m == n * a
  <2>1. m \in Int /\ m % d = 0
    OBVIOUS
  <2> HIDE DEF m
  <2>2. d * (m \div d) = m
    BY <2>1, Quotient
  <2> QED BY <2>2 DEF m
<1>3. q \in Int
  BY <1>1
<1>4. q >= 0
  BY <1>1
<1> HIDE DEF q
<1>5. q * d = n * a
  BY <1>2, <1>3
<1>6. (q * d) \div a = n
  BY <1>5, QuotientOfProduct
<1> QED BY <1>3, <1>4, <1>5, <1>6 DEF q

-----------------------------------------------------------------------------
(* LayoutFrames.  The image that the model is shown.                       *)

ShownSize(s) == IF layout.resized THEN s \in InputSizes \cup {IF layout.imageSize = NoSize THEN PageSize ELSE layout.imageSize}
                ELSE s = IF layout.imageSize = NoSize THEN PageSize ELSE layout.imageSize

LayoutInv ==
  /\ layout \in ValidSettings
  /\ detecting \in {"page", "model", "done"}
  /\ detecting # "page" => ShownSize(shown)

\* An edge belongs to one of two axes.
LEMMA AxisType == \A k \in 1 .. 4 : Axis(k) \in 1 .. 2
  BY DEF Axis

\* The page and the image that the model is shown have a size.
LEMMA SizesType ==
  ASSUME LayoutInv, detecting # "page"
  PROVE  /\ shown \in InputSizes \cup {PageSize}
         /\ layout.transform => shown = layout.imageSize
         /\ \A a \in 1 .. 2 : PageSize[a] \in Nat \ {0} /\ shown[a] \in Nat \ {0}
<1>1. layout \in Settings /\ Valid(layout)
  BY DEF LayoutInv, ValidSettings
<1>2. layout.imageSize \in InputSizes \cup {NoSize}
  BY <1>1 DEF Settings
<1>3. shown \in InputSizes \cup {PageSize}
  BY <1>2 DEF LayoutInv, ShownSize
<1>4. layout.transform => shown = layout.imageSize
  BY <1>1 DEF LayoutInv, ShownSize, Valid
<1>5. \A s \in (Nat \ {0}) \X (Nat \ {0}) : \A a \in 1 .. 2 : s[a] \in Nat \ {0}
  OBVIOUS
<1>6. \A a \in 1 .. 2 : PageSize[a] \in Nat \ {0} /\ shown[a] \in Nat \ {0}
  BY <1>3, <1>5, LayoutAssumption
<1> QED BY <1>3, <1>4, <1>6

\* An edge scales evenly to the image shown and to the thousandths of the protocol.
LEMMA EdgeType ==
  ASSUME LayoutInv, detecting # "page", NEW b \in Rectangles, NEW k \in 1 .. 4
  PROVE  LET a == Axis(k)
             page == PageSize[a]
             n == b[k]
         IN  /\ n \in 0 .. 4 * page
             /\ (n * Whole) % (4 * page) = 0 /\ (n * shown[a]) % page = 0
             /\ page \in Nat \ {0} /\ shown[a] \in Nat \ {0} /\ Whole \in Nat \ {0}
<1>1. Axis(k) \in 1 .. 2
  BY AxisType
<1>2. /\ b \in [1 .. 4 -> Nat] /\ b[k] <= 4 * PageSize[Axis(k)]
      /\ (b[k] * 1000) % (4 * PageSize[Axis(k)]) = 0 /\ (b[k] * 80) % (4 * PageSize[Axis(k)]) = 0
      /\ \A size \in InputSizes : (b[k] * size[Axis(k)]) % PageSize[Axis(k)] = 0
  BY LayoutAssumption
<1>3. PageSize[Axis(k)] \in Nat \ {0} /\ shown[Axis(k)] \in Nat \ {0}
  BY <1>1, SizesType
<1>4. (b[k] * PageSize[Axis(k)]) % PageSize[Axis(k)] = 0
  <2> DEFINE p == PageSize[Axis(k)]
             n == b[k]
  <2>1. n \in Nat /\ p \in Nat \ {0}
    BY <1>2, <1>3
  <2> HIDE DEF n, p
  <2>2. (n * p) % p = 0
    BY <2>1, ProductRemainder
  <2> QED BY <2>2 DEF n, p
<1>5. (b[k] * shown[Axis(k)]) % PageSize[Axis(k)] = 0
  BY <1>2, <1>4, SizesType
<1>6. b[k] \in 0 .. 4 * PageSize[Axis(k)]
  BY <1>2, <1>3
<1>7. (b[k] * Whole) % (4 * PageSize[Axis(k)]) = 0 /\ Whole \in Nat \ {0}
  BY <1>2 DEF Whole
<1> QED BY <1>2, <1>3, <1>5, <1>6, <1>7

\* What the model gives for an edge, and what detect makes of it.
Read(b, k) == Parsed(Model(b))[k]

\* A clamp leaves alone what is within its bounds.
LEMMA WithinBounds ==
  ASSUME NEW n \in Int, NEW low \in Int, NEW high \in Int, low <= n, n <= high
  PROVE  Within(n, low, high) = n
  BY DEF Within

\* What the model says of an edge leads back to the edge of the page.
LEMMA ReadType ==
  ASSUME LayoutInv, detecting # "page", NEW b \in Rectangles, NEW k \in 1 .. 4
  PROVE  IF InPixels
         THEN /\ Read(b, k) = (b[k] * shown[Axis(k)]) \div PageSize[Axis(k)]
              /\ Read(b, k) \in Nat
              /\ Read(b, k) * PageSize[Axis(k)] = b[k] * shown[Axis(k)]
              /\ (Read(b, k) * PageSize[Axis(k)]) \div shown[Axis(k)] = b[k]
         ELSE Read(b, k) = b[k]
<1> DEFINE a == Axis(k)
           p == PageSize[a]
           s == shown[a]
           n == b[k]
<1>1. /\ n \in 0 .. 4 * p
      /\ (n * Whole) % (4 * p) = 0 /\ (n * s) % p = 0
      /\ p \in Nat \ {0} /\ s \in Nat \ {0} /\ Whole \in Nat \ {0}
  BY EdgeType
<1>2. layout \in Settings /\ Valid(layout)
  BY DEF LayoutInv, ValidSettings
<1>3. layout.coordinates \in {"pixel", "normalized", "model_input"}
  BY <1>2 DEF Settings
<1>4. layout.transform => layout.coordinates = "model_input" /\ s = layout.imageSize[a]
  BY <1>2, SizesType DEF Valid
<1>5. layout.coordinates = "model_input" => ~Normalized
  BY <1>2 DEF Normalized, Thousandths, Valid
<1>6. Margin \in Int
  BY LayoutAssumption
<1> DEFINE size == GivenSize[a]
           q == (n * s) \div p
<1>7. Model(b)[k] =
        IF Normalized THEN (n * Whole) \div (4 * p)
        ELSE q + (IF layout.transform THEN Margin ELSE 0)
  BY DEF Model, Each
<1>8. Read(b, k) = Within(Placed(Model(b)[k], a), 0, 4 * size)
  BY DEF Read, Parsed, Each
<1>9. ~InPixels => size = p
  BY DEF GivenSize
<1>10. InPixels => size = s /\ layout.coordinates = "pixel"
  BY DEF InPixels, GivenSize
<1>11. layout.coordinates = "pixel" /\ ~InPixels => s = p
  BY DEF InPixels
<1>12. q \in Nat /\ q * p = n * s /\ (q * p) \div s = n
  <2>1. n \in Nat
    BY <1>1
  <2> HIDE DEF n, p, s
  <2> QED BY <2>1, <1>1, EvenScale
<1>13. q <= 4 * s
  <2> HIDE DEF q, n, p, s
  <2>1. n * s <= (4 * p) * s
    BY <1>1
  <2>2. q * p <= (4 * s) * p
    BY <2>1, <1>1, <1>12
  <2>3. ~(4 * s + 1 <= q)
    <3>1. 4 * s + 1 <= q => (4 * s + 1) * p <= q * p
      BY <1>1, <1>12
    <3> QED BY <3>1, <2>2, <1>1, <1>12
  <2> QED BY <2>3, <1>1, <1>12
<1>14. s = p => q = n
  <2> HIDE DEF n, s
  <2>1. s = p => q = (n * p) \div p
    OBVIOUS
  <2> QED BY <2>1, <1>1, QuotientOfProduct
<1> HIDE DEF a, p, s, n, q, size
<1>15. CASE Normalized
  <2> DEFINE m == (n * Whole) \div (4 * p)
  <2>1. 4 * p \in Nat \ {0} /\ n \in Nat
    BY <1>1
  <2>2. m \in Nat /\ m * (4 * p) = n * Whole /\ (m * (4 * p)) \div Whole = n
    <3>1. Whole \in Nat \ {0} /\ (n * Whole) % (4 * p) = 0
      BY <1>1
    <3> QED BY <2>1, <3>1, EvenScale, Zenon
  <2>3. Read(b, k) = Within((m * (4 * size)) \div Whole, 0, 4 * size)
    <3>1. Model(b)[k] = m
      BY <1>7, <1>15, Zenon
    <3>2. Read(b, k) = Within((Model(b)[k] * (4 * size)) \div Whole, 0, 4 * size)
      BY <1>5, <1>8, <1>15 DEF Placed, size
    <3> QED BY <3>1, <3>2, Zenon
  <2> HIDE DEF m
  <2>4. CASE InPixels
    <3>1. (m * (4 * s)) * p = (q * Whole) * p
      <4>1. (m * (4 * s)) * p = (m * (4 * p)) * s
        BY <2>2, <1>1
      <4>2. (m * (4 * s)) * p = (n * Whole) * s
        BY <4>1, <2>2
      <4>3. (q * Whole) * p = (q * p) * Whole
        BY <1>1, <1>12
      <4>4. (q * Whole) * p = (n * s) * Whole
        BY <4>3, <1>12
      <4> QED BY <4>2, <4>4, <1>1
    <3>2. m * (4 * s) = q * Whole
      <4> DEFINE x == m * (4 * s)
                 y == q * Whole
      <4>1. x \in Int /\ y \in Int /\ x * p = y * p
        BY <3>1, <2>2, <1>1, <1>12
      <4> HIDE DEF x, y
      <4>2. x = y
        BY <4>1, <1>1
      <4> QED BY <4>2 DEF x, y
    <3>3. (m * (4 * s)) \div Whole = q
      BY <3>2, <1>1, <1>12, QuotientOfProduct
    <3>4. Read(b, k) = Within(q, 0, 4 * s)
      BY <3>3, <2>3, <2>4, <1>10
    <3>5. Read(b, k) = q
      BY <3>4, <1>1, <1>12, <1>13, WithinBounds
    <3> QED BY <3>5, <2>4, <1>12 DEF q, n, s, p, a
  <2>5. CASE ~InPixels
    <3>1. Read(b, k) = Within(n, 0, 4 * p)
      BY <2>2, <2>3, <2>5, <1>9
    <3>2. Read(b, k) = n
      BY <3>1, <1>1, WithinBounds
    <3> QED BY <3>2, <2>5 DEF n
  <2> QED BY <2>4, <2>5
<1>17. CASE ~Normalized /\ layout.coordinates = "pixel"
  <2>1. Model(b)[k] = q + 0
    BY <1>7, <1>17, <1>4
  <2>2. Read(b, k) = Within(q, 0, 4 * size)
    BY <2>1, <1>8, <1>12, <1>17 DEF Placed
  <2>3. size = s
    BY <1>9, <1>10, <1>11, <1>17
  <2>4. Read(b, k) = q
    BY <2>2, <2>3, <1>1, <1>12, <1>13, WithinBounds
  <2>5. CASE InPixels
    BY <2>4, <2>5, <1>12 DEF q, n, s, p, a
  <2>6. CASE ~InPixels
    BY <2>4, <2>6, <1>11, <1>14, <1>17 DEF n
  <2> QED BY <2>5, <2>6
<1>18. CASE layout.coordinates = "model_input"
  <2>1. ~Normalized /\ ~InPixels
    BY <1>5, <1>10, <1>18
  <2>2. Model(b)[k] = q + (IF layout.transform THEN Margin ELSE 0)
    BY <1>7, <1>18, <2>1
  <2>3. Read(b, k) = Within((q * p) \div s, 0, 4 * p)
    <3>1. CASE layout.transform
      <4>1. Model(b)[k] - Margin = q
        BY <2>2, <3>1, <1>6, <1>12
      <4> QED BY <4>1, <3>1, <1>4, <1>8, <1>9, <1>18, <2>1 DEF Placed, p
    <3>2. CASE ~layout.transform
      <4>1. Model(b)[k] = q
        BY <2>2, <3>2, <1>12
      <4> QED BY <4>1, <3>2, <1>8, <1>9, <1>18, <2>1 DEF Placed, ModelSize, s, p
    <3> QED BY <3>1, <3>2
  <2>4. Read(b, k) = n
    BY <2>3, <1>1, <1>12, WithinBounds
  <2> QED BY <2>1, <2>4 DEF n
<1> QED BY <1>3, <1>15, <1>17, <1>18 DEF Normalized

\* Of two edges the lesser is the lesser in whatever unit.
LEMMA SameOrder ==
  ASSUME NEW x \in Int, NEW y \in Int, NEW m \in Int, NEW n \in Int,
         NEW p \in Nat \ {0}, NEW s \in Nat \ {0}, x * p = m * s, y * p = n * s
  PROVE  x <= y <=> m <= n
<1>1. x <= y => x * p <= y * p
  OBVIOUS
<1>2. ~(x <= y) => (y + 1) * p <= x * p
  OBVIOUS
<1>3. ~(m <= n) => (n + 1) * s <= m * s
  OBVIOUS
<1>4. m <= n => m * s <= n * s
  OBVIOUS
<1>5. (y + 1) * p = y * p + p /\ (n + 1) * s = n * s + s
  OBVIOUS
<1> DEFINE xp == x * p
           yp == y * p
           ms == m * s
           ns == n * s
<1>6. xp \in Int /\ yp \in Int /\ ms \in Int /\ ns \in Int /\ xp = ms /\ yp = ns
  OBVIOUS
<1>7. /\ x <= y => xp <= yp
      /\ ~(x <= y) => yp + p <= xp
      /\ ~(m <= n) => ns + s <= ms
      /\ m <= n => ms <= ns
  BY <1>1, <1>2, <1>3, <1>4, <1>5
<1> HIDE DEF xp, yp, ms, ns
<1> QED BY <1>6, <1>7

\* Rectangles, and what is around two of them.
LEMMA RectangleType ==
  ASSUME NEW b \in Rectangles
  PROVE  b \in [1 .. 4 -> Nat]
  BY LayoutAssumption

\* A box around two boxes is a box.
LEMMA UnionType ==
  ASSUME NEW b \in [1 .. 4 -> Nat], NEW d \in [1 .. 4 -> Nat]
  PROVE  /\ Union(b, d) \in [1 .. 4 -> Nat]
         /\ \A k \in 1 .. 2 : Union(b, d)[k] = IF b[k] <= d[k] THEN b[k] ELSE d[k]
         /\ \A k \in 3 .. 4 : Union(b, d)[k] = IF b[k] <= d[k] THEN d[k] ELSE b[k]
<1>1. \A k \in 1 .. 4 : b[k] \in Nat /\ d[k] \in Nat
  OBVIOUS
<1>2. \A k \in 1 .. 4 : Min({b[k], d[k]}) = (IF b[k] <= d[k] THEN b[k] ELSE d[k])
  BY <1>1, LesserOfTwo
<1>3. \A k \in 1 .. 4 : Max({b[k], d[k]}) = (IF b[k] <= d[k] THEN d[k] ELSE b[k])
  BY <1>1, GreaterOfTwo
<1>4. /\ Union(b, d)[1] = Min({b[1], d[1]}) /\ Union(b, d)[2] = Min({b[2], d[2]})
      /\ Union(b, d)[3] = Max({b[3], d[3]}) /\ Union(b, d)[4] = Max({b[4], d[4]})
  BY DEF Union
<1>5. Union(b, d) \in [1 .. 4 -> Nat]
  <2>1. /\ Min({b[1], d[1]}) \in Nat /\ Min({b[2], d[2]}) \in Nat
        /\ Max({b[3], d[3]}) \in Nat /\ Max({b[4], d[4]}) \in Nat
    BY <1>1, <1>2, <1>3
  <2> QED BY <2>1 DEF Union
<1>6. \A k \in 1 .. 2 : k = 1 \/ k = 2
  OBVIOUS
<1>7. \A k \in 3 .. 4 : k = 3 \/ k = 4
  OBVIOUS
<1>8. \A k \in 1 .. 2 : Union(b, d)[k] = IF b[k] <= d[k] THEN b[k] ELSE d[k]
  BY <1>2, <1>4, <1>6
<1>9. \A k \in 3 .. 4 : Union(b, d)[k] = IF b[k] <= d[k] THEN d[k] ELSE b[k]
  BY <1>3, <1>4, <1>7
<1> QED BY <1>5, <1>8, <1>9

\* What is parsed of an answer are the edges that the model gave.
LEMMA ParsedType ==
  ASSUME LayoutInv, detecting # "page", NEW b \in Rectangles
  PROVE  /\ Parsed(Model(b)) \in [1 .. 4 -> Nat]
         /\ \A k \in 1 .. 4 : Parsed(Model(b))[k] = Read(b, k)
<1>1. Parsed(Model(b)) = [k \in 1 .. 4 |-> Parsed(Model(b))[k]]
  BY DEF Parsed, Each
<1>2. \A k \in 1 .. 4 : Read(b, k) \in Nat
  BY ReadType, RectangleType
<1>3. \A k \in 1 .. 4 : Parsed(Model(b))[k] = Read(b, k)
  BY DEF Read
<1> QED BY <1>1, <1>2, <1>3

\* In whatever coordinates, a rectangle comes back to its place on the page, and so does
\* the one around two.
LEMMA RectangleInPlace ==
  ASSUME LayoutInv, detecting # "page", NEW b \in Rectangles, NEW d \in Rectangles
  PROVE  /\ ToPage(Parsed(Model(b))) = b
         /\ ToPage(Union(Parsed(Model(b)), Parsed(Model(d)))) = Union(b, d)
<1> DEFINE x == Parsed(Model(b))
           y == Parsed(Model(d))
           u == Union(x, y)
           v == Union(b, d)
           back(c, k) == (c[k] * PageSize[Axis(k)]) \div shown[Axis(k)]
<1>1. /\ x \in [1 .. 4 -> Nat] /\ y \in [1 .. 4 -> Nat]
      /\ b \in [1 .. 4 -> Nat] /\ d \in [1 .. 4 -> Nat]
      /\ \A k \in 1 .. 4 : x[k] = Read(b, k) /\ y[k] = Read(d, k)
  BY ParsedType, RectangleType
<1>2. CASE ~InPixels
  <2>1. \A k \in 1 .. 4 : x[k] = b[k] /\ y[k] = d[k]
    BY <1>1, <1>2, ReadType
  <2>2. x = b /\ y = d
    BY <1>1, <2>1
  <2> QED BY <2>2, <1>2 DEF ToPage
<1>3. CASE InPixels
  <2>1. \A k \in 1 .. 4 : /\ x[k] * PageSize[Axis(k)] = b[k] * shown[Axis(k)] /\ back(x, k) = b[k]
                          /\ y[k] * PageSize[Axis(k)] = d[k] * shown[Axis(k)] /\ back(y, k) = d[k]
    BY <1>1, <1>3, ReadType
  <2>2. ToPage(x) = [k \in 1 .. 4 |-> back(x, k)] /\ ToPage(u) = [k \in 1 .. 4 |-> back(u, k)]
    BY <1>3 DEF ToPage, Each
  <2>3. [k \in 1 .. 4 |-> back(x, k)] = b
    BY <1>1, <2>1
  <2>4. \A k \in 1 .. 4 : x[k] <= y[k] <=> b[k] <= d[k]
    <3> TAKE k \in 1 .. 4
    <3>1. PageSize[Axis(k)] \in Nat \ {0} /\ shown[Axis(k)] \in Nat \ {0}
      BY EdgeType
    <3>2. x[k] \in Int /\ y[k] \in Int /\ b[k] \in Int /\ d[k] \in Int
      BY <1>1
    <3>3. x[k] * PageSize[Axis(k)] = b[k] * shown[Axis(k)] /\ y[k] * PageSize[Axis(k)] = d[k] * shown[Axis(k)]
      BY <2>1
    <3> DEFINE xk == x[k]
               yk == y[k]
    <3> HIDE DEF x, y
    <3> QED BY <3>1, <3>2, <3>3, SameOrder
  <2>5. /\ u \in [1 .. 4 -> Nat] /\ v \in [1 .. 4 -> Nat]
        /\ \A k \in 1 .. 4 : \/ u[k] = x[k] /\ v[k] = b[k]
                             \/ u[k] = y[k] /\ v[k] = d[k]
    <3>1. \A k \in 1 .. 4 : k \in 1 .. 2 \/ k \in 3 .. 4
      OBVIOUS
    <3> HIDE DEF x, y
    <3> QED BY <3>1, <1>1, <2>4, UnionType
  <2>6. \A k \in 1 .. 4 : back(u, k) = v[k]
    <3> HIDE DEF x, y, u, v
    <3> QED BY <2>1, <2>5
  <2>7. [k \in 1 .. 4 |-> back(u, k)] = v
    BY <2>5, <2>6
  <2> QED BY <2>2, <2>3, <2>7
<1> QED BY <1>2, <1>3

\* What crop() takes on an axis is the pixels that the rectangle touches.
LEMMA CropTakes ==
  ASSUME NEW s \in [1 .. 4 -> Nat], \A k \in 1 .. 4 : s[k] <= 4 * PageSize[Axis(k)], NEW a \in 1 .. 2
  PROVE  Crop(s)[a] = {p \in 0 .. PageSize[a] - 1 : s[a] < 4 * (p + 1) /\ 4 * p < s[a + 2]}
<1> DEFINE w == PageSize[a]
           x == s[a]
           y == s[a + 2]
           first == Within(x \div 4, 0, w)
           end == Within(-((-y) \div 4), 0, w)
<1>1. w \in Nat
  BY LayoutAssumption
<1>2. x \in Nat /\ y \in Nat /\ x <= 4 * w /\ y <= 4 * w
  <2>1. a \in 1 .. 4 /\ a + 2 \in 1 .. 4 /\ Axis(a) = a /\ Axis(a + 2) = a
    BY DEF Axis
  <2> QED BY <2>1
<1>3. Crop(s)[a] = first .. end - 1
  BY DEF Crop
<1> HIDE DEF w, x, y
<1>4. /\ x \div 4 \in Int /\ 4 * (x \div 4) <= x /\ x < 4 * (x \div 4) + 4
      /\ (-y) \div 4 \in Int /\ 4 * ((-y) \div 4) <= -y /\ -y < 4 * ((-y) \div 4) + 4
  BY <1>2
<1>5. first = x \div 4 /\ end = -((-y) \div 4)
  BY <1>1, <1>2, <1>4 DEF Within
<1> HIDE DEF first, end
<1>6. first \in Int /\ end \in Int /\ 0 <= first /\ end <= w /\ 4 * first <= x /\ x < 4 * first + 4
      /\ y <= 4 * end /\ 4 * end < y + 4
  BY <1>1, <1>2, <1>4, <1>5
<1>7. \A p \in Int : p \in first .. end - 1 <=> p \in 0 .. w - 1 /\ x < 4 * (p + 1) /\ 4 * p < y
  BY <1>1, <1>2, <1>6
<1>8. first .. end - 1 = {p \in 0 .. w - 1 : x < 4 * (p + 1) /\ 4 * p < y}
  <2>1. first .. end - 1 \subseteq Int /\ 0 .. w - 1 \subseteq Int
    BY <1>1, <1>6
  <2> QED BY <2>1, <1>7
<1> QED BY <1>3, <1>8 DEF w, x, y

Regions == [bbox : Rectangles, polygon : Rectangles, order : 0 .. 2, kept : BOOLEAN]
Shape(r) == IF layout.v3 THEN Union(r.bbox, r.polygon) ELSE r.bbox

\* A box lies where its region does.
LEMMA BoxType ==
  ASSUME LayoutInv, detecting # "page", NEW r \in Regions, NEW k \in Nat \ {0}
  PROVE  /\ Box(k, r).index = k /\ Box(k, r).order \in Nat
         /\ Box(k, r).bbox = r.bbox /\ Box(k, r).crop = Shape(r)
         /\ Shape(r) \in [1 .. 4 -> Nat] /\ \A m \in 1 .. 4 : Shape(r)[m] <= 4 * PageSize[Axis(m)]
<1>1. r.bbox \in Rectangles /\ r.polygon \in Rectangles /\ r.order \in 0 .. 2
  BY DEF Regions
<1>2. ToPage(Parsed(Model(r.bbox))) = r.bbox
      /\ ToPage(Union(Parsed(Model(r.bbox)), Parsed(Model(r.polygon)))) = Union(r.bbox, r.polygon)
  BY <1>1, RectangleInPlace
<1>3. r.bbox \in [1 .. 4 -> Nat] /\ r.polygon \in [1 .. 4 -> Nat]
  BY <1>1, RectangleType
<1>4. Box(k, r).index = k /\ Box(k, r).order \in Nat
  BY <1>1 DEF Box
<1>5. Box(k, r).bbox = r.bbox /\ Box(k, r).crop = Shape(r)
  BY <1>2 DEF Box, Shape
<1>6. \A m \in 1 .. 4 : r.bbox[m] <= 4 * PageSize[Axis(m)] /\ r.polygon[m] <= 4 * PageSize[Axis(m)]
  BY <1>1, LayoutAssumption
<1>7. Shape(r) \in [1 .. 4 -> Nat]
  BY <1>3, UnionType DEF Shape
<1>8. \A m \in 1 .. 4 : Shape(r)[m] \in {r.bbox[m], r.polygon[m]}
  <2>1. \A m \in 1 .. 4 : m \in 1 .. 2 \/ m \in 3 .. 4
    OBVIOUS
  <2>2. \A m \in 1 .. 4 : Union(r.bbox, r.polygon)[m] \in {r.bbox[m], r.polygon[m]}
    BY <2>1, <1>3, UnionType
  <2> QED BY <2>2 DEF Shape
<1>9. \A m \in 1 .. 4 : Shape(r)[m] <= 4 * PageSize[Axis(m)]
  BY <1>6, <1>8
<1> QED BY <1>4, <1>5, <1>7, <1>9

\* The boxes of the regions above the threshold, in order.
LEMMA ReadingOrder ==
  ASSUME LayoutInv, detecting # "page", NEW n \in Nat, NEW rs \in [1 .. n -> Regions]
  PROVE  LET kept == {k \in 1 .. n : rs[k].kept}
             bs == {Box(k, rs[k]) : k \in kept}
             s == InReadingOrder(bs)
         IN  /\ Range(s) = bs
             /\ DOMAIN s \subseteq Int
             /\ \A j, k \in DOMAIN s : s[j] \in bs /\ (j < k => Before(s[j], s[k]))
<1> DEFINE kept == {k \in 1 .. n : rs[k].kept}
           box == [k \in kept |-> Box(k, rs[k])]
           bs == {Box(k, rs[k]) : k \in kept}
           s == InReadingOrder(bs)
           R == {p \in bs \X bs : Before(p[1], p[2])}
<1>1. IsFiniteSet(bs)
  <2>1. IsFiniteSet(kept)
    <3>1. kept \in SUBSET (1 .. n) /\ IsFiniteSet(1 .. n)
      BY FS_Interval
    <3> QED BY <3>1, FS_Subset
  <2>2. box \in Surjection(kept, bs)
    BY DEF Surjection
  <2> QED BY <2>1, <2>2, FS_Surjection
<1>2. \A k \in kept : /\ k \in Nat \ {0} /\ rs[k] \in Regions
                      /\ Box(k, rs[k]).index = k /\ Box(k, rs[k]).order \in Nat
  BY BoxType
<1>3. \A b \in bs : b.index \in kept /\ b = Box(b.index, rs[b.index]) /\ b.index \in Nat /\ b.order \in Nat
  BY <1>2
<1>4. \A b, d \in bs : <<b, d>> \in R <=> Before(b, d)
  OBVIOUS
<1> HIDE DEF R, s, box, bs
<1>5. Orders(R, bs)
  <2>1. \A b, d \in bs : b # d => b.index # d.index
    BY <1>3
  <2>2. \A b, d \in bs : b # d => Before(b, d) \/ Before(d, b)
    BY <2>1, <1>3 DEF Before
  <2>3. \A b, c, d \in bs : Before(b, c) /\ Before(c, d) => Before(b, d)
    BY <1>3 DEF Before
  <2>4. \A b \in bs : ~Before(b, b)
    BY <1>3 DEF Before
  <2> QED BY <2>2, <2>3, <2>4, <1>4 DEF Orders
<1>6. /\ s = [k \in 1 .. Cardinality(bs) |-> s[k]]
      /\ \A k \in 1 .. Cardinality(bs) :
           s[k] = CHOOSE b \in bs : Cardinality({d \in bs : <<d, b>> \in R}) = k - 1
  <2> DEFINE at(k) == CHOOSE b \in bs : Cardinality({d \in bs : Before(d, b)}) = k - 1
  <2>1. s = [k \in 1 .. Cardinality(bs) |-> at(k)]
    BY DEF s, InReadingOrder
  <2>2. \A b \in bs : {d \in bs : Before(d, b)} = {d \in bs : <<d, b>> \in R}
    BY <1>4
  <2>3. \A k : at(k) = CHOOSE b \in bs : Cardinality({d \in bs : <<d, b>> \in R}) = k - 1
    BY <2>2
  <2> HIDE DEF at
  <2>4. s = [k \in 1 .. Cardinality(bs) |-> s[k]] /\ \A k \in 1 .. Cardinality(bs) : s[k] = at(k)
    BY <2>1
  <2> QED BY <2>3, <2>4
<1>7. /\ Cardinality(bs) \in Nat
      /\ s \in [1 .. Cardinality(bs) -> bs]
      /\ \A b \in bs : \E k \in 1 .. Cardinality(bs) : s[k] = b
      /\ \A j, k \in 1 .. Cardinality(bs) : j < k <=> <<s[j], s[k]>> \in R
  BY <1>1, <1>5, <1>6, RankSequence
<1>8. Range(s) = bs
  BY <1>7 DEF Range
<1>9. \A j, k \in DOMAIN s : s[j] \in bs /\ (j < k => Before(s[j], s[k]))
  BY <1>4, <1>7
<1>10. DOMAIN s \subseteq Int
  BY <1>7
<1> QED BY <1>8, <1>9, <1>10 DEF s, bs

\* LayoutInv: the settings never change, and the image that the model is shown has a size
\* that they allow (prepare_images()).
THEOREM LayoutShown == LayoutSpec => []LayoutInv
<1>1. LayoutInit => LayoutInv
  BY DEF LayoutInit, LayoutInv
<1>2. LayoutInv /\ [LayoutNext]_layoutVars => LayoutInv'
  <2> SUFFICES ASSUME LayoutInv, [LayoutNext]_layoutVars PROVE LayoutInv'
    OBVIOUS
  <2>1. CASE ShowPage
    BY <2>1 DEF ShowPage, LayoutInv, ShownSize
  <2>2. CASE DetectBoxes
    BY <2>2 DEF DetectBoxes, LayoutInv, ShownSize
  <2>3. CASE UNCHANGED layoutVars
    BY <2>3 DEF layoutVars, LayoutInv, ShownSize
  <2> QED BY <2>1, <2>2, <2>3 DEF LayoutNext
<1> QED BY <1>1, <1>2, PTL DEF LayoutSpec

\* BoxesInPlace: whatever the sizes of the page and of the model's input, whatever the
\* adapter, its protocol and its rectangles, every box that is kept lies on the page where
\* the model saw it, its crop is made of the pixels it covers, and boxes come in the
\* model's reading order (prepare_images(), parse_pp_doclayout(), parse_text_layout()).
THEOREM LayoutPlacesBoxes == LayoutSpec => []BoxesInPlace
<1>1. LayoutInit => BoxesInPlace
  BY DEF LayoutInit, BoxesInPlace
<1>2. LayoutInv /\ BoxesInPlace /\ [LayoutNext]_layoutVars => BoxesInPlace'
  <2> SUFFICES ASSUME LayoutInv, BoxesInPlace, [LayoutNext]_layoutVars PROVE BoxesInPlace'
    OBVIOUS
  <2>1. CASE ShowPage
    BY <2>1 DEF ShowPage, BoxesInPlace
  <2>2. CASE DetectBoxes
    <3>1. PICK n \in 0 .. MaxRegions : \E rs \in [1 .. n -> Regions] :
            /\ present' = rs
            /\ found' = InReadingOrder({Box(k, rs[k]) : k \in {j \in 1 .. n : rs[j].kept}})
      BY <2>2 DEF DetectBoxes, Regions
    <3>2. PICK rs \in [1 .. n -> Regions] :
            /\ present' = rs
            /\ found' = InReadingOrder({Box(k, rs[k]) : k \in {j \in 1 .. n : rs[j].kept}})
      BY <3>1
    <3> DEFINE kept == {k \in 1 .. n : rs[k].kept}
               bs == {Box(k, rs[k]) : k \in kept}
    <3>3. detecting # "page" /\ layout' = layout /\ n \in Nat
      BY <2>2, LayoutAssumption DEF DetectBoxes
    <3>4. /\ Range(found') = bs /\ DOMAIN found' \subseteq Int
          /\ \A j, k \in DOMAIN found' : found'[j] \in bs /\ (j < k => Before(found'[j], found'[k]))
      BY <3>2, <3>3, ReadingOrder
    <3>5. \A k \in kept :
            LET b == Box(k, rs[k])
                r == rs[k]
            IN  /\ b.index = k /\ b.order \in Nat
                /\ b.bbox = r.bbox /\ b.crop = Shape(r)
                /\ Shape(r) \in [1 .. 4 -> Nat] /\ \A m \in 1 .. 4 : Shape(r)[m] <= 4 * PageSize[Axis(m)]
      <4> TAKE k \in kept
      <4>1. k \in Nat \ {0} /\ rs[k] \in Regions
        BY <3>3
      <4> HIDE DEF kept
      <4> QED BY ONLY LayoutInv, <3>3, <4>1, BoxType, Zenon
    <3> HIDE DEF bs
    <3>6. \A b \in bs :
            LET r == rs[b.index]
            IN  /\ b.index \in kept /\ b.order \in Nat
                /\ b.bbox = r.bbox /\ b.crop = Shape(r)
                /\ Shape(r) \in [1 .. 4 -> Nat] /\ \A m \in 1 .. 4 : Shape(r)[m] <= 4 * PageSize[Axis(m)]
      BY <3>5, SMTT(30) DEF bs
    <3>7. {b.index : b \in bs} = kept
      <4>1. \A k \in kept : Box(k, rs[k]) \in bs /\ Box(k, rs[k]).index = k
        BY <3>5 DEF bs
      <4> QED BY <4>1, <3>6
    <3>8. \A j, k \in DOMAIN found' : j < k =>
            LET b == found'[j]
                d == found'[k]
            IN  b.order # d.order => d.order = 0 \/ (b.order # 0 /\ b.order < d.order)
      BY <3>4, <3>6 DEF Before
    <3>9. \A b \in bs : \A a \in 1 .. 2 :
            Crop(b.crop)[a] = {p \in 0 .. PageSize[a] - 1 :
                                 Shape(rs[b.index])[a] < 4 * (p + 1) /\ 4 * p < Shape(rs[b.index])[a + 2]}
      BY <3>6, CropTakes, SMTT(30)
    <3>10. {b.index : b \in Range(found')} = {k \in DOMAIN present' : present'[k].kept}
      BY <3>2, <3>4, <3>7
    <3>11. \A b \in Range(found') :
             LET r == present'[b.index]
                 shape == IF layout'.v3 THEN Union(r.bbox, r.polygon) ELSE r.bbox
             IN  /\ b.bbox = r.bbox /\ b.crop = shape
                 /\ \A a \in 1 .. 2 :
                      Crop(b.crop)[a] = {p \in 0 .. PageSize[a] - 1 : shape[a] < 4 * (p + 1) /\ 4 * p < shape[a + 2]}
      BY <3>2, <3>3, <3>4, <3>6, <3>9, SMTT(30) DEF Shape
    <3> QED BY <3>8, <3>10, <3>11 DEF BoxesInPlace
  <2>3. CASE UNCHANGED layoutVars
    BY <2>3 DEF layoutVars, BoxesInPlace, Thousandths
  <2> QED BY <2>1, <2>2, <2>3 DEF LayoutNext
<1> QED BY <1>1, <1>2, LayoutShown, PTL DEF LayoutSpec

-----------------------------------------------------------------------------
(* PageBoxes.  Boxes.                                                      *)

\* A box of a page: its left edge is left of its right one.
Upright == {b \in BoxRecord : b.left < b.right}

\* The measures of boxes.
LEMMA WidthType ==
  ASSUME NEW b \in Upright
  PROVE  Width(b) \in Nat /\ Width(b) > 0
  BY DEF Upright, BoxRecord, Width

\* What two boxes have in common has a size, the same either way.
LEMMA CommonType ==
  ASSUME NEW a \in Upright, NEW b \in Upright
  PROVE  Common(a, b) \in Nat /\ Common(a, b) = Common(b, a)
<1>1. a.left \in Int /\ a.right \in Int /\ b.left \in Int /\ b.right \in Int
  BY DEF Upright, BoxRecord
<1> DEFINE r == Min({a.right, b.right})
           l == Max({a.left, b.left})
<1>2. r \in Int
  BY <1>1 DEF Min
<1>3. l \in Int
  BY <1>1 DEF Max
<1>4. {b.right, a.right} = {a.right, b.right} /\ {b.left, a.left} = {a.left, b.left}
  OBVIOUS
<1>5. Common(a, b) = Max({0, r - l}) /\ Common(b, a) = Max({0, r - l})
  BY <1>4, Zenon DEF Common
<1> HIDE DEF r, l
<1>6. Max({0, r - l}) \in Nat
  BY <1>2, <1>3 DEF Max
<1> QED BY <1>5, <1>6

\* Two boxes are in the same place, whichever is named first.
LEMMA SamePlaceSymmetric ==
  ASSUME NEW a \in Upright, NEW b \in Upright, SamePlace(a, b)
  PROVE  SamePlace(b, a)
<1>1. Width(a) \in Int /\ Width(b) \in Int
  BY WidthType
<1>2. Common(a, b) \in Int /\ Common(a, b) = Common(b, a)
  BY CommonType
<1> QED BY <1>1, <1>2 DEF SamePlace

\* A box is wider than one it encloses: enclosing makes no cycles.
LEMMA EnclosesWider ==
  ASSUME NEW a \in Upright, NEW b \in Upright, Encloses(a, b)
  PROVE  Width(a) > Width(b)
<1>1. Width(a) \in Nat /\ Width(b) \in Nat /\ Width(b) > 0
  BY WidthType
<1>2. 100 * Width(a) > 105 * Width(b)
  BY DEF Encloses
<1> QED BY <1>1, <1>2

\* What a sequence takes of another one, and from where.
Takes(s, bs, S, at) ==
  /\ Cardinality(S) \in Nat
  /\ at \in [1 .. Cardinality(S) -> S]
  /\ s = [k \in 1 .. Cardinality(S) |-> bs[at[k]]]
  /\ \A i \in S : \E k \in 1 .. Cardinality(S) : at[k] = i
  /\ \A j, k \in 1 .. Cardinality(S) : at[j] = at[k] => j = k

\* The places of a set, each once.
LEMMA SubsequenceIs ==
  ASSUME NEW n \in Nat, NEW S \in SUBSET (1 .. n), NEW bs
  PROVE  \E at : Takes(Subsequence(bs, S), bs, S, at)
<1> DEFINE R == {p \in S \X S : p[1] < p[2]}
           C == Cardinality(S)
           place(k) == CHOOSE i \in S : Cardinality({j \in S : j < i}) = k - 1
           at == [k \in 1 .. C |-> place(k)]
<1>1. IsFiniteSet(S)
  <2>1. IsFiniteSet(1 .. n)
    BY FS_Interval
  <2> QED BY <2>1, FS_Subset
<1>2. \A i, j \in S : <<i, j>> \in R <=> i < j
  OBVIOUS
<1>3. Orders(R, S)
  <2> HIDE DEF R
  <2> QED BY <1>2 DEF Orders
<1>4. \A i \in S : {j \in S : <<j, i>> \in R} = {j \in S : j < i}
  BY <1>2
<1>5. Subsequence(bs, S) = [k \in 1 .. C |-> bs[place(k)]]
  BY Zenon DEF Subsequence
<1>6. \A k \in 1 .. C : place(k) = CHOOSE i \in S : Cardinality({j \in S : <<j, i>> \in R}) = k - 1
  <2> TAKE k \in 1 .. C
  <2>1. \A i \in S : Cardinality({j \in S : <<j, i>> \in R}) = k - 1 <=> Cardinality({j \in S : j < i}) = k - 1
    BY <1>4
  <2> HIDE DEF R
  <2> QED BY <2>1
<1> HIDE DEF place, R
<1>7. at = [k \in 1 .. C |-> at[k]] /\ \A k \in 1 .. C : at[k] = place(k)
  OBVIOUS
<1>8. Subsequence(bs, S) = [k \in 1 .. C |-> bs[at[k]]]
  BY <1>5
<1> HIDE DEF at
<1>9. /\ C \in Nat
      /\ at \in [1 .. C -> S]
      /\ \A i \in S : \E k \in 1 .. C : at[k] = i
      /\ \A j, k \in 1 .. C : j < k <=> <<at[j], at[k]>> \in R
  <2>1. \A k \in 1 .. C : at[k] = CHOOSE i \in S : Cardinality({j \in S : <<j, i>> \in R}) = k - 1
    BY <1>6, <1>7
  <2> QED BY <1>1, <1>3, <1>7, <2>1, RankSequence, Zenon
<1>10. \A j, k \in 1 .. C : at[j] = at[k] => j = k
  <2> SUFFICES ASSUME NEW j \in 1 .. C, NEW k \in 1 .. C, at[j] = at[k], j # k PROVE FALSE
    OBVIOUS
  <2>1. j < k \/ k < j
    BY <1>9
  <2>2. at[j] \in S /\ at[k] \in S
    BY <1>9
  <2>3. at[j] < at[k] \/ at[k] < at[j]
    BY <2>1, <2>2, <1>9, <1>2
  <2>4. at[j] \in 1 .. n
    BY <2>2, Zenon
  <2> QED BY <2>3, <2>4
<1>11. Takes(Subsequence(bs, S), bs, S, at)
  BY <1>8, <1>9, <1>10 DEF Takes
<1> QED BY <1>11

\* Some elements of a sequence, in its order.
LEMMA SubsequenceType ==
  ASSUME NEW Y, NEW bs \in Seq(Y), NEW S \in SUBSET (1 .. Len(bs))
  PROVE  Subsequence(bs, S) \in Seq(Y)
<1> DEFINE n == Len(bs)
<1>0. n \in Nat /\ bs \in [1 .. n -> Y] /\ S \in SUBSET (1 .. n)
  OBVIOUS
<1> HIDE DEF n
<1>1. PICK at : Takes(Subsequence(bs, S), bs, S, at)
  BY <1>0, SubsequenceIs
<1>2. \A k \in 1 .. Cardinality(S) : bs[at[k]] \in Y
  BY <1>0, <1>1 DEF Takes
<1> QED BY <1>1, <1>2 DEF Takes

-----------------------------------------------------------------------------
(* The forest.                                                             *)

\* A parent is wider than its child.
LEMMA ParentType ==
  ASSUME NEW bs \in Seq(Upright)
  PROVE  \A i \in DOMAIN bs :
           Parents(bs)[i] = 0 \/ (Parents(bs)[i] \in DOMAIN bs /\ Width(bs[Parents(bs)[i]]) > Width(bs[i]))
<1> SUFFICES ASSUME NEW i \in DOMAIN bs
             PROVE  Parents(bs)[i] = 0 \/ (Parents(bs)[i] \in DOMAIN bs /\ Width(bs[Parents(bs)[i]]) > Width(bs[i]))
  OBVIOUS
<1> DEFINE around == {o \in DOMAIN bs \ {i} : Encloses(bs[o], bs[i])}
           smallest == {o \in around : \A p \in around : Width(bs[o]) <= Width(bs[p])}
<1>1. Parents(bs)[i] = IF around = {} THEN 0 ELSE Min(smallest)
  BY DEF Parents
<1>2. CASE around = {}
  BY <1>1, <1>2
<1>3. CASE around # {}
  <2> DEFINE widths == {Width(bs[o]) : o \in around}
  <2>1. DOMAIN bs \subseteq Nat /\ \A o \in DOMAIN bs : bs[o] \in Upright
    OBVIOUS
  <2>2. widths \in SUBSET Nat /\ widths # {}
    BY <1>3, <2>1, WidthType
  <2>3. PICK w \in widths : \A m \in widths : w <= m
    BY <2>2, LeastNatural
  <2>4. smallest # {}
    BY <2>3
  <2>5. smallest \in SUBSET Nat
    BY <2>1
  <2> HIDE DEF smallest, widths
  <2>6. Min(smallest) \in smallest
    BY <2>4, <2>5, MinType
  <2>7. Parents(bs)[i] \in around
    BY <1>1, <1>3, <2>6 DEF smallest
  <2> QED BY <2>1, <2>7, EnclosesWider
<1> QED BY <1>2, <1>3

\* The boxes around a box are wider, and what is around them is around it.
LEMMA ForestType ==
  ASSUME NEW bs \in Seq(Upright), NEW forest, forest = Forest(bs)
  PROVE  /\ DOMAIN forest = DOMAIN bs
         /\ \A i \in DOMAIN bs : forest[i] \subseteq DOMAIN bs
         /\ \A i \in DOMAIN bs : \A a \in forest[i] : Width(bs[a]) > Width(bs[i])
         /\ \A c \in DOMAIN bs : \A b \in forest[c] : forest[b] \subseteq forest[c]
<1> DEFINE upward(i, S) == \A k \in S \cup {i} : Parents(bs)[k] \in S \cup {0}
<1>1. DOMAIN forest = DOMAIN bs
  BY DEF Forest
<1>2. \A i \in DOMAIN bs : forest[i] = {a \in DOMAIN bs : \A S \in SUBSET (DOMAIN bs) : upward(i, S) => a \in S}
  BY Zenon DEF Forest
<1>3. \A i \in DOMAIN bs : Width(bs[i]) \in Nat
  BY WidthType
<1>4. \A i \in DOMAIN bs : \A a \in forest[i] : Width(bs[a]) > Width(bs[i])
  <2> SUFFICES ASSUME NEW i \in DOMAIN bs, NEW a \in forest[i]
               PROVE  Width(bs[a]) > Width(bs[i])
    OBVIOUS
  <2> DEFINE S == {k \in DOMAIN bs : Width(bs[k]) > Width(bs[i])}
  <2>1. upward(i, S)
    BY <1>3, ParentType
  <2>2. S \in SUBSET (DOMAIN bs)
    OBVIOUS
  <2> HIDE DEF S, upward
  <2>3. a \in S
    BY <1>2, <2>1, <2>2
  <2> QED BY <2>3 DEF S
<1>5. \A c \in DOMAIN bs : \A b \in forest[c] : forest[b] \subseteq forest[c]
  <2> SUFFICES ASSUME NEW c \in DOMAIN bs, NEW b \in forest[c], NEW a \in forest[b]
               PROVE  a \in forest[c]
    OBVIOUS
  <2>1. b \in DOMAIN bs
    BY <1>2
  <2>2. a \in DOMAIN bs
    BY <1>2, <2>1
  <2>3. ASSUME NEW S \in SUBSET (DOMAIN bs), upward(c, S) PROVE a \in S
    <3>1. b \in S
      BY <1>2, <2>3
    <3>2. upward(b, S)
      BY <3>1, <2>3
    <3> QED BY <1>2, <2>1, <3>2
  <2> QED BY <1>2, <2>2, <2>3
<1>6. \A i \in DOMAIN bs : forest[i] \subseteq DOMAIN bs
  BY <1>2
<1> QED BY <1>1, <1>4, <1>5, <1>6

-----------------------------------------------------------------------------
(* What composite leaves.                                                  *)

Standing(bs, forest, inspect) ==
  DOMAIN bs \ ((Composites(bs, forest) \ Retained(bs, forest))
               \cup IF inspect THEN {} ELSE {d \in DOMAIN bs : forest[d] \cap Retained(bs, forest) # {}})

ChildrenOf(bs, forest, inspect, i) ==
  IF inspect /\ i \in Retained(bs, forest) THEN Children(forest, Retained(bs, forest), i) ELSE {}

Near(forest, a, b) == a \in forest[b] \/ b \in forest[a]

\* A box that is dropped contains one that is not; with the contents of a kept
\* composite dropped, one that stands is around that.
LEMMA StandingNear ==
  ASSUME NEW bs \in Seq(Upright), NEW forest, forest = Forest(bs), NEW inspect \in BOOLEAN,
         NEW i \in DOMAIN bs, i \notin Standing(bs, forest, inspect)
  PROVE  \E d \in DOMAIN bs, e \in Standing(bs, forest, inspect) :
           (d = i \/ Near(forest, i, d)) /\ (e = d \/ Near(forest, d, e))
<1> DEFINE composites == Composites(bs, forest)
           retained == Retained(bs, forest)
           standing == Standing(bs, forest, inspect)
           inside == {d \in DOMAIN bs : forest[d] \cap retained # {}}
<1>1. /\ DOMAIN forest = DOMAIN bs
      /\ \A k \in DOMAIN bs : forest[k] \subseteq DOMAIN bs
      /\ \A k \in DOMAIN bs : \A a \in forest[k] : Width(bs[a]) > Width(bs[k])
      /\ \A c \in DOMAIN bs : \A b \in forest[c] : forest[b] \subseteq forest[c]
  BY ForestType
<1>2. \A k \in DOMAIN bs : Width(bs[k]) \in Nat
  BY WidthType
<1>3. retained \subseteq composites /\ composites \subseteq DOMAIN bs
  BY DEF Retained, Composites
<1>4. \A k \in DOMAIN bs : k \in standing <=> (k \in composites => k \in retained) /\ (inspect \/ k \notin inside)
  BY DEF Standing
<1> SUFFICES \E d \in DOMAIN bs, e \in standing : (d = i \/ Near(forest, i, d)) /\ (e = d \/ Near(forest, d, e))
  OBVIOUS
<1>8. i \notin standing
  OBVIOUS
<1> HIDE DEF standing, retained
<1>5. ASSUME NEW d \in DOMAIN bs, d \in inside
      PROVE  \E e \in standing : e \in forest[d]
  <2> DEFINE around == forest[d] \cap retained
             widths == {Width(bs[a]) : a \in around}
             short == {w \in Nat : \A v \in widths : v <= w}
  <2>1. around \subseteq DOMAIN bs /\ around # {}
    BY <1>1, <1>5
  <2>2. PICK a \in around : \A c \in around : Width(bs[c]) <= Width(bs[a])
    <3>1. IsFiniteSet(around)
      <4>1. DOMAIN bs = 1 .. Len(bs) /\ Len(bs) \in Nat
        OBVIOUS
      <4>2. IsFiniteSet(DOMAIN bs)
        BY <4>1, FS_Interval
      <4> QED BY <2>1, <4>2, FS_Subset
    <3> DEFINE upto(a) == {c \in around : Width(bs[c]) >= Width(bs[a])}
               X == {upto(a) : a \in around}
    <3> HIDE DEF around
    <3>2. X \in SUBSET SUBSET around /\ X # {}
      <4>1. \A c \in around : upto(c) \in SUBSET around
        OBVIOUS
      <4> HIDE DEF upto
      <4> QED BY <2>1, <4>1
    <3> HIDE DEF X
    <3>3. PICK T \in X : \A U \in X : U \subseteq T => U = T
      BY <3>1, <3>2, FiniteInductive
    <3>4. PICK a \in around : T = upto(a)
      BY DEF X
    <3> USE DEF X
    <3>5. \A c \in around : Width(bs[c]) <= Width(bs[a])
      <4> SUFFICES ASSUME NEW c \in around, Width(bs[c]) > Width(bs[a]) PROVE FALSE
        BY <2>1, <1>2
      <4>1. Width(bs[c]) \in Nat /\ Width(bs[a]) \in Nat
        BY <2>1, <1>2
      <4>2. upto(c) \subseteq upto(a)
        BY <4>1, <2>1, <1>2
      <4>3. upto(c) = upto(a)
        BY <3>3, <3>4, <4>2
      <4>4. a \in upto(a) /\ a \notin upto(c)
        BY <4>1
      <4> QED BY <4>3, <4>4
    <3> QED BY <3>5
  <2>3. a \notin inside
    <3> SUFFICES ASSUME NEW c \in forest[a] \cap retained PROVE FALSE
      BY <2>1
    <3>1. c \in around
      BY <1>1
    <3>2. Width(bs[c]) > Width(bs[a])
      BY <1>1, <2>1
    <3>3. Width(bs[c]) <= Width(bs[a])
      BY <3>1, <2>2
    <3>4. Width(bs[c]) \in Nat /\ Width(bs[a]) \in Nat
      BY <3>1, <2>1, <1>2
    <3> QED BY <3>2, <3>3, <3>4
  <2>4. a \in standing
    BY <1>4, <2>1, <2>3
  <2> QED BY <2>4
<1>6. CASE i \in composites
  <2> DEFINE widths == {Width(bs[d]) : d \in Descendants(forest, i)}
  <2>1. Descendants(forest, i) # {} /\ Descendants(forest, i) \subseteq DOMAIN bs
    BY <1>1, <1>6 DEF Composites, Descendants
  <2>2. widths # {} /\ widths \in SUBSET Nat
    BY <2>1, <1>2
  <2>3. PICK w \in widths : \A v \in widths : w <= v
    BY <2>2, LeastNatural
  <2>4. PICK d \in Descendants(forest, i) : Width(bs[d]) = w
    OBVIOUS
  <2>5. i \in forest[d] /\ d \in DOMAIN bs
    BY <2>1 DEF Descendants
  <2>6. Descendants(forest, d) = {}
    <3> SUFFICES ASSUME NEW e \in Descendants(forest, d) PROVE FALSE
      OBVIOUS
    <3>1. e \in DOMAIN bs /\ d \in forest[e]
      BY <1>1 DEF Descendants
    <3>2. i \in forest[e]
      BY <1>1, <2>5, <3>1
    <3>3. e \in Descendants(forest, i)
      BY <3>1, <3>2, <1>1 DEF Descendants
    <3>4. w <= Width(bs[e])
      BY <2>3, <3>3
    <3>5. Width(bs[d]) > Width(bs[e])
      BY <1>1, <3>1
    <3> QED BY <2>4, <2>5, <3>1, <3>4, <3>5, <1>2
  <2>7. d \notin composites
    BY <2>6 DEF Composites
  <2>8. CASE inspect \/ d \notin inside
    <3>1. d \in standing
      BY <1>4, <2>5, <2>7, <2>8
    <3> QED BY <2>5, <3>1 DEF Near
  <2>9. CASE d \in inside
    BY <1>5, <2>5, <2>9 DEF Near
  <2> QED BY <2>8, <2>9
<1>7. CASE i \notin composites
  <2>1. i \in inside
    BY <1>4, <1>7, <1>8
  <2>2. PICK e \in standing : e \in forest[i]
    BY <1>5, <2>1
  <2> QED BY <2>2 DEF Near
<1> QED BY <1>6, <1>7

\* A formula or a title that is no composite stands.
LEMMA SemanticStands ==
  ASSUME NEW bs, NEW forest, DOMAIN forest = DOMAIN bs, NEW inspect \in BOOLEAN, NEW i \in DOMAIN bs,
         bs[i].type \in Semantic \ Outer
  PROVE  /\ i \in Standing(bs, forest, inspect)
         /\ i \notin Retained(bs, forest)
         /\ \A c \in Retained(bs, forest) : i \notin Descendants(forest, c)
<1>1. i \notin Composites(bs, forest)
  BY DEF Composites
<1>2. \A c \in Retained(bs, forest) : i \notin Descendants(forest, c)
  BY DEF Retained
<1>3. forest[i] \cap Retained(bs, forest) = {}
  BY <1>2 DEF Descendants
<1> QED BY <1>1, <1>2, <1>3 DEF Standing, Retained

-----------------------------------------------------------------------------
(* The boxes to recognise.                                                 *)

Indices(cs) == {cs[k].index : k \in DOMAIN cs}

\* They are different boxes of n, with the children that the forest gives them; without
\* inspect_inner_text nothing in a kept composite is among them.
Sound(cs, bs, forest, inspect, n) ==
  /\ cs \in Seq([index : 1 .. n, children : SUBSET (DOMAIN bs)])
  /\ \A j, k \in DOMAIN cs : cs[j].index = cs[k].index => j = k
  /\ \A k \in DOMAIN cs : cs[k].children = ChildrenOf(bs, forest, inspect, cs[k].index)
  /\ inspect \/ \A c \in Retained(bs, forest) : Descendants(forest, c) \cap Indices(cs) = {}

\* Children are found inside a box that stays, and never inside themselves.
LEMMA ChildrenType ==
  ASSUME NEW bs \in Seq(Upright), NEW forest, forest = Forest(bs), NEW inspect \in BOOLEAN, NEW i
  PROVE  /\ ChildrenOf(bs, forest, inspect, i) \subseteq DOMAIN bs
         /\ \A d \in ChildrenOf(bs, forest, inspect, i) :
              inspect /\ i \in Retained(bs, forest) /\ i \in DOMAIN bs /\ i \in forest[d] /\ d # i
         /\ i \notin Retained(bs, forest) => ChildrenOf(bs, forest, inspect, i) = {}
<1>1. DOMAIN forest = DOMAIN bs
  BY ForestType
<1>2. \A k \in DOMAIN bs : \A a \in forest[k] : Width(bs[a]) > Width(bs[k]) /\ Width(bs[k]) \in Nat
  BY ForestType, WidthType
<1>3. Retained(bs, forest) \subseteq DOMAIN bs
  BY DEF Retained, Composites
<1>4. ASSUME NEW d \in ChildrenOf(bs, forest, inspect, i)
      PROVE  d \in DOMAIN bs /\ inspect /\ i \in Retained(bs, forest) /\ i \in DOMAIN bs /\ i \in forest[d] /\ d # i
  <2>1. inspect /\ i \in Retained(bs, forest) /\ d \in Children(forest, Retained(bs, forest), i)
    BY <1>4 DEF ChildrenOf
  <2>2. d \in DOMAIN bs /\ i \in forest[d]
    BY <2>1, <1>1 DEF Children, Descendants
  <2>3. ~(Width(bs[d]) > Width(bs[d]))
    BY <2>2, <1>2
  <2> QED BY <1>2, <1>3, <2>1, <2>2, <2>3
<1>5. i \notin Retained(bs, forest) => ChildrenOf(bs, forest, inspect, i) = {}
  BY DEF ChildrenOf
<1> QED BY <1>4, <1>5

\* What is to be recognised are the boxes that stand, each once, with its children.
LEMMA ExpandedIs ==
  ASSUME NEW bs \in Seq(Upright), NEW forest, forest = Forest(bs), NEW inspect \in BOOLEAN
  PROVE  /\ Expanded(bs, forest, inspect) \in Seq([index : DOMAIN bs, children : SUBSET (DOMAIN bs)])
         /\ Indices(Expanded(bs, forest, inspect)) = Standing(bs, forest, inspect)
         /\ \A j, k \in DOMAIN Expanded(bs, forest, inspect) :
              Expanded(bs, forest, inspect)[j].index = Expanded(bs, forest, inspect)[k].index => j = k
         /\ \A k \in DOMAIN Expanded(bs, forest, inspect) :
              Expanded(bs, forest, inspect)[k].children
                = ChildrenOf(bs, forest, inspect, Expanded(bs, forest, inspect)[k].index)
<1> DEFINE n == Len(bs)
           S == Standing(bs, forest, inspect)
           all == [i \in DOMAIN bs |-> [index |-> i, children |-> ChildrenOf(bs, forest, inspect, i)]]
           es == Expanded(bs, forest, inspect)
<1>1. es = Subsequence(all, S)
  BY Zenon DEF Expanded, Standing, ChildrenOf
<1>2. n \in Nat /\ DOMAIN bs = 1 .. n
  OBVIOUS
<1>3. S \in SUBSET (1 .. n)
  BY <1>2 DEF Standing
<1>4. \A i \in DOMAIN bs :
        all[i].index = i /\ all[i].children = ChildrenOf(bs, forest, inspect, i)
        /\ all[i] \in [index : DOMAIN bs, children : SUBSET (DOMAIN bs)]
  BY ChildrenType
<1> HIDE DEF n, S, all, es
<1>5. PICK at : Takes(es, all, S, at)
  BY <1>1, <1>2, <1>3, SubsequenceIs
<1>6. DOMAIN es = 1 .. Cardinality(S) /\ Cardinality(S) \in Nat
  BY <1>5 DEF Takes
<1>7. \A k \in DOMAIN es : at[k] \in S /\ at[k] \in DOMAIN bs /\ es[k] = all[at[k]]
  BY <1>2, <1>3, <1>5 DEF Takes
<1>8. \A k \in DOMAIN es : es[k].index = at[k] /\ es[k].children = ChildrenOf(bs, forest, inspect, es[k].index)
  BY <1>4, <1>7
<1>9. es \in Seq([index : DOMAIN bs, children : SUBSET (DOMAIN bs)])
  <2>1. es = [k \in 1 .. Cardinality(S) |-> es[k]]
    BY <1>5 DEF Takes
  <2> DEFINE Entry == [index : DOMAIN bs, children : SUBSET (DOMAIN bs)]
  <2>2. \A k \in 1 .. Cardinality(S) : es[k] \in Entry
    BY <1>4, <1>6, <1>7
  <2> HIDE DEF Entry
  <2>3. es \in Seq(Entry)
    BY <1>6, <2>1, <2>2
  <2> QED BY <2>3 DEF Entry
<1>10. Indices(es) = S
  <2>1. \A i \in S : \E k \in DOMAIN es : at[k] = i
    BY <1>5, <1>6 DEF Takes
  <2> QED BY <1>7, <1>8, <2>1 DEF Indices
<1>11. \A j, k \in DOMAIN es : es[j].index = es[k].index => j = k
  BY <1>5, <1>6, <1>8 DEF Takes
<1> QED BY <1>8, <1>9, <1>10, <1>11 DEF es, S

\* What a concatenation holds, and where.
LEMMA Concatenation ==
  ASSUME NEW Y, NEW es \in Seq(Y), NEW rs \in Seq(Y)
  PROVE  /\ es \o rs \in Seq(Y)
         /\ DOMAIN (es \o rs) = 1 .. Len(es) + Len(rs)
         /\ Len(es) \in Nat /\ Len(rs) \in Nat
         /\ \A k \in 1 .. Len(es) : (es \o rs)[k] = es[k]
         /\ \A k \in 1 .. Len(rs) : (es \o rs)[Len(es) + k] = rs[k]
  OBVIOUS

\* With the boxes that were extra again.
LEMMA Listing ==
  ASSUME NEW bs \in Seq(Upright), NEW forest, forest = Forest(bs), NEW inspect \in BOOLEAN,
         NEW extra \in Seq(Upright)
  PROVE  /\ Sound(Contenders(bs, forest, inspect, extra), bs, forest, inspect, Len(bs) + Len(extra))
         /\ Indices(Contenders(bs, forest, inspect, extra))
              = Standing(bs, forest, inspect) \cup (Len(bs) + 1 .. Len(bs) + Len(extra))
<1> DEFINE n == Len(bs)
           m == Len(extra)
           es == Expanded(bs, forest, inspect)
           rs == [k \in DOMAIN extra |-> [index |-> n + k, children |-> {}]]
           cs == Contenders(bs, forest, inspect, extra)
           Entry == [index : 1 .. n + m, children : SUBSET (DOMAIN bs)]
           S == Standing(bs, forest, inspect)
<1>1. n \in Nat /\ DOMAIN bs = 1 .. n /\ m \in Nat /\ DOMAIN extra = 1 .. m
  OBVIOUS
<1>2. /\ es \in Seq([index : DOMAIN bs, children : SUBSET (DOMAIN bs)])
      /\ Indices(es) = S
      /\ \A j, k \in DOMAIN es : es[j].index = es[k].index => j = k
      /\ \A k \in DOMAIN es : es[k].children = ChildrenOf(bs, forest, inspect, es[k].index)
  BY ExpandedIs, ZenonT(60)
<1>6. cs = es \o rs
  BY DEF Contenders
<1>3. \A k \in 1 .. m : rs[k].index = n + k /\ rs[k].children = {} /\ rs[k] \in Entry
  BY <1>1
<1> HIDE DEF m, n, cs
<1>4. rs \in Seq(Entry) /\ DOMAIN rs = 1 .. m /\ Len(rs) = m
  <2>1. rs = [k \in 1 .. m |-> rs[k]]
    BY <1>1
  <2> HIDE DEF rs, Entry
  <2> QED BY <1>1, <1>3, <2>1
<1>5. es \in Seq(Entry) /\ \A k \in DOMAIN es : es[k].index \in 1 .. n
  <2> DEFINE A == [index : DOMAIN bs, children : SUBSET (DOMAIN bs)]
  <2>1. \A e \in A : e \in Entry /\ e.index \in 1 .. n
    BY <1>1
  <2>2. es \in Seq(A)
    BY <1>2
  <2> HIDE DEF Entry, es, A
  <2> QED BY <2>1, <2>2
<1> HIDE DEF es, rs, S, Entry
<1> DEFINE l == Len(es)
<1>7. /\ cs \in Seq(Entry)
      /\ DOMAIN cs = 1 .. l + m
      /\ l \in Nat
      /\ \A k \in 1 .. l : cs[k] = es[k]
      /\ \A k \in 1 .. m : cs[l + k] = rs[k]
  BY <1>4, <1>5, <1>6, Concatenation
<1>8. l \in Nat /\ DOMAIN es = 1 .. l
  BY <1>5
<1> HIDE DEF l
<1>9. DOMAIN cs = 1 .. l + m
  BY <1>7
<1>10. \A k \in 1 .. l : cs[k] = es[k]
  BY <1>7
<1>11. \A k \in l + 1 .. l + m : cs[k] = rs[k - l] /\ k - l \in 1 .. m
  <2> TAKE k \in l + 1 .. l + m
  <2> DEFINE j == k - l
  <2>1. j \in 1 .. m /\ k = l + j
    BY <1>1, <1>8
  <2> HIDE DEF j
  <2>2. cs[k] = rs[j]
    BY <1>7, <2>1
  <2> QED BY <2>1, <2>2 DEF j
<1>12. \A k \in 1 .. l : cs[k] = es[k] /\ es[k].index \in 1 .. n
  BY <1>5, <1>8, <1>10
<1>14. \A k \in l + 1 .. l + m : cs[k].index = n + (k - l) /\ cs[k].children = {}
  BY <1>3, <1>11
<1>20. \A k \in DOMAIN cs : k \in 1 .. l \/ k \in l + 1 .. l + m
  BY <1>8, <1>9
<1>13. \A k \in 1 .. l : cs[k].index \in S /\ cs[k].index \in 1 .. n
                         /\ cs[k].children = ChildrenOf(bs, forest, inspect, cs[k].index)
  BY <1>2, <1>8, <1>12 DEF Indices
<1>15. \A k \in l + 1 .. l + m : cs[k].index \in n + 1 .. n + m
  BY <1>1, <1>8, <1>11, <1>14
<1>16. \A j, k \in DOMAIN cs : cs[j].index = cs[k].index => j = k
  <2> SUFFICES ASSUME NEW j \in DOMAIN cs, NEW k \in DOMAIN cs, cs[j].index = cs[k].index PROVE j = k
    OBVIOUS
  <2>1. CASE j \in 1 .. l /\ k \in 1 .. l
    BY <2>1, <1>2, <1>8, <1>12
  <2>2. CASE j \in l + 1 .. l + m /\ k \in l + 1 .. l + m
    BY <2>2, <1>1, <1>8, <1>14
  <2>3. CASE j \in 1 .. l /\ k \in l + 1 .. l + m
    BY <2>3, <1>1, <1>13, <1>15
  <2>4. CASE k \in 1 .. l /\ j \in l + 1 .. l + m
    BY <2>4, <1>1, <1>13, <1>15
  <2> QED BY <1>20, <2>1, <2>2, <2>3, <2>4
<1>17. \A k \in DOMAIN cs : cs[k].children = ChildrenOf(bs, forest, inspect, cs[k].index)
  <2> TAKE k \in DOMAIN cs
  <2>1. CASE k \in 1 .. l
    BY <2>1, <1>13
  <2>2. CASE k \in l + 1 .. l + m
    <3>1. cs[k].index \notin DOMAIN bs
      BY <1>1, <1>15, <2>2
    <3>2. cs[k].index \notin Retained(bs, forest)
      BY <3>1 DEF Retained, Composites
    <3> QED BY <1>14, <2>2, <3>2 DEF ChildrenOf
  <2> QED BY <1>20, <2>1, <2>2
<1>18. Indices(cs) = S \cup (n + 1 .. n + m)
  <2>1. Indices(cs) \subseteq S \cup (n + 1 .. n + m)
    BY <1>20, <1>13, <1>15 DEF Indices
  <2>2. S \subseteq Indices(cs)
    <3> SUFFICES ASSUME NEW i \in S PROVE i \in Indices(cs)
      OBVIOUS
    <3>1. PICK k \in DOMAIN es : es[k].index = i
      BY <1>2 DEF Indices
    <3>2. k \in DOMAIN cs /\ cs[k].index = i
      BY <1>1, <1>8, <1>9, <1>12, <3>1
    <3> QED BY <3>2 DEF Indices
  <2>3. n + 1 .. n + m \subseteq Indices(cs)
    <3> SUFFICES ASSUME NEW i \in n + 1 .. n + m PROVE i \in Indices(cs)
      OBVIOUS
    <3> DEFINE k == l + (i - n)
    <3>1. k \in l + 1 .. l + m /\ n + (k - l) = i /\ k \in DOMAIN cs
      BY <1>1, <1>8, <1>9
    <3> HIDE DEF k
    <3>2. cs[k].index = i
      BY <1>14, <3>1
    <3> QED BY <3>1, <3>2 DEF Indices
  <2> QED BY <2>1, <2>2, <2>3
<1>19. inspect \/ \A c \in Retained(bs, forest) : Descendants(forest, c) \cap Indices(cs) = {}
  <2> SUFFICES ASSUME ~inspect, NEW c \in Retained(bs, forest), NEW d \in Descendants(forest, c), d \in Indices(cs)
               PROVE  FALSE
    OBVIOUS
  <2>1. d \in DOMAIN bs /\ c \in forest[d]
    BY ForestType DEF Descendants
  <2>2. d \notin S
    BY <2>1 DEF Standing, S
  <2>3. d \notin n + 1 .. n + m
    BY <1>1, <2>1
  <2> QED BY <1>18, <2>2, <2>3
<1> QED BY <1>7, <1>16, <1>17, <1>18, <1>19 DEF Sound, n, m, S, Entry, cs

\* Some of them.
LEMMA SomeSound ==
  ASSUME NEW bs \in Seq(Upright), NEW forest, NEW inspect \in BOOLEAN, NEW n \in Nat,
         NEW cs, Sound(cs, bs, forest, inspect, n), NEW S \in SUBSET (DOMAIN cs)
  PROVE  /\ Sound(Subsequence(cs, S), bs, forest, inspect, n)
         /\ Indices(Subsequence(cs, S)) = {cs[k].index : k \in S}
<1> DEFINE Entry == [index : 1 .. n, children : SUBSET (DOMAIN bs)]
           l == Len(cs)
           ss == Subsequence(cs, S)
<1>1. cs \in Seq(Entry) /\ l \in Nat /\ S \in SUBSET (1 .. l) /\ cs \in [1 .. l -> Entry]
  <2>1. cs \in Seq(Entry)
    BY DEF Sound
  <2> HIDE DEF Entry
  <2> QED BY <2>1
<1> HIDE DEF Entry, l, ss
<1>2. PICK at : Takes(ss, cs, S, at)
  BY <1>1, SubsequenceIs DEF ss
<1>3. DOMAIN ss = 1 .. Cardinality(S) /\ Cardinality(S) \in Nat
  BY <1>2 DEF Takes
<1>4. \A k \in DOMAIN ss : at[k] \in S /\ at[k] \in DOMAIN cs /\ ss[k] = cs[at[k]]
  BY <1>2 DEF Takes
<1>5. Indices(ss) = {cs[k].index : k \in S}
  <2>1. \A i \in S : \E k \in DOMAIN ss : at[k] = i
    BY <1>2, <1>3 DEF Takes
  <2> QED BY <1>4, <2>1 DEF Indices
<1>6. ss \in Seq(Entry)
  BY <1>1, SubsequenceType DEF ss, l
<1>7. \A j, k \in DOMAIN ss : ss[j].index = ss[k].index => j = k
  <2>1. \A j, k \in DOMAIN cs : cs[j].index = cs[k].index => j = k
    BY DEF Sound
  <2> QED BY <1>2, <1>3, <1>4, <2>1 DEF Takes
<1>8. \A k \in DOMAIN ss : ss[k].children = ChildrenOf(bs, forest, inspect, ss[k].index)
  BY <1>4 DEF Sound
<1>9. Indices(ss) \subseteq Indices(cs)
  BY <1>5 DEF Indices
<1>10. inspect \/ \A c \in Retained(bs, forest) : Descendants(forest, c) \cap Indices(ss) = {}
  BY <1>9 DEF Sound
<1> QED BY <1>5, <1>6, <1>7, <1>8, <1>10 DEF Sound, Entry, ss

-----------------------------------------------------------------------------
(* What gives way to what.                                                 *)

Links(page, n, forest, overlap) ==
  {p \in (DOMAIN page) \X (DOMAIN page) :
     \/ overlap /\ SamePlace(page[p[1]], page[p[2]])
     \/ p[1] \in 1 .. n /\ p[2] \in 1 .. n /\ Near(forest, p[1], p[2])}

\* In a set of X that nothing links to the rest of X there is one of T.
Represented(X, G, T) ==
  \A S \in SUBSET X : (\A a \in X \ S, b \in S : <<a, b>> \notin G) => S = {} \/ S \cap T # {}

\* That remains so if for each of T another one is near.
LEMMA StillRepresented ==
  ASSUME NEW X, NEW G, NEW T, NEW U, Represented(X, G, T),
         \A t \in T \cap X : \E d \in X, e \in U \cap X : (d = t \/ <<d, t>> \in G) /\ (e = d \/ <<e, d>> \in G)
  PROVE  Represented(X, G, U)
<1> SUFFICES ASSUME NEW S \in SUBSET X, \A a \in X \ S, b \in S : <<a, b>> \notin G, S # {}
             PROVE  S \cap U # {}
  BY DEF Represented
<1>1. PICK t \in S : t \in T
  BY DEF Represented
<1>2. PICK d \in X, e \in U \cap X : (d = t \/ <<d, t>> \in G) /\ (e = d \/ <<e, d>> \in G)
  BY <1>1
<1>3. d \in S
  BY <1>2
<1>4. e \in S
  BY <1>2, <1>3
<1> QED BY <1>2, <1>4

-----------------------------------------------------------------------------
(* overlap.                                                                *)

\* One of a box and its rivals wins; the others lose against one that remains, or
\* against the box, which itself loses against one that remains.
LEMMA DuelLosers ==
  ASSUME NEW page, NEW cs, Len(cs) \in Nat, NEW i \in 1 .. Len(cs), NEW removed, i \notin removed
  PROVE  LET losers == Duels(page, cs, i, removed)
             same(j, k) == j # k /\ (SamePlace(page[cs[j].index], page[cs[k].index])
                                     \/ SamePlace(page[cs[k].index], page[cs[j].index]))
         IN  /\ losers \subseteq 1 .. Len(cs)
             /\ \A j \in losers : \E k \in 1 .. Len(cs) : same(j, k)
             /\ \A j \in losers :
                  \E d \in 1 .. Len(cs), e \in (1 .. Len(cs)) \ (removed \cup losers) :
                    (d = j \/ same(j, d)) /\ (e = d \/ same(d, e))
<1> DEFINE losers == Duels(page, cs, i, removed)
           box(k) == page[cs[k].index]
           same(j, k) == j # k /\ (SamePlace(page[cs[j].index], page[cs[k].index])
                                   \/ SamePlace(page[cs[k].index], page[cs[j].index]))
           rivals == {j \in i + 1 .. Len(cs) : j \notin removed /\ SamePlace(box(i), box(j)) /\ ~Related(cs[i], cs[j])}
           better == {j \in rivals : ~Wins(box(i), box(j))}
<1>1. losers = IF better = {} THEN rivals ELSE {j \in rivals : j < Min(better)} \cup {i}
  BY Zenon DEF Duels
<1>2. \A j \in rivals : j \in 1 .. Len(cs) /\ j # i /\ j \notin removed /\ same(j, i) /\ same(i, j)
  OBVIOUS
<1>3. better \subseteq rivals
  OBVIOUS
<1> HIDE DEF rivals, better, same, losers
<1>4. CASE better = {}
  <2>1. losers = rivals
    BY <1>1, <1>4
  <2>2. i \in (1 .. Len(cs)) \ (removed \cup losers)
    BY <1>2, <2>1
  <2> QED BY <1>2, <2>1, <2>2 DEF losers, same
<1>5. CASE better # {}
  <2>1. better \in SUBSET Nat
    BY <1>2, <1>3
  <2>2. Min(better) \in better
    BY <1>5, <2>1, MinType
  <2> DEFINE m == Min(better)
  <2>3. m \in Nat
    BY <2>1, <2>2
  <2>4. losers = {j \in rivals : j < m} \cup {i}
    BY <1>1, <1>5
  <2>5. m \in rivals
    BY <1>3, <2>2
  <2> HIDE DEF m
  <2>6. m \notin losers
    BY <1>2, <2>3, <2>4, <2>5
  <2>7. m \in (1 .. Len(cs)) \ (removed \cup losers) /\ same(i, m)
    BY <1>2, <2>5, <2>6
  <2>8. losers \subseteq 1 .. Len(cs) /\ \A j \in losers : j = i \/ same(j, i)
    BY <1>2, <2>4
  <2> QED BY <2>7, <2>8 DEF losers, same
<1> QED BY <1>4, <1>5

\* After the duels of the first boxes each of those that lost is represented.
LEMMA Deduplicated ==
  ASSUME NEW page \in Seq(Upright), NEW G, NEW cs, Len(cs) \in Nat, DOMAIN cs = 1 .. Len(cs),
         \A k \in DOMAIN cs : cs[k].index \in DOMAIN page,
         \A a, b \in DOMAIN page : SamePlace(page[a], page[b]) => <<a, b>> \in G,
         Represented(DOMAIN page, G, Indices(cs))
  PROVE  \E R \in SUBSET (DOMAIN cs) :
           /\ Deduplicate(page, cs) = Subsequence(cs, DOMAIN cs \ R)
           /\ Represented(DOMAIN page, G, {cs[k].index : k \in DOMAIN cs \ R})
           /\ \A j \in R : \E k \in DOMAIN cs \ {j} : SamePlace(page[cs[j].index], page[cs[k].index])
<1> DEFINE N == Len(cs)
           Y == SUBSET (1 .. N)
           Then(k, S) == IF k \in S THEN S ELSE S \cup Duels(page, cs, k, S)
           step == [p \in (1 .. N) \X Y |-> Then(p[1], p[2])]
           Body(g) == [k \in 0 .. N |-> IF k = 0 THEN {}
                                        ELSE IF k \in g[k - 1] THEN g[k - 1]
                                        ELSE g[k - 1] \cup Duels(page, cs, k, g[k - 1])]
           removed == CHOOSE g : g = Body(g)
           same(j, k) == j # k /\ SamePlace(page[cs[j].index], page[cs[k].index])
           left(S) == {cs[k].index : k \in DOMAIN cs \ S}
<1>1. N \in Nat /\ DOMAIN cs = 1 .. N
  OBVIOUS
<1>2. \A j, k \in 1 .. N : SamePlace(page[cs[j].index], page[cs[k].index])
                           => SamePlace(page[cs[k].index], page[cs[j].index])
  <2>1. \A a \in DOMAIN page : page[a] \in Upright
    OBVIOUS
  <2> QED BY <2>1, SamePlaceSymmetric
<1>3. \A k \in 1 .. N, S \in Y : k \notin S =>
        LET losers == Duels(page, cs, k, S)
        IN  /\ losers \subseteq 1 .. N
            /\ \A j \in losers : \E d \in 1 .. N : same(j, d)
            /\ \A j \in losers : \E d \in 1 .. N, e \in (1 .. N) \ (S \cup losers) :
                 (d = j \/ same(j, d)) /\ (e = d \/ same(d, e))
  <2> TAKE k \in 1 .. N, S \in Y
  <2> HAVE k \notin S
  <2> DEFINE losers == Duels(page, cs, k, S)
             mutual(i, j) == i # j /\ (SamePlace(page[cs[i].index], page[cs[j].index])
                                       \/ SamePlace(page[cs[j].index], page[cs[i].index]))
  <2>1. /\ losers \subseteq 1 .. N
        /\ \A j \in losers : \E d \in 1 .. N : mutual(j, d)
        /\ \A j \in losers : \E d \in 1 .. N, e \in (1 .. N) \ (S \cup losers) :
             (d = j \/ mutual(j, d)) /\ (e = d \/ mutual(d, e))
    BY DuelLosers
  <2>2. \A i, j \in 1 .. N : mutual(i, j) => same(i, j)
    BY <1>2
  <2> HIDE DEF losers, mutual, same, N
  <2>3. \A j \in losers : \E d \in 1 .. N : same(j, d)
    BY <2>1, <2>2
  <2>4. \A j \in losers : \E d \in 1 .. N, e \in (1 .. N) \ (S \cup losers) :
          (d = j \/ same(j, d)) /\ (e = d \/ same(d, e))
    BY <2>1, <2>2
  <2> QED BY <2>1, <2>3, <2>4 DEF losers
<1>4. Deduplicate(page, cs) = Subsequence(cs, DOMAIN cs \ removed[N])
  BY Zenon DEF Deduplicate
<1> HIDE DEF N, removed
<1>5. \A k \in 1 .. N, S \in Y : Then(k, S) \in Y
  BY <1>3
<1>6. step \in [(1 .. N) \X Y -> Y]
  BY <1>5
<1>7. PICK g \in [0 .. N -> Y] : g[0] = {} /\ \A k \in 1 .. N : g[k] = step[<<k, g[k - 1]>>]
  <2>1. {} \in Y
    OBVIOUS
  <2> HIDE DEF Y, step
  <2>2. \E g : Recurs(g, N, Y, {}, step)
    BY <1>1, <1>6, <2>1, RecursionExists
  <2> QED BY <2>2 DEF Recurs
<1>8. \A k \in 1 .. N : k - 1 \in 0 .. N /\ g[k - 1] \in Y /\ g[k] = Then(k, g[k - 1])
  <2> TAKE k \in 1 .. N
  <2>1. k - 1 \in 0 .. N
    BY <1>1
  <2>2. g[k - 1] \in Y
    BY <2>1
  <2>3. step[<<k, g[k - 1]>>] = Then(k, g[k - 1])
    BY <2>2
  <2> QED BY <1>7, <2>1, <2>2, <2>3
<1>9. g = Body(g)
  <2>1. g = [k \in 0 .. N |-> g[k]]
    OBVIOUS
  <2>2. \A k \in 0 .. N : g[k] = Body(g)[k]
    <3> TAKE k \in 0 .. N
    <3>1. CASE k = 0
      BY <3>1, <1>7
    <3>2. CASE k # 0
      <4>1. k \in 1 .. N
        BY <3>2, <1>1
      <4> QED BY <1>8, <3>2, <4>1
    <3> QED BY <3>1, <3>2
  <2>3. Body(g) = [k \in 0 .. N |-> Body(g)[k]]
    OBVIOUS
  <2> HIDE DEF Body
  <2> QED BY <2>1, <2>2, <2>3
<1>10. removed = Body(removed)
  <2> HIDE DEF Body
  <2> QED BY <1>9 DEF removed
<1>11. removed[0] = {} /\ \A k \in 1 .. N : removed[k] = Then(k, removed[k - 1])
  <2>1. removed[0] = {}
    BY <1>1, <1>10
  <2>2. ASSUME NEW k \in 1 .. N PROVE removed[k] = Then(k, removed[k - 1])
    <3>1. k \in 0 .. N /\ k # 0
      BY <1>1
    <3>2. Body(removed)[k] = Then(k, removed[k - 1])
      BY <3>1
    <3> HIDE DEF Body, Then
    <3> QED BY <1>10, <3>2
  <2> QED BY <2>1, <2>2
<1> HIDE DEF Body, step
<1> DEFINE Fair(S) == /\ S \in Y
                      /\ Represented(DOMAIN page, G, left(S))
                      /\ \A j \in S : \E k \in 1 .. N : same(j, k)
<1>12. Fair({})
  <2>1. left({}) = Indices(cs)
    BY DEF Indices
  <2> QED BY <2>1
<1>13. ASSUME NEW k \in 1 .. N, NEW S, Fair(S) PROVE Fair(Then(k, S))
  <2> DEFINE losers == Duels(page, cs, k, S)
  <2>1. CASE k \in S
    BY <1>13, <2>1
  <2>2. CASE k \notin S
    <3>1. /\ losers \subseteq 1 .. N
          /\ \A j \in losers : \E d \in 1 .. N : same(j, d)
          /\ \A j \in losers : \E d \in 1 .. N, e \in (1 .. N) \ (S \cup losers) :
               (d = j \/ same(j, d)) /\ (e = d \/ same(d, e))
      BY <1>3, <1>13, <2>2
    <3>2. Then(k, S) = S \cup losers
      BY <2>2
    <3> HIDE DEF losers, Then
    <3>3. \A i, j \in 1 .. N : same(i, j) => <<cs[j].index, cs[i].index>> \in G
      BY <1>1, <1>2
    <3>4. \A i \in 1 .. N : cs[i].index \in DOMAIN page
      BY <1>1
    <3>5. Represented(DOMAIN page, G, left(S \cup losers))
      <4> DEFINE T == left(S)
                 U == left(S \cup losers)
                 near(t, d, e) == (d = t \/ <<d, t>> \in G) /\ (e = d \/ <<e, d>> \in G)
      <4>1. \A j \in (1 .. N) \ (S \cup losers) : cs[j].index \in U
        BY <1>1
      <4>2. \A t \in T : \E j \in (1 .. N) \ S : t = cs[j].index
        BY <1>1
      <4> HIDE DEF U, T, same
      <4>3. \A t \in T : \E d \in DOMAIN page, e \in U \cap DOMAIN page : near(t, d, e)
        <5> TAKE t \in T
        <5>1. PICK j \in (1 .. N) \ S : t = cs[j].index
          BY <4>2
        <5>2. CASE j \in losers
          <6>1. PICK d \in 1 .. N, e \in (1 .. N) \ (S \cup losers) :
                  (d = j \/ same(j, d)) /\ (e = d \/ same(d, e))
            BY <3>1, <5>2
          <6>2. near(t, cs[d].index, cs[e].index)
            BY <3>3, <5>1, <6>1
          <6>3. cs[d].index \in DOMAIN page /\ cs[e].index \in U \cap DOMAIN page
            BY <3>4, <4>1
          <6> QED BY <6>2, <6>3
        <5>3. CASE j \notin losers
          <6>1. near(t, t, t) /\ t \in U /\ t \in DOMAIN page
            BY <3>4, <4>1, <5>1, <5>3
          <6> QED BY <6>1
        <5> QED BY <5>2, <5>3
      <4>4. Represented(DOMAIN page, G, T)
        BY <1>13 DEF T
      <4>5. Represented(DOMAIN page, G, U)
        <5>1. \A t \in T \cap DOMAIN page : \E d \in DOMAIN page, e \in U \cap DOMAIN page :
                (d = t \/ <<d, t>> \in G) /\ (e = d \/ <<e, d>> \in G)
          BY <4>3
        <5> QED BY <4>4, <5>1, StillRepresented
      <4> QED BY <4>5 DEF U
    <3> HIDE DEF left, same
    <3>6. \A j \in S \cup losers : \E d \in 1 .. N : same(j, d)
      BY <1>13, <3>1
    <3> QED BY <1>13, <3>1, <3>2, <3>5, <3>6
  <2> QED BY <2>1, <2>2
<1> HIDE DEF Fair, Then
<1>14. \A k \in 0 .. N : Fair(removed[k])
  <2> DEFINE T == {k \in Nat : k <= N => Fair(removed[k])}
  <2>1. 0 \in T
    BY <1>11, <1>12
  <2>2. \A k \in Nat : k \in T => k + 1 \in T
    <3> SUFFICES ASSUME NEW k \in Nat, k \in T, k + 1 <= N PROVE Fair(removed[k + 1])
      OBVIOUS
    <3>1. k + 1 \in 1 .. N /\ (k + 1) - 1 = k /\ k <= N
      BY <1>1
    <3>2. Fair(removed[k])
      BY <3>1
    <3>3. removed[k + 1] = Then(k + 1, removed[k])
      BY <1>11, <3>1
    <3> QED BY <1>13, <3>1, <3>2, <3>3
  <2> HIDE DEF T
  <2>3. Nat \subseteq T
    BY <2>1, <2>2, NatInductive
  <2> QED BY <1>1, <2>3 DEF T
<1>15. Fair(removed[N])
  BY <1>1, <1>14
<1>16. removed[N] \in SUBSET (DOMAIN cs) /\ Represented(DOMAIN page, G, left(removed[N]))
       /\ \A j \in removed[N] : \E k \in DOMAIN cs \ {j} : SamePlace(page[cs[j].index], page[cs[k].index])
  BY <1>1, <1>15 DEF Fair
<1> QED BY <1>4, <1>16

-----------------------------------------------------------------------------
(* finalize_composite_page()                                               *)

\* What a composite decides: its contents or itself, and one of these remains.
LEMMA DecideType ==
  ASSUME NEW n, Sound(chosen, boxes, ancestors, settings.inspect, n), boxes \in Seq(Upright),
         ancestors = Forest(boxes), settings.inspect \in BOOLEAN,
         NEW S \in SUBSET (DOMAIN chosen), NEW p \in DOMAIN chosen \ S
  PROVE  /\ S \subseteq Decide(p, S) /\ Decide(p, S) \subseteq DOMAIN chosen
         /\ p \in Decide(p, S) \/ Inside(p) \subseteq Decide(p, S)
         /\ \A k \in Decide(p, S) \ S :
              /\ k = p \/ k \in Inside(p)
              /\ \E d \in DOMAIN chosen \ Decide(p, S) :
                   chosen[d].index \in DOMAIN boxes /\ Near(ancestors, chosen[k].index, chosen[d].index)
         /\ Inside(p) # {} => chosen[p].index \in Retained(boxes, ancestors)
         /\ \A k \in Inside(p) : chosen[k].index \in Descendants(ancestors, chosen[p].index)
<1>1. chosen[p].children = ChildrenOf(boxes, ancestors, settings.inspect, chosen[p].index)
  BY DEF Sound
<1>2. \A d \in chosen[p].children :
        /\ d \in DOMAIN boxes /\ chosen[p].index \in Retained(boxes, ancestors) /\ chosen[p].index \in ancestors[d]
        /\ d # chosen[p].index
  BY <1>1, ChildrenType
<1>3. p \notin Inside(p) /\ Inside(p) \subseteq DOMAIN chosen
  BY <1>2 DEF Inside
<1>4. DOMAIN ancestors = DOMAIN boxes
  BY ForestType
<1>5. \A k \in Inside(p) : /\ chosen[p].index \in ancestors[chosen[k].index]
                           /\ chosen[k].index \in Descendants(ancestors, chosen[p].index)
                           /\ chosen[p].index \in Retained(boxes, ancestors)
                           /\ chosen[k].index \in DOMAIN boxes /\ chosen[p].index \in DOMAIN boxes
  BY <1>2, <1>4 DEF Inside, Descendants, Retained, Composites
<1> DEFINE inner == Inside(p) \ S
<1>6. CASE \E k \in inner : Uncovered(p, k)
  <2>1. Decide(p, S) = S \cup {p}
    BY <1>6 DEF Decide
  <2>2. PICK k \in inner : TRUE
    BY <1>6
  <2>3. k \in DOMAIN chosen \ Decide(p, S) /\ Near(ancestors, chosen[p].index, chosen[k].index)
        /\ chosen[k].index \in DOMAIN boxes
    BY <1>3, <1>5, <2>1 DEF Near
  <2> QED BY <1>3, <1>5, <2>1, <2>3
<1>7. CASE ~\E k \in inner : Uncovered(p, k)
  <2>1. Decide(p, S) = S \cup inner
    BY <1>7 DEF Decide
  <2>2. p \in DOMAIN chosen \ Decide(p, S)
    BY <1>3, <2>1
  <2>3. \A k \in inner : Near(ancestors, chosen[k].index, chosen[p].index)
    BY <1>5 DEF Near
  <2> QED BY <1>3, <1>5, <2>1, <2>2, <2>3
<1> QED BY <1>6, <1>7

\* In the end every composite is not in the result together with its contents, and
\* what is not in it is represented.
LEMMA SuppressedIs ==
  ASSUME NEW G, NEW n \in Nat, Sound(chosen, boxes, ancestors, settings.inspect, n),
         n = Len(All), boxes \in Seq(Upright), All \in Seq(Upright), Len(boxes) <= n,
         ancestors = Forest(boxes), settings.inspect \in BOOLEAN,
         \A a, b \in DOMAIN boxes : Near(ancestors, a, b) => <<a, b>> \in G,
         Represented(DOMAIN All, G, Indices(chosen))
  PROVE  /\ Represented(DOMAIN All, G, {chosen[k].index : k \in DOMAIN chosen \ Suppressed})
         /\ \A k \in Suppressed \cap DOMAIN chosen : \E c \in Retained(boxes, ancestors) :
              c = chosen[k].index \/ chosen[k].index \in Descendants(ancestors, c)
         /\ \A p \in DOMAIN chosen \ Suppressed : Inside(p) \subseteq Suppressed
<1> DEFINE Q == {k \in DOMAIN chosen : chosen[k].children # {}}
           C == Cardinality(Q)
           place(k) == CHOOSE p \in Q : Cardinality({q \in Q : Larger(q, p)}) = k - 1
           next == [k \in 1 .. C |-> place(k)]
           Y == SUBSET (DOMAIN chosen)
           Then(k, S) == IF next[k] \in S THEN S ELSE Decide(next[k], S)
           step == [x \in (1 .. C) \X Y |-> Then(x[1], x[2])]
           Body(g) == [k \in 0 .. C |-> IF k = 0 THEN {}
                                        ELSE IF place(k) \in g[k - 1] THEN g[k - 1]
                                        ELSE Decide(place(k), g[k - 1])]
           removed == CHOOSE g : g = Body(g)
           left(S) == {chosen[k].index : k \in DOMAIN chosen \ S}
<1>1. Suppressed = removed[C]
  BY Zenon DEF Suppressed
<1>2. /\ \A k \in DOMAIN chosen : k \in Nat /\ chosen[k].index \in 1 .. n
      /\ IsFiniteSet(Q)
      /\ \A p \in Q : p \in DOMAIN chosen
  <2> DEFINE Entry == [index : 1 .. n, children : SUBSET (DOMAIN boxes)]
  <2>1. chosen \in Seq(Entry)
    BY DEF Sound
  <2>2. \A e \in Entry : e.index \in 1 .. n
    OBVIOUS
  <2>3. Len(chosen) \in Nat /\ DOMAIN chosen = 1 .. Len(chosen) /\ \A k \in DOMAIN chosen : chosen[k] \in Entry
    <3> HIDE DEF Entry
    <3> QED BY <2>1
  <2>4. IsFiniteSet(DOMAIN chosen)
    BY <2>3, FS_Interval
  <2>5. Q \subseteq DOMAIN chosen
    OBVIOUS
  <2> HIDE DEF Q, Entry
  <2>6. IsFiniteSet(Q)
    BY <2>4, <2>5, FS_Subset
  <2> QED BY <2>2, <2>3, <2>5, <2>6
<1>3. \A k \in 1 .. C : next[k] = place(k)
  OBVIOUS
<1> HIDE DEF place, Q, removed
<1>4. next = [k \in 1 .. C |-> next[k]]
  OBVIOUS
<1> HIDE DEF next
<1>5. /\ C \in Nat
      /\ \A k \in 1 .. C : next[k] \in Q
      /\ \A p \in Q : \E k \in 1 .. C : next[k] = p
  <2> DEFINE R == {x \in Q \X Q : Larger(x[1], x[2])}
             w == [k \in DOMAIN chosen |-> Width(All[chosen[k].index])]
  <2>1. \A a, b \in Q : <<a, b>> \in R <=> Larger(a, b)
    OBVIOUS
  <2>2. \A k \in Q : k \in Nat /\ w[k] = Width(All[chosen[k].index]) /\ w[k] \in Nat
    <3> SUFFICES ASSUME NEW k \in Q
                 PROVE  k \in Nat /\ w[k] = Width(All[chosen[k].index]) /\ w[k] \in Nat
      OBVIOUS
    <3>1. k \in DOMAIN chosen /\ k \in Nat /\ chosen[k].index \in 1 .. n
      BY <1>2
    <3>2. All[chosen[k].index] \in Upright
      BY <3>1
    <3>3. Width(All[chosen[k].index]) \in Nat
      BY <3>2, WidthType
    <3> QED BY <3>1, <3>3
  <2> HIDE DEF w, R
  <2>3. \A a, b \in Q : <<a, b>> \in R <=> (w[a] > w[b] \/ (w[a] = w[b] /\ a < b))
    <3>1. \A a, b \in Q : Larger(a, b) <=>
            \/ Width(All[chosen[a].index]) > Width(All[chosen[b].index])
            \/ Width(All[chosen[a].index]) = Width(All[chosen[b].index]) /\ a < b
      BY Zenon DEF Larger
    <3>2. \A a \in Q : w[a] = Width(All[chosen[a].index])
      BY <2>2
    <3> TAKE a, b \in Q
    <3>3. w[a] = Width(All[chosen[a].index]) /\ w[b] = Width(All[chosen[b].index])
      BY <3>2
    <3>4. <<a, b>> \in R <=> Larger(a, b)
      BY <2>1
    <3> QED BY <3>1, <3>3, <3>4
  <2>4. \A b \in Q : {q \in Q : <<q, b>> \in R} = {q \in Q : Larger(q, b)}
    BY <2>1
  <2>5. \A k \in 1 .. C : next[k] = CHOOSE p \in Q : Cardinality({q \in Q : <<q, p>> \in R}) = k - 1
    <3> TAKE k \in 1 .. C
    <3>1. \A p \in Q : Cardinality({q \in Q : <<q, p>> \in R}) = k - 1 <=> Cardinality({q \in Q : Larger(q, p)}) = k - 1
      BY <2>4
    <3> QED BY <1>3, <3>1 DEF place
  <2>6. \A k \in Q : k \in Nat /\ w[k] \in Nat
    BY <2>2
  <2>7. IsFiniteSet(Q)
    BY <1>2
  <2>8. next = [k \in 1 .. Cardinality(Q) |-> next[k]]
    BY <1>4 DEF C
  <2>9. \A k \in 1 .. Cardinality(Q) : next[k] = CHOOSE p \in Q : Cardinality({q \in Q : <<q, p>> \in R}) = k - 1
    BY <2>5 DEF C
  <2>11. Orders(R, Q)
    BY <2>3, <2>6 DEF Orders
  <2>10. /\ Cardinality(Q) \in Nat
         /\ next \in [1 .. Cardinality(Q) -> Q]
         /\ \A p \in Q : \E k \in 1 .. Cardinality(Q) : next[k] = p
         /\ \A j, k \in 1 .. Cardinality(Q) : j < k <=> <<next[j], next[k]>> \in R
    BY ONLY <2>7, <2>8, <2>9, <2>11, RankSequence
  <2> QED BY <2>10 DEF C
<1> HIDE DEF C
<1>6. \A k \in 1 .. C, S \in Y : Then(k, S) \in Y
  <2> TAKE k \in 1 .. C, S \in Y
  <2>1. next[k] \in DOMAIN chosen
    BY <1>2, <1>5
  <2>2. CASE next[k] \notin S
    <3> DEFINE p == next[k]
    <3>2. p \in DOMAIN chosen \ S /\ S \in SUBSET (DOMAIN chosen)
      BY <2>1, <2>2
    <3> HIDE DEF p
    <3>3. S \subseteq Decide(p, S) /\ Decide(p, S) \subseteq DOMAIN chosen
      BY <3>2, DecideType
    <3>1. Decide(next[k], S) \subseteq DOMAIN chosen
      BY <3>3 DEF p
    <3> QED BY <2>2, <3>1
  <2> QED BY <2>2
<1>7. step \in [(1 .. C) \X Y -> Y]
  BY <1>6
<1>8. PICK g : Recurs(g, C, Y, {}, step)
  <2>1. {} \in Y
    OBVIOUS
  <2> HIDE DEF Y, step
  <2> QED BY <1>5, <1>7, <2>1, RecursionExists
<1>9. \A k \in 1 .. C : k - 1 \in 0 .. C /\ g[k - 1] \in Y /\ g[k] = Then(k, g[k - 1])
  <2> TAKE k \in 1 .. C
  <2>1. k - 1 \in 0 .. C
    BY <1>5
  <2>2. g[k - 1] \in Y
    BY <2>1, <1>8 DEF Recurs
  <2>3. step[<<k, g[k - 1]>>] = Then(k, g[k - 1])
    BY <2>2
  <2> QED BY <1>8, <2>1, <2>2, <2>3 DEF Recurs
<1>10. g = Body(g)
  <2>1. g = [k \in 0 .. C |-> g[k]]
    BY <1>8 DEF Recurs
  <2>2. \A k \in 0 .. C : g[k] = Body(g)[k]
    <3> TAKE k \in 0 .. C
    <3>1. CASE k = 0
      BY <3>1, <1>8 DEF Recurs
    <3>2. CASE k # 0
      <4>1. k \in 1 .. C
        BY <3>2, <1>5
      <4> QED BY <1>3, <1>9, <3>2, <4>1
    <3> QED BY <3>1, <3>2
  <2>3. Body(g) = [k \in 0 .. C |-> Body(g)[k]]
    OBVIOUS
  <2> HIDE DEF Body
  <2> QED BY <2>1, <2>2, <2>3
<1>11. removed = Body(removed)
  <2> HIDE DEF Body
  <2> QED BY <1>10 DEF removed
<1>12. removed[0] = {} /\ \A k \in 1 .. C : removed[k] = Then(k, removed[k - 1])
  <2>1. removed[0] = {}
    BY <1>5, <1>11
  <2>2. ASSUME NEW k \in 1 .. C PROVE removed[k] = Then(k, removed[k - 1])
    <3>1. k \in 0 .. C /\ k # 0
      BY <1>5
    <3>2. Body(removed)[k] = Then(k, removed[k - 1])
      BY <1>3, <3>1
    <3> HIDE DEF Body, Then
    <3> QED BY <1>11, <3>2
  <2> QED BY <2>1, <2>2
<1> HIDE DEF Body, step
<1> DEFINE Fair(k, S) ==
             /\ S \in Y
             /\ Represented(DOMAIN All, G, left(S))
             /\ \A j \in S : \E c \in Retained(boxes, ancestors) :
                  c = chosen[j].index \/ chosen[j].index \in Descendants(ancestors, c)
             /\ \A j \in 1 .. k : next[j] \in S \/ Inside(next[j]) \subseteq S
<1>13. Fair(0, {})
  <2>1. left({}) = Indices(chosen)
    BY DEF Indices
  <2>2. Represented(DOMAIN All, G, left({}))
    BY <2>1
  <2>3. \A j \in 1 .. 0 : FALSE
    OBVIOUS
  <2> HIDE DEF left
  <2> QED BY <2>2, <2>3
<1>14. ASSUME NEW k \in 1 .. C, NEW S, Fair(k - 1, S) PROVE Fair(k, Then(k, S))
  <2> DEFINE p == next[k]
  <2>0. \A j \in 1 .. k : j = k \/ j \in 1 .. k - 1
    OBVIOUS
  <2>1. CASE p \in S
    <3>1. Then(k, S) = S
      BY <2>1
    <3> HIDE DEF Then
    <3> QED BY <1>14, <2>0, <2>1, <3>1
  <2>2. CASE p \notin S
    <3> DEFINE U == Decide(p, S)
    <3>0. p \in DOMAIN chosen \ S /\ S \in SUBSET (DOMAIN chosen) /\ chosen[p].children # {}
      BY <1>2, <1>5, <1>14, <2>2 DEF Q
    <3>1. /\ S \subseteq U /\ U \subseteq DOMAIN chosen
          /\ p \in U \/ Inside(p) \subseteq U
          /\ \A j \in U \ S :
               /\ j = p \/ j \in Inside(p)
               /\ \E d \in DOMAIN chosen \ U :
                    chosen[d].index \in DOMAIN boxes /\ Near(ancestors, chosen[j].index, chosen[d].index)
          /\ Inside(p) # {} => chosen[p].index \in Retained(boxes, ancestors)
          /\ \A j \in Inside(p) : chosen[j].index \in Descendants(ancestors, chosen[p].index)
      BY <3>0, DecideType
    <3>2. Then(k, S) = U
      BY <2>2
    <3> HIDE DEF U, Then, p
    <3>3. chosen[p].index \in Retained(boxes, ancestors)
      <4>1. chosen[p].children = ChildrenOf(boxes, ancestors, settings.inspect, chosen[p].index)
        BY <3>0 DEF Sound
      <4> QED BY <3>0, <4>1 DEF ChildrenOf
    <3>4. \A j \in U : \E c \in Retained(boxes, ancestors) :
            c = chosen[j].index \/ chosen[j].index \in Descendants(ancestors, c)
      <4> TAKE j \in U
      <4>1. CASE j \in S
        BY <1>14, <4>1
      <4>2. CASE j \notin S
        BY <3>1, <3>3, <4>2
      <4> QED BY <4>1, <4>2
    <3>5. \A j \in 1 .. k : next[j] \in U \/ Inside(next[j]) \subseteq U
      <4> TAKE j \in 1 .. k
      <4>1. CASE j = k
        BY <3>1, <4>1 DEF p
      <4>2. CASE j \in 1 .. k - 1
        BY <1>14, <3>1, <4>2
      <4> QED BY <2>0, <4>1, <4>2
    <3>6. DOMAIN ancestors = DOMAIN boxes /\ Retained(boxes, ancestors) \subseteq DOMAIN boxes
          /\ \A c : Descendants(ancestors, c) \subseteq DOMAIN boxes
      BY ForestType DEF Retained, Composites, Descendants
    <3>7. \A j \in U : chosen[j].index \in DOMAIN boxes
      BY <3>4, <3>6
    <3>8. ASSUME NEW j \in U, NEW d \in DOMAIN chosen \ U, chosen[d].index \in DOMAIN boxes,
                 Near(ancestors, chosen[j].index, chosen[d].index)
          PROVE  <<chosen[d].index, chosen[j].index>> \in G
      <4>1. Near(ancestors, chosen[d].index, chosen[j].index)
        BY <3>8 DEF Near
      <4>2. chosen[j].index \in DOMAIN boxes
        BY <3>7
      <4> QED BY <3>8, <4>1, <4>2
    <3>9. Represented(DOMAIN All, G, left(U))
      <4>1. \A j \in DOMAIN chosen : chosen[j].index \in DOMAIN All
        BY <1>2
      <4>2. \A t \in left(S) \cap DOMAIN All : \E d \in DOMAIN All, e \in left(U) \cap DOMAIN All :
              (d = t \/ <<d, t>> \in G) /\ (e = d \/ <<e, d>> \in G)
        <5> TAKE t \in left(S) \cap DOMAIN All
        <5>1. PICK j \in DOMAIN chosen \ S : t = chosen[j].index
          OBVIOUS
        <5>2. CASE j \in U
          <6>1. PICK d \in DOMAIN chosen \ U :
                  chosen[d].index \in DOMAIN boxes /\ Near(ancestors, chosen[j].index, chosen[d].index)
            BY <3>1, <5>1, <5>2
          <6>2. <<chosen[d].index, t>> \in G /\ chosen[d].index \in left(U) \cap DOMAIN All
            BY <3>8, <4>1, <5>1, <5>2, <6>1
          <6> QED BY <6>2
        <5>3. CASE j \notin U
          <6>1. t \in left(U) \cap DOMAIN All
            BY <5>1, <5>3
          <6> QED BY <6>1
        <5> QED BY <5>2, <5>3
      <4>3. Represented(DOMAIN All, G, left(S))
        BY <1>14
      <4> HIDE DEF left
      <4> QED BY <4>2, <4>3, StillRepresented
    <3> HIDE DEF left
    <3> QED BY <3>1, <3>2, <3>4, <3>5, <3>9
  <2> QED BY <2>1, <2>2
<1> HIDE DEF Fair, Then
<1>15. \A k \in 0 .. C : Fair(k, removed[k])
  <2> DEFINE T == {k \in Nat : k <= C => Fair(k, removed[k])}
  <2>1. 0 \in T
    BY <1>12, <1>13
  <2>2. \A k \in Nat : k \in T => k + 1 \in T
    <3> SUFFICES ASSUME NEW k \in Nat, k \in T, k + 1 <= C PROVE Fair(k + 1, removed[k + 1])
      OBVIOUS
    <3>1. k + 1 \in 1 .. C /\ (k + 1) - 1 = k /\ k <= C
      BY <1>5
    <3>2. Fair(k, removed[k])
      BY <3>1
    <3>3. removed[k + 1] = Then(k + 1, removed[k])
      BY <1>12, <3>1
    <3> QED BY <1>14, <3>1, <3>2, <3>3
  <2> HIDE DEF T
  <2>3. Nat \subseteq T
    BY <2>1, <2>2, NatInductive
  <2> QED BY <1>5, <2>3 DEF T
<1>16. Fair(C, Suppressed)
  BY <1>1, <1>5, <1>15
<1>17. \A p \in DOMAIN chosen \ Suppressed : Inside(p) \subseteq Suppressed
  <2> TAKE p \in DOMAIN chosen \ Suppressed
  <2>1. CASE p \in Q
    BY <1>5, <1>16, <2>1 DEF Fair
  <2>2. CASE p \notin Q
    BY <2>2 DEF Q, Inside
  <2> QED BY <2>1, <2>2
<1> QED BY <1>16, <1>17 DEF Fair

-----------------------------------------------------------------------------
(* The page.                                                               *)

\* What postprocess_boxes() leaves to be recognised.
Ready(bs, extra, inspect, overlap, cs) ==
  LET page == bs \o extra
  IN  /\ Sound(cs, bs, Forest(bs), inspect, Len(page))
      /\ Represented(DOMAIN page, Links(page, Len(bs), Forest(bs), overlap), Indices(cs))
      /\ \A b \in DOMAIN bs : bs[b].type \in Semantic \ Outer /\ b \notin Indices(cs) =>
           overlap /\ \E a \in DOMAIN page \ {b} : SamePlace(page[a], page[b])

\* The boxes of the page are followed by those that were found inside of them.
LEMMA PageType ==
  ASSUME NEW bs \in Seq(Upright), NEW extra \in Seq(Upright), NEW page, page = bs \o extra
  PROVE  /\ page \in Seq(Upright)
         /\ Len(bs) \in Nat /\ Len(extra) \in Nat
         /\ DOMAIN page = 1 .. Len(bs) + Len(extra) /\ Len(page) = Len(bs) + Len(extra)
         /\ DOMAIN bs = 1 .. Len(bs) /\ DOMAIN bs \subseteq DOMAIN page
         /\ \A k \in DOMAIN bs : page[k] = bs[k]
<1>1. page \in Seq(Upright) /\ DOMAIN page = 1 .. Len(bs) + Len(extra) /\ Len(bs) \in Nat /\ Len(extra) \in Nat
      /\ \A k \in 1 .. Len(bs) : page[k] = bs[k]
  BY Concatenation
<1>2. Len(page) = Len(bs) + Len(extra)
  BY ConcatProperties
<1>3. DOMAIN bs = 1 .. Len(bs)
  OBVIOUS
<1>4. DOMAIN bs \subseteq DOMAIN page
  BY <1>1, <1>3
<1> QED BY <1>1, <1>2, <1>3, <1>4

\* What finalize_composite_page() keeps is ready to be recognised.
LEMMA PostprocessedReady ==
  ASSUME NEW bs \in Seq(Upright), NEW extra \in Seq(Upright), NEW inspect \in BOOLEAN, NEW overlap \in BOOLEAN,
         NEW cs,
         cs = IF overlap THEN Deduplicate(bs \o extra, Contenders(bs, Forest(bs), inspect, extra))
              ELSE Contenders(bs, Forest(bs), inspect, extra)
  PROVE  Ready(bs, extra, inspect, overlap, cs)
<1> DEFINE page == bs \o extra
           forest == Forest(bs)
           all == Contenders(bs, forest, inspect, extra)
           n == Len(page)
           G == Links(page, Len(bs), forest, overlap)
           S == Standing(bs, forest, inspect)
<1>0. cs = IF overlap THEN Deduplicate(page, all) ELSE all
  OBVIOUS
<1> HIDE DEF page, all
<1>1. /\ page \in Seq(Upright) /\ n \in Nat
      /\ Len(bs) \in Nat /\ Len(extra) \in Nat
      /\ DOMAIN page = 1 .. n /\ n = Len(bs) + Len(extra)
      /\ DOMAIN bs = 1 .. Len(bs) /\ DOMAIN bs \subseteq DOMAIN page
      /\ \A k \in DOMAIN bs : page[k] = bs[k]
  BY PageType DEF page
<1> HIDE DEF n, forest
<1>2. Sound(all, bs, forest, inspect, n) /\ Indices(all) = S \cup (Len(bs) + 1 .. n)
  BY <1>1, Listing DEF all, forest
<1>3. \A a, b \in DOMAIN page : SamePlace(page[a], page[b]) /\ overlap => <<a, b>> \in G
  BY DEF Links
<1>4. \A a, b \in DOMAIN bs : Near(forest, a, b) => <<a, b>> \in G
  BY <1>1 DEF Links
<1>5. Represented(DOMAIN page, G, Indices(all))
  <2>1. Represented(DOMAIN page, G, DOMAIN page)
    BY DEF Represented
  <2>2. \A t \in DOMAIN page : \E d \in DOMAIN page, e \in Indices(all) \cap DOMAIN page :
          (d = t \/ <<d, t>> \in G) /\ (e = d \/ <<e, d>> \in G)
    <3> HIDE DEF G, S
    <3> TAKE t \in DOMAIN page
    <3>1. CASE t \in Indices(all)
      BY <3>1
    <3>2. CASE t \notin Indices(all)
      <4>1. t \in DOMAIN bs /\ t \notin S
        BY <1>1, <1>2, <3>2
      <4>2. PICK d \in DOMAIN bs, e \in S : (d = t \/ Near(forest, t, d)) /\ (e = d \/ Near(forest, d, e))
        BY <4>1, StandingNear DEF S, forest
      <4>3. e \in DOMAIN bs
        BY DEF S, Standing
      <4>4. (d = t \/ <<d, t>> \in G) /\ (e = d \/ <<e, d>> \in G)
        <5>1. \A a, b \in DOMAIN bs : Near(forest, a, b) => <<b, a>> \in G
          BY <1>4 DEF Near
        <5> QED BY <4>1, <4>2, <4>3, <5>1
      <4> QED BY <1>1, <1>2, <4>2, <4>3, <4>4
    <3> QED BY <3>1, <3>2
  <2> HIDE DEF G
  <2> QED BY <2>1, <2>2, StillRepresented
<1>6. \A b \in DOMAIN bs : bs[b].type \in Semantic \ Outer => b \in Indices(all)
  <2>1. DOMAIN forest = DOMAIN bs
    BY ForestType DEF forest
  <2> QED BY <1>2, <2>1, SemanticStands
<1> HIDE DEF G, S
<1> SUFFICES /\ Sound(cs, bs, forest, inspect, n)
             /\ Represented(DOMAIN page, G, Indices(cs))
             /\ \A b \in DOMAIN bs : bs[b].type \in Semantic \ Outer /\ b \notin Indices(cs) =>
                  overlap /\ \E a \in DOMAIN page \ {b} : SamePlace(page[a], page[b])
  BY DEF Ready, n, forest, page, G
<1>7. CASE ~overlap
  BY <1>0, <1>2, <1>5, <1>6, <1>7
<1>8. CASE overlap
  <2>0. /\ Len(all) \in Nat /\ DOMAIN all = 1 .. Len(all)
        /\ \A k \in DOMAIN all : all[k].index \in DOMAIN page
    <3> DEFINE Entry == [index : 1 .. n, children : SUBSET (DOMAIN bs)]
    <3>1. all \in Seq(Entry)
      BY <1>2 DEF Sound
    <3>2. \A e \in Entry : e.index \in DOMAIN page
      BY <1>1
    <3> HIDE DEF Entry
    <3> QED BY <3>1, <3>2
  <2>1. PICK R \in SUBSET (DOMAIN all) :
          /\ Deduplicate(page, all) = Subsequence(all, DOMAIN all \ R)
          /\ Represented(DOMAIN page, G, {all[k].index : k \in DOMAIN all \ R})
          /\ \A j \in R : \E k \in DOMAIN all \ {j} : SamePlace(page[all[j].index], page[all[k].index])
    BY <1>1, <1>3, <1>5, <1>8, <2>0, Deduplicated
  <2>2. cs = Subsequence(all, DOMAIN all \ R)
    BY <1>0, <1>8, <2>1
  <2>3. Sound(cs, bs, forest, inspect, n) /\ Indices(cs) = {all[k].index : k \in DOMAIN all \ R}
    <3> DEFINE rest == DOMAIN all \ R
    <3>1. rest \in SUBSET (DOMAIN all) /\ cs = Subsequence(all, rest)
      BY <2>2
    <3> HIDE DEF rest
    <3>3. /\ Sound(Subsequence(all, rest), bs, forest, inspect, n)
          /\ Indices(Subsequence(all, rest)) = {all[k].index : k \in rest}
      <4>1. Sound(all, bs, forest, inspect, n) /\ n \in Nat
        BY <1>1, <1>2
      <4> QED BY ONLY bs \in Seq(Upright), inspect \in BOOLEAN, <3>1, <4>1, SomeSound
    <3>2. Sound(cs, bs, forest, inspect, n) /\ Indices(cs) = {all[k].index : k \in rest}
      BY <3>1, <3>3
    <3> QED BY <3>2 DEF rest
  <2>4. ASSUME NEW b \in DOMAIN bs, bs[b].type \in Semantic \ Outer, b \notin Indices(cs)
        PROVE  \E a \in DOMAIN page \ {b} : SamePlace(page[a], page[b])
    <3>1. PICK j \in DOMAIN all : all[j].index = b
      BY <1>6, <2>4 DEF Indices
    <3>2. j \in R
      BY <2>3, <2>4, <3>1
    <3>3. PICK k \in DOMAIN all \ {j} : SamePlace(page[b], page[all[k].index])
      BY <2>1, <3>1, <3>2
    <3>4. all[k].index # b
      BY <1>2, <3>1, <3>3 DEF Sound
    <3>5. all[k].index \in DOMAIN page /\ page[all[k].index] \in Upright /\ page[b] \in Upright
      BY <1>1, <2>0
    <3>6. SamePlace(page[all[k].index], page[b])
      BY <3>3, <3>5, SamePlaceSymmetric
    <3> QED BY <3>4, <3>5, <3>6
  <2> QED BY <1>8, <2>1, <2>3, <2>4
<1> QED BY <1>7, <1>8

BoxInv ==
  /\ boxes \in Seq(Upright) /\ recovered \in Seq(Upright)
  /\ settings \in [inspect : BOOLEAN, overlap : BOOLEAN, uncovered : BOOLEAN]
  /\ stage \in {"postprocessed", "recognised"} =>
       ancestors = Forest(boxes) /\ Ready(boxes, recovered, settings.inspect, settings.overlap, chosen)
  /\ PageAccountedFor

\* Once the page is finalized, everything detected is accounted for.
LEMMA FinalizeAccounts ==
  ASSUME BoxInv, Finalize
  PROVE  PageAccountedFor'
<1> DEFINE n == Len(All)
           G == Links(All, Len(boxes), ancestors, settings.overlap)
           retained == Retained(boxes, ancestors)
<1>1. /\ boxes \in Seq(Upright) /\ recovered \in Seq(Upright) /\ ancestors = Forest(boxes)
      /\ settings.inspect \in BOOLEAN /\ settings.overlap \in BOOLEAN
      /\ Ready(boxes, recovered, settings.inspect, settings.overlap, chosen)
  BY DEF BoxInv, Finalize
<1>2. /\ All \in Seq(Upright) /\ n \in Nat /\ DOMAIN All = 1 .. n
      /\ Len(boxes) \in Nat /\ Len(boxes) <= n /\ DOMAIN boxes = 1 .. Len(boxes) /\ DOMAIN boxes \subseteq DOMAIN All
      /\ \A k \in DOMAIN boxes : All[k] = boxes[k]
  BY <1>1, PageType DEF All
<1>3. /\ Sound(chosen, boxes, ancestors, settings.inspect, n)
      /\ Represented(DOMAIN All, G, Indices(chosen))
      /\ \A b \in DOMAIN boxes : boxes[b].type \in Semantic \ Outer /\ b \notin Indices(chosen) =>
           settings.overlap /\ \E a \in DOMAIN All \ {b} : SamePlace(All[a], All[b])
  BY <1>1 DEF Ready, All
<1>4. \A a, b \in DOMAIN boxes : Near(ancestors, a, b) => <<a, b>> \in G
  BY <1>2 DEF Links
<1>5. \A a, b \in DOMAIN All : <<a, b>> \in G => Replaces(a, b)
  BY <1>2 DEF Links, Replaces, Near
<1> HIDE DEF G, n
<1>6. /\ Represented(DOMAIN All, G, {chosen[k].index : k \in DOMAIN chosen \ Suppressed})
      /\ \A k \in Suppressed \cap DOMAIN chosen : \E c \in retained :
           c = chosen[k].index \/ chosen[k].index \in Descendants(ancestors, c)
      /\ \A p \in DOMAIN chosen \ Suppressed : Inside(p) \subseteq Suppressed
  <2>1. n = Len(All)
    BY DEF n
  <2> QED BY <1>1, <1>2, <1>3, <1>4, <2>1, SuppressedIs
<1>7. regions' = {chosen[k].index : k \in DOMAIN chosen \ Suppressed}
      /\ boxes' = boxes /\ recovered' = recovered /\ ancestors' = ancestors /\ settings' = settings /\ All' = All
  BY DEF Finalize, All
<1> DEFINE result == {chosen[k].index : k \in DOMAIN chosen \ Suppressed}
<1>8. \A S \in SUBSET (DOMAIN All) :
        (\A a \in DOMAIN All \ S, b \in S : ~Replaces(a, b)) => S = {} \/ S \cap result # {}
  BY <1>5, <1>6 DEF Represented
<1>9. ASSUME NEW b \in DOMAIN boxes, boxes[b].type \in Semantic \ Outer, b \notin result
      PROVE  settings.overlap /\ \E a \in DOMAIN All \ {b} : SamePlace(All[a], All[b])
  <2>1. CASE b \notin Indices(chosen)
    BY <1>3, <1>9, <2>1
  <2>2. CASE b \in Indices(chosen)
    <3>1. PICK k \in DOMAIN chosen : chosen[k].index = b
      BY <2>2 DEF Indices
    <3>2. k \in Suppressed
      BY <1>9, <3>1
    <3>3. PICK c \in retained : c = b \/ b \in Descendants(ancestors, c)
      BY <1>6, <3>1, <3>2
    <3>4. DOMAIN ancestors = DOMAIN boxes
      BY <1>1, ForestType
    <3>5. b \notin retained /\ \A d \in retained : b \notin Descendants(ancestors, d)
      BY <1>1, <1>9, <3>4, SemanticStands
    <3> QED BY <3>3, <3>5
  <2> QED BY <2>1, <2>2
<1>10. ASSUME NEW c \in result \cap retained PROVE Children(ancestors, retained, c) \cap result = {}
  <2>1. PICK p \in DOMAIN chosen \ Suppressed : chosen[p].index = c
    OBVIOUS
  <2>2. chosen[p].children = ChildrenOf(boxes, ancestors, settings.inspect, c)
    BY <1>3, <2>1 DEF Sound
  <2>3. CASE settings.inspect
    <3>1. chosen[p].children = Children(ancestors, retained, c)
      BY <2>2, <2>3 DEF ChildrenOf
    <3> SUFFICES ASSUME NEW k \in DOMAIN chosen \ Suppressed, chosen[k].index \in Children(ancestors, retained, c)
                 PROVE  FALSE
      OBVIOUS
    <3>2. k \in Inside(p)
      BY <3>1 DEF Inside
    <3> QED BY <1>6, <2>1, <3>2
  <2>4. CASE ~settings.inspect
    <3>1. Children(ancestors, retained, c) \subseteq Descendants(ancestors, c)
      BY DEF Children
    <3>2. Descendants(ancestors, c) \cap Indices(chosen) = {}
      BY <1>3, <2>4 DEF Sound
    <3>3. result \subseteq Indices(chosen)
      BY DEF Indices
    <3> QED BY <3>1, <3>2, <3>3
  <2> QED BY <2>3, <2>4
<1> HIDE DEF result
<1>11. regions' = result
  BY <1>7 DEF result
<1>12. \A a, b : Replaces(a, b)' <=> Replaces(a, b)
  BY <1>7 DEF Replaces
<1> QED BY <1>7, <1>8, <1>9, <1>10, <1>11, <1>12 DEF PageAccountedFor

\* What is extra keeps its shape, and what is left of it is ready to be recognised.
THEOREM BoxesReady == BoxSpec => []BoxInv
<1>1. BoxInit => BoxInv
  BY DEF BoxInit, BoxInv, PageAccountedFor
<1>2. BoxInv /\ [BoxNext]_boxVars => BoxInv'
  <2> SUFFICES ASSUME BoxInv, [BoxNext]_boxVars PROVE BoxInv'
    OBVIOUS
  <2> USE DEF BoxInv
  <2>1. CASE Detect
    <3>1. PICK e \in Extents, kind \in Kinds :
            boxes' = Append(boxes, [left |-> e[1], right |-> e[2], type |-> kind[1], score |-> kind[2]])
      BY <2>1 DEF Detect
    <3>2. [left |-> e[1], right |-> e[2], type |-> kind[1], score |-> kind[2]] \in Upright
      <4>1. e[1] \in Int /\ e[2] \in Int /\ e[1] < e[2] /\ kind[1] \in STRING /\ kind[2] \in Int
        BY BoxesAssumption
      <4> QED BY <4>1 DEF Upright, BoxRecord
    <3> DEFINE b == [left |-> e[1], right |-> e[2], type |-> kind[1], score |-> kind[2]]
    <3>3. boxes' = Append(boxes, b) /\ b \in Upright
      BY <3>1, <3>2
    <3> HIDE DEF b
    <3>4. boxes' \in Seq(Upright)
      BY <3>3
    <3> QED BY <2>1, <3>4 DEF Detect, PageAccountedFor
  <2>2. CASE Postprocess
    <3>1. \E inspect, overlap, uncovered \in BOOLEAN :
            settings' = [inspect |-> inspect, overlap |-> overlap, uncovered |-> inspect /\ uncovered]
      BY <2>2 DEF Postprocess
    <3>2. /\ settings' \in [inspect : BOOLEAN, overlap : BOOLEAN, uncovered : BOOLEAN]
          /\ settings'.inspect \in BOOLEAN /\ settings'.overlap \in BOOLEAN
      BY <3>1
    <3>3. boxes' \in Seq(Upright)
      <4> DEFINE S == {k \in DOMAIN boxes : Wanted(boxes[k])}
      <4>1. boxes' = Subsequence(boxes, S)
        BY <2>2 DEF Postprocess
      <4>2. S \in SUBSET (1 .. Len(boxes))
        OBVIOUS
      <4> HIDE DEF S
      <4> QED BY <4>1, <4>2, SubsequenceType
    <3>4. recovered' \in Seq(Upright)
      <4> DEFINE composites == Composites(boxes', ancestors')
      <4>1. PICK extra \in IF composites = {} THEN {<<>>} ELSE Redetections :
              recovered' = Beside(boxes', composites, extra)
        BY <2>2, Zenon DEF Postprocess
      <4>2. extra \in Seq(Upright)
        <5>1. CASE extra = <<>>
          BY <5>1
        <5>2. CASE extra \in Redetections
          <6>1. extra \in Seq(BoxRecord) /\ \A k \in DOMAIN extra : extra[k].left < extra[k].right
            BY <5>2, BoxesAssumption
          <6>2. \A k \in 1 .. Len(extra) : extra[k] \in Upright
            BY <6>1 DEF Upright
          <6> QED BY <6>1, <6>2
        <5> QED BY <4>1, <5>1, <5>2
      <4> DEFINE S == {k \in DOMAIN extra :
                         Wanted(extra[k])
                         /\ \A i \in composites : 10 * Common(extra[k], boxes'[i]) < 2 * Width(extra[k])}
      <4>3. recovered' = Subsequence(extra, S)
        BY <4>1 DEF Beside
      <4>4. S \in SUBSET (1 .. Len(extra))
        BY <4>2
      <4> HIDE DEF S
      <4> QED BY <4>2, <4>3, <4>4, SubsequenceType
    <3>5. ancestors' = Forest(boxes')
      BY <2>2 DEF Postprocess
    <3>6. chosen' = IF settings'.overlap
                    THEN Deduplicate(boxes' \o recovered', Contenders(boxes', Forest(boxes'), settings'.inspect, recovered'))
                    ELSE Contenders(boxes', Forest(boxes'), settings'.inspect, recovered')
      BY <2>2, <3>5, Zenon DEF Postprocess, All
    <3>7. Ready(boxes', recovered', settings'.inspect, settings'.overlap, chosen')
      BY <3>2, <3>3, <3>4, <3>6, PostprocessedReady
    <3>8. stage' = "postprocessed"
      BY <2>2 DEF Postprocess
    <3> QED BY <3>2, <3>3, <3>4, <3>5, <3>7, <3>8 DEF PageAccountedFor
  <2>3. CASE Recognise
    BY <2>3 DEF Recognise, PageAccountedFor
  <2>4. CASE Finalize
    <3>1. PageAccountedFor'
      BY <2>4, FinalizeAccounts
    <3> QED BY <2>4, <3>1 DEF Finalize
  <2>5. CASE UNCHANGED boxVars
    <3>1. All' = All /\ \A a, b : Replaces(a, b)' <=> Replaces(a, b)
      BY <2>5 DEF boxVars, All, Replaces
    <3> QED BY <2>5, <3>1 DEF boxVars, PageAccountedFor
  <2> QED BY <2>1, <2>2, <2>3, <2>4, <2>5 DEF BoxNext
<1> QED BY <1>1, <1>2, PTL DEF BoxSpec

\* PageAccountedFor: whatever boxes a page has and whatever detection finds inside of
\* them, every box that was detected is recognised, or a wider one around it is, or one in
\* the same place that ranks above it, and a box has what it encloses for children
\* (composite_page(), finalize_composite_page()).
THEOREM PageIsAccountedFor == BoxSpec => []PageAccountedFor
  BY BoxesReady, PTL DEF BoxInv

-----------------------------------------------------------------------------
(* What is joined of a sequence of sequences, piece by piece.              *)

Joint(s) ==
  LET joint[k \in 0 .. Len(s)] == IF k = 0 THEN <<>> ELSE joint[k - 1] \o s[k]
  IN  joint

\* Joint computes what FlattenSeq does.
LEMMA JointIs ==
  ASSUME NEW Y, NEW s \in Seq(Seq(Y))
  PROVE  /\ Len(s) \in Nat
         /\ Joint(s) \in [0 .. Len(s) -> Seq(Y)]
         /\ Joint(s)[0] = <<>>
         /\ \A k \in 1 .. Len(s) : Joint(s)[k] = Joint(s)[k - 1] \o s[k]
         /\ FlattenSeq(s) = Joint(s)[Len(s)]
<1> DEFINE n == Len(s)
           Z == Seq(Y)
           step == [x \in (1 .. n) \X Z |-> x[2] \o s[x[1]]]
           Body(g) == [k \in 0 .. n |-> IF k = 0 THEN <<>> ELSE g[k - 1] \o s[k]]
           J == Joint(s)
<1>1. n \in Nat /\ s \in [1 .. n -> Z]
  OBVIOUS
<1>2. J = CHOOSE g : g = Body(g)
  BY Zenon DEF Joint
<1> HIDE DEF n, J
<1>3. step \in [(1 .. n) \X Z -> Z]
  <2>1. \A k \in 1 .. n, z \in Z : s[k] \in Z /\ z \o s[k] \in Z
    BY <1>1
  <2> HIDE DEF Z
  <2> QED BY <2>1
<1>4. PICK g : Recurs(g, n, Z, <<>>, step)
  <2>1. <<>> \in Z
    OBVIOUS
  <2> HIDE DEF Z, step
  <2> QED BY <1>1, <1>3, <2>1, RecursionExists
<1> HIDE DEF Z
<1>5. \A k \in 1 .. n : g[k] = g[k - 1] \o s[k]
  <2> TAKE k \in 1 .. n
  <2>1. k - 1 \in 0 .. n
    BY <1>1
  <2>2. g[k - 1] \in Z
    BY <2>1, <1>4 DEF Recurs
  <2>3. step[<<k, g[k - 1]>>] = g[k - 1] \o s[k]
    BY <2>2
  <2> QED BY <1>4, <2>3 DEF Recurs
<1> HIDE DEF step
<1>6. g = Body(g)
  <2>1. g = [k \in 0 .. n |-> g[k]]
    BY <1>4 DEF Recurs
  <2>2. \A k \in 0 .. n : g[k] = Body(g)[k]
    <3> TAKE k \in 0 .. n
    <3>1. CASE k = 0
      BY <3>1, <1>4 DEF Recurs
    <3>2. CASE k # 0
      <4>1. k \in 1 .. n
        BY <3>2, <1>1
      <4> QED BY <1>5, <3>2, <4>1
    <3> QED BY <3>1, <3>2
  <2>3. Body(g) = [k \in 0 .. n |-> Body(g)[k]]
    OBVIOUS
  <2> HIDE DEF Body
  <2> QED BY <2>1, <2>2, <2>3
<1>7. J = Body(J)
  <2> HIDE DEF Body
  <2> QED BY <1>2, <1>6
<1>8. J[0] = <<>> /\ \A k \in 1 .. n : J[k] = J[k - 1] \o s[k]
  <2>1. 0 \in 0 .. n /\ \A k \in 1 .. n : k \in 0 .. n /\ k # 0
    BY <1>1
  <2>2. Body(J)[0] = <<>> /\ \A k \in 1 .. n : Body(J)[k] = J[k - 1] \o s[k]
    BY <2>1
  <2> HIDE DEF Body
  <2> QED BY <1>7, <2>2
<1>12. 1 \in 1 .. n => J[1] = <<>> \o s[1]
  <2>1. 1 - 1 = 0
    OBVIOUS
  <2>2. 1 \in 1 .. n => J[1] = J[1 - 1] \o s[1]
    BY <1>8
  <2> QED BY <1>8, <2>1, <2>2
<1>9. \A k \in 0 .. n : J[k] = g[k]
  <2> DEFINE T == {k \in Nat : k <= n => J[k] = g[k]}
  <2>1. 0 \in T
    BY <1>4, <1>8 DEF Recurs
  <2>2. \A k \in Nat : k \in T => k + 1 \in T
    <3> SUFFICES ASSUME NEW k \in Nat, k \in T, k + 1 <= n PROVE J[k + 1] = g[k + 1]
      OBVIOUS
    <3>1. k + 1 \in 1 .. n /\ (k + 1) - 1 = k /\ k <= n
      BY <1>1
    <3> QED BY <1>5, <1>8, <3>1
  <2> HIDE DEF T
  <2>3. Nat \subseteq T
    BY <2>1, <2>2, NatInductive
  <2> QED BY <1>1, <2>3 DEF T
<1>10. J \in [0 .. n -> Z]
  <2>1. J = [k \in 0 .. n |-> J[k]]
    BY <1>7
  <2>2. \A k \in 0 .. n : J[k] \in Z
    BY <1>4, <1>9 DEF Recurs
  <2> QED BY <2>1, <2>2
<1> HIDE DEF Body
<1>11. FlattenSeq(s) = J[n]
  <2>1. CASE n = 0
    <3>1. s = <<>>
      BY <2>1 DEF n
    <3>2. FlattenSeq(s) = s
      BY <2>1, Zenon DEF FlattenSeq, n
    <3> QED BY <1>8, <2>1, <3>1, <3>2
  <2>2. CASE n # 0
    <3> DEFINE Flat(h) == [k \in 1 .. n |-> IF k = 1 THEN s[k] ELSE h[k - 1] \o s[k]]
               F == CHOOSE h : h = Flat(h)
               h0 == [k \in 1 .. n |-> J[k]]
    <3>1. FlattenSeq(s) = F[n]
      BY <2>2, Zenon DEF FlattenSeq, n
    <3>2. h0 = Flat(h0)
      <4>1. \A k \in 1 .. n : h0[k] = Flat(h0)[k]
        <5> TAKE k \in 1 .. n
        <5>1. CASE k = 1
          <6>1. J[1] = <<>> \o s[1]
            BY <1>8, <1>12, <5>1
          <6>2. <<>> \o s[1] = s[1]
            BY <1>1, <5>1, ConcatEmptySeq DEF Z
          <6> QED BY <5>1, <6>1, <6>2
        <5>2. CASE k # 1
          <6>1. k - 1 \in 1 .. n
            BY <1>1, <5>2
          <6>2. h0[k - 1] = J[k - 1] /\ h0[k] = J[k]
            BY <6>1
          <6>3. Flat(h0)[k] = h0[k - 1] \o s[k]
            BY <5>2
          <6> QED BY <1>8, <6>2, <6>3
        <5> QED BY <5>1, <5>2
      <4>2. Flat(h0) = [k \in 1 .. n |-> Flat(h0)[k]] /\ h0 = [k \in 1 .. n |-> h0[k]]
        OBVIOUS
      <4> HIDE DEF h0, Flat
      <4> QED BY <4>1, <4>2
    <3>3. F = Flat(F)
      <4> HIDE DEF h0, Flat
      <4> QED BY <3>2
    <3> HIDE DEF F
    <3>4. \A k \in 1 .. n : F[k] = IF k = 1 THEN s[k] ELSE F[k - 1] \o s[k]
      BY <3>3
    <3> HIDE DEF Flat
    <3>5. \A k \in 1 .. n : F[k] = J[k]
      <4> DEFINE T == {k \in Nat : k + 1 <= n => F[k + 1] = J[k + 1]}
      <4>1. 0 \in T
        <5>1. 1 \in 1 .. n
          BY <1>1, <2>2
        <5>2. F[1] = s[1]
          BY <3>4, <5>1
        <5>3. J[1] = <<>> \o s[1]
          BY <1>8, <1>12, <5>1
        <5>4. <<>> \o s[1] = s[1]
          BY <1>1, <5>1, ConcatEmptySeq DEF Z
        <5> QED BY <5>2, <5>3, <5>4
      <4>2. \A k \in Nat : k \in T => k + 1 \in T
        <5> SUFFICES ASSUME NEW k \in Nat, k \in T, (k + 1) + 1 <= n PROVE F[(k + 1) + 1] = J[(k + 1) + 1]
          OBVIOUS
        <5> DEFINE m == (k + 1) + 1
        <5>1. m \in 1 .. n /\ m - 1 = k + 1 /\ k + 1 <= n /\ m # 1
          BY <1>1
        <5> HIDE DEF m
        <5>3. F[m - 1] = J[m - 1]
          BY <5>1
        <5>4. F[m] = F[m - 1] \o s[m]
          BY <3>4, <5>1
        <5>5. J[m] = J[m - 1] \o s[m]
          BY <1>8, <5>1
        <5>2. F[m] = J[m]
          BY <5>3, <5>4, <5>5
        <5> QED BY <5>2 DEF m
      <4> HIDE DEF T
      <4>3. Nat \subseteq T
        BY <4>1, <4>2, NatInductive
      <4> TAKE k \in 1 .. n
      <4>4. k - 1 \in Nat /\ (k - 1) + 1 = k
        OBVIOUS
      <4> QED BY <4>3, <4>4, SMTT(60) DEF T
    <3>6. n \in 1 .. n
      BY <1>1, <2>2
    <3> QED BY <3>1, <3>5, <3>6
  <2> QED BY <2>1, <2>2
<1> QED BY <1>1, <1>8, <1>10, <1>11 DEF n, J, Z

\* It does not matter what is joined first.
Associates(Y) == \A x, y, z \in Seq(Y) : (x \o y) \o z = x \o (y \o z)

\* Joining is associative.
LEMMA Associative == \A Y : Associates(Y)
<1> TAKE Y
<1> SUFFICES ASSUME NEW x \in Seq(Y), NEW y \in Seq(Y), NEW z \in Seq(Y)
             PROVE  (x \o y) \o z = x \o (y \o z)
  BY DEF Associates
<1> QED BY ConcatAssociative

\* What is joined depends on the pieces joined.
LEMMA JointAgrees ==
  ASSUME NEW Y, NEW s \in Seq(Seq(Y)), NEW t \in Seq(Seq(Y)),
         NEW m \in Nat, m <= Len(s), m <= Len(t), \A j \in 1 .. m : t[j] = s[j]
  PROVE  Joint(t)[m] = Joint(s)[m]
<1> DEFINE S == Joint(s)
           U == Joint(t)
<1>1. /\ S[0] = <<>> /\ \A k \in 1 .. Len(s) : S[k] = S[k - 1] \o s[k]
      /\ U[0] = <<>> /\ \A k \in 1 .. Len(t) : U[k] = U[k - 1] \o t[k]
      /\ Len(s) \in Nat /\ Len(t) \in Nat
  BY JointIs
<1> HIDE DEF S, U
<1> DEFINE T == {k \in Nat : k <= m => U[k] = S[k]}
<1>2. 0 \in T
  BY <1>1
<1>3. \A k \in Nat : k \in T => k + 1 \in T
  <2> SUFFICES ASSUME NEW k \in T, k + 1 <= m PROVE U[k + 1] = S[k + 1]
    OBVIOUS
  <2> DEFINE n == k + 1
  <2>1. n \in 1 .. m /\ n \in 1 .. Len(s) /\ n \in 1 .. Len(t) /\ n - 1 = k /\ k <= m
    BY <1>1
  <2> HIDE DEF n
  <2>2. U[n - 1] = S[n - 1]
    BY <2>1
  <2>3. U[n] = S[n]
    BY <1>1, <2>1, <2>2
  <2> QED BY <2>3 DEF n
<1> HIDE DEF T
<1>4. m \in T
  BY <1>2, <1>3, NatInductive
<1> QED BY <1>4 DEF T, S, U

\* Pieces that are empty add nothing.
LEMMA JointEmpty ==
  ASSUME NEW Y, NEW s \in Seq(Seq(Y)), NEW m \in Nat, m <= Len(s), \A j \in 1 .. m : s[j] = <<>>
  PROVE  Joint(s)[m] = <<>>
<1> DEFINE S == Joint(s)
           T == {k \in Nat : k <= m => S[k] = <<>>}
<1>1. S[0] = <<>> /\ (\A k \in 1 .. Len(s) : S[k] = S[k - 1] \o s[k]) /\ Len(s) \in Nat
  BY JointIs
<1> HIDE DEF S
<1>2. 0 \in T
  BY <1>1
<1>3. \A k \in Nat : k \in T => k + 1 \in T
  <2> SUFFICES ASSUME NEW k \in T, k + 1 <= m PROVE S[k + 1] = <<>>
    OBVIOUS
  <2> DEFINE n == k + 1
  <2>1. n \in 1 .. m /\ n \in 1 .. Len(s) /\ n - 1 = k /\ k <= m
    BY <1>1
  <2> HIDE DEF n
  <2>2. S[n - 1] = <<>> /\ s[n] = <<>>
    BY <2>1
  <2>3. S[n] = <<>> \o <<>>
    BY <1>1, <2>1, <2>2
  <2>4. <<>> \in Seq(Y)
    OBVIOUS
  <2>5. <<>> \o <<>> = <<>>
    BY <2>4, ConcatEmptySeq
  <2> QED BY <2>3, <2>5 DEF n
<1> HIDE DEF T
<1>4. m \in T
  BY <1>2, <1>3, NatInductive
<1> QED BY <1>4 DEF T, S

\* Piece p of t is that of s and r; up to m nothing else differs, or comes after it.
Longer(s, t, p, m, r) ==
  /\ t[p] = s[p] \o r
  /\ \A j \in 1 .. m : j # p => t[j] = s[j]
  /\ \A j \in 1 .. m : p < j => s[j] = <<>>

\* What is added to the last piece that says something is added to the whole.
LEMMA JointGrows ==
  ASSUME NEW Y, NEW s \in Seq(Seq(Y)), NEW t \in Seq(Seq(Y)), NEW r \in Seq(Y),
         NEW m \in Nat, m <= Len(s), m <= Len(t), NEW p \in 1 .. m, Longer(s, t, p, m, r)
  PROVE  Joint(t)[m] = Joint(s)[m] \o r
<1> DEFINE S == Joint(s)
           U == Joint(t)
<1>0. S \in [0 .. Len(s) -> Seq(Y)] /\ U \in [0 .. Len(t) -> Seq(Y)]
  BY JointIs
<1>1. /\ S \in [0 .. Len(s) -> Seq(Y)] /\ U \in [0 .. Len(t) -> Seq(Y)]
      /\ \A k \in 1 .. Len(s) : S[k] = S[k - 1] \o s[k]
      /\ \A k \in 1 .. Len(t) : U[k] = U[k - 1] \o t[k]
      /\ Len(s) \in Nat /\ Len(t) \in Nat
  BY JointIs
<1>2. U[p - 1] = S[p - 1]
  <2>1. p - 1 \in Nat /\ p - 1 <= Len(s) /\ p - 1 <= Len(t) /\ \A j \in 1 .. p - 1 : j \in 1 .. m /\ j # p
    BY <1>1
  <2> HIDE DEF S, U
  <2>2. \A j \in 1 .. p - 1 : t[j] = s[j]
    BY <2>1 DEF Longer
  <2> QED BY <2>1, <2>2, JointAgrees DEF S, U
<1> HIDE DEF S, U
<1> DEFINE Adds(k) == U[k] = S[k] \o r
           T == {k \in Nat : p + k <= m => Adds(p + k)}
<1>10. r \in Seq(Y)
  OBVIOUS
<1>11. Associates(Y)
  BY Associative
<1>3. 0 \in T
  <2>1. p \in 1 .. Len(s) /\ p \in 1 .. Len(t) /\ p - 1 \in 0 .. Len(s) /\ p + 0 = p
    BY <1>1
  <2>2. U[p] = S[p - 1] \o (s[p] \o r) /\ S[p] = S[p - 1] \o s[p]
    BY <1>1, <1>2, <2>1 DEF Longer
  <2>3. S[p - 1] \in Seq(Y)
    BY <1>0, <2>1, Zenon
  <2>6. s[p] \in Seq(Y)
    BY <2>1
  <2>5. (S[p - 1] \o s[p]) \o r = S[p - 1] \o (s[p] \o r)
    BY <1>10, <1>11, <2>3, <2>6, Zenon DEF Associates
  <2>4. Adds(p)
    BY <2>2, <2>5, Zenon
  <2> HIDE DEF Adds
  <2> QED BY <2>1, <2>4
<1>4. \A k \in Nat : k \in T => k + 1 \in T
  <2> HIDE DEF Adds
  <2> SUFFICES ASSUME NEW k \in T, p + (k + 1) <= m PROVE Adds(p + (k + 1))
    OBVIOUS
  <2> USE DEF Adds
  <2> DEFINE n == p + (k + 1)
  <2>1. /\ n \in 1 .. m /\ n \in 1 .. Len(s) /\ n \in 1 .. Len(t) /\ n - 1 = p + k /\ p + k <= m
        /\ p < n /\ n # p /\ n - 1 \in 0 .. Len(s)
    BY <1>1, SMTT(30)
  <2> HIDE DEF n
  <2>2. U[n - 1] = S[n - 1] \o r /\ s[n] = <<>> /\ t[n] = <<>>
    <3>1. Adds(n - 1)
      <4> HIDE DEF Adds
      <4> QED BY <2>1
    <3>2. s[n] = <<>> /\ t[n] = <<>>
      BY <2>1 DEF Longer
    <3> QED BY <3>1, <3>2
  <2>3. S[n - 1] \in Seq(Y)
    BY <1>1, <2>1
  <2>4. S[n] = S[n - 1] /\ U[n] = U[n - 1]
    <3>1. S[n] = S[n - 1] \o <<>> /\ U[n] = U[n - 1] \o <<>>
      BY <1>1, <2>1, <2>2
    <3>2. S[n - 1] \o r \in Seq(Y)
      BY <2>3
    <3> QED BY <3>1, <3>2, <2>2, <2>3, ConcatEmptySeq
  <2>5. Adds(n)
    BY <2>2, <2>4
  <2> HIDE DEF Adds
  <2> QED BY <2>5 DEF n
<1> HIDE DEF T
<1>5. m - p \in Nat /\ p + (m - p) = m
  OBVIOUS
<1>6. m - p \in T
  BY <1>3, <1>4, <1>5, NatInductive
<1> QED BY <1>5, <1>6 DEF T, S, U

\* Piece b of s is missing in t, and is the first that says something.
Without(s, t, b) ==
  /\ t[b] = <<>>
  /\ \A j \in 1 .. Len(s) : j # b => t[j] = s[j]
  /\ \A j \in 1 .. Len(s) : j < b => s[j] = <<>>

\* The first piece that says something is the beginning of the whole.
LEMMA JointBegins ==
  ASSUME NEW Y, NEW s \in Seq(Seq(Y)), NEW t \in Seq(Seq(Y)), Len(t) = Len(s),
         NEW b, b \in 1 .. Len(s), Without(s, t, b)
  PROVE  FlattenSeq(s) = s[b] \o FlattenSeq(t)
<1> DEFINE S == Joint(s)
           U == Joint(t)
<1>1. /\ S \in [0 .. Len(s) -> Seq(Y)] /\ U \in [0 .. Len(s) -> Seq(Y)]
      /\ \A k \in 1 .. Len(s) : S[k] = S[k - 1] \o s[k]
      /\ \A k \in 1 .. Len(s) : U[k] = U[k - 1] \o t[k]
      /\ Len(s) \in Nat
      /\ FlattenSeq(s) = S[Len(s)] /\ FlattenSeq(t) = U[Len(s)]
  BY JointIs
<1>2. S[b - 1] = <<>> /\ U[b - 1] = <<>>
  <2>1. b - 1 \in Nat /\ b - 1 <= Len(s) /\ \A j \in 1 .. b - 1 : j \in 1 .. Len(s) /\ j # b /\ j < b
    BY <1>1
  <2> HIDE DEF S, U
  <2>2. \A j \in 1 .. b - 1 : s[j] = <<>> /\ t[j] = <<>>
    BY <2>1 DEF Without
  <2> QED BY <2>1, <2>2, JointEmpty DEF S, U
<1> HIDE DEF S, U
<1>9. s[b] \in Seq(Y) /\ <<>> \in Seq(Y)
  OBVIOUS
<1>11. Associates(Y)
  BY Associative
<1> DEFINE Adds(k) == S[k] = s[b] \o U[k]
           T == {k \in Nat : b + k <= Len(s) => Adds(b + k)}
<1>3. 0 \in T
  <2>1. S[b] = <<>> \o s[b] /\ U[b] = <<>> \o <<>> /\ b + 0 = b
    <3>1. S[b] = S[b - 1] \o s[b] /\ U[b] = U[b - 1] \o t[b]
      BY <1>1, Zenon
    <3>2. t[b] = <<>> /\ b + 0 = b
      BY DEF Without
    <3> QED BY <1>2, <3>1, <3>2, Zenon
  <2>2. S[b] = s[b] /\ U[b] = <<>> /\ s[b] \o <<>> = s[b]
    BY <1>9, <2>1, ConcatEmptySeq, Zenon
  <2>3. Adds(b)
    BY <2>2, Zenon
  <2> HIDE DEF Adds
  <2> QED BY <2>1, <2>3
<1>4. \A k \in Nat : k \in T => k + 1 \in T
  <2> HIDE DEF Adds
  <2> SUFFICES ASSUME NEW k \in T, b + (k + 1) <= Len(s) PROVE Adds(b + (k + 1))
    OBVIOUS
  <2> USE DEF Adds
  <2> DEFINE n == b + (k + 1)
  <2>1. n \in 1 .. Len(s) /\ n - 1 = b + k /\ b + k <= Len(s) /\ n # b /\ n - 1 \in 0 .. Len(s)
    BY <1>1
  <2> HIDE DEF n
  <2>2. S[n - 1] = s[b] \o U[n - 1] /\ t[n] = s[n] /\ s[n] \in Seq(Y)
    <3>1. Adds(n - 1)
      <4> HIDE DEF Adds
      <4> QED BY <2>1
    <3>2. t[n] = s[n]
      BY <2>1 DEF Without
    <3>3. s[n] \in Seq(Y)
      BY <2>1
    <3> QED BY <3>1, <3>2, <3>3
  <2>3. U[n - 1] \in Seq(Y)
    BY <1>1, <2>1
  <2>4. S[n] = (s[b] \o U[n - 1]) \o s[n] /\ U[n] = U[n - 1] \o s[n]
    BY <1>1, <2>1, <2>2
  <2>6. (s[b] \o U[n - 1]) \o s[n] = s[b] \o (U[n - 1] \o s[n])
    BY <2>2, <2>3, <1>9, <1>11, Zenon DEF Associates
  <2>5. Adds(n)
    BY <2>4, <2>6, Zenon
  <2> HIDE DEF Adds
  <2> QED BY <2>5 DEF n
<1> HIDE DEF T
<1>5. Len(s) - b \in Nat /\ b + (Len(s) - b) = Len(s)
  BY <1>1
<1>6. Len(s) - b \in T
  BY <1>3, <1>4, <1>5, NatInductive
<1> QED BY <1>1, <1>5, <1>6 DEF T

-----------------------------------------------------------------------------
(* The invariant.                                                          *)

Row == [text : Seq(Int), columns : Nat]
Target == [page : Nat, region : Nat]
RegionType ==
  [type : STRING, plain : BOOLEAN, ordered : BOOLEAN, asset : BOOLEAN, error : BOOLEAN,
   at : SUBSET STRING, x : Int, link : Target, mergedPages : SUBSET Nat, content : Seq(Row)]
Page == [number : Nat, regions : Seq(RegionType)]

Texts(ps) == [i \in DOMAIN ps |-> PageText(ps[i])]

TableTypes ==
  /\ original \in Seq(Page) /\ pages \in Seq(Page) /\ Len(pages) = Len(original)
  /\ requireHeader \in BOOLEAN
  /\ current \in Nat /\ current # 1 /\ current <= Len(pages) + 1

\* Pages and regions stay where they were, and pages are numbered upwards.
SamePlaces ==
  /\ \A i \in DOMAIN pages :
       /\ pages[i].number = original[i].number /\ pages[i].number # 0
       /\ Len(pages[i].regions) = Len(original[i].regions)
  /\ \A i, j \in DOMAIN pages : i < j => pages[i].number < pages[j].number

\* What the loop has not come to is as it was recognised, without links.
Untouched ==
  /\ \A i \in DOMAIN pages : i >= current => pages[i] = original[i]
  /\ \A i \in DOMAIN original : \A k \in DOMAIN original[i].regions : ~Merged(original[i].regions[k])

\* Nothing is shown from after region m of page j to before region k of page i.
Silent(j, m, i, k) ==
  /\ \A h \in DOMAIN pages[j].regions : h > m => ~Shows(pages[j].regions[h])
  /\ \A g \in DOMAIN pages : j < g /\ g < i =>
       \A h \in DOMAIN pages[g].regions : ~Shows(pages[g].regions[h])
  /\ \A h \in DOMAIN pages[i].regions : h < k => ~Shows(pages[i].regions[h])

\* Region k of page i was merged into region m of page j.
MergedInto(i, k, j, m) ==
  /\ j < i /\ pages[i].regions[k].link = [page |-> pages[j].number, region |-> m]
  /\ m \in DOMAIN pages[j].regions
  /\ ~Merged(pages[j].regions[m])
  /\ pages[j].regions[m].ordered /\ ~pages[j].regions[m].asset /\ pages[j].regions[m].content # <<>>
  /\ pages[i].number \in pages[j].regions[m].mergedPages
  /\ Silent(j, m, i, k)

Rooted ==
  \A i \in DOMAIN pages : \A k \in DOMAIN pages[i].regions :
    Merged(pages[i].regions[k]) =>
      /\ pages[i].regions[k].content = <<>> /\ ~pages[i].regions[k].asset
      /\ \E j \in DOMAIN pages : MergedInto(i, k, j, pages[i].regions[k].link.region)

\* A table that others were merged into begins as it did.
Headed ==
  \A i \in DOMAIN pages : \A k \in DOMAIN pages[i].regions :
    ~Merged(pages[i].regions[k]) =>
      /\ pages[i].regions[k].content = <<>> <=> original[i].regions[k].content = <<>>
      /\ Head(pages[i].regions[k].content) = Head(original[i].regions[k].content)

\* The pages that the loop has been through say what they should.
ReadSoFar ==
  current # 0 => Joint(Texts(pages))[current - 1] = Joint(Texts(Expected))[current - 1]

TableInv ==
  /\ TableTypes /\ SamePlaces /\ Untouched
  /\ Rooted /\ Headed /\ ReadSoFar

-----------------------------------------------------------------------------
(* What the operators return.                                              *)

Pieces(p) == [k \in DOMAIN p.regions |-> Shown(p, k)]

\* A region shows rows, unless it shows nothing.
LEMMA RowsShown ==
  ASSUME NEW p \in Page, NEW k \in DOMAIN p.regions
  PROVE  /\ p.regions[k] \in RegionType
         /\ Shown(p, k) \in Seq(Row)
         /\ Shown(p, k) = <<>> <=> ~Shows(p.regions[k])
<1>1. p.regions \in Seq(RegionType) /\ p.number \in Nat
  BY DEF Page
<1> DEFINE r == p.regions[k]
<1>2. r \in RegionType
  BY <1>1
<1>3. r.content \in Seq(Row) /\ r.asset \in BOOLEAN /\ r.ordered \in BOOLEAN
  BY <1>2 DEF RegionType
<1> DEFINE token == [text |-> <<p.number>>, columns |-> 0]
<1>4. token \in Row
  BY <1>1 DEF Row
<1> HIDE DEF token
<1>5. <<token>> \in Seq(Row) /\ <<token>> # <<>> /\ <<>> \in Seq(Row)
  BY <1>4
<1>6. Shown(p, k) = IF r.ordered THEN IF r.asset THEN <<token>> ELSE r.content ELSE <<>>
  BY DEF Shown, Seen, token
<1> HIDE DEF r
<1>7. Shows(r) <=> r.ordered /\ (r.content # <<>> \/ r.asset)
  BY DEF Shows
<1>8. Shown(p, k) \in Seq(Row) /\ (Shown(p, k) = <<>> <=> ~Shows(r))
  BY <1>3, <1>5, <1>6, <1>7
<1> QED BY <1>2, <1>8 DEF r

\* A page says what its regions show, one after the other.
LEMMA PageTextIs ==
  ASSUME NEW p \in Page
  PROVE  /\ p.number \in Nat /\ p.regions \in Seq(RegionType)
         /\ Pieces(p) \in Seq(Seq(Row)) /\ Len(Pieces(p)) = Len(p.regions)
         /\ PageText(p) = FlattenSeq(Pieces(p))
         /\ PageText(p) \in Seq(Row)
<1>1. p.regions \in Seq(RegionType) /\ p.number \in Nat
  BY DEF Page
<1> DEFINE n == Len(p.regions)
<1>2. n \in Nat /\ DOMAIN p.regions = 1 .. n
  BY <1>1
<1>3. PageText(p) = FlattenSeq(Pieces(p))
  BY DEF PageText, Pieces
<1>4. \A k \in 1 .. n : Shown(p, k) \in Seq(Row)
  BY <1>2, RowsShown
<1>5. Pieces(p) = [k \in 1 .. n |-> Shown(p, k)]
  BY <1>2 DEF Pieces
<1> HIDE DEF n
<1>6. Pieces(p) \in Seq(Seq(Row)) /\ Len(Pieces(p)) = n
  <2> DEFINE Z == Seq(Row)
  <2> HIDE DEF Z
  <2>1. \A k \in 1 .. n : Shown(p, k) \in Z
    BY <1>4 DEF Z
  <2>2. Pieces(p) \in Seq(Z) /\ Len(Pieces(p)) = n
    BY <1>2, <1>5, <2>1
  <2> QED BY <2>2 DEF Z
<1>7. FlattenSeq(Pieces(p)) \in Seq(Row)
  <2>1. /\ Len(Pieces(p)) \in Nat
        /\ Joint(Pieces(p)) \in [0 .. Len(Pieces(p)) -> Seq(Row)]
        /\ FlattenSeq(Pieces(p)) = Joint(Pieces(p))[Len(Pieces(p))]
    BY <1>6, JointIs
  <2>2. Len(Pieces(p)) \in 0 .. Len(Pieces(p))
    BY <2>1
  <2> QED BY <2>1, <2>2, Zenon
<1> QED BY <1>1, <1>3, <1>6, <1>7 DEF n

\* What the pages of a document say.
LEMMA TextsAre ==
  ASSUME NEW ps \in Seq(Page)
  PROVE  /\ Len(ps) \in Nat /\ DOMAIN ps = 1 .. Len(ps)
         /\ Texts(ps) \in Seq(Seq(Row)) /\ Len(Texts(ps)) = Len(ps)
         /\ \A i \in 1 .. Len(ps) : Texts(ps)[i] = PageText(ps[i])
<1> DEFINE n == Len(ps)
           Z == Seq(Row)
<1>1. n \in Nat /\ DOMAIN ps = 1 .. n /\ \A i \in 1 .. n : ps[i] \in Page
  OBVIOUS
<1>2. \A i \in 1 .. n : PageText(ps[i]) \in Z
  BY <1>1, PageTextIs
<1>3. Texts(ps) = [i \in 1 .. n |-> PageText(ps[i])]
  BY <1>1 DEF Texts
<1> HIDE DEF n, Z
<1>4. Texts(ps) \in Seq(Z) /\ Len(Texts(ps)) = n /\ \A i \in 1 .. n : Texts(ps)[i] = PageText(ps[i])
  BY <1>1, <1>2, <1>3
<1> QED BY <1>1, <1>4 DEF n, Z

\* The top of a page is where it begins to show something.
LEMMA TopIs ==
  ASSUME NEW p \in Page, NEW b, b = Top(p)
  PROVE  /\ b \in 1 .. Len(p.regions) + 1
         /\ b <= Len(p.regions) => Shows(p.regions[b])
         /\ \A k \in DOMAIN p.regions : k < b => ~Shows(p.regions[k])
<1> DEFINE n == Len(p.regions)
           T == {k \in DOMAIN p.regions : Shows(p.regions[k])} \cup {n + 1}
<1>1. n \in Nat /\ DOMAIN p.regions = 1 .. n
  BY PageTextIs
<1>2. b = Min(T)
  BY DEF Top
<1>3. T \in SUBSET Nat /\ T # {}
  BY <1>1
<1>4. b \in T /\ \A k \in T : b <= k
  <2> HIDE DEF T
  <2> QED BY <1>2, <1>3, MinType
<1> HIDE DEF n
<1>5. b \in 1 .. n + 1 /\ (b <= n => Shows(p.regions[b]))
  BY <1>1, <1>4
<1>6. \A k \in DOMAIN p.regions : Shows(p.regions[k]) => b <= k
  BY <1>4
<1> QED BY <1>1, <1>5, <1>6 DEF n

\* The foot of a page is where it ceases to.
LEMMA FootIs ==
  ASSUME NEW p \in Page, NEW a, a = Foot(p)
  PROVE  /\ a \in 0 .. Len(p.regions)
         /\ a # 0 => p.regions[a].ordered /\ (Shows(p.regions[a]) \/ Merged(p.regions[a]))
         /\ \A k \in DOMAIN p.regions : a < k => ~Shows(p.regions[k])
<1> DEFINE n == Len(p.regions)
           In(k) == \/ Shows(p.regions[k])
                    \/ p.regions[k].ordered /\ Merged(p.regions[k])
           T == {0} \cup {k \in DOMAIN p.regions : In(k)}
<1>1. n \in Nat /\ DOMAIN p.regions = 1 .. n
  BY PageTextIs
<1>2. a = Max(T)
  BY DEF Foot
<1> HIDE DEF In
<1>3. T \in SUBSET Nat /\ T # {} /\ \A k \in T : k <= n
  BY <1>1
<1>4. a \in T /\ \A k \in T : k <= a
  <2> HIDE DEF T, n
  <2> QED BY <1>1, <1>2, <1>3, MaxType
<1> HIDE DEF n
<1>5. a \in 0 .. n /\ (a # 0 => In(a))
  BY <1>1, <1>4
<1>6. \A k \in DOMAIN p.regions : In(k) => k <= a
  BY <1>4
<1>7. \A k \in DOMAIN p.regions : a < k => ~In(k)
  BY <1>1, <1>5, <1>6
<1>8. In(a) => p.regions[a].ordered
  BY DEF In, Shows
<1>9. \A k \in DOMAIN p.regions : a < k => ~Shows(p.regions[k])
  BY <1>7, Zenon DEF In
<1>10. a # 0 => Shows(p.regions[a]) \/ Merged(p.regions[a])
  BY <1>5 DEF In
<1> QED BY <1>5, <1>8, <1>9, <1>10 DEF n

\* The pages ps of a document o are expected to read like this.
HeadAt(o, ps, link) ==
  Head(o[CHOOSE k \in DOMAIN ps : ps[k].number = link.page].regions[link.region].content)
Trim(o, ps, i, k) ==
  LET r == o[i].regions[k]
      link == ps[i].regions[k].link
  IN  IF Merged(ps[i].regions[k]) /\ Len(r.content) > 1 /\ Head(r.content) = HeadAt(o, ps, link)
      THEN [r EXCEPT !.content = Tail(@)] ELSE r
Trims(o, ps) ==
  [i \in DOMAIN o |-> [o[i] EXCEPT !.regions = [k \in DOMAIN o[i].regions |-> Trim(o, ps, i, k)]]]

\* Expected, as a function of the document and its pages.
LEMMA ExpectedIs ==
  /\ Expected = Trims(original, pages)
  /\ Expected' = Trims(original', pages')
  BY DEF Expected, Trimmed, HeaderOf, Trims, Trim, HeadAt

\* A region without a header is a region.
LEMMA TrimType ==
  ASSUME NEW o \in Seq(Page), NEW ps, NEW i \in DOMAIN o, NEW k \in DOMAIN o[i].regions
  PROVE  Trim(o, ps, i, k) \in RegionType
<1> DEFINE r == o[i].regions[k]
<1>1. o[i] \in Page
  OBVIOUS
<1>2. r \in RegionType
  BY <1>1, PageTextIs
<1>3. Len(r.content) > 1 => Tail(r.content) \in Seq(Row)
  <2>1. r.content \in Seq(Row)
    BY <1>2 DEF RegionType
  <2> HIDE DEF r
  <2>2. Len(r.content) > 1 => r.content # <<>>
    BY <2>1
  <2> QED BY <2>1, <2>2
<1>4. Len(r.content) > 1 => [r EXCEPT !.content = Tail(@)] \in RegionType
  <2> HIDE DEF r
  <2> QED BY <1>2, <1>3 DEF RegionType
<1> DEFINE repeats == Merged(ps[i].regions[k]) /\ Len(r.content) > 1 /\ Head(r.content) = HeadAt(o, ps, ps[i].regions[k].link)
<1>5. Trim(o, ps, i, k) = IF repeats THEN [r EXCEPT !.content = Tail(@)] ELSE r
  BY DEF Trim
<1>6. repeats => Len(r.content) > 1
  OBVIOUS
<1> HIDE DEF r, repeats
<1> QED BY <1>2, <1>4, <1>5, <1>6

\* What is expected of a page differs from it only where something was merged.
LEMMA TrimsAre ==
  ASSUME NEW o \in Seq(Page), NEW ps
  PROVE  /\ Trims(o, ps) \in Seq(Page) /\ Len(Trims(o, ps)) = Len(o)
         /\ \A i \in 1 .. Len(o) :
              /\ Trims(o, ps)[i].number = o[i].number
              /\ Trims(o, ps)[i].regions = [k \in DOMAIN o[i].regions |-> Trim(o, ps, i, k)]
              /\ (\A k \in DOMAIN o[i].regions : ~Merged(ps[i].regions[k])) => Trims(o, ps)[i] = o[i]
<1> DEFINE E == Trims(o, ps)
           n == Len(o)
<1>1. n \in Nat /\ DOMAIN o = 1 .. n
  OBVIOUS
<1>2. E = [i \in 1 .. n |-> [o[i] EXCEPT !.regions = [k \in DOMAIN o[i].regions |-> Trim(o, ps, i, k)]]]
  BY <1>1, Zenon DEF Trims
<1> HIDE DEF E
<1>3. \A i \in 1 .. n :
        /\ E[i] \in Page /\ E[i].number = o[i].number
        /\ E[i].regions = [k \in DOMAIN o[i].regions |-> Trim(o, ps, i, k)]
        /\ (\A k \in DOMAIN o[i].regions : ~Merged(ps[i].regions[k])) => E[i] = o[i]
  <2> TAKE i \in 1 .. n
  <2> DEFINE p == o[i]
             rs == [k \in DOMAIN o[i].regions |-> Trim(o, ps, i, k)]
  <2>1. p \in Page /\ p.regions \in Seq(RegionType)
    BY PageTextIs
  <2>2. E[i] = [p EXCEPT !.regions = rs]
    BY <1>2
  <2>3. rs \in Seq(RegionType)
    <3> DEFINE m == Len(p.regions)
    <3>1. m \in Nat /\ DOMAIN p.regions = 1 .. m
      BY <2>1
    <3>2. \A k \in 1 .. m : Trim(o, ps, i, k) \in RegionType
      BY <1>1, <3>1, TrimType
    <3>3. rs = [k \in 1 .. m |-> Trim(o, ps, i, k)]
      BY <3>1
    <3> HIDE DEF m, p, rs
    <3> QED BY <3>1, <3>2, <3>3
  <2> HIDE DEF rs
  <2>4. E[i] \in Page /\ E[i].number = o[i].number /\ E[i].regions = rs
    BY <2>1, <2>2, <2>3 DEF Page
  <2>5. (\A k \in DOMAIN o[i].regions : ~Merged(ps[i].regions[k])) => E[i] = o[i]
    <3> SUFFICES ASSUME \A k \in DOMAIN o[i].regions : ~Merged(ps[i].regions[k]) PROVE E[i] = o[i]
      OBVIOUS
    <3>1. \A k \in DOMAIN o[i].regions : Trim(o, ps, i, k) = o[i].regions[k]
      BY DEF Trim
    <3>2. p.regions = [k \in DOMAIN o[i].regions |-> p.regions[k]]
      BY <2>1
    <3>3. rs = p.regions
      BY <3>1, <3>2 DEF rs
    <3> HIDE DEF p
    <3>4. E[i] = p
      BY <2>1, <2>2, <3>3 DEF Page
    <3> QED BY <3>4 DEF p
  <2> QED BY <2>4, <2>5 DEF rs
<1>4. E \in Seq(Page) /\ Len(E) = n
  <2>1. E = [i \in 1 .. n |-> E[i]]
    BY <1>2
  <2>2. \A i \in 1 .. n : E[i] \in Page
    BY <1>3
  <2>3. n \in Nat
    BY <1>1
  <2> HIDE DEF n
  <2> QED BY <2>1, <2>2, <2>3
<1> QED BY <1>3, <1>4 DEF E, n

\* Only what leads away from a page matters to what is expected of it.
LEMMA TrimsSame ==
  ASSUME NEW o \in Seq(Page), NEW ps, NEW qs, NEW i \in 1 .. Len(o), DOMAIN qs = DOMAIN ps,
         \A j \in DOMAIN ps : qs[j].number = ps[j].number,
         \A k \in DOMAIN o[i].regions : qs[i].regions[k].link = ps[i].regions[k].link
  PROVE  Trims(o, qs)[i] = Trims(o, ps)[i]
<1>1. \A page : (CHOOSE k \in DOMAIN qs : qs[k].number = page) = (CHOOSE k \in DOMAIN ps : ps[k].number = page)
  <2> TAKE page
  <2>1. \A k : (k \in DOMAIN qs /\ qs[k].number = page) <=> (k \in DOMAIN ps /\ ps[k].number = page)
    OBVIOUS
  <2> QED BY <2>1
<1>2. \A link : HeadAt(o, qs, link) = HeadAt(o, ps, link)
  BY <1>1 DEF HeadAt
<1>3. \A k \in DOMAIN o[i].regions : Trim(o, qs, i, k) = Trim(o, ps, i, k)
  BY <1>2 DEF Trim, Merged
<1> QED BY <1>3 DEF Trims

-----------------------------------------------------------------------------
(* A merge.                                                                *)

Added(first, second) == IF Repeated(first, second) THEN Tail(second) ELSE second

\* The rows of region b of page i went to region m of page j.
Moved(i, b, j, m, rest) ==
  /\ pages' \in Seq(Page) /\ Len(pages') = Len(pages)
  /\ \A g \in DOMAIN pages :
       /\ pages'[g].number = pages[g].number /\ Len(pages'[g].regions) = Len(pages[g].regions)
       /\ g # i /\ g # j => pages'[g] = pages[g]
       /\ \A h \in DOMAIN pages[g].regions :
            (g # i \/ h # b) /\ (g # j \/ h # m) => pages'[g].regions[h] = pages[g].regions[h]
  /\ LET r == pages[j].regions[m]
         q == pages'[j].regions[m]
     IN  /\ q.content = r.content \o rest /\ q.link = r.link
         /\ q.ordered = r.ordered /\ q.asset = r.asset
         /\ q.mergedPages = r.mergedPages \cup {pages[i].number}
  /\ LET r == pages[i].regions[b]
         q == pages'[i].regions[b]
     IN  /\ q.content = <<>> /\ q.link = [page |-> pages[j].number, region |-> m]
         /\ q.ordered = r.ordered /\ q.asset = r.asset

\* What Merge changes, and that it changes nothing else.
LEMMA MergeMoves ==
  ASSUME TableTypes,
         NEW i \in DOMAIN pages, NEW b \in DOMAIN pages[i].regions,
         NEW j \in DOMAIN pages, NEW m \in DOMAIN pages[j].regions, j # i,
         pages[i].regions[b].content # <<>>,
         NEW rest, rest = Added(pages[j].regions[m].content, pages[i].regions[b].content),
         Merge(i, b, [page |-> j, region |-> m])
  PROVE  rest \in Seq(Row) /\ Moved(i, b, j, m, rest)
<1> DEFINE first == pages[j].regions[m]
           second == pages[i].regions[b]
           longer == [first EXCEPT !.content = first.content \o rest,
                                   !.mergedPages = first.mergedPages \cup {pages[i].number}]
           emptied == [second EXCEPT !.content = <<>>,
                                     !.link = [page |-> pages[j].number, region |-> m]]
           pj == [pages[j] EXCEPT !.regions = [pages[j].regions EXCEPT ![m] = longer]]
           pi == [pages[i] EXCEPT !.regions = [pages[i].regions EXCEPT ![b] = emptied]]
<1>1. pages \in Seq(Page) /\ i # j
  BY DEF TableTypes
<1>2. pages[i] \in Page /\ pages[j] \in Page /\ i \in Nat /\ j \in Nat
  BY <1>1
<1>3. /\ pages[i].number \in Nat /\ pages[i].regions \in Seq(RegionType)
      /\ pages[j].number \in Nat /\ pages[j].regions \in Seq(RegionType)
  BY <1>2, PageTextIs
<1>4. first \in RegionType /\ second \in RegionType /\ m \in Nat /\ b \in Nat
  BY <1>3
<1>5. rest \in Seq(Row)
  <2>1. second.content \in Seq(Row) /\ second.content # <<>>
    BY <1>4 DEF RegionType
  <2>2. rest = second.content \/ rest = Tail(second.content)
    BY DEF Added
  <2> HIDE DEF second
  <2>3. Tail(second.content) \in Seq(Row)
    BY <2>1
  <2> QED BY <2>1, <2>2, <2>3
<1>6. longer \in RegionType
  <2>1. first.content \o rest \in Seq(Row)
    <3>1. first.content \in Seq(Row)
      BY <1>4 DEF RegionType
    <3> HIDE DEF first
    <3> QED BY <1>5, <3>1
  <2> HIDE DEF first
  <2> QED BY <1>3, <1>4, <2>1 DEF RegionType
<1>7. emptied \in RegionType
  <2>1. [page |-> pages[j].number, region |-> m] \in Target /\ <<>> \in Seq(Row)
    BY <1>3, <1>4 DEF Target
  <2> HIDE DEF second
  <2> QED BY <1>4, <2>1 DEF RegionType
<1>8. pages' = [[pages EXCEPT ![j] = pj] EXCEPT ![i] = pi]
  <2>1. Merge(i, b, [page |-> j, region |-> m])
    OBVIOUS
  <2>2. first.content \o rest = first.content \o Added(first.content, second.content)
    OBVIOUS
  <2> QED BY <1>1, <2>1, <2>2 DEF Merge, Added
<1> HIDE DEF first, second
<1>9. pj \in Page /\ pi \in Page
  <2>1. [pages[j].regions EXCEPT ![m] = longer] \in Seq(RegionType)
    <3> HIDE DEF longer
    <3> QED BY <1>3, <1>6
  <2>2. [pages[i].regions EXCEPT ![b] = emptied] \in Seq(RegionType)
    <3> HIDE DEF emptied
    <3> QED BY <1>3, <1>7
  <2> HIDE DEF longer, emptied
  <2> QED BY <1>2, <2>1, <2>2 DEF Page
<1> HIDE DEF longer, emptied
<1>10. /\ pj.number = pages[j].number /\ pi.number = pages[i].number
       /\ pj.regions = [pages[j].regions EXCEPT ![m] = longer]
       /\ pi.regions = [pages[i].regions EXCEPT ![b] = emptied]
  BY <1>2 DEF Page
<1> HIDE DEF pj, pi
<1>11. pages' \in Seq(Page) /\ Len(pages') = Len(pages)
  BY <1>1, <1>8, <1>9
<1>12. pages'[j] = pj /\ pages'[i] = pi /\ \A g \in DOMAIN pages : g # i /\ g # j => pages'[g] = pages[g]
  BY <1>1, <1>8
<1>13. /\ Len(pj.regions) = Len(pages[j].regions) /\ pj.regions[m] = longer
       /\ \A h \in DOMAIN pages[j].regions : h # m => pj.regions[h] = pages[j].regions[h]
  BY <1>3, <1>10
<1>14. /\ Len(pi.regions) = Len(pages[i].regions) /\ pi.regions[b] = emptied
       /\ \A h \in DOMAIN pages[i].regions : h # b => pi.regions[h] = pages[i].regions[h]
  BY <1>3, <1>10
<1>15. \A g \in DOMAIN pages :
         /\ pages'[g].number = pages[g].number /\ Len(pages'[g].regions) = Len(pages[g].regions)
         /\ g # i /\ g # j => pages'[g] = pages[g]
         /\ \A h \in DOMAIN pages[g].regions :
              (g # i \/ h # b) /\ (g # j \/ h # m) => pages'[g].regions[h] = pages[g].regions[h]
  BY <1>10, <1>12, <1>13, <1>14
<1>16. /\ longer.content = first.content \o rest /\ longer.link = first.link
       /\ longer.ordered = first.ordered /\ longer.asset = first.asset
       /\ longer.mergedPages = first.mergedPages \cup {pages[i].number}
  BY <1>4 DEF longer, RegionType
<1>17. /\ emptied.content = <<>> /\ emptied.link = [page |-> pages[j].number, region |-> m]
       /\ emptied.ordered = second.ordered /\ emptied.asset = second.asset
  BY <1>4 DEF emptied, RegionType
<1>18. /\ pages'[j].regions[m] = longer /\ pages'[i].regions[b] = emptied
  BY <1>12, <1>13, <1>14
<1> QED BY <1>5, <1>11, <1>15, <1>16, <1>17, <1>18, Zenon DEF Moved, first, second

-----------------------------------------------------------------------------
(* The end of the table that a merge adds to.                              *)

\* Region m of page j is a table, and from there to page i nothing is shown.
Trailing(i, j, m) ==
  /\ j \in DOMAIN pages /\ j < i /\ m \in DOMAIN pages[j].regions
  /\ ~Merged(pages[j].regions[m])
  /\ pages[j].regions[m].ordered /\ ~pages[j].regions[m].asset /\ pages[j].regions[m].content # <<>>
  /\ \A h \in DOMAIN pages[j].regions : h > m => ~Shows(pages[j].regions[h])
  /\ \A g \in DOMAIN pages : j < g /\ g < i =>
       \A h \in DOMAIN pages[g].regions : ~Shows(pages[g].regions[h])

\* A page number names one page.
LEMMA NumberedOnce ==
  ASSUME TableTypes, SamePlaces, NEW j \in DOMAIN pages
  PROVE  /\ (CHOOSE k \in DOMAIN pages : pages[k].number = pages[j].number) = j
         /\ pages[j].number \in Nat
<1>1. pages \in Seq(Page) /\ \A i, k \in DOMAIN pages : i < k => pages[i].number < pages[k].number
  BY DEF TableTypes, SamePlaces
<1>2. \A i \in DOMAIN pages : pages[i] \in Page /\ i \in Nat
  BY <1>1
<1>3. \A i \in DOMAIN pages : pages[i].number \in Nat
  BY <1>2, PageTextIs
<1>4. \A k \in DOMAIN pages : pages[k].number = pages[j].number => k = j
  BY <1>1, <1>2, <1>3
<1> QED BY <1>3, <1>4

\* What the foot of a page leads to is the end of a table, and nothing is shown after it.
LEMMA RootTrails ==
  ASSUME TableTypes, SamePlaces, Rooted,
         NEW i, i - 1 \in DOMAIN pages, i \in Nat,
         NEW a, a = Foot(pages[i - 1]), a # 0, IsTable(pages[i - 1].regions[a])
  PROVE  \E j, m : Root(i - 1, a) = [page |-> j, region |-> m] /\ Trailing(i, j, m)
<1> DEFINE e == i - 1
           r == pages[e].regions[a]
<1>1. /\ pages \in Seq(Page) /\ pages[e] \in Page /\ e \in Nat /\ e < i /\ e \in DOMAIN pages
      /\ \A g \in DOMAIN pages : g \in Nat /\ (g < i => g < e \/ g = e)
  BY DEF TableTypes
<1>2. /\ a \in DOMAIN pages[e].regions /\ a \in Nat
      /\ r.ordered /\ (Shows(r) \/ Merged(r)) /\ ~r.asset
      /\ \A h \in DOMAIN pages[e].regions : h > a => ~Shows(pages[e].regions[h])
  <2>1. a \in 0 .. Len(pages[e].regions) /\ pages[e].regions \in Seq(RegionType)
    BY <1>1, FootIs, PageTextIs
  <2>2. a \in 1 .. Len(pages[e].regions)
    BY <2>1
  <2>3. /\ r.ordered /\ (Shows(r) \/ Merged(r))
        /\ \A h \in DOMAIN pages[e].regions : a < h => ~Shows(pages[e].regions[h])
    BY <1>1, FootIs
  <2> QED BY <2>1, <2>2, <2>3 DEF IsTable
<1> HIDE DEF e
<1>3. CASE ~Merged(r)
  <2>1. Root(e, a) = [page |-> e, region |-> a]
    BY <1>3 DEF Root
  <2>2. r.content # <<>>
    BY <1>2, <1>3 DEF Shows
  <2>3. ~ \E g \in DOMAIN pages : e < g /\ g < i
    BY <1>1
  <2>4. Trailing(i, e, a)
    BY <1>1, <1>2, <1>3, <2>2, <2>3 DEF Trailing
  <2> QED BY <2>1, <2>4 DEF e
<1>4. CASE Merged(r)
  <2> DEFINE m == r.link.region
  <2>1. PICK j \in DOMAIN pages : MergedInto(e, a, j, m)
    BY <1>1, <1>2, <1>4 DEF Rooted
  <2>2. r.content = <<>>
    BY <1>1, <1>2, <1>4 DEF Rooted
  <2>3. j < e /\ r.link = [page |-> pages[j].number, region |-> m]
    BY <2>1 DEF MergedInto
  <2>4. Root(e, a) = [page |-> j, region |-> m]
    <3>1. Root(e, a) = [page |-> CHOOSE k \in DOMAIN pages : pages[k].number = r.link.page,
                        region |-> m]
      BY <1>4 DEF Root
    <3>2. r.link.page = pages[j].number
      BY <2>3
    <3>3. (CHOOSE k \in DOMAIN pages : pages[k].number = pages[j].number) = j
      BY NumberedOnce
    <3> QED BY <3>1, <3>2, <3>3, Zenon
  <2>5. \A h \in DOMAIN pages[e].regions : ~Shows(pages[e].regions[h])
    <3> SUFFICES ASSUME NEW h \in DOMAIN pages[e].regions PROVE ~Shows(pages[e].regions[h])
      OBVIOUS
    <3>4. pages[e].regions \in Seq(RegionType)
      BY <1>1, PageTextIs
    <3>1. h \in Nat
      BY <3>4
    <3>2. h < a => ~Shows(pages[e].regions[h])
      BY <2>1 DEF MergedInto, Silent
    <3>3. ~Shows(r)
      BY <1>2, <2>2 DEF Shows
    <3> QED BY <1>2, <3>1, <3>2, <3>3
  <2>6. \A g \in DOMAIN pages : j < g /\ g < i =>
          \A h \in DOMAIN pages[g].regions : ~Shows(pages[g].regions[h])
    <3>1. \A g \in DOMAIN pages : j < g /\ g < e =>
            \A h \in DOMAIN pages[g].regions : ~Shows(pages[g].regions[h])
      BY <2>1 DEF MergedInto, Silent
    <3> QED BY <1>1, <2>5, <3>1
  <2>7. Trailing(i, j, m)
    <3>1. j < i
      BY <1>1, <2>3
    <3> QED BY <2>1, <2>6, <3>1 DEF Trailing, MergedInto, Silent
  <2> QED BY <2>4, <2>7 DEF e
<1> QED BY <1>3, <1>4

-----------------------------------------------------------------------------
(* What is read after a merge.                                             *)

\* The page of the root says what it said, and then the rows that were added.
LEMMA RootReads ==
  ASSUME TableTypes, NEW i \in DOMAIN pages, NEW b, NEW j, NEW m, NEW rest \in Seq(Row),
         Trailing(i, j, m), Moved(i, b, j, m, rest)
  PROVE  PageText(pages'[j]) = PageText(pages[j]) \o rest
<1> DEFINE p == pages[j]
           q == pages'[j]
           n == Len(p.regions)
<1>1. /\ p \in Page /\ q \in Page /\ j \in DOMAIN pages /\ j # i
      /\ q.number = p.number /\ Len(q.regions) = n
  <2>1. j \in DOMAIN pages /\ j # i /\ i \in Nat
    BY DEF Trailing, TableTypes
  <2>2. pages \in Seq(Page) /\ pages' \in Seq(Page) /\ Len(pages') = Len(pages)
    BY DEF TableTypes, Moved
  <2>3. DOMAIN pages' = DOMAIN pages
    BY <2>2
  <2>4. p \in Page /\ q \in Page
    BY <2>1, <2>2, <2>3
  <2>5. q.number = p.number /\ Len(q.regions) = n
    BY <2>1 DEF Moved
  <2> QED BY <2>1, <2>4, <2>5
<1>2. /\ Pieces(p) \in Seq(Seq(Row)) /\ Len(Pieces(p)) = n /\ PageText(p) = FlattenSeq(Pieces(p))
      /\ Pieces(q) \in Seq(Seq(Row)) /\ Len(Pieces(q)) = n /\ PageText(q) = FlattenSeq(Pieces(q))
      /\ p.regions \in Seq(RegionType) /\ q.regions \in Seq(RegionType)
  BY <1>1, PageTextIs
<1>3. n \in Nat /\ DOMAIN p.regions = 1 .. n /\ DOMAIN q.regions = 1 .. n
  BY <1>1, <1>2
<1>4. m \in 1 .. n
  BY <1>3 DEF Trailing
<1>5. \A h \in 1 .. n : Pieces(p)[h] = Shown(p, h) /\ Pieces(q)[h] = Shown(q, h)
  BY <1>3 DEF Pieces
<1>6. Shown(q, m) = Shown(p, m) \o rest
  <2>1. ~p.regions[m].asset /\ p.regions[m].ordered
    BY DEF Trailing
  <2>2. /\ q.regions[m].content = p.regions[m].content \o rest
        /\ q.regions[m].ordered = p.regions[m].ordered /\ q.regions[m].asset = p.regions[m].asset
    BY DEF Moved
  <2>3. Shown(p, m) = p.regions[m].content /\ Shown(q, m) = q.regions[m].content
    BY <2>1, <2>2 DEF Shown, Seen
  <2> QED BY <2>2, <2>3, Zenon
<1>7. \A h \in 1 .. n : h # m => Shown(q, h) = Shown(p, h)
  <2>1. \A h \in 1 .. n : h # m => q.regions[h] = p.regions[h]
    BY <1>1, <1>3 DEF Moved
  <2> QED BY <1>1, <2>1 DEF Shown, Seen
<1>8. \A h \in 1 .. n : m < h => Shown(p, h) = <<>>
  <2>1. \A h \in 1 .. n : m < h => ~Shows(p.regions[h])
    BY <1>3, <1>4 DEF Trailing
  <2> QED BY <1>1, <1>3, <2>1, RowsShown
<1> HIDE DEF p, q, n
<1>9. Longer(Pieces(p), Pieces(q), m, n, rest)
  BY <1>4, <1>5, <1>6, <1>7, <1>8, Zenon DEF Longer
<1>10. Joint(Pieces(q))[n] = Joint(Pieces(p))[n] \o rest
  <2>1. /\ Pieces(p) \in Seq(Seq(Row)) /\ Pieces(q) \in Seq(Seq(Row)) /\ rest \in Seq(Row)
        /\ n \in Nat /\ n <= Len(Pieces(p)) /\ n <= Len(Pieces(q))
    BY <1>2, <1>3
  <2> QED BY ONLY <1>4, <1>9, <2>1, JointGrows
<1>11. FlattenSeq(Pieces(p)) = Joint(Pieces(p))[n] /\ FlattenSeq(Pieces(q)) = Joint(Pieces(q))[n]
  BY <1>2, JointIs
<1>12. PageText(q) = PageText(p) \o rest
  BY <1>2, <1>10, <1>11, Zenon
<1> QED BY <1>12, Zenon DEF p, q

\* A page that shows nothing says nothing.
LEMMA QuietPage ==
  ASSUME NEW p \in Page, \A h \in DOMAIN p.regions : ~Shows(p.regions[h])
  PROVE  PageText(p) = <<>>
<1> DEFINE n == Len(p.regions)
<1>1. /\ Pieces(p) \in Seq(Seq(Row)) /\ Len(Pieces(p)) = n /\ PageText(p) = FlattenSeq(Pieces(p))
      /\ p.regions \in Seq(RegionType)
  BY PageTextIs
<1>2. n \in Nat /\ DOMAIN p.regions = 1 .. n
  BY <1>1
<1>3. \A h \in 1 .. n : Pieces(p)[h] = <<>>
  <2>1. \A h \in 1 .. n : Shown(p, h) = <<>>
    BY <1>2, RowsShown
  <2> QED BY <1>2, <2>1 DEF Pieces
<1> HIDE DEF n
<1>4. Joint(Pieces(p))[n] = <<>>
  <2>1. n <= Len(Pieces(p))
    BY <1>1, <1>2
  <2> QED BY <1>1, <1>2, <1>3, <2>1, JointEmpty
<1>5. FlattenSeq(Pieces(p)) = Joint(Pieces(p))[n]
  BY <1>1, JointIs
<1> QED BY <1>1, <1>4, <1>5

\* So do the pages up to the one that the rows came from.
LEMMA PagesBeforeRead ==
  ASSUME TableTypes, NEW i \in DOMAIN pages, NEW b, NEW j, NEW m, NEW rest \in Seq(Row),
         Trailing(i, j, m), Moved(i, b, j, m, rest)
  PROVE  Joint(Texts(pages'))[i - 1] = Joint(Texts(pages))[i - 1] \o rest
<1> DEFINE s == Texts(pages)
           u == Texts(pages')
           e == i - 1
<1>1. /\ pages \in Seq(Page) /\ pages' \in Seq(Page) /\ Len(pages') = Len(pages)
      /\ j \in DOMAIN pages /\ j < i
  BY DEF TableTypes, Moved, Trailing
<1>2. /\ s \in Seq(Seq(Row)) /\ Len(s) = Len(pages) /\ u \in Seq(Seq(Row)) /\ Len(u) = Len(pages)
      /\ DOMAIN pages = 1 .. Len(pages) /\ Len(pages) \in Nat
      /\ \A g \in 1 .. Len(pages) : s[g] = PageText(pages[g]) /\ u[g] = PageText(pages'[g])
  BY <1>1, TextsAre
<1> HIDE DEF s, u
<1>3. e \in Nat /\ e <= Len(s) /\ e <= Len(u) /\ j \in 1 .. e /\ \A g \in 1 .. e : g \in 1 .. Len(pages) /\ g < i /\ g # i
  <2>1. /\ i \in 1 .. Len(pages) /\ j \in 1 .. Len(pages) /\ j < i
        /\ Len(s) = Len(pages) /\ Len(u) = Len(pages) /\ Len(pages) \in Nat
    BY <1>1, <1>2
  <2> QED BY ONLY <2>1 DEF e
<1>4. u[j] = s[j] \o rest
  BY <1>2, <1>3, RootReads, Zenon
<1>5. \A g \in 1 .. e : g # j => u[g] = s[g]
  <2>1. \A g \in 1 .. e : g # j => pages'[g] = pages[g]
    <3>1. \A g \in DOMAIN pages : g # i /\ g # j => pages'[g] = pages[g]
      BY DEF Moved
    <3> QED BY <1>2, <1>3, <3>1
  <2> QED BY <1>2, <1>3, <2>1
<1>6. \A g \in 1 .. e : j < g => s[g] = <<>>
  <2> SUFFICES ASSUME NEW g \in 1 .. e, j < g PROVE s[g] = <<>>
    OBVIOUS
  <2>1. \A h \in DOMAIN pages[g].regions : ~Shows(pages[g].regions[h])
    BY <1>2, <1>3 DEF Trailing
  <2>2. pages[g] \in Page
    BY <1>1, <1>2, <1>3
  <2> QED BY <1>2, <1>3, <2>1, <2>2, QuietPage
<1>7. Longer(s, u, j, e, rest)
  BY <1>4, <1>5, <1>6, Zenon DEF Longer
<1> HIDE DEF e
<1>8. Joint(u)[e] = Joint(s)[e] \o rest
  <2>1. /\ s \in Seq(Seq(Row)) /\ u \in Seq(Seq(Row)) /\ rest \in Seq(Row)
        /\ e \in Nat /\ e <= Len(s) /\ e <= Len(u) /\ j \in 1 .. e
    BY <1>2, <1>3
  <2> QED BY ONLY <1>7, <2>1, JointGrows
<1> QED BY <1>8, Zenon DEF s, u, e

\* A header is compared with the one that the table began with.
LEMMA HeaderFound ==
  ASSUME TableTypes, SamePlaces, Headed, NEW i, NEW b, NEW j, NEW m, NEW rest,
         Trailing(i, j, m), Moved(i, b, j, m, rest),
         NEW link, link = [page |-> pages[j].number, region |-> m]
  PROVE  HeadAt(original, pages', link) = Head(pages[j].regions[m].content)
<1>1. /\ j \in DOMAIN pages /\ m \in DOMAIN pages[j].regions /\ ~Merged(pages[j].regions[m])
  BY DEF Trailing
<1>2. (CHOOSE k \in DOMAIN pages' : pages'[k].number = pages[j].number) = j
  <2>1. (CHOOSE k \in DOMAIN pages : pages[k].number = pages[j].number) = j
    BY <1>1, NumberedOnce
  <2>2. DOMAIN pages' = DOMAIN pages
    <3>1. pages \in Seq(Page) /\ pages' \in Seq(Page) /\ Len(pages') = Len(pages)
      BY DEF TableTypes, Moved
    <3> QED BY <3>1
  <2>3. \A k \in DOMAIN pages : pages'[k].number = pages[k].number
    BY DEF Moved
  <2>4. \A k : (k \in DOMAIN pages' /\ pages'[k].number = pages[j].number)
               <=> (k \in DOMAIN pages /\ pages[k].number = pages[j].number)
    BY <2>2, <2>3, Zenon
  <2> QED BY <2>1, <2>4
<1>3. link.page = pages[j].number /\ link.region = m
  OBVIOUS
<1>4. Head(pages[j].regions[m].content) = Head(original[j].regions[m].content)
  BY <1>1 DEF Headed
<1>5. HeadAt(original, pages', link) = Head(original[j].regions[m].content)
  BY <1>2, <1>3, Zenon DEF HeadAt
<1> QED BY <1>4, <1>5

\* The page that the rows came from begins with them no more.
LEMMA HeadPageReads ==
  ASSUME TableTypes, SamePlaces, Untouched, Headed,
         NEW i \in DOMAIN pages, i = current, NEW b \in DOMAIN pages[i].regions,
         Shows(pages[i].regions[b]), ~pages[i].regions[b].asset,
         \A h \in DOMAIN pages[i].regions : h < b => ~Shows(pages[i].regions[h]),
         NEW j, NEW m, Trailing(i, j, m), NEW rest \in Seq(Row),
         rest = Added(pages[j].regions[m].content, pages[i].regions[b].content),
         Moved(i, b, j, m, rest)
  PROVE  PageText(Trims(original, pages')[i]) = rest \o PageText(pages'[i])
<1> DEFINE p == pages[i]
           q == pages'[i]
           e == Trims(original, pages')[i]
           n == Len(p.regions)
<1>1. /\ p \in Page /\ q \in Page /\ e \in Page /\ p = original[i] /\ j # i
      /\ q.number = p.number /\ e.number = p.number
      /\ e.regions = [k \in DOMAIN p.regions |-> Trim(original, pages', i, k)]
      /\ Len(q.regions) = n
  <2>1. /\ pages \in Seq(Page) /\ pages' \in Seq(Page) /\ original \in Seq(Page)
        /\ Len(pages') = Len(pages) /\ Len(pages) = Len(original) /\ current \in Nat
        /\ p = original[i] /\ j # i
    <3>1. /\ pages \in Seq(Page) /\ pages' \in Seq(Page) /\ original \in Seq(Page)
          /\ Len(pages') = Len(pages) /\ Len(pages) = Len(original) /\ current \in Nat
      BY DEF TableTypes, Moved
    <3>2. \A g \in DOMAIN pages : g >= current => pages[g] = original[g]
      BY DEF Untouched
    <3>3. j < i
      BY DEF Trailing
    <3>4. i >= current /\ j # i
      <4>1. i \in Nat /\ i = current
        BY <3>1
      <4> QED BY <3>3, <4>1
    <3> QED BY <3>1, <3>2, <3>4, Zenon
  <2>2. i \in 1 .. Len(original) /\ i \in DOMAIN pages' /\ Len(original) \in Nat
    BY <2>1
  <2>3. q.number = p.number /\ Len(q.regions) = n
    BY DEF Moved
  <2>4. /\ Trims(original, pages') \in Seq(Page) /\ Len(Trims(original, pages')) = Len(original)
        /\ e.number = original[i].number
        /\ e.regions = [k \in DOMAIN original[i].regions |-> Trim(original, pages', i, k)]
    <3> DEFINE E == Trims(original, pages')
    <3>1. /\ E \in Seq(Page) /\ Len(E) = Len(original)
          /\ \A g \in 1 .. Len(original) :
               /\ E[g].number = original[g].number
               /\ E[g].regions = [k \in DOMAIN original[g].regions |-> Trim(original, pages', g, k)]
      BY <2>1, TrimsAre
    <3> HIDE DEF E
    <3>2. e = E[i]
      BY DEF E
    <3> QED BY <2>2, <3>1, <3>2, Zenon DEF E
  <2>5. e \in Page
    <3> HIDE DEF e
    <3>1. Trims(original, pages')[i] \in Page
      BY <2>2, <2>4
    <3> QED BY <3>1 DEF e
  <2> HIDE DEF e
  <2> QED BY <2>1, <2>2, <2>3, <2>4, <2>5
<1> HIDE DEF e
<1>2. /\ Pieces(e) \in Seq(Seq(Row)) /\ Len(Pieces(e)) = n /\ PageText(e) = FlattenSeq(Pieces(e))
      /\ Pieces(q) \in Seq(Seq(Row)) /\ Len(Pieces(q)) = n /\ PageText(q) = FlattenSeq(Pieces(q))
      /\ n \in Nat /\ DOMAIN p.regions = 1 .. n /\ DOMAIN q.regions = 1 .. n /\ DOMAIN e.regions = 1 .. n
  <2>1. n \in Nat /\ DOMAIN p.regions = 1 .. n /\ DOMAIN q.regions = 1 .. n
    <3>1. p.regions \in Seq(RegionType) /\ q.regions \in Seq(RegionType)
      BY <1>1, PageTextIs
    <3> QED BY <1>1, <3>1
  <2>2. e.regions \in Seq(RegionType)
    BY <1>1, PageTextIs
  <2>3. DOMAIN e.regions = 1 .. n /\ Len(e.regions) = n
    BY <1>1, <2>1, <2>2
  <2> QED BY <1>1, <2>1, <2>3, PageTextIs
<1>3. \A h \in 1 .. n : h # b => e.regions[h] = p.regions[h] /\ q.regions[h] = p.regions[h]
  <2> SUFFICES ASSUME NEW h \in 1 .. n, h # b
               PROVE  e.regions[h] = p.regions[h] /\ q.regions[h] = p.regions[h]
    OBVIOUS
  <2>1. q.regions[h] = p.regions[h]
    <3>1. \A k \in DOMAIN pages[i].regions :
            (i # i \/ k # b) /\ (i # j \/ k # m) => pages'[i].regions[k] = pages[i].regions[k]
      BY DEF Moved
    <3> QED BY <1>1, <1>2, <3>1
  <2>2. ~Merged(p.regions[h])
    <3>1. i \in DOMAIN original
      <4>1. original \in Seq(Page) /\ pages \in Seq(Page) /\ Len(pages) = Len(original)
        BY DEF TableTypes
      <4> QED BY <4>1
    <3>2. h \in DOMAIN original[i].regions
      BY <1>1, <1>2
    <3> QED BY <1>1, <3>1, <3>2, Zenon DEF Untouched
  <2>3. Trim(original, pages', i, h) = original[i].regions[h]
    BY <2>1, <2>2 DEF Trim
  <2>4. e.regions[h] = Trim(original, pages', i, h)
    BY <1>1, <1>2
  <2> QED BY <1>1, <2>1, <2>3, <2>4
<1>4. e.regions[b].content = rest /\ e.regions[b].ordered /\ ~e.regions[b].asset
  <2> DEFINE r == original[i].regions[b]
             link == [page |-> pages[j].number, region |-> m]
             first == pages[j].regions[m].content
  <2>1. e.regions[b] = Trim(original, pages', i, b)
    BY <1>1
  <2>2. q.regions[b].link = link
    BY DEF Moved
  <2>3. Merged(q.regions[b])
    <3>1. pages[j].number # 0
      BY DEF SamePlaces, Trailing
    <3> QED BY <2>2, <3>1 DEF Merged, NoLink
  <2>4. HeadAt(original, pages', link) = Head(first)
    BY HeaderFound
  <2>5. r \in RegionType /\ r.ordered /\ ~r.asset /\ r = p.regions[b]
    <3>1. p.regions[b] \in RegionType
      BY <1>1, RowsShown
    <3> QED BY <1>1, <3>1 DEF Shows
  <2> HIDE DEF link
  <2>6. Trim(original, pages', i, b) =
          IF Len(r.content) > 1 /\ Head(r.content) = Head(first)
          THEN [r EXCEPT !.content = Tail(r.content)] ELSE r
    BY <2>2, <2>3, <2>4 DEF Trim
  <2>7. rest = IF Len(r.content) > 1 /\ Head(first) = Head(r.content) THEN Tail(r.content) ELSE r.content
    BY <2>5 DEF Added, Repeated
  <2> HIDE DEF r, first
  <2>8. CASE Len(r.content) > 1 /\ Head(r.content) = Head(first)
    <3>1. e.regions[b] = [r EXCEPT !.content = Tail(r.content)] /\ rest = Tail(r.content)
      BY <2>1, <2>6, <2>7, <2>8, Zenon
    <3> QED BY <2>5, <3>1 DEF RegionType
  <2>9. CASE ~(Len(r.content) > 1 /\ Head(r.content) = Head(first))
    <3>1. e.regions[b] = r /\ rest = r.content
      BY <2>1, <2>6, <2>7, <2>9, Zenon
    <3> QED BY <2>5, <3>1
  <2> QED BY <2>8, <2>9
<1>5. Shown(e, b) = rest /\ Shown(q, b) = <<>>
  <2>1. q.regions[b].content = <<>> /\ ~q.regions[b].asset
    BY DEF Moved
  <2> QED BY <1>4, <2>1 DEF Shown, Seen
<1>6. \A h \in 1 .. n : h # b => Shown(q, h) = Shown(e, h)
  <2> SUFFICES ASSUME NEW h \in 1 .. n, h # b PROVE Shown(q, h) = Shown(e, h)
    OBVIOUS
  <2>1. e.regions[h] = q.regions[h] /\ e.number = q.number
    BY <1>1, <1>3
  <2> QED BY <2>1, Zenon DEF Shown, Seen
<1>7. \A h \in 1 .. n : h < b => Shown(e, h) = <<>>
  <2> SUFFICES ASSUME NEW h \in 1 .. n, h < b PROVE Shown(e, h) = <<>>
    OBVIOUS
  <2>1. h # b
    BY <1>2
  <2>2. ~Shows(e.regions[h])
    BY <1>2, <1>3, <2>1
  <2> QED BY <1>1, <1>2, <2>2, RowsShown
<1>8. \A h \in 1 .. n : Pieces(e)[h] = Shown(e, h) /\ Pieces(q)[h] = Shown(q, h)
  BY <1>2 DEF Pieces
<1>9. b \in 1 .. n
  BY <1>2
<1> HIDE DEF p, q, n
<1>10. Without(Pieces(e), Pieces(q), b)
  BY <1>2, <1>5, <1>6, <1>7, <1>8, <1>9 DEF Without
<1>11. FlattenSeq(Pieces(e)) = Pieces(e)[b] \o FlattenSeq(Pieces(q))
  BY <1>2, <1>9, <1>10, JointBegins
<1>12. PageText(e) = rest \o PageText(q)
  BY <1>2, <1>5, <1>8, <1>9, <1>11, Zenon
<1> QED BY <1>12, Zenon DEF e, q

-----------------------------------------------------------------------------
(* Every step keeps the invariant.                                         *)

\* The invariant holds of a document without pages.
LEMMA TableInitially == TableInit => TableInv
<1> SUFFICES ASSUME TableInit PROVE TableInv
  OBVIOUS
<1>1. original = <<>> /\ pages = <<>> /\ requireHeader = FALSE /\ current = 0
  BY DEF TableInit
<1>2. TableTypes
  <2>1. <<>> \in Seq(Page) /\ Len(<<>>) = 0
    OBVIOUS
  <2>2. original \in Seq(Page) /\ pages \in Seq(Page) /\ Len(pages) = Len(original) /\ Len(pages) = 0
    BY <1>1, <2>1
  <2>3. current \in Nat /\ current # 1 /\ current <= Len(pages) + 1
    <3>1. current = 0 /\ Len(pages) = 0
      BY <1>1, <2>2
    <3> QED BY ONLY <3>1
  <2>4. requireHeader \in BOOLEAN
    BY <1>1
  <2> QED BY <2>2, <2>3, <2>4 DEF TableTypes
<1>3. DOMAIN pages = {} /\ DOMAIN original = {}
  BY <1>1
<1> QED BY <1>1, <1>2, <1>3 DEF TableInv, SamePlaces, Untouched, Rooted, Headed, ReadSoFar

\* A page is recognised with regions that were not merged.
LEMMA RegionsAre ==
  ASSUME NEW laid \in Layouts, NEW number \in Nat
  PROVE  LET rs == [k \in DOMAIN laid |-> Region(laid[k], number, k)] IN
         /\ [number |-> number, regions |-> rs] \in Page
         /\ \A k \in DOMAIN rs : ~Merged(rs[k])
<1> DEFINE Source == [type : STRING, plain : BOOLEAN, ordered : BOOLEAN, asset : BOOLEAN,
                      error : BOOLEAN, at : SUBSET STRING, x : Int,
                      content : Seq([text : STRING, columns : Nat])]
           rs == [k \in DOMAIN laid |-> Region(laid[k], number, k)]
           n == Len(laid)
<1>1. laid \in Seq(Source)
  BY TablesAssumption
<1>2. n \in Nat /\ DOMAIN laid = 1 .. n /\ \A k \in 1 .. n : laid[k] \in Source
  <2> HIDE DEF Source
  <2> QED BY <1>1
<1>3. \A k \in 1 .. n : Region(laid[k], number, k) \in RegionType /\ Region(laid[k], number, k).link = NoLink
  <2> TAKE k \in 1 .. n
  <2> DEFINE r == laid[k]
             rows == [m \in DOMAIN r.content |-> Own(r.content[m], <<number, k, m>>)]
  <2>1. r \in Source
    BY <1>2
  <2>2. r.content \in Seq([text : STRING, columns : Nat])
    <3> HIDE DEF r
    <3> QED BY <2>1
  <2>3. rows \in Seq(Row)
    <3> DEFINE c == r.content
               l == Len(c)
    <3> HIDE DEF r
    <3>1. l \in Nat /\ DOMAIN c = 1 .. l /\ \A m \in 1 .. l : c[m] \in [text : STRING, columns : Nat]
      <4> DEFINE Z == [text : STRING, columns : Nat]
      <4>1. c \in Seq(Z)
        BY <2>2
      <4> HIDE DEF Z, c
      <4>2. l \in Nat /\ DOMAIN c = 1 .. l /\ \A m \in 1 .. l : c[m] \in Z
        BY <4>1
      <4> QED BY <4>2 DEF Z
    <3> HIDE DEF c
    <3>2. \A m \in 1 .. l : Own(c[m], <<number, k, m>>) \in Row
      <4> TAKE m \in 1 .. l
      <4>1. c[m] \in [text : STRING, columns : Nat] /\ m \in Int /\ k \in Int /\ number \in Int
        BY <3>1, <1>2
      <4> DEFINE place == <<number, k, m>>
      <4>2. place \in Seq(Int) /\ <<>> \in Seq(Int)
        BY <4>1
      <4> HIDE DEF place
      <4>3. [c[m] EXCEPT !.text = <<>>] \in Row /\ [c[m] EXCEPT !.text = place] \in Row
        BY <4>1, <4>2 DEF Row
      <4>4. Own(c[m], place) \in Row
        BY <4>3 DEF Own
      <4> QED BY <4>4 DEF place
    <3>3. rows = [m \in 1 .. l |-> Own(c[m], <<number, k, m>>)]
      BY <3>1 DEF c
    <3> HIDE DEF l, rows
    <3> QED BY <3>1, <3>2, <3>3
  <2>4. NoLink \in Target
    BY DEF NoLink, Target
  <2>5. Region(r, number, k) =
          [type |-> r.type, plain |-> r.plain, ordered |-> r.ordered, asset |-> r.asset, error |-> r.error,
           at |-> r.at, x |-> r.x, link |-> NoLink, mergedPages |-> {}, content |-> rows]
    BY DEF Region
  <2> HIDE DEF rows, r
  <2>6. Region(r, number, k) \in RegionType /\ Region(r, number, k).link = NoLink
    BY <2>1, <2>3, <2>4, <2>5 DEF RegionType
  <2> QED BY <2>6 DEF r
<1> HIDE DEF Source
<1>4. rs = [k \in 1 .. n |-> Region(laid[k], number, k)]
  BY <1>2
<1> HIDE DEF rs, n
<1>5. rs \in Seq(RegionType) /\ DOMAIN rs = 1 .. n
  BY <1>2, <1>3, <1>4
<1>6. \A k \in DOMAIN rs : ~Merged(rs[k])
  BY <1>3, <1>4, <1>5 DEF Merged
<1>7. [number |-> number, regions |-> rs] \in Page
  BY <1>5 DEF Page
<1> QED BY <1>6, <1>7 DEF rs

\* A page that comes, and the loop that starts, keep the invariant.
LEMMA RecognisedKeeps == TableInv /\ Recognised => TableInv'
<1> SUFFICES ASSUME TableInv, Recognised PROVE TableInv'
  OBVIOUS
<1> USE DEF TableInv
<1> DEFINE n == Len(original)
<1>1. /\ original \in Seq(Page) /\ pages \in Seq(Page) /\ Len(pages) = n /\ n \in Nat
      /\ requireHeader \in BOOLEAN /\ current = 0
      /\ DOMAIN original = 1 .. n /\ DOMAIN pages = 1 .. n
  BY DEF TableTypes, Recognised
<1>2. \A i \in 1 .. n : pages[i] = original[i] /\ original[i] \in Page
  BY <1>1 DEF Untouched
<1>3. PICK laid \in Layouts, gap \in {1, 2} :
        LET number == IF original = <<>> THEN 1 ELSE Last(original).number + gap
        IN  original' = Append(original,
              [number |-> number, regions |-> [k \in DOMAIN laid |-> Region(laid[k], number, k)]])
  BY DEF Recognised
<1> DEFINE number == IF original = <<>> THEN 1 ELSE Last(original).number + gap
           new == [number |-> number, regions |-> [k \in DOMAIN laid |-> Region(laid[k], number, k)]]
<1>4. number \in Nat /\ number # 0 /\ \A i \in 1 .. n : original[i].number < number
  <2>1. CASE n = 0
    <3>1. original = <<>>
      BY <1>1, <2>1
    <3> QED BY <2>1, <3>1
  <2>2. CASE n # 0
    <3>1. n \in 1 .. n /\ original # <<>> /\ Last(original) = original[n]
      BY <1>1, <2>2 DEF Last
    <3>2. original[n].number \in Nat
      BY <1>2, <3>1, PageTextIs
    <3>3. number = original[n].number + gap
      BY <3>1
    <3>4. \A i \in 1 .. n : original[i].number \in Nat
      BY <1>2, PageTextIs
    <3>5. \A i \in 1 .. n : i < n => original[i].number < original[n].number
      BY <1>1, <1>2, <3>1 DEF SamePlaces
    <3> HIDE DEF number, n
    <3>8. n \in Nat
      BY <1>1
    <3>6. \A i \in 1 .. n : i = n \/ i < n
      BY <3>8
    <3>7. \A i \in 1 .. n : original[i].number <= original[n].number
      BY <3>2, <3>4, <3>5, <3>6
    <3> QED BY <3>2, <3>3, <3>4, <3>7
  <2> QED BY <2>1, <2>2
<1> HIDE DEF number
<1>5. new \in Page /\ \A k \in DOMAIN new.regions : ~Merged(new.regions[k])
  BY <1>4, RegionsAre
<1>6. original' = Append(original, new)
  BY <1>3 DEF number
<1>7. new.number = number
  OBVIOUS
<1> HIDE DEF new
<1>8. /\ original' \in Seq(Page) /\ Len(original') = n + 1 /\ DOMAIN original' = 1 .. n + 1
      /\ original'[n + 1] = new
      /\ \A i \in 1 .. n : original'[i] = original[i]
  BY <1>1, <1>5, <1>6
<1>9. pages' = original' /\ requireHeader' = requireHeader /\ current' = current
  BY DEF Recognised
<1>10. \A i \in 1 .. n + 1 : i = n + 1 \/ i \in 1 .. n
  BY <1>1
<1>11. \A i \in 1 .. n + 1 : \A k \in DOMAIN original'[i].regions : ~Merged(original'[i].regions[k])
  <2>1. \A i \in 1 .. n : \A k \in DOMAIN original[i].regions : ~Merged(original[i].regions[k])
    BY <1>1 DEF Untouched
  <2> QED BY <1>5, <1>8, <1>10, <2>1
<1> HIDE DEF n
<1>12. TableTypes'
  BY <1>1, <1>8, <1>9 DEF TableTypes
<1>13. SamePlaces'
  <2>1. \A i \in 1 .. n + 1 : original'[i].number # 0
    <3>1. \A i \in 1 .. n : original[i].number # 0
      BY <1>1, <1>2 DEF SamePlaces
    <3> QED BY <1>4, <1>7, <1>8, <1>10, <3>1
  <2>2. \A i, k \in 1 .. n + 1 : i < k => original'[i].number < original'[k].number
    <3> SUFFICES ASSUME NEW i \in 1 .. n + 1, NEW k \in 1 .. n + 1, i < k
                 PROVE  original'[i].number < original'[k].number
      OBVIOUS
    <3>1. i \in 1 .. n
      BY <1>1
    <3>2. CASE k = n + 1
      BY <1>4, <1>7, <1>8, <3>1, <3>2
    <3>3. CASE k \in 1 .. n
      <4>1. original[i].number < original[k].number
        BY <1>1, <1>2, <3>1, <3>3 DEF SamePlaces
      <4> QED BY <1>8, <3>1, <3>3, <4>1
    <3> QED BY <1>10, <3>2, <3>3
  <2> QED BY <1>8, <1>9, <2>1, <2>2 DEF SamePlaces
<1>14. Untouched'
  BY <1>8, <1>9, <1>11 DEF Untouched, Merged, NoLink
<1>15. Rooted' /\ Headed' /\ ReadSoFar'
  BY <1>1, <1>8, <1>9, <1>11 DEF Rooted, Headed, ReadSoFar, Merged, NoLink
<1> QED BY <1>12, <1>13, <1>14, <1>15

\* What is expected of a page that the loop has not come to is what it says.
LEMMA UntouchedReads ==
  ASSUME TableTypes, Untouched, NEW i \in DOMAIN pages, i >= current
  PROVE  /\ Texts(Expected)[i] = Texts(pages)[i]
         /\ Texts(pages) \in Seq(Seq(Row)) /\ Len(Texts(pages)) = Len(pages)
         /\ Texts(Expected) \in Seq(Seq(Row)) /\ Len(Texts(Expected)) = Len(pages)
         /\ i \in 1 .. Len(pages)
<1>1. original \in Seq(Page) /\ pages \in Seq(Page) /\ Len(pages) = Len(original)
  BY DEF TableTypes
<1>2. i \in 1 .. Len(pages) /\ i \in 1 .. Len(original)
  BY <1>1
<1>3. Expected \in Seq(Page) /\ Len(Expected) = Len(original) /\ Expected[i] = original[i]
  <2>1. \A k \in DOMAIN original[i].regions : ~Merged(pages[i].regions[k])
    <3>1. i \in DOMAIN original /\ pages[i] = original[i]
      BY <1>1 DEF Untouched
    <3> QED BY <3>1 DEF Untouched
  <2>2. /\ Trims(original, pages) \in Seq(Page) /\ Len(Trims(original, pages)) = Len(original)
        /\ \A g \in 1 .. Len(original) :
             (\A k \in DOMAIN original[g].regions : ~Merged(pages[g].regions[k]))
               => Trims(original, pages)[g] = original[g]
    BY ONLY <1>1, TrimsAre, ZenonT(60)
  <2> QED BY <1>2, <2>1, <2>2, ExpectedIs, Zenon
<1>4. pages[i] = original[i]
  BY DEF Untouched
<1>5. Texts(Expected)[i] = PageText(Expected[i]) /\ Texts(pages)[i] = PageText(pages[i])
  BY <1>1, <1>2, <1>3, TextsAre
<1> QED BY <1>1, <1>2, <1>3, <1>4, <1>5, TextsAre

\* Reading goes on by one page.
LEMMA ReadsOn ==
  ASSUME TableInv, current \in 2 .. Len(pages)
  PROVE  Joint(Texts(pages))[current] = Joint(Texts(Expected))[current]
<1> USE DEF TableInv
<1>1. current \in DOMAIN pages
  <2>1. pages \in Seq(Page)
    BY DEF TableTypes
  <2> QED BY <2>1
<1>2. /\ Texts(Expected)[current] = Texts(pages)[current]
      /\ Texts(pages) \in Seq(Seq(Row)) /\ Len(Texts(pages)) = Len(pages)
      /\ Texts(Expected) \in Seq(Seq(Row)) /\ Len(Texts(Expected)) = Len(pages)
      /\ current \in 1 .. Len(pages)
  <2>1. current >= current
    BY DEF TableTypes
  <2> QED BY <1>1, <2>1, UntouchedReads
<1>3. Joint(Texts(pages))[current] = Joint(Texts(pages))[current - 1] \o Texts(pages)[current]
  BY <1>2, JointIs
<1>4. Joint(Texts(Expected))[current] = Joint(Texts(Expected))[current - 1] \o Texts(Expected)[current]
  BY <1>2, JointIs
<1>5. Joint(Texts(pages))[current - 1] = Joint(Texts(Expected))[current - 1]
  BY DEF ReadSoFar
<1> QED BY <1>2, <1>3, <1>4, <1>5, Zenon

\* A step that merges nothing keeps what does not depend on how far the loop is.
LEMMA NothingMerged ==
  ASSUME TableInv, original' = original, pages' = pages
  PROVE  /\ SamePlaces' /\ Rooted' /\ Headed'
         /\ Expected' = Expected
         /\ Texts(pages)' = Texts(pages) /\ Texts(Expected)' = Texts(Expected)
<1> USE DEF TableInv
<1>1. original' = original /\ pages' = pages
  OBVIOUS
<1>2. SamePlaces'
  BY <1>1 DEF SamePlaces
<1>3. Rooted'
  <2>1. \A i, k, j, m : MergedInto(i, k, j, m)' <=> MergedInto(i, k, j, m)
    <3> TAKE i, k, j, m
    <3>1. Silent(j, m, i, k)' <=> Silent(j, m, i, k)
      BY <1>1 DEF Silent, Shows
    <3> QED BY <1>1, <3>1 DEF MergedInto, Merged, NoLink
  <2> QED BY <1>1, <2>1, Zenon DEF Rooted, Merged, NoLink
<1>4. Headed'
  BY <1>1, Zenon DEF Headed, Merged, NoLink
<1>5. Expected' = Expected
  BY <1>1, ExpectedIs
<1>6. Texts(pages)' = Texts(pages) /\ Texts(Expected)' = Texts(Expected)
  BY <1>1, <1>5 DEF Texts, PageText, Shown, Seen
<1> QED BY <1>2, <1>3, <1>4, <1>5, <1>6

\* Nothing is merged when post-processing begins.
LEMMA StartKeeps == TableInv /\ Start => TableInv'
<1> SUFFICES ASSUME TableInv, Start PROVE TableInv'
  OBVIOUS
<1>1. /\ current = 0 /\ pages # <<>> /\ current' = 2 /\ requireHeader' \in BOOLEAN
      /\ original' = original /\ pages' = pages
  BY DEF Start
<1>2. pages \in Seq(Page) /\ Len(pages) \in Nat /\ Len(pages) # 0 /\ DOMAIN pages = 1 .. Len(pages)
  <2>1. pages \in Seq(Page)
    BY DEF TableInv, TableTypes
  <2> QED BY <1>1, <2>1
<1>3. TableTypes'
  BY <1>1, <1>2 DEF TableInv, TableTypes
<1>4. /\ SamePlaces' /\ Rooted' /\ Headed'
      /\ Texts(pages)' = Texts(pages) /\ Texts(Expected)' = Texts(Expected)
  BY <1>1, NothingMerged
<1>5. Untouched'
  BY <1>1, <1>2 DEF TableInv, Untouched, Merged, NoLink
<1>7. ReadSoFar'
  <2>1. 1 \in DOMAIN pages /\ 1 >= current
    BY <1>1, <1>2
  <2>2. /\ Texts(Expected)[1] = Texts(pages)[1]
        /\ Texts(pages) \in Seq(Seq(Row)) /\ Len(Texts(pages)) = Len(pages)
        /\ Texts(Expected) \in Seq(Seq(Row)) /\ Len(Texts(Expected)) = Len(pages)
    BY <2>1, UntouchedReads DEF TableInv
  <2>3. 1 <= Len(pages) /\ \A g \in 1 .. 1 : g = 1
    BY <1>2
  <2>4. Joint(Texts(pages))[1] = Joint(Texts(Expected))[1]
    BY <2>2, <2>3, JointAgrees
  <2>5. 2 - 1 = 1
    OBVIOUS
  <2> QED BY <1>1, <1>4, <2>4, <2>5, Zenon DEF ReadSoFar, Joint
<1> QED BY <1>3, <1>4, <1>5, <1>7 DEF TableInv

\* A page that is passed by keeps the invariant.
LEMMA PassKeeps ==
  ASSUME TableInv, current \in 2 .. Len(pages), current' = current + 1,
         UNCHANGED <<original, requireHeader, pages>>
  PROVE  TableInv'
<1>1. /\ original' = original /\ pages' = pages /\ requireHeader' = requireHeader
      /\ current' = current + 1 /\ current \in Nat /\ Len(pages) \in Nat /\ current <= Len(pages)
      /\ DOMAIN pages = 1 .. Len(pages)
  <2>1. pages \in Seq(Page)
    BY DEF TableInv, TableTypes
  <2> QED BY <2>1
<1>2. TableTypes'
  BY <1>1 DEF TableInv, TableTypes
<1>3. /\ SamePlaces' /\ Rooted' /\ Headed'
      /\ Texts(pages)' = Texts(pages) /\ Texts(Expected)' = Texts(Expected)
  BY <1>1, NothingMerged
<1>4. Untouched'
  <2>1. \A i \in DOMAIN pages : i >= current + 1 => i >= current
    BY <1>1
  <2> QED BY <1>1, <2>1, Zenon DEF TableInv, Untouched, Merged, NoLink
<1>5. ReadSoFar'
  <2>1. Joint(Texts(pages))[current] = Joint(Texts(Expected))[current]
    BY ReadsOn
  <2>2. current' - 1 = current
    BY <1>1
  <2> QED BY <1>3, <2>1, <2>2, ZenonT(60) DEF ReadSoFar, Joint
<1> QED BY <1>2, <1>3, <1>4, <1>5 DEF TableInv

\* A merge at the head of page i, with what is needed of its two sides.
Merging(i, b, j, m, rest) ==
  /\ i = current /\ i \in 2 .. Len(pages) /\ i \in DOMAIN pages
  /\ b \in DOMAIN pages[i].regions
  /\ Shows(pages[i].regions[b]) /\ ~pages[i].regions[b].asset
  /\ \A h \in DOMAIN pages[i].regions : h < b => ~Shows(pages[i].regions[h])
  /\ Trailing(i, j, m)
  /\ rest \in Seq(Row) /\ rest = Added(pages[j].regions[m].content, pages[i].regions[b].content)
  /\ Moved(i, b, j, m, rest)
  /\ current' = current + 1 /\ original' = original /\ requireHeader' = requireHeader

\* After a merge, what was read so far says what it should.
LEMMA MergeReads ==
  ASSUME TableInv, NEW i, NEW b, NEW j, NEW m, NEW rest, Merging(i, b, j, m, rest)
  PROVE  ReadSoFar'
<1> DEFINE s == Texts(pages)
           u == Texts(pages')
           o == Trims(original, pages)
           q == Trims(original, pages')
           e == Texts(o)
           f == Texts(q)
           n == Len(pages)
<1>1. /\ TableTypes /\ SamePlaces /\ Untouched /\ Headed /\ ReadSoFar
      /\ i = current /\ i \in DOMAIN pages /\ i \in 1 .. n /\ i - 1 \in 1 .. n /\ i - 1 \in Nat /\ i - 1 <= n
      /\ rest \in Seq(Row)
      /\ Trailing(i, j, m) /\ Moved(i, b, j, m, rest)
      /\ pages \in Seq(Page) /\ pages' \in Seq(Page) /\ original \in Seq(Page)
      /\ Len(pages') = n /\ Len(original) = n /\ n \in Nat /\ DOMAIN pages = 1 .. n /\ DOMAIN pages' = 1 .. n
  <2>1. /\ pages \in Seq(Page) /\ pages' \in Seq(Page) /\ original \in Seq(Page)
        /\ Len(pages') = n /\ Len(original) = n
    BY DEF TableInv, TableTypes, Merging, Moved
  <2>2. i \in 2 .. n /\ n \in Nat
    BY <2>1 DEF Merging
  <2>3. /\ TableTypes /\ SamePlaces /\ Untouched /\ Headed /\ ReadSoFar
        /\ i = current /\ i \in DOMAIN pages /\ rest \in Seq(Row)
        /\ Trailing(i, j, m) /\ Moved(i, b, j, m, rest)
    BY DEF TableInv, Merging
  <2>4. DOMAIN pages = 1 .. n /\ DOMAIN pages' = 1 .. n
    BY <2>1
  <2> HIDE DEF n
  <2>5. i \in 1 .. n /\ i - 1 \in 1 .. n /\ i - 1 \in Nat /\ i - 1 <= n
    BY <2>2
  <2> QED BY <2>1, <2>2, <2>3, <2>4, <2>5
<1>2. /\ s \in Seq(Seq(Row)) /\ Len(s) = n /\ u \in Seq(Seq(Row)) /\ Len(u) = n
      /\ \A g \in 1 .. n : s[g] = PageText(pages[g]) /\ u[g] = PageText(pages'[g])
  BY <1>1, TextsAre
<1>3. /\ o \in Seq(Page) /\ Len(o) = n /\ q \in Seq(Page) /\ Len(q) = n
      /\ e \in Seq(Seq(Row)) /\ Len(e) = n /\ f \in Seq(Seq(Row)) /\ Len(f) = n
      /\ \A g \in 1 .. n : e[g] = PageText(o[g]) /\ f[g] = PageText(q[g])
  <2>1. o \in Seq(Page) /\ Len(o) = n /\ q \in Seq(Page) /\ Len(q) = n
    BY <1>1, TrimsAre
  <2> HIDE DEF o, q
  <2> QED BY <2>1, TextsAre
<1>4. Joint(s)[i - 1] = Joint(e)[i - 1]
  <2>1. current # 0
    BY <1>1
  <2> QED BY <1>1, <2>1, ExpectedIs, Zenon DEF ReadSoFar
<1>5. Joint(u)[i - 1] = Joint(s)[i - 1] \o rest
  BY <1>1, PagesBeforeRead
<1>6. Joint(f)[i - 1] = Joint(e)[i - 1]
  <2>1. \A g \in 1 .. i - 1 : f[g] = e[g]
    <3> SUFFICES ASSUME NEW g \in 1 .. i - 1 PROVE f[g] = e[g]
      OBVIOUS
    <3>1. g \in 1 .. n /\ g \in 1 .. Len(original) /\ g # i /\ g \in DOMAIN pages
      BY <1>1
    <3>2. \A k \in DOMAIN pages : pages'[k].number = pages[k].number
      BY <1>1 DEF Moved
    <3>3. \A k \in DOMAIN original[g].regions : pages'[g].regions[k].link = pages[g].regions[k].link
      <4> SUFFICES ASSUME NEW k \in DOMAIN original[g].regions
                   PROVE  pages'[g].regions[k].link = pages[g].regions[k].link
        OBVIOUS
      <4>1. k \in DOMAIN pages[g].regions
        <5>1. Len(pages[g].regions) = Len(original[g].regions)
          BY <1>1, <3>1 DEF SamePlaces
        <5>2. pages[g] \in Page /\ original[g] \in Page
          BY <1>1, <3>1
        <5>3. pages[g].regions \in Seq(RegionType) /\ original[g].regions \in Seq(RegionType)
          BY <5>2, PageTextIs
        <5> QED BY <5>1, <5>3
      <4>2. CASE g = j /\ k = m
        BY <1>1, <4>2 DEF Moved
      <4>3. CASE g # j \/ k # m
        <5>1. pages'[g].regions[k] = pages[g].regions[k]
          BY <1>1, <3>1, <4>1, <4>3 DEF Moved
        <5> QED BY <5>1
      <4> QED BY <4>2, <4>3
    <3>4. q[g] = o[g]
      <4>1. DOMAIN pages' = DOMAIN pages
        BY <1>1
      <4>2. original \in Seq(Page) /\ g \in 1 .. Len(original)
        BY <1>1, <3>1
      <4>3. Trims(original, pages')[g] = Trims(original, pages)[g]
        BY ONLY <3>2, <3>3, <4>1, <4>2, TrimsSame
      <4> QED BY <4>3
    <3> QED BY <1>3, <3>1, <3>4, Zenon
  <2> HIDE DEF e, f, n
  <2>2. i - 1 <= Len(e) /\ i - 1 <= Len(f)
    BY <1>1, <1>3
  <2> QED BY <1>1, <1>3, <2>1, <2>2, JointAgrees
<1>7. f[i] = rest \o u[i]
  <2>1. PageText(q[i]) = rest \o PageText(pages'[i])
    BY <1>1, HeadPageReads DEF Merging
  <2> QED BY <1>1, <1>2, <1>3, <2>1, Zenon
<1> HIDE DEF s, u, e, f
<1>8. Joint(u)[i] = Joint(u)[i - 1] \o u[i] /\ Joint(f)[i] = Joint(f)[i - 1] \o f[i]
  BY <1>1, <1>2, <1>3, JointIs
<1>9. Joint(s)[i - 1] \in Seq(Row) /\ u[i] \in Seq(Row)
  <2>1. Joint(s) \in [0 .. n -> Seq(Row)]
    BY <1>2, JointIs
  <2>2. i - 1 \in 0 .. n
    BY <1>1
  <2>3. u[i] \in Seq(Row)
    BY <1>1, <1>2
  <2> QED BY <2>1, <2>2, <2>3, Zenon
<1>10. (Joint(s)[i - 1] \o rest) \o u[i] = Joint(s)[i - 1] \o (rest \o u[i])
  <2>1. Associates(Row)
    BY Associative
  <2> QED BY <1>1, <1>9, <2>1, Zenon DEF Associates
<1>11. Joint(u)[i] = Joint(f)[i]
  BY <1>4, <1>5, <1>6, <1>7, <1>8, <1>10, Zenon
<1>12. current' - 1 = i /\ original' = original
  BY <1>1 DEF Merging, TableTypes
<1>13. Texts(pages)' = u /\ Texts(Expected)' = f
  <2>1. Expected' = q
    BY <1>12, ExpectedIs, Zenon
  <2> QED BY <2>1, Zenon DEF Texts, PageText, Shown, Seen, u, f
<1> QED BY <1>11, <1>12, <1>13, ZenonT(60) DEF ReadSoFar, Joint

\* A merge keeps the rest of the invariant too.
LEMMA MergeKeeps ==
  ASSUME TableInv, NEW i, NEW b, NEW j, NEW m, NEW rest, Merging(i, b, j, m, rest)
  PROVE  TableInv'
<1> DEFINE n == Len(pages)
           R(g, h) == pages[g].regions[h]
           Q(g, h) == pages'[g].regions[h]
           In(g, h) == g \in 1 .. n /\ h \in DOMAIN pages[g].regions
<1>1. /\ pages \in Seq(Page) /\ pages' \in Seq(Page) /\ original \in Seq(Page)
      /\ Len(pages') = n /\ Len(original) = n
      /\ i = current /\ current \in Nat /\ requireHeader \in BOOLEAN
      /\ current' = current + 1 /\ original' = original /\ requireHeader' = requireHeader
      /\ rest \in Seq(Row) /\ i \in 2 .. n
  BY DEF TableInv, TableTypes, Merging, Moved
<1>2. n \in Nat /\ DOMAIN pages = 1 .. n /\ DOMAIN pages' = 1 .. n /\ DOMAIN original = 1 .. n
  BY <1>1
<1> HIDE DEF n
<1>3. i \in 1 .. n /\ j \in 1 .. n /\ j < i /\ i # j /\ In(i, b) /\ In(j, m)
  BY <1>1, <1>2 DEF Merging, Trailing
<1>4. \A g \in 1 .. n :
        /\ pages'[g].number = pages[g].number /\ Len(pages'[g].regions) = Len(pages[g].regions)
        /\ DOMAIN pages'[g].regions = DOMAIN pages[g].regions
        /\ DOMAIN original[g].regions = DOMAIN pages[g].regions
        /\ g # i /\ g # j => pages'[g] = pages[g]
  <2> SUFFICES ASSUME NEW g \in 1 .. n
               PROVE  /\ pages'[g].number = pages[g].number /\ Len(pages'[g].regions) = Len(pages[g].regions)
                      /\ DOMAIN pages'[g].regions = DOMAIN pages[g].regions
                      /\ DOMAIN original[g].regions = DOMAIN pages[g].regions
                      /\ g # i /\ g # j => pages'[g] = pages[g]
    OBVIOUS
  <2>1. pages[g] \in Page /\ pages'[g] \in Page /\ original[g] \in Page
    BY <1>1, <1>2
  <2>2. /\ pages[g].regions \in Seq(RegionType) /\ pages'[g].regions \in Seq(RegionType)
        /\ original[g].regions \in Seq(RegionType)
    BY <2>1, PageTextIs
  <2>3. /\ pages'[g].number = pages[g].number /\ Len(pages'[g].regions) = Len(pages[g].regions)
        /\ g # i /\ g # j => pages'[g] = pages[g]
    BY <1>2 DEF Merging, Moved
  <2>4. Len(original[g].regions) = Len(pages[g].regions)
    BY <1>2 DEF TableInv, SamePlaces
  <2> QED BY <2>2, <2>3, <2>4
<1>5. \A g, h : In(g, h) /\ (g # i \/ h # b) /\ (g # j \/ h # m) => Q(g, h) = R(g, h)
  BY <1>2, ZenonT(60) DEF Merging, Moved
<1>6. /\ Q(j, m).content = R(j, m).content \o rest /\ Q(j, m).link = R(j, m).link
      /\ Q(j, m).ordered = R(j, m).ordered /\ Q(j, m).asset = R(j, m).asset
      /\ Q(j, m).mergedPages = R(j, m).mergedPages \cup {pages[i].number}
      /\ Q(i, b).content = <<>> /\ Q(i, b).link = [page |-> pages[j].number, region |-> m]
      /\ ~Q(i, b).asset
      /\ ~Merged(R(j, m)) /\ R(j, m).ordered /\ ~R(j, m).asset /\ R(j, m).content # <<>>
  BY DEF Merging, Moved, Trailing
<1>7. /\ Q(j, m).content # <<>>
      /\ Head(Q(j, m).content) = Head(R(j, m).content)
  <2> DEFINE c == R(j, m).content
  <2>1. c \in Seq(Row) /\ c # <<>>
    <3>1. pages[j] \in Page
      BY <1>1, <1>2, <1>3
    <3>2. R(j, m) \in RegionType
      BY <1>3, <3>1, RowsShown
    <3> QED BY <1>6, <3>2 DEF RegionType
  <2> HIDE DEF c
  <2>2. c \o rest # <<>> /\ Head(c \o rest) = Head(c)
    BY <1>1, <2>1
  <2> QED BY <1>6, <2>2 DEF c
<1>8. pages[j].number # 0
  BY <1>2, <1>3 DEF TableInv, SamePlaces
<1>9. Merged(Q(i, b)) /\ ~Merged(Q(j, m))
  <2>1. Q(i, b).link = [page |-> pages[j].number, region |-> m] /\ Q(j, m).link = R(j, m).link /\ ~Merged(R(j, m))
    BY <1>6
  <2> HIDE DEF Q, R
  <2> QED BY <1>8, <2>1 DEF Merged, NoLink
<1>10. \A g \in 1 .. n : \A h \in DOMAIN pages[g].regions : Merged(R(g, h)) => g < i
  <2> SUFFICES ASSUME NEW g \in 1 .. n, NEW h \in DOMAIN pages[g].regions, ~(g < i) PROVE ~Merged(R(g, h))
    OBVIOUS
  <2>1. g >= current
    BY <1>1
  <2>2. pages[g] = original[g] /\ g \in DOMAIN original
    BY <1>2, <2>1 DEF TableInv, Untouched
  <2> QED BY <2>2 DEF TableInv, Untouched
<1>20. ~Merged(R(i, b))
  BY <1>1, <1>3, <1>10
<1> HIDE DEF R, Q
<1>11. \A g, h : In(g, h) /\ ~Shows(R(g, h)) => ~Shows(Q(g, h))
  <2> SUFFICES ASSUME NEW g, NEW h, In(g, h), ~Shows(R(g, h)) PROVE ~Shows(Q(g, h))
    OBVIOUS
  <2>1. CASE g = i /\ h = b
    BY <1>6, <2>1 DEF Shows
  <2>2. CASE g = j /\ h = m
    BY <1>6, <2>2 DEF Shows
  <2>3. CASE (g # i \/ h # b) /\ (g # j \/ h # m)
    BY <1>5, <2>3
  <2> QED BY <2>1, <2>2, <2>3
<1>12. TableTypes'
  BY <1>1, <1>2 DEF TableTypes, n
<1>13. SamePlaces'
  <2>1. \A g \in DOMAIN pages' :
          /\ pages'[g].number = original'[g].number /\ pages'[g].number # 0
          /\ Len(pages'[g].regions) = Len(original'[g].regions)
    BY <1>1, <1>2, <1>4 DEF TableInv, SamePlaces
  <2>2. \A g, h \in DOMAIN pages' : g < h => pages'[g].number < pages'[h].number
    BY <1>2, <1>4 DEF TableInv, SamePlaces
  <2> QED BY <2>1, <2>2 DEF SamePlaces
<1>14. Untouched'
  <2>1. \A g \in 1 .. n : g >= current + 1 => g # i /\ g # j /\ g >= current
    BY <1>1, <1>3
  <2>2. \A g \in 1 .. n : g >= current + 1 => pages'[g] = original[g]
    BY <1>2, <1>4, <2>1 DEF TableInv, Untouched
  <2>3. \A g \in DOMAIN original' : \A k \in DOMAIN original'[g].regions : ~Merged(original'[g].regions[k])
    BY <1>1 DEF TableInv, Untouched
  <2> QED BY <1>1, <1>2, <2>2, <2>3, Zenon DEF Untouched, Merged, NoLink
<1>15. Headed'
  <2> SUFFICES ASSUME NEW g \in 1 .. n, NEW k \in DOMAIN pages[g].regions, ~Merged(Q(g, k))
               PROVE  /\ Q(g, k).content = <<>> <=> original[g].regions[k].content = <<>>
                      /\ Head(Q(g, k).content) = Head(original[g].regions[k].content)
    BY <1>1, <1>2, <1>4, ZenonT(60) DEF Headed, Merged, NoLink, Q
  <2>1. ~Merged(R(g, k)) => /\ R(g, k).content = <<>> <=> original[g].regions[k].content = <<>>
                            /\ Head(R(g, k).content) = Head(original[g].regions[k].content)
    BY <1>2 DEF TableInv, Headed, R
  <2>2. CASE g = i /\ k = b
    BY <1>9, <2>2
  <2>3. CASE g = j /\ k = m
    BY <1>6, <1>7, <2>1, <2>3
  <2>4. CASE (g # i \/ k # b) /\ (g # j \/ k # m)
    BY <1>5, <2>1, <2>4
  <2> QED BY <2>2, <2>3, <2>4
<1>16. \A g, k, v, w : In(g, k) /\ v \in 1 .. n /\ Silent(v, w, g, k) => Silent(v, w, g, k)'
  <2> SUFFICES ASSUME NEW g, NEW k, NEW v, NEW w, In(g, k), v \in 1 .. n, Silent(v, w, g, k)
               PROVE  Silent(v, w, g, k)'
    OBVIOUS
  <2>1. \A h \in DOMAIN pages[v].regions : h > w => ~Shows(Q(v, h))
    BY <1>11 DEF Silent, R
  <2>2. \A x \in 1 .. n : v < x /\ x < g => \A h \in DOMAIN pages[x].regions : ~Shows(Q(x, h))
    BY <1>2, <1>11 DEF Silent, R
  <2>3. \A h \in DOMAIN pages[g].regions : h < k => ~Shows(Q(g, h))
    BY <1>11 DEF Silent, R
  <2> QED BY <1>2, <1>4, <2>1, <2>2, <2>3, Zenon DEF Silent, Shows, Q
<1>17. Silent(j, m, i, b)
  BY <1>2 DEF Silent, Merging, Trailing
<1>18. \A g, k, v, w :
         In(g, k) <=> g \in DOMAIN pages' /\ k \in DOMAIN pages'[g].regions
  BY <1>2, <1>4
<1>19. Rooted'
  <2> SUFFICES ASSUME NEW g, NEW k, NEW w, In(g, k), Merged(Q(g, k)), w = Q(g, k).link.region
               PROVE  /\ Q(g, k).content = <<>> /\ ~Q(g, k).asset
                      /\ \E v \in 1 .. n : MergedInto(g, k, v, w)'
    BY <1>2, <1>18, Zenon DEF Rooted, Merged, NoLink, Q
  <2>1. CASE g = i /\ k = b
    <3>1. Q(i, b).link.region = m
      BY <1>6
    <3>2. pages'[j].number = pages[j].number /\ pages'[i].number = pages[i].number
      BY <1>3, <1>4
    <3>3. pages[i].number \in Q(j, m).mergedPages
      BY <1>6
    <3>4. m \in DOMAIN pages'[j].regions
      BY <1>3, <1>4
    <3>5. Silent(j, m, i, b)'
      BY <1>3, <1>16, <1>17
    <3>6. Q(j, m).ordered /\ ~Q(j, m).asset
      BY <1>6
    <3>7. MergedInto(i, b, j, m)'
      BY <1>3, <1>6, <1>7, <1>9, <3>2, <3>3, <3>4, <3>5, <3>6, Zenon DEF MergedInto, Merged, NoLink, Q
    <3>8. w = m /\ j \in 1 .. n
      BY <1>3, <2>1, <3>1
    <3> QED BY <1>6, <2>1, <3>7, <3>8, Zenon
  <2>2. CASE g # i \/ k # b
    <3>1. g # j \/ k # m
      BY <1>9
    <3>2. Q(g, k) = R(g, k)
      BY <1>5, <2>2, <3>1
    <3>3. Merged(R(g, k)) /\ g < i
      BY <1>2, <1>10, <3>2
    <3>4. /\ R(g, k).content = <<>> /\ ~R(g, k).asset
          /\ \E v \in 1 .. n : MergedInto(g, k, v, w)
      BY <1>2, <3>2, <3>3 DEF TableInv, Rooted, R
    <3>5. PICK v \in 1 .. n : MergedInto(g, k, v, w)
      BY <3>4
    <3>6. /\ v < g /\ R(g, k).link = [page |-> pages[v].number, region |-> w]
          /\ In(v, w) /\ ~Merged(R(v, w))
          /\ R(v, w).ordered /\ ~R(v, w).asset /\ R(v, w).content # <<>>
          /\ pages[g].number \in R(v, w).mergedPages
          /\ Silent(v, w, g, k)
      BY <1>2, <3>5 DEF MergedInto, R
    <3>7. v # i
      <4>1. v \in Int /\ g \in Int /\ i \in Int
        BY <1>3
      <4> QED BY <3>3, <3>6, <4>1
    <3>8. /\ ~Merged(Q(v, w)) /\ Q(v, w).ordered /\ ~Q(v, w).asset /\ Q(v, w).content # <<>>
          /\ pages[g].number \in Q(v, w).mergedPages
      <4>1. CASE v = j /\ w = m
        BY <1>6, <1>7, <1>9, <3>6, <4>1
      <4>2. CASE v # j \/ w # m
        <5>1. Q(v, w) = R(v, w)
          BY <1>5, <3>6, <3>7, <4>2
        <5> QED BY <3>6, <5>1
      <4> QED BY <4>1, <4>2
    <3>9. pages'[v].number = pages[v].number /\ pages'[g].number = pages[g].number
      BY <1>4
    <3>10. w \in DOMAIN pages'[v].regions
      BY <1>4, <3>6
    <3>11. Silent(v, w, g, k)'
      BY <1>16, <3>6
    <3>12. MergedInto(g, k, v, w)'
      BY <3>2, <3>6, <3>8, <3>9, <3>10, <3>11, Zenon DEF MergedInto, Merged, NoLink, Q
    <3> QED BY <3>2, <3>4, <3>12, Zenon
  <2> QED BY <2>1, <2>2
<1> QED BY <1>12, <1>13, <1>14, <1>15, <1>19, MergeReads DEF TableInv

\* The loop keeps the invariant.
LEMMA NextPageKeeps == TableInv /\ NextPage => TableInv'
<1> SUFFICES ASSUME TableInv, NextPage PROVE TableInv'
  OBVIOUS
<1> DEFINE i == current
           a == Foot(pages[i - 1])
           b == Top(pages[i])
           root == Root(i - 1, a)
<1>1. /\ TableTypes /\ SamePlaces /\ Rooted
      /\ i \in 2 .. Len(pages) /\ current' = current + 1
      /\ original' = original /\ requireHeader' = requireHeader
  BY DEF NextPage, TableInv
<1>2. pages \in Seq(Page) /\ i \in DOMAIN pages /\ i - 1 \in DOMAIN pages /\ i \in Nat
  <2>1. pages \in Seq(Page)
    BY <1>1 DEF TableTypes
  <2> QED BY <1>1, <2>1
<1>3. CASE UNCHANGED pages
  BY <1>1, <1>3, PassKeeps
<1>4. CASE /\ a # 0 /\ b <= Len(pages[i].regions)
           /\ Adjacent(pages[i - 1].regions[a], pages[i].regions[b])
           /\ Merge(i, b, root)
  <2>1. pages[i] \in Page /\ IsTable(pages[i - 1].regions[a]) /\ IsTable(pages[i].regions[b])
    BY <1>2, <1>4 DEF Adjacent
  <2>2. /\ b \in DOMAIN pages[i].regions /\ Shows(pages[i].regions[b])
        /\ \A h \in DOMAIN pages[i].regions : h < b => ~Shows(pages[i].regions[h])
    <3>1. /\ b \in 1 .. Len(pages[i].regions) + 1 /\ Shows(pages[i].regions[b])
          /\ \A h \in DOMAIN pages[i].regions : h < b => ~Shows(pages[i].regions[h])
      BY <1>4, <2>1, TopIs
    <3>2. pages[i].regions \in Seq(RegionType)
      BY <2>1, PageTextIs
    <3> HIDE DEF b
    <3>3. b \in DOMAIN pages[i].regions
      BY <1>4, <3>1, <3>2
    <3> QED BY <3>1, <3>3
  <2>3. ~pages[i].regions[b].asset /\ pages[i].regions[b].content # <<>>
    BY <2>1, <2>2 DEF IsTable, Shows
  <2>4. PICK j, m : root = [page |-> j, region |-> m] /\ Trailing(i, j, m)
    BY <1>1, <1>2, <1>4, <2>1, RootTrails
  <2>5. /\ j \in DOMAIN pages /\ m \in DOMAIN pages[j].regions /\ j # i
    BY <1>2, <2>4 DEF Trailing
  <2> HIDE DEF a, b, root
  <2>6. PICK rest : rest = Added(pages[j].regions[m].content, pages[i].regions[b].content)
    OBVIOUS
  <2>7. Merge(i, b, [page |-> j, region |-> m])
    BY <1>4, <2>4
  <2>8. rest \in Seq(Row) /\ Moved(i, b, j, m, rest)
    BY <1>1, <1>2, <2>2, <2>3, <2>5, <2>6, <2>7, MergeMoves
  <2>9. Merging(i, b, j, m, rest)
    BY <1>1, <1>2, <2>2, <2>3, <2>4, <2>6, <2>8 DEF Merging
  <2> QED BY <2>9, MergeKeeps
<1> QED BY <1>3, <1>4, Zenon DEF NextPage

\* Every step does.
LEMMA TableStep == TableInv /\ [TableNext]_tableVars => TableInv'
<1> SUFFICES ASSUME TableInv, [TableNext]_tableVars PROVE TableInv'
  OBVIOUS
<1>1. CASE Recognised
  BY <1>1, RecognisedKeeps
<1>2. CASE Start
  BY <1>2, StartKeeps
<1>3. CASE NextPage
  BY <1>3, NextPageKeeps
<1>4. CASE UNCHANGED tableVars
  <2>1. original' = original /\ pages' = pages /\ requireHeader' = requireHeader /\ current' = current
    BY <1>4 DEF tableVars
  <2>2. /\ SamePlaces' /\ Rooted' /\ Headed'
        /\ Texts(pages)' = Texts(pages) /\ Texts(Expected)' = Texts(Expected)
    BY <2>1, NothingMerged
  <2>3. TableTypes'
    BY <2>1 DEF TableInv, TableTypes
  <2>4. Untouched'
    BY <2>1, Zenon DEF TableInv, Untouched, Merged, NoLink
  <2>5. ReadSoFar'
    BY <2>1, <2>2, Zenon DEF TableInv, ReadSoFar, Joint
  <2> QED BY <2>2, <2>3, <2>4, <2>5 DEF TableInv
<1> QED BY <1>1, <1>2, <1>3, <1>4 DEF TableNext

\* A finished document reads as expected.
LEMMA FinishedReads == TableInv => EveryRowOnce
<1> SUFFICES ASSUME TableInv, current > Len(pages) PROVE
      /\ Reading(pages) = Reading(Expected)
      /\ \A i \in DOMAIN pages : \A k \in DOMAIN pages[i].regions :
           LET link == pages[i].regions[k].link IN
           Merged(pages[i].regions[k]) => \E j \in DOMAIN pages :
             /\ pages[j].number = link.page
             /\ pages[i].number \in pages[j].regions[link.region].mergedPages
             /\ ~Merged(pages[j].regions[link.region])
  BY Zenon DEF EveryRowOnce
<1> DEFINE n == Len(pages)
<1>1. /\ pages \in Seq(Page) /\ original \in Seq(Page) /\ Len(original) = n /\ n \in Nat
      /\ current \in Nat /\ current <= n + 1
  <2>1. /\ pages \in Seq(Page) /\ original \in Seq(Page) /\ Len(original) = n
        /\ current \in Nat /\ current <= n + 1
    BY DEF TableInv, TableTypes
  <2> QED BY <2>1
<1>2. current - 1 = n /\ current # 0
  BY <1>1
<1>3. Joint(Texts(pages))[n] = Joint(Texts(Expected))[n]
  BY <1>2 DEF TableInv, ReadSoFar
<1>4. Expected \in Seq(Page) /\ Len(Expected) = n
  BY <1>1, ExpectedIs, TrimsAre
<1>5. /\ Texts(pages) \in Seq(Seq(Row)) /\ Len(Texts(pages)) = n
      /\ Texts(Expected) \in Seq(Seq(Row)) /\ Len(Texts(Expected)) = n
  BY <1>1, <1>4, TextsAre
<1>6. FlattenSeq(Texts(pages)) = FlattenSeq(Texts(Expected))
  BY <1>3, <1>5, JointIs
<1>7. Reading(pages) = Reading(Expected)
  BY <1>6, Zenon DEF Reading, Texts
<1>8. \A i \in DOMAIN pages : \A k \in DOMAIN pages[i].regions :
        Merged(pages[i].regions[k]) => \E j \in DOMAIN pages :
          /\ pages[j].number = pages[i].regions[k].link.page
          /\ pages[i].number \in pages[j].regions[pages[i].regions[k].link.region].mergedPages
          /\ ~Merged(pages[j].regions[pages[i].regions[k].link.region])
  <2> SUFFICES ASSUME NEW i \in DOMAIN pages, NEW k \in DOMAIN pages[i].regions, Merged(pages[i].regions[k])
               PROVE  \E j \in DOMAIN pages :
                        /\ pages[j].number = pages[i].regions[k].link.page
                        /\ pages[i].number \in pages[j].regions[pages[i].regions[k].link.region].mergedPages
                        /\ ~Merged(pages[j].regions[pages[i].regions[k].link.region])
    OBVIOUS
  <2> DEFINE link == pages[i].regions[k].link
  <2>1. PICK j \in DOMAIN pages : MergedInto(i, k, j, link.region)
    BY DEF TableInv, Rooted
  <2>2. /\ link = [page |-> pages[j].number, region |-> link.region]
        /\ pages[i].number \in pages[j].regions[link.region].mergedPages
        /\ ~Merged(pages[j].regions[link.region])
    BY <2>1 DEF MergedInto
  <2>3. link.page = pages[j].number
    BY <2>2
  <2> QED BY <2>2, <2>3
<1> QED BY <1>7, <1>8

\* Whatever pages come, with whatever tables on them: merging moves rows to where their
\* table began and leaves out repeated headers; nothing else is lost, doubled or read out
\* of order, and every emptied region leads to the one that holds its rows
\* (postprocess_document()).
THEOREM TablesKeepRows == TableSpec => []EveryRowOnce
<1>1. TableInv /\ [TableNext]_tableVars => TableInv'
  BY TableStep
<1> QED BY <1>1, TableInitially, FinishedReads, PTL DEF TableSpec
-----------------------------------------------------------------------------
(* VisualWave.  Sums.                                                      *)

Queued == DOMAIN requests

\* Requests have costs.
Costed == requests \in Seq(Visual \X Prompt)

\* Every request has a prefill.
LEMMA PrefillType ==
  ASSUME Costed
  PROVE  /\ Len(requests) \in Nat /\ Queued = 1 .. Len(requests)
         /\ \A k \in Queued : Prefill(k) \in Nat
<1>1. Len(requests) \in Nat /\ Queued = 1 .. Len(requests)
  BY DEF Costed, Queued
<1>2. ASSUME NEW k \in Queued PROVE Prefill(k) \in Nat
  <2>1. requests[k] \in Visual \X Prompt
    BY <1>1 DEF Costed
  <2>2. requests[k][1] \in Nat /\ requests[k][2] \in Nat
    BY <2>1, WaveAssumption
  <2> QED BY <2>2 DEF Prefill
<1> QED BY <1>1, <1>2

\* A sum over the elements of a sequence, one by one.
LEMMA PrefillsAre ==
  ASSUME Costed, NEW s \in Seq(Queued)
  PROVE  /\ Len(s) \in Nat
         /\ Prefills(s) \in [0 .. Len(s) -> Nat]
         /\ Prefills(s)[0] = 0
         /\ \A k \in 1 .. Len(s) : Prefills(s)[k] = Prefills(s)[k - 1] + Prefill(s[k])
<1> DEFINE n == Len(s)
           step == [x \in (1 .. n) \X Nat |-> x[2] + Prefill(s[x[1]])]
           Body(g) == [k \in 0 .. n |-> IF k = 0 THEN 0 ELSE g[k - 1] + Prefill(s[k])]
           J == Prefills(s)
<1>1. n \in Nat /\ \A k \in 1 .. n : Prefill(s[k]) \in Nat
  <2>1. n \in Nat /\ \A k \in 1 .. n : s[k] \in Queued
    OBVIOUS
  <2> HIDE DEF n
  <2> QED BY <2>1, PrefillType
<1>2. J = CHOOSE g : g = Body(g)
  BY Zenon DEF Prefills
<1> HIDE DEF n, J
<1>3. step \in [(1 .. n) \X Nat -> Nat]
  BY <1>1
<1>4. PICK g : Recurs(g, n, Nat, 0, step)
  <2> HIDE DEF step
  <2> QED BY <1>1, <1>3, RecursionExists
<1>5. \A k \in 1 .. n : g[k] = g[k - 1] + Prefill(s[k])
  <2> TAKE k \in 1 .. n
  <2>1. k - 1 \in 0 .. n
    BY <1>1
  <2>2. g[k - 1] \in Nat
    BY <2>1, <1>4 DEF Recurs
  <2>3. step[<<k, g[k - 1]>>] = g[k - 1] + Prefill(s[k])
    BY <2>2
  <2> QED BY <1>4, <2>3 DEF Recurs
<1> HIDE DEF step
<1>6. g = Body(g)
  <2>1. g = [k \in 0 .. n |-> g[k]]
    BY <1>4 DEF Recurs
  <2>2. \A k \in 0 .. n : g[k] = Body(g)[k]
    <3> TAKE k \in 0 .. n
    <3>1. CASE k = 0
      BY <3>1, <1>4 DEF Recurs
    <3>2. CASE k # 0
      <4>1. k \in 1 .. n
        BY <3>2, <1>1
      <4> QED BY <1>5, <3>2, <4>1
    <3> QED BY <3>1, <3>2
  <2>3. Body(g) = [k \in 0 .. n |-> Body(g)[k]]
    OBVIOUS
  <2> HIDE DEF Body
  <2> QED BY <2>1, <2>2, <2>3
<1>7. J = Body(J)
  <2> HIDE DEF Body
  <2> QED BY <1>2, <1>6
<1>8. J = [k \in 0 .. n |-> J[k]]
  BY <1>7
<1>9. J[0] = 0 /\ \A k \in 1 .. n : J[k] = J[k - 1] + Prefill(s[k])
  <2>1. 0 \in 0 .. n /\ \A k \in 1 .. n : k \in 0 .. n /\ k # 0
    BY <1>1
  <2>2. Body(J)[0] = 0 /\ \A k \in 1 .. n : Body(J)[k] = J[k - 1] + Prefill(s[k])
    BY <2>1
  <2> HIDE DEF Body
  <2> QED BY <1>7, <2>2
<1> DEFINE T == {k \in Nat : k <= n => J[k] \in Nat}
<1>10. 0 \in T
  BY <1>9
<1>11. \A k \in Nat : k \in T => k + 1 \in T
  <2> SUFFICES ASSUME NEW k \in T, k + 1 <= n PROVE J[k + 1] \in Nat
    OBVIOUS
  <2> DEFINE m == k + 1
  <2>0. k \in Nat /\ n \in Nat /\ k + 1 <= n
    <3>1. k \in Nat
      OBVIOUS
    <3>2. k + 1 <= n
      OBVIOUS
    <3> QED BY <3>1, <3>2, <1>1
  <2>1. m \in 1 .. n /\ m - 1 = k /\ k <= n
    BY ONLY <2>0
  <2> HIDE DEF m
  <2>2. J[m - 1] \in Nat /\ Prefill(s[m]) \in Nat
    BY <2>1, <1>1
  <2>3. J[m] \in Nat
    BY <1>9, <2>1, <2>2
  <2> QED BY <2>3 DEF m
<1> HIDE DEF T
<1>12. Nat \subseteq T
  BY <1>10, <1>11, NatInductive
<1>13. \A k \in 0 .. n : J[k] \in Nat
  BY <1>12, <1>1 DEF T
<1>14. J \in [0 .. n -> Nat]
  BY <1>8, <1>13
<1> QED BY <1>1, <1>9, <1>14 DEF n, J

\* What is added to a sum does not depend on what was there before.
LEMMA PrefillsAgree ==
  ASSUME Costed, NEW s \in Seq(Queued), NEW t \in Seq(Queued), NEW a \in Nat, NEW m \in Nat,
         m <= Len(s), a + m <= Len(t), \A j \in 1 .. m : t[a + j] = s[j]
  PROVE  Prefills(t)[a + m] = Prefills(t)[a] + Prefills(s)[m]
<1> DEFINE S == Prefills(s)
           U == Prefills(t)
<1>1. /\ S \in [0 .. Len(s) -> Nat] /\ S[0] = 0
      /\ \A k \in 1 .. Len(s) : S[k] = S[k - 1] + Prefill(s[k])
      /\ U \in [0 .. Len(t) -> Nat]
      /\ \A k \in 1 .. Len(t) : U[k] = U[k - 1] + Prefill(t[k])
      /\ Len(s) \in Nat /\ Len(t) \in Nat
  BY PrefillsAre
<1> HIDE DEF S, U
<1> DEFINE T == {k \in Nat : k <= m => U[a + k] = U[a] + S[k]}
<1>2. 0 \in T
  <2>0. a \in 0 .. Len(t)
    BY <1>1
  <2>1. U[a] \in Nat
    BY <1>1, <2>0
  <2>2. a + 0 = a
    OBVIOUS
  <2> QED BY <1>1, <2>1, <2>2
<1>3. \A k \in Nat : k \in T => k + 1 \in T
  <2> SUFFICES ASSUME NEW k \in T, k + 1 <= m PROVE U[a + (k + 1)] = U[a] + S[k + 1]
    OBVIOUS
  <2>12. k \in Nat /\ k <= m /\ (k <= m => U[a + k] = U[a] + S[k])
    OBVIOUS
  <2> DEFINE n == k + 1
             b == a + n
  <2>1. /\ n \in 1 .. m /\ n \in 1 .. Len(s) /\ n - 1 = k /\ k <= m
        /\ b \in 1 .. Len(t) /\ b - 1 = a + k /\ k \in 0 .. Len(s)
    BY <1>1
  <2>2. t[b] = s[n] /\ a \in 0 .. Len(t)
    <3>1. t[b] = s[n]
      BY ONLY <2>1, \A j \in 1 .. m : t[a + j] = s[j]
    <3>2. a <= Len(t)
      BY ONLY <1>1, a + m <= Len(t), a \in Nat, m \in Nat
    <3> QED BY <1>1, <3>1, <3>2
  <2>10. U[a + k] = U[a] + S[k]
    BY ONLY <2>12
  <2> HIDE DEF T, n, b
  <2>3. U[b - 1] = U[a] + S[n - 1]
    <3>1. b - 1 = a + k /\ n - 1 = k
      BY <2>1
    <3> HIDE DEF S, U
    <3> QED BY ONLY <2>10, <3>1, Zenon
  <2>4. U[a] \in Nat /\ S[n - 1] \in Nat /\ Prefill(s[n]) \in Nat
    <3>1. s[n] \in Queued
      BY <2>1
    <3> QED BY <1>1, <2>1, <2>2, <3>1, PrefillType
  <2>5. U[b] = U[b - 1] + Prefill(s[n]) /\ S[n] = S[n - 1] + Prefill(s[n])
    BY <1>1, <2>1, <2>2
  <2>6. U[b] = U[a] + S[n]
    BY <2>3, <2>4, <2>5
  <2> QED BY <2>6 DEF n, b
<1> HIDE DEF T
<1>4. m \in T
  BY <1>2, <1>3, NatInductive
<1> QED BY <1>4 DEF T, S, U

\* A part of a sequence sums up to a difference.
LEMMA PartTotal ==
  ASSUME Costed, NEW s \in Seq(Queued), NEW a \in 1 .. Len(s) + 1, NEW b \in a - 1 .. Len(s)
  PROVE  /\ SubSeq(s, a, b) \in Seq(Queued) /\ Len(SubSeq(s, a, b)) = b - a + 1
         /\ Prefills(s)[b] = Prefills(s)[a - 1] + Total(SubSeq(s, a, b))
<1> DEFINE p == SubSeq(s, a, b)
           n == b - a + 1
           c == a - 1
<1>1. /\ Len(s) \in Nat /\ n \in Nat /\ c \in Nat /\ c + n = b
      /\ p \in Seq(Queued) /\ Len(p) = n /\ \A j \in 1 .. n : p[j] = s[c + j]
  <2>1. Len(s) \in Nat /\ n \in Nat /\ c \in Nat /\ c + n = b /\ \A j \in 1 .. n : a + j - 1 = c + j
    OBVIOUS
  <2>2. p \in Seq(Queued) /\ Len(p) = n /\ \A j \in 1 .. n : p[j] = s[a + j - 1]
    OBVIOUS
  <2> QED BY <2>1, <2>2
<1> HIDE DEF p, n, c
<1>2. Prefills(s)[c + n] = Prefills(s)[c] + Prefills(p)[n]
  <2>1. n <= Len(p) /\ c + n <= Len(s) /\ \A j \in 1 .. n : s[c + j] = p[j]
    BY <1>1
  <2> QED BY ONLY Costed, s \in Seq(Queued), <1>1, <2>1, PrefillsAgree
<1>3. Total(p) = Prefills(p)[n]
  BY <1>1 DEF Total
<1> QED BY <1>1, <1>2, <1>3 DEF p, n, c

\* What a window adds to its sum, and what it takes off.
Passed(s, w, i) == IF i > w THEN Prefills(s)[i - w] ELSE 0

\* The sum of a window that slides is that of what is in the window.
LEMMA SlideSums ==
  ASSUME Costed, NEW s \in Seq(Queued), NEW w \in Nat \ {0}
  PROVE  \A i \in 0 .. Len(s) : Slide(s, w)[i] = Prefills(s)[i] - Passed(s, w, i)
<1> DEFINE n == Len(s)
           F == Prefills(s)
           off(k) == IF k > w THEN Prefill(s[k - w]) ELSE 0
           Body(g) == [k \in 0 .. n |-> IF k = 0 THEN 0 ELSE g[k - 1] + Prefill(s[k]) - off(k)]
           J == Slide(s, w)
           g == [k \in 0 .. n |-> F[k] - Passed(s, w, k)]
<1>1. /\ n \in Nat /\ \A k \in 1 .. n : Prefill(s[k]) \in Nat
      /\ F \in [0 .. n -> Nat] /\ F[0] = 0
      /\ \A k \in 1 .. n : F[k] = F[k - 1] + Prefill(s[k])
  <2>1. n \in Nat /\ \A k \in 1 .. n : s[k] \in Queued
    OBVIOUS
  <2> HIDE DEF n, F
  <2>2. \A k \in 1 .. n : Prefill(s[k]) \in Nat
    BY <2>1, PrefillType
  <2> QED BY <2>1, <2>2, PrefillsAre DEF n, F
<1>2. J = CHOOSE h : h = Body(h)
  BY Zenon DEF Slide
<1> HIDE DEF n, J, F
<1>3. \A k \in 0 .. n : Passed(s, w, k) = IF k > w THEN F[k - w] ELSE 0
  BY DEF Passed, F
<1>4. \A k \in 0 .. n : g[k] = F[k] - (IF k > w THEN F[k - w] ELSE 0)
  BY <1>3
<1>5. \A k \in 0 .. n : g[k] = Body(g)[k]
  <2> TAKE k \in 0 .. n
  <2>0. Body(g)[k] = IF k = 0 THEN 0 ELSE g[k - 1] + Prefill(s[k]) - off(k)
    OBVIOUS
  <2>1. CASE k = 0
    <3>1. ~(k > w) /\ F[k] = 0
      BY <2>1, <1>1
    <3>2. g[k] = F[k] - 0
      BY <1>4, <3>1
    <3> HIDE DEF Body, g
    <3> QED BY <2>0, <2>1, <3>1, <3>2
  <2>2. CASE k # 0
    <3>1. k \in 1 .. n /\ k - 1 \in 0 .. n /\ k \in Int
      BY <2>2, <1>1
    <3>2. F[k - 1] \in Nat /\ F[k] = F[k - 1] + Prefill(s[k]) /\ Prefill(s[k]) \in Nat
      BY <1>1, <3>1
    <3>3. g[k - 1] = F[k - 1] - (IF k - 1 > w THEN F[(k - 1) - w] ELSE 0)
      BY <1>4, <3>1
    <3>4. g[k] = F[k] - (IF k > w THEN F[k - w] ELSE 0)
      BY <1>4
    <3>5. CASE k > w
      <4>1. k - w \in 1 .. n /\ (k - w) - 1 \in 0 .. n /\ (k - 1) - w = (k - w) - 1
        BY ONLY <1>1, <3>1, <3>5, w \in Nat \ {0}
      <4>2. F[k - w] = F[(k - w) - 1] + Prefill(s[k - w]) /\ F[(k - w) - 1] \in Nat
            /\ Prefill(s[k - w]) \in Nat
        BY <4>1, <1>1
      <4>3. g[k - 1] = F[k - 1] - F[(k - w) - 1]
        <5>1. CASE k - 1 > w
          BY <3>3, <4>1, <5>1
        <5>2. CASE ~(k - 1 > w)
          <6>1. (k - w) - 1 = 0
            BY <5>2, <3>5, <3>1
          <6> QED BY <3>3, <5>2, <6>1, <1>1
        <5> QED BY <5>1, <5>2
      <4>4. g[k] = F[k] - F[k - w] /\ off(k) = Prefill(s[k - w])
        BY <3>4, <3>5
      <4> HIDE DEF g, Body, off
      <4>5. g[k] = g[k - 1] + Prefill(s[k]) - off(k)
        BY <4>2, <4>3, <4>4, <3>2
      <4> QED BY <2>0, <2>2, <4>5
    <3>6. CASE ~(k > w)
      <4>1. ~(k - 1 > w)
        BY <3>6, <3>1
      <4>2. g[k - 1] = F[k - 1] - 0 /\ g[k] = F[k] - 0 /\ off(k) = 0
        BY <3>3, <3>4, <3>6, <4>1
      <4> HIDE DEF g, Body, off
      <4>3. g[k] = g[k - 1] + Prefill(s[k]) - off(k)
        BY <3>2, <4>2
      <4> QED BY <2>0, <2>2, <4>3
    <3> QED BY <3>5, <3>6
  <2> QED BY <2>1, <2>2
<1>6. g = Body(g)
  <2>1. g = [k \in 0 .. n |-> g[k]] /\ Body(g) = [k \in 0 .. n |-> Body(g)[k]]
    OBVIOUS
  <2> HIDE DEF g, Body
  <2> QED BY <1>5, <2>1
<1>7. J = Body(J)
  <2> HIDE DEF Body, g
  <2> QED BY <1>2, <1>6
<1>8. J[0] = 0 /\ \A k \in 1 .. n : J[k] = J[k - 1] + Prefill(s[k]) - off(k)
  <2>1. 0 \in 0 .. n /\ \A k \in 1 .. n : k \in 0 .. n /\ k # 0
    BY <1>1
  <2>2. Body(J)[0] = 0 /\ \A k \in 1 .. n : Body(J)[k] = J[k - 1] + Prefill(s[k]) - off(k)
    BY <2>1
  <2> HIDE DEF Body
  <2> QED BY <1>7, <2>2
<1>9. g[0] = 0 /\ \A k \in 1 .. n : g[k] = g[k - 1] + Prefill(s[k]) - off(k)
  <2>1. 0 \in 0 .. n /\ \A k \in 1 .. n : k \in 0 .. n /\ k # 0
    BY <1>1
  <2>2. Body(g)[0] = 0 /\ \A k \in 1 .. n : Body(g)[k] = g[k - 1] + Prefill(s[k]) - off(k)
    BY <2>1
  <2> HIDE DEF Body, g
  <2> QED BY <1>6, <2>2
<1>13. \A k \in 0 .. n : g[k] = F[k] - Passed(s, w, k)
  OBVIOUS
<1> HIDE DEF g, off
<1> DEFINE T == {k \in Nat : k <= n => J[k] = g[k]}
<1>10. 0 \in T
  BY <1>8, <1>9
<1>11. \A k \in Nat : k \in T => k + 1 \in T
  <2> SUFFICES ASSUME NEW k \in T, k + 1 <= n PROVE J[k + 1] = g[k + 1]
    OBVIOUS
  <2> DEFINE m == k + 1
  <2>0. k \in Nat
    OBVIOUS
  <2>1. m \in 1 .. n /\ m - 1 = k /\ k <= n
    BY <1>1, <2>0
  <2> HIDE DEF m
  <2>2. J[m - 1] = g[m - 1]
    BY <2>1
  <2>3. J[m] = g[m]
    BY <1>8, <1>9, <2>1, <2>2
  <2> QED BY <2>3 DEF m
<1> HIDE DEF T
<1>12. Nat \subseteq T
  BY <1>10, <1>11, NatInductive
<1> QED BY <1>12, <1>13, <1>1 DEF T, J, F, n

\* The sliding sum is the prefill of the window.
LEMMA SlideIs ==
  ASSUME Costed, NEW s \in Seq(Queued), NEW w \in Nat \ {0}, NEW i \in w .. Len(s)
  PROVE  Slide(s, w)[i] = Total(SubSeq(s, i - w + 1, i))
<1>1. Len(s) \in Nat /\ i \in 0 .. Len(s) /\ i - w + 1 \in 1 .. Len(s) + 1 /\ i \in (i - w + 1) - 1 .. Len(s)
      /\ (i - w + 1) - 1 = i - w /\ i - w \in 0 .. Len(s)
  OBVIOUS
<1>2. Slide(s, w)[i] = Prefills(s)[i] - Passed(s, w, i)
  BY <1>1, SlideSums
<1>3. Prefills(s)[i] = Prefills(s)[i - w] + Total(SubSeq(s, i - w + 1, i))
  <2> DEFINE a == i - w + 1
  <2>1. a \in 1 .. Len(s) + 1 /\ i \in a - 1 .. Len(s) /\ a - 1 = i - w
    BY <1>1
  <2> HIDE DEF a
  <2>2. Prefills(s)[i] = Prefills(s)[a - 1] + Total(SubSeq(s, a, i))
    BY <2>1, PartTotal
  <2> QED BY <2>1, <2>2 DEF a
<1>4. Prefills(s)[0] = 0 /\ Prefills(s) \in [0 .. Len(s) -> Nat]
  BY PrefillsAre
<1>5. Passed(s, w, i) = Prefills(s)[i - w]
  <2>1. ~(i > w) => i - w = 0
    OBVIOUS
  <2> QED BY <2>1, <1>4 DEF Passed
<1>6. Prefills(s)[i] \in Nat /\ Prefills(s)[i - w] \in Nat
  BY <1>1, <1>4
<1>7. \A x, y, z \in Int : x \in Nat /\ y \in Nat /\ x = y + z => x - y = z
  OBVIOUS
<1>8. Total(SubSeq(s, i - w + 1, i)) \in Int
  <2> DEFINE p == SubSeq(s, i - w + 1, i)
  <2>1. p \in Seq(Queued)
    BY <1>1, PartTotal
  <2> HIDE DEF p
  <2>2. Len(p) \in 0 .. Len(p) /\ Prefills(p) \in [0 .. Len(p) -> Nat]
    BY <2>1, PrefillsAre
  <2> QED BY <2>2 DEF Total, p
<1> QED BY <1>2, <1>3, <1>5, <1>6, <1>7, <1>8

\* The sum of a sequence is a natural number.
LEMMA TotalType ==
  ASSUME Costed, NEW s \in Seq(Queued)
  PROVE  Total(s) \in Nat
<1>1. Len(s) \in 0 .. Len(s)
  OBVIOUS
<1> QED BY <1>1, PrefillsAre DEF Total

-----------------------------------------------------------------------------
(* Waves.                                                                  *)

\* A sequence of requests that can go together: each once, and within the budget,
\* unless alone.
Packed(s) ==
  /\ s \in Seq(Queued)
  /\ \A j, k \in 1 .. Len(s) : s[j] = s[k] => j = k
  /\ \A k \in 2 .. Len(s) : Prefills(s)[k] <= TokenBudget

\* A request joins behind those that go, if they can go together.
LEMMA JoinPacks ==
  ASSUME Costed, NEW v, Packed(v), NEW k \in Queued, NEW target \in Nat, Len(v) <= target
  PROVE  /\ Packed(Join(v, k, target)) /\ Len(Join(v, k, target)) <= target
         /\ Len(v) <= Len(Join(v, k, target))
         /\ \A j \in 1 .. Len(v) : Join(v, k, target)[j] = v[j]
         /\ v = <<>> /\ target # 0 => Join(v, k, target) = <<k>>
<1>1. v \in Seq(Queued) /\ Len(v) \in Nat /\ (v = <<>> <=> Len(v) = 0)
  BY DEF Packed
<1>2. CASE Join(v, k, target) = v /\ ~(v = <<>> /\ target # 0)
  BY <1>1, <1>2
<1>3. CASE /\ Join(v, k, target) = Append(v, k) /\ Len(v) < target /\ k \notin Range(v)
           /\ v = <<>> \/ Total(v) + Prefill(k) <= TokenBudget
  <2> DEFINE u == Append(v, k)
             n == Len(v)
  <2>1. /\ u \in Seq(Queued) /\ Len(u) = n + 1 /\ u[n + 1] = k
        /\ \A j \in 1 .. n : u[j] = v[j]
    BY <1>1
  <2>2. \A j \in 1 .. n : v[j] # k
    BY <1>1, <1>3 DEF Range
  <2>3. v = <<>> => u = <<k>>
    BY <1>1
  <2> HIDE DEF u
  <2>4. \A i, j \in 1 .. Len(u) : u[i] = u[j] => i = j
    <3> SUFFICES ASSUME NEW i \in 1 .. Len(u), NEW j \in 1 .. Len(u), u[i] = u[j] PROVE i = j
      OBVIOUS
    <3>1. i \in 1 .. n \/ i = n + 1
      BY <1>1, <2>1
    <3>2. j \in 1 .. n \/ j = n + 1
      BY <1>1, <2>1
    <3>3. CASE i \in 1 .. n /\ j \in 1 .. n
      BY <3>3, <2>1 DEF Packed
    <3> QED BY <3>1, <3>2, <3>3, <2>1, <2>2
  <2>5. \A j \in 0 .. n : Prefills(u)[j] = Prefills(v)[j]
    <3> TAKE j \in 0 .. n
    <3>1. Prefills(u)[0 + j] = Prefills(u)[0] + Prefills(v)[j]
      <4>1. j \in Nat /\ 0 \in Nat /\ j <= Len(v) /\ 0 + j <= Len(u) /\ \A m \in 1 .. j : u[0 + m] = v[m]
        BY <1>1, <2>1
      <4> QED BY ONLY Costed, <1>1, <2>1, <4>1, PrefillsAgree
    <3>2. Prefills(u)[0] = 0 /\ Prefills(v)[j] \in Nat /\ 0 + j = j
      BY <1>1, <2>1, PrefillsAre
    <3> QED BY <3>1, <3>2
  <2>6. Prefills(u)[n + 1] = Total(v) + Prefill(k)
    <3>1. n + 1 \in 1 .. Len(u) /\ (n + 1) - 1 = n /\ n \in 0 .. n
      BY <1>1, <2>1
    <3>2. Prefills(u)[n + 1] = Prefills(u)[(n + 1) - 1] + Prefill(u[n + 1])
      BY <2>1, <3>1, PrefillsAre
    <3> QED BY <3>1, <3>2, <2>1, <2>5 DEF Total
  <2>7. \A j \in 2 .. Len(u) : Prefills(u)[j] <= TokenBudget
    <3> TAKE j \in 2 .. Len(u)
    <3>1. CASE j \in 2 .. n
      BY <3>1, <2>5, <1>1 DEF Packed
    <3>2. CASE j = n + 1
      BY <3>2, <2>6, <1>3, <1>1
    <3> QED BY <3>1, <3>2, <2>1, <1>1
  <2>8. Packed(u)
    BY <2>1, <2>4, <2>7 DEF Packed
  <2>9. Len(u) <= target /\ Len(v) <= Len(u)
    BY <1>1, <1>3, <2>1
  <2> QED BY <1>3, <2>1, <2>3, <2>8, <2>9 DEF u
<1>4. Len(v) < target /\ k \notin Range(v) /\ (v = <<>> \/ Total(v) + Prefill(k) <= TokenBudget)
      => Join(v, k, target) = Append(v, k)
  BY DEF Join
<1>5. ~(Len(v) < target /\ k \notin Range(v) /\ (v = <<>> \/ Total(v) + Prefill(k) <= TokenBudget))
      => Join(v, k, target) = v
  BY DEF Join
<1>6. v = <<>> /\ target # 0 => Len(v) < target /\ k \notin Range(v)
  BY <1>1 DEF Range
<1> QED BY <1>2, <1>3, <1>4, <1>5, <1>6

\* A wave is made of what is offered, beginning with the first.
LEMMA WavePacks ==
  ASSUME Costed, NEW s \in Seq(Queued), NEW target \in Nat
  PROVE  /\ Packed(Wave(s, target)) /\ Len(Wave(s, target)) <= target
         /\ s # <<>> /\ target # 0 => Wave(s, target) # <<>> /\ Wave(s, target)[1] = s[1]
<1> DEFINE n == Len(s)
           Y == {v \in Seq(Queued) : Packed(v) /\ Len(v) <= target}
           step == [x \in (1 .. n) \X Y |-> Join(x[2], s[x[1]], target)]
           Body(g) == [k \in 0 .. n |-> IF k = 0 THEN <<>> ELSE Join(g[k - 1], s[k], target)]
           J == CHOOSE g : g = Body(g)
<1>1. n \in Nat /\ \A k \in 1 .. n : s[k] \in Queued
  OBVIOUS
<1>2. Wave(s, target) = J[n]
  BY Zenon DEF Wave
<1> HIDE DEF n
<1>3. step \in [(1 .. n) \X Y -> Y]
  <2>1. \A k \in 1 .. n, v \in Y : Join(v, s[k], target) \in Y
    <3> TAKE k \in 1 .. n, v \in Y
    <3>1. s[k] \in Queued /\ Packed(v) /\ Len(v) <= target
      BY <1>1
    <3>2. Packed(Join(v, s[k], target)) /\ Len(Join(v, s[k], target)) <= target
      BY <3>1, JoinPacks
    <3>3. Join(v, s[k], target) \in Seq(Queued)
      BY <3>2 DEF Packed
    <3> QED BY <3>2, <3>3
  <2> HIDE DEF Y
  <2> QED BY <2>1
<1>4. <<>> \in Y
  <2>1. <<>> \in Seq(Queued) /\ Len(<<>>) = 0
    OBVIOUS
  <2>2. Packed(<<>>)
    BY <2>1 DEF Packed
  <2> QED BY <2>1, <2>2
<1>5. PICK g : Recurs(g, n, Y, <<>>, step)
  <2> HIDE DEF step, Y
  <2> QED BY <1>1, <1>3, <1>4, RecursionExists
<1> HIDE DEF Y
<1>6. \A k \in 1 .. n : g[k] = Join(g[k - 1], s[k], target)
  <2> TAKE k \in 1 .. n
  <2>1. k - 1 \in 0 .. n
    BY <1>1
  <2>2. g[k - 1] \in Y
    BY <2>1, <1>5 DEF Recurs
  <2>3. step[<<k, g[k - 1]>>] = Join(g[k - 1], s[k], target)
    BY <2>2
  <2> QED BY <1>5, <2>3 DEF Recurs
<1> HIDE DEF step
<1>7. g = Body(g)
  <2>1. g = [k \in 0 .. n |-> g[k]]
    BY <1>5 DEF Recurs
  <2>2. \A k \in 0 .. n : g[k] = Body(g)[k]
    <3> TAKE k \in 0 .. n
    <3>1. CASE k = 0
      BY <3>1, <1>5 DEF Recurs
    <3>2. CASE k # 0
      <4>1. k \in 1 .. n
        BY <3>2, <1>1
      <4> QED BY <1>6, <3>2, <4>1
    <3> QED BY <3>1, <3>2
  <2>3. Body(g) = [k \in 0 .. n |-> Body(g)[k]]
    OBVIOUS
  <2> HIDE DEF Body
  <2> QED BY <2>1, <2>2, <2>3
<1>8. J = Body(J)
  <2> HIDE DEF Body
  <2> QED BY <1>7
<1> HIDE DEF J
<1>9. J[0] = <<>> /\ \A k \in 1 .. n : J[k] = Join(J[k - 1], s[k], target)
  <2>1. 0 \in 0 .. n /\ \A k \in 1 .. n : k \in 0 .. n /\ k # 0
    BY <1>1
  <2>2. Body(J)[0] = <<>> /\ \A k \in 1 .. n : Body(J)[k] = Join(J[k - 1], s[k], target)
    BY <2>1
  <2> HIDE DEF Body
  <2> QED BY <1>8, <2>2
<1> HIDE DEF Body
<1> DEFINE Good(k) == /\ Packed(J[k]) /\ Len(J[k]) <= target
                      /\ k # 0 /\ target # 0 => Len(J[k]) # 0 /\ J[k][1] = s[1]
           T == {k \in Nat : k <= n => Good(k)}
<1>10. 0 \in T
  <2>1. J[0] \in Y
    BY <1>4, <1>9
  <2> QED BY <2>1 DEF Y
<1>11. \A k \in Nat : k \in T => k + 1 \in T
  <2> SUFFICES ASSUME NEW k \in T, k + 1 <= n PROVE Good(k + 1)
    OBVIOUS
  <2> DEFINE m == k + 1
  <2>0. k \in Nat
    OBVIOUS
  <2>1. m \in 1 .. n /\ m - 1 = k /\ k <= n
    BY <1>1, <2>0
  <2>2. Good(k)
    BY <2>1
  <2> HIDE DEF m
  <2>3. J[m] = Join(J[k], s[m], target) /\ s[m] \in Queued
    BY <1>1, <1>9, <2>1
  <2>4. /\ Packed(J[m]) /\ Len(J[m]) <= target /\ Len(J[k]) <= Len(J[m])
        /\ \A j \in 1 .. Len(J[k]) : J[m][j] = J[k][j]
        /\ J[k] = <<>> /\ target # 0 => J[m] = <<s[m]>>
    BY <2>2, <2>3, JoinPacks
  <2>5. Len(J[k]) \in Nat /\ Len(J[m]) \in Nat
    BY <2>2, <2>4 DEF Packed
  <2>6. CASE k = 0
    <3>1. m = 1 /\ J[k] = <<>>
      BY <2>6, <2>1, <1>9
    <3>2. target # 0 => J[m] = <<s[1]>>
      BY <2>4, <3>1
    <3>3. target # 0 => Len(J[m]) # 0 /\ J[m][1] = s[1]
      BY <3>2
    <3> QED BY <2>4, <3>3 DEF m
  <2>7. CASE k # 0
    <3>1. target # 0 => 1 \in 1 .. Len(J[k]) /\ J[k][1] = s[1]
      BY <2>2, <2>7, <2>5
    <3>2. target # 0 => Len(J[m]) # 0 /\ J[m][1] = s[1]
      BY <3>1, <2>4, <2>5
    <3> QED BY <2>4, <3>2 DEF m
  <2> QED BY <2>6, <2>7
<1> HIDE DEF T
<1>12. n \in T
  BY <1>10, <1>11, <1>1, NatInductive
<1>13. Good(n)
  BY <1>12, <1>1 DEF T
<1>14. s # <<>> => n # 0
  BY DEF n
<1> QED BY <1>2, <1>13, <1>14

-----------------------------------------------------------------------------
(* Groups.                                                                 *)

\* A division rounds down.
LEMMA QuotientBounds ==
  ASSUME NEW n \in Nat, NEW d \in Nat \ {0}
  PROVE  n \div d \in Nat /\ (n \div d) * d <= n /\ n < (n \div d) * d + d
  OBVIOUS

\* Where chunk k of a sequence of length l begins and ends.
LEMMA ChunkPlaces ==
  ASSUME NEW l \in Nat, NEW w \in Nat \ {0}, NEW n, n = (l + w - 1) \div w
  PROVE  /\ n \in Nat /\ (n = 0 <=> l = 0) /\ l <= n * w
         /\ \A k \in 1 .. n : (k - 1) * w \in 0 .. l - 1 /\ k * w = (k - 1) * w + w
<1>1. l + w - 1 \in Nat
  OBVIOUS
<1>2. n \in Nat /\ n * w <= l + w - 1 /\ l + w - 1 < n * w + w
  BY <1>1, QuotientBounds
<1>3. n * w \in Nat
  BY <1>2
<1>4. l <= n * w
  BY <1>2, <1>3
<1>5. n = 0 => l = 0
  BY <1>2
<1>6. \A k \in 1 .. n : (k - 1) * w \in 0 .. l - 1 /\ k * w = (k - 1) * w + w
  <2> TAKE k \in 1 .. n
  <2>0. k \in Nat /\ n - k \in Nat /\ k - 1 \in Nat
    BY <1>2
  <2>1. k * w \in Nat /\ (k - 1) * w \in Nat /\ (n - k) * w \in Nat
    BY <2>0
  <2>2. k * w = (k - 1) * w + w
    BY <2>0
  <2>3. n * w = k * w + (n - k) * w
    BY <2>0, <1>2
  <2> QED BY <1>2, <1>3, <2>1, <2>2, <2>3
<1>7. l = 0 => n = 0
  <2> SUFFICES ASSUME l = 0, n # 0 PROVE FALSE
    BY <1>2
  <2>1. 1 \in 1 .. n
    BY <1>2
  <2>2. (1 - 1) * w \in 0 .. l - 1
    BY <1>6, <2>1
  <2> QED BY <2>2
<1> QED BY <1>2, <1>4, <1>5, <1>6, <1>7

\* Chunks are what a sequence falls into, each of w elements but the last.
LEMMA ChunksAre ==
  ASSUME NEW Y, NEW s \in Seq(Y), NEW w \in Nat \ {0}
  PROVE  /\ Chunks(s, w) \in Seq(Seq(Y))
         /\ \A k \in 1 .. Len(Chunks(s, w)) : Len(Chunks(s, w)[k]) \in 1 .. w
         /\ FlattenSeq(Chunks(s, w)) = s
         /\ s # <<>> => Len(Chunks(s, w)) \in Nat \ {0}
         /\ w <= Len(s) => Len(Chunks(s, w)) \in Nat \ {0} /\ Chunks(s, w)[1] = SubSeq(s, 1, w)
<1> DEFINE l == Len(s)
           n == (l + w - 1) \div w
           last(k) == IF k * w <= l THEN k * w ELSE l
           piece(k) == SubSeq(s, (k - 1) * w + 1, last(k))
           c == Chunks(s, w)
<1>1. l \in Nat
  OBVIOUS
<1> HIDE DEF l
<1>2. /\ n \in Nat /\ (n = 0 <=> l = 0) /\ l <= n * w
      /\ \A k \in 1 .. n : (k - 1) * w \in 0 .. l - 1 /\ k * w = (k - 1) * w + w
  BY <1>1, ChunkPlaces
<1> HIDE DEF n
<1>3. \A k \in 1 .. n : Min({k * w, l}) = last(k)
  <2> TAKE k \in 1 .. n
  <2>1. k * w \in Int
    BY <1>2
  <2> QED BY <1>1, <2>1, LesserOfTwo
<1>4. c = [k \in 1 .. n |-> SubSeq(s, (k - 1) * w + 1, Min({k * w, l}))]
  BY Zenon DEF Chunks, l, n
<1>5. c = [k \in 1 .. n |-> piece(k)]
  BY <1>3, <1>4
<1>6. \A k \in 1 .. n : piece(k) \in Seq(Y) /\ Len(piece(k)) \in 1 .. w
  <2> TAKE k \in 1 .. n
  <2> DEFINE a == (k - 1) * w
             e == last(k)
  <2>1. a \in 0 .. l - 1 /\ e = IF a + w <= l THEN a + w ELSE l
    BY <1>2
  <2> HIDE DEF a, last
  <2>2. e \in a + 1 .. l /\ e - (a + 1) + 1 \in 1 .. w
    BY <1>1, <2>1
  <2> HIDE DEF e
  <2>3. \A i \in a + 1 .. e : s[i] \in Y
    BY <2>1, <2>2, <1>1 DEF l
  <2>4. a + 1 \in Int /\ e \in Int /\ a + 1 <= e
    BY <2>1, <2>2, <1>1
  <2>5. SubSeq(s, a + 1, e) \in Seq(Y) /\ Len(SubSeq(s, a + 1, e)) = e - (a + 1) + 1
    BY <2>3, <2>4, SubSeqProperties
  <2> QED BY <2>2, <2>5 DEF a, e
<1> HIDE DEF c
<1>7. c \in Seq(Seq(Y)) /\ Len(c) = n /\ \A k \in 1 .. n : c[k] = piece(k)
  <2> HIDE DEF piece
  <2>1. c \in [1 .. n -> Seq(Y)]
    BY <1>5, <1>6
  <2>2. c \in Seq(Seq(Y)) /\ Len(c) = n
    BY <1>2, <2>1
  <2> QED BY <1>5, <2>2
<1>8. FlattenSeq(c) = s
  <2> DEFINE J == Joint(c)
             T == {k \in Nat : k <= n => J[k] = SubSeq(s, 1, IF k = 0 THEN 0 ELSE last(k))}
  <2>1. J[0] = <<>> /\ (\A k \in 1 .. n : J[k] = J[k - 1] \o c[k]) /\ FlattenSeq(c) = J[n]
    BY <1>7, JointIs
  <2> HIDE DEF J, piece
  <2>2. 0 \in T
    <3>1. SubSeq(s, 1, 0) = <<>>
      BY SubSeqEmpty
    <3> HIDE DEF last
    <3> QED BY <2>1, <3>1
  <2>3. \A k \in Nat : k \in T => k + 1 \in T
    <3> SUFFICES ASSUME NEW k \in Nat, k \in T, k + 1 <= n PROVE J[k + 1] = SubSeq(s, 1, last(k + 1))
      <4> HIDE DEF last
      <4> QED OBVIOUS
    <3> DEFINE m == k + 1
               a == k * w
               e == last(m)
    <3>1. m \in 1 .. n /\ m - 1 = k /\ k <= n
      BY <1>2
    <3>2. a \in 0 .. l - 1 /\ e = IF a + w <= l THEN a + w ELSE l
      BY <1>2, <3>1
    <3>3. e \in a .. l
      BY <3>2, <1>1
    <3>4. J[k] = SubSeq(s, 1, a)
      <4>1. k = 0 => a = 0
        OBVIOUS
      <4>2. a <= l
        BY <3>2, <1>1
      <4> QED BY <3>1, <4>1, <4>2
    <3> HIDE DEF T
    <3>5. c[m] = SubSeq(s, a + 1, e)
      BY <1>7, <3>1 DEF piece
    <3> HIDE DEF a, e
    <3>6. SubSeq(s, 1, a) \o SubSeq(s, a + 1, e) = SubSeq(s, 1, e)
      <4>1. 1 \in 1 .. Len(s) + 1 /\ a \in 1 - 1 .. Len(s) /\ e \in a .. Len(s)
        BY <1>1, <3>2, <3>3 DEF l
      <4> QED BY ONLY s \in Seq(Y), <4>1, ConcatAdjacentSubSeq
    <3> HIDE DEF m
    <3>7. J[m] = J[k] \o c[m]
      BY <2>1, <3>1
    <3>8. J[m] = SubSeq(s, 1, e)
      BY <3>4, <3>5, <3>6, <3>7
    <3> QED BY <3>8 DEF m, e
  <2> HIDE DEF T
  <2>4. n \in T
    BY <1>2, <2>2, <2>3, NatInductive
  <2>5. (IF n = 0 THEN 0 ELSE last(n)) = l
    BY <1>1, <1>2
  <2> HIDE DEF last
  <2>6. J[n] = SubSeq(s, 1, l)
    BY <1>2, <2>4, <2>5 DEF T
  <2> QED BY <2>1, <2>6, SubSeqFull DEF l
<1>9. s # <<>> => n # 0
  BY <1>2 DEF l
<1>10. w <= l => n # 0 /\ c[1] = SubSeq(s, 1, w)
  <2> SUFFICES ASSUME w <= l PROVE n # 0 /\ c[1] = SubSeq(s, 1, w)
    OBVIOUS
  <2>1. n # 0
    BY <1>1, <1>2
  <2>2. 1 \in 1 .. n
    BY <2>1, <1>2
  <2>3. (1 - 1) * w + 1 = 1 /\ last(1) = w
    OBVIOUS
  <2> QED BY <1>7, <2>1, <2>2, <2>3
<1>11. \A k \in 1 .. n : Len(c[k]) \in 1 .. w
  BY <1>6, <1>7
<1>12. n \in Nat
  BY <1>2
<1> HIDE DEF piece, last
<1> QED BY <1>7, <1>8, <1>9, <1>10, <1>11, <1>12 DEF c, l

\* What is flattened in two parts is flattened.
LEMMA FlattenBoth ==
  ASSUME NEW Y, NEW s \in Seq(Seq(Y)), NEW t \in Seq(Seq(Y))
  PROVE  FlattenSeq(s \o t) = FlattenSeq(s) \o FlattenSeq(t)
<1> DEFINE u == s \o t
           a == Len(s)
           b == Len(t)
           S == Joint(s)
           R == Joint(t)
           U == Joint(u)
<1>1. /\ u \in Seq(Seq(Y)) /\ Len(u) = a + b /\ a \in Nat /\ b \in Nat
      /\ \A k \in 1 .. a : u[k] = s[k]
      /\ \A k \in 1 .. b : u[a + k] = t[k]
  BY Concatenation
<1> HIDE DEF u
<1>2. /\ S \in [0 .. a -> Seq(Y)] /\ FlattenSeq(s) = S[a]
      /\ R \in [0 .. b -> Seq(Y)] /\ FlattenSeq(t) = R[b] /\ R[0] = <<>>
      /\ \A k \in 1 .. b : R[k] = R[k - 1] \o t[k]
      /\ \A k \in 1 .. a + b : U[k] = U[k - 1] \o u[k]
      /\ FlattenSeq(u) = U[a + b]
  BY <1>1, JointIs
<1>3. U[a] = S[a]
  <2>1. a <= Len(s) /\ a <= Len(u)
    BY <1>1
  <2> HIDE DEF U, S
  <2> QED BY <1>1, <2>1, JointAgrees DEF U, S
<1> HIDE DEF U, S, R, a, b
<1> DEFINE Adds(k) == U[a + k] = S[a] \o R[k]
           T == {k \in Nat : k <= b => Adds(k)}
<1>4. 0 \in T
  <2>1. S[a] \in Seq(Y)
    BY <1>1, <1>2
  <2>2. S[a] \o <<>> = S[a]
    BY <2>1, ConcatEmptySeq
  <2>3. a + 0 = a
    BY <1>1
  <2> QED BY <1>2, <1>3, <2>2, <2>3
<1>5. \A k \in Nat : k \in T => k + 1 \in T
  <2> SUFFICES ASSUME NEW k \in Nat, k \in T, k + 1 <= b PROVE Adds(k + 1)
    <3> HIDE DEF Adds
    <3> QED OBVIOUS
  <2> DEFINE m == k + 1
             e == a + m
  <2>1. m \in 1 .. b /\ m - 1 = k /\ k <= b /\ e \in 1 .. a + b /\ e - 1 = a + k /\ k \in 0 .. b
    BY <1>1
  <2>2. Adds(k)
    <3> HIDE DEF Adds
    <3> QED BY <2>1
  <2> HIDE DEF T
  <2>3. u[e] = t[m]
    BY <1>1, <2>1
  <2> HIDE DEF m, e
  <2>4. U[e] = U[e - 1] \o u[e] /\ R[m] = R[m - 1] \o t[m]
    BY <1>2, <2>1
  <2>5. S[a] \in Seq(Y) /\ R[k] \in Seq(Y) /\ t[m] \in Seq(Y)
    <3>1. t[m] \in Seq(Y)
      BY <2>1, <1>1 DEF b
    <3> QED BY <1>1, <1>2, <2>1, <3>1
  <2>6. (S[a] \o R[k]) \o t[m] = S[a] \o (R[k] \o t[m])
    <3>1. Associates(Y)
      BY Associative
    <3> QED BY ONLY <2>5, <3>1, Zenon DEF Associates
  <2>7. U[e] = S[a] \o R[m]
    BY ONLY <2>1, <2>2, <2>3, <2>4, <2>6
  <2> QED BY <2>7 DEF m, e
<1> HIDE DEF T
<1>6. b \in T
  BY <1>1, <1>4, <1>5, NatInductive
<1> HIDE DEF Adds
<1>7. Adds(b)
  BY <1>1, <1>6 DEF T
<1> QED BY <1>1, <1>2, <1>7 DEF Adds, u

-----------------------------------------------------------------------------
(* What is pick.                                                         *)

\* Of the elements of a finite set one has the greatest value.
LEMMA TopExists ==
  ASSUME NEW S, IsFiniteSet(S), S # {}, NEW f \in [S -> Nat]
  PROVE  \E b \in S : \A c \in S : f[c] <= f[b]
<1> DEFINE X == {T \in SUBSET S : T # {} /\ \A b \in T : \E c \in T : f[c] > f[b]}
<1>1. CASE X = {}
  <2>1. S \notin X
    BY <1>1
  <2>2. PICK b \in S : \A c \in S : ~(f[c] > f[b])
    BY <2>1
  <2>3. \A c \in S : f[c] \in Nat /\ f[b] \in Nat
    OBVIOUS
  <2>4. \A c \in S : f[c] <= f[b]
    BY <2>2, <2>3
  <2> QED BY <2>4
<1>2. CASE X # {}
  <2>1. X \in SUBSET SUBSET S
    OBVIOUS
  <2>2. PICK T \in X : \A U \in X : U \subseteq T => U = T
    <3> HIDE DEF X
    <3> QED BY <1>2, <2>1, FiniteInductive
  <2>3. PICK b \in T : TRUE
    OBVIOUS
  <2> DEFINE U == {c \in T : f[c] > f[b]}
  <2>4. b \notin U /\ U \in SUBSET T /\ U # {} /\ T \in SUBSET S
    OBVIOUS
  <2>5. \A c \in U : \E d \in U : f[d] > f[c]
    <3> TAKE c \in U
    <3>1. PICK d \in T : f[d] > f[c]
      OBVIOUS
    <3>2. f[d] \in Nat /\ f[c] \in Nat /\ f[b] \in Nat /\ f[c] > f[b]
      BY <2>4
    <3>3. f[d] > f[b]
      BY <3>1, <3>2
    <3> QED BY <3>1, <3>3
  <2>6. U \in X
    BY <2>4, <2>5
  <2> QED BY <2>2, <2>3, <2>4, <2>6
<1> QED BY <1>1, <1>2

\* The fullest window within the budget, and where it ends.
LEMMA BestIs ==
  ASSUME Costed, NEW s \in Seq(Queued), NEW w \in Nat \ {0}, Feasible(s, w) # {}
  PROVE  /\ Best(s, w) \in w .. Len(s) /\ Slide(s, w)[Best(s, w)] <= TokenBudget
         /\ \A i \in Feasible(s, w) : Slide(s, w)[i] <= Slide(s, w)[Best(s, w)]
<1> DEFINE F == Feasible(s, w)
           f == [i \in F |-> Slide(s, w)[i]]
           B == {i \in F : \A j \in F : Slide(s, w)[j] <= Slide(s, w)[i]}
<1>1. Len(s) \in Nat /\ F = {i \in w .. Len(s) : Slide(s, w)[i] <= TokenBudget}
  BY DEF Feasible
<1>2. \A i \in F : Slide(s, w)[i] \in Nat
  <2> TAKE i \in F
  <2>1. i \in w .. Len(s) /\ i - w + 1 \in 1 .. Len(s) + 1 /\ i \in (i - w + 1) - 1 .. Len(s)
    BY <1>1
  <2>2. Slide(s, w)[i] = Total(SubSeq(s, i - w + 1, i))
    BY <2>1, SlideIs
  <2>3. SubSeq(s, i - w + 1, i) \in Seq(Queued)
    <3> DEFINE a == i - w + 1
    <3>1. a \in 1 .. Len(s) + 1 /\ i \in a - 1 .. Len(s)
      BY <2>1
    <3> HIDE DEF a
    <3>2. SubSeq(s, a, i) \in Seq(Queued)
      BY <3>1, PartTotal
    <3> QED BY <3>2 DEF a
  <2> QED BY <2>2, <2>3, TotalType
<1>3. IsFiniteSet(F)
  <2>1. IsFiniteSet(w .. Len(s)) /\ F \in SUBSET (w .. Len(s))
    <3>1. w \in Int /\ Len(s) \in Int
      BY <1>1
    <3> QED BY <1>1, <3>1, FS_Interval
  <2> QED BY <2>1, FS_Subset
<1>4. f \in [F -> Nat]
  BY <1>2
<1> HIDE DEF F
<1>5. PICK b \in F : \A i \in F : f[i] <= f[b]
  <2> HIDE DEF f
  <2> QED BY <1>3, <1>4, TopExists DEF F
<1>6. b \in B
  BY <1>5
<1>7. Best(s, w) = Min(B)
  BY DEF Best, F
<1>8. B \in SUBSET Nat
  BY <1>1
<1>9. Min(B) \in B
  <2> HIDE DEF B
  <2> QED BY <1>6, <1>8, MinType
<1> HIDE DEF f
<1> QED BY <1>1, <1>7, <1>9 DEF F

\* The size chosen is the greatest of which there is a window within the budget.
LEMMA CaptureIs ==
  ASSUME NEW s, NEW sizes \in SUBSET (Nat \ {0}), NEW capacity \in Nat \ {0}
  PROVE  /\ CaptureSize(s, sizes, capacity) \in 1 .. capacity
         /\ \A w \in sizes : w <= capacity /\ Feasible(s, w) # {} => w <= CaptureSize(s, sizes, capacity)
<1> DEFINE T == {1} \cup {w \in sizes : w <= capacity /\ Feasible(s, w) # {}}
<1>1. CASE sizes = {}
  BY <1>1 DEF CaptureSize
<1>2. CASE sizes # {}
  <2>1. CaptureSize(s, sizes, capacity) = Max(T)
    BY <1>2 DEF CaptureSize
  <2>2. T \in SUBSET Nat /\ T # {} /\ (\A m \in T : m <= capacity /\ 1 <= m) /\ capacity \in Nat
    <3>1. 1 \in T /\ capacity \in Nat /\ 1 <= capacity
      OBVIOUS
    <3>2. \A m \in T : m \in Nat /\ m <= capacity /\ 1 <= m
      <4> TAKE m \in T
      <4>1. CASE m = 1
        BY <4>1, <3>1
      <4>2. CASE m \in sizes /\ m <= capacity
        BY <4>2
      <4> QED BY <4>1, <4>2
    <3> HIDE DEF T
    <3> QED BY <3>1, <3>2
  <2>3. \A w \in sizes : w <= capacity /\ Feasible(s, w) # {} => w \in T
    OBVIOUS
  <2> HIDE DEF T
  <2>4. Max(T) \in T /\ \A m \in T : m <= Max(T)
    BY <2>2, MaxType
  <2>5. Max(T) \in 1 .. capacity
    <3>1. PICK m \in T : m = Max(T)
      BY <2>4
    <3>2. m \in Nat /\ m <= capacity /\ 1 <= m
      BY <2>2
    <3>3. m \in 1 .. capacity
      BY <2>2, <3>2
    <3> QED BY <3>1, <3>3
  <2> QED BY <2>1, <2>3, <2>4, <2>5
<1> QED BY <1>1, <1>2

\* Every request is in one group, and the fullest window is a group.
LEMMA PartitionIs ==
  ASSUME Costed, NEW s \in Seq(Queued), s # <<>>, NEW sizes, NEW w \in 1 .. Len(s)
  PROVE  /\ Partition(s, sizes, w) \in Seq(Seq(Queued)) /\ Partition(s, sizes, w) # <<>>
         /\ FlattenSeq(Partition(s, sizes, w)) = s
         /\ \A k \in DOMAIN Partition(s, sizes, w) : Len(Partition(s, sizes, w)[k]) \in 1 .. w
         /\ w \in sizes /\ Feasible(s, w) # {} =>
              \E k \in DOMAIN Partition(s, sizes, w) :
                 LET g == Partition(s, sizes, w)[k] IN
                 /\ Len(g) = w /\ Total(g) <= TokenBudget
                 /\ \A i \in Feasible(s, w) : Total(SubSeq(s, i - w + 1, i)) <= Total(g)
<1> DEFINE fits == w \in sizes /\ Feasible(s, w) # {}
           a == IF fits THEN Best(s, w) - w ELSE 0
           l == Len(s)
           s1 == SubSeq(s, 1, a)
           s2 == SubSeq(s, a + 1, l)
           c == Chunks(s1, w)
           d == Chunks(s2, w)
           gs == Partition(s, sizes, w)
<1>1. l \in Nat /\ w \in Nat \ {0} /\ w <= l
  OBVIOUS
<1>2. fits => Best(s, w) \in w .. l
  BY <1>1, BestIs
<1>3. a \in 0 .. l - w
  BY <1>1, <1>2
<1>4. gs = c \o d
  <2>1. fits <=> (sizes # {} /\ w \in sizes /\ Feasible(s, w) # {})
    OBVIOUS
  <2> HIDE DEF fits
  <2>2. a = IF sizes # {} /\ w \in sizes /\ Feasible(s, w) # {} THEN Best(s, w) - w ELSE 0
    BY <2>1
  <2> QED BY <2>2, Zenon DEF Partition
<1> HIDE DEF gs
<1>20. a = IF fits THEN Best(s, w) - w ELSE 0
  OBVIOUS
<1> HIDE DEF a
<1>5. s1 \in Seq(Queued) /\ s2 \in Seq(Queued) /\ Len(s2) = l - a /\ w <= Len(s2) /\ s2 # <<>>
      /\ s1 \o s2 = s
  <2>1. 1 \in 1 .. l + 1 /\ a \in 1 - 1 .. l /\ a + 1 \in 1 .. l + 1 /\ l \in (a + 1) - 1 .. l
        /\ l - (a + 1) + 1 = l - a /\ l \in a .. l
    BY <1>1, <1>3
  <2>2. s1 \in Seq(Queued) /\ s2 \in Seq(Queued) /\ Len(s2) = l - a
    BY <2>1, PartTotal
  <2>3. s1 \o s2 = SubSeq(s, 1, l)
    BY ONLY s \in Seq(Queued), <2>1, ConcatAdjacentSubSeq DEF l
  <2>4. w <= l - a /\ l - a > 0
    BY <1>1, <1>3
  <2>5. Len(s2) > 0
    BY <2>2, <2>4
  <2>6. s2 # <<>>
    <3> SUFFICES ASSUME s2 = <<>> PROVE FALSE
      OBVIOUS
    <3>1. Len(<<>>) > 0
      BY ONLY <2>5, s2 = <<>>
    <3> QED BY ONLY <3>1
  <2> QED BY <2>2, <2>3, <2>4, <2>6, SubSeqFull
<1> HIDE DEF s1, s2
<1>6. /\ c \in Seq(Seq(Queued)) /\ FlattenSeq(c) = s1 /\ (\A k \in 1 .. Len(c) : Len(c[k]) \in 1 .. w)
      /\ d \in Seq(Seq(Queued)) /\ FlattenSeq(d) = s2 /\ (\A k \in 1 .. Len(d) : Len(d[k]) \in 1 .. w)
      /\ Len(d) \in Nat \ {0} /\ d[1] = SubSeq(s2, 1, w)
  BY <1>1, <1>5, ChunksAre
<1> HIDE DEF c, d
<1>7. /\ gs \in Seq(Seq(Queued)) /\ DOMAIN gs = 1 .. Len(c) + Len(d) /\ Len(c) \in Nat
      /\ \A k \in 1 .. Len(c) : gs[k] = c[k]
      /\ \A k \in 1 .. Len(d) : gs[Len(c) + k] = d[k]
  BY <1>4, <1>6, Concatenation
<1>8. FlattenSeq(gs) = s
  BY <1>4, <1>5, <1>6, FlattenBoth
<1>9. \A k \in DOMAIN gs : Len(gs[k]) \in 1 .. w
  <2> TAKE k \in DOMAIN gs
  <2>1. CASE k \in 1 .. Len(c)
    BY <2>1, <1>6, <1>7
  <2>2. CASE k \notin 1 .. Len(c)
    <3> DEFINE m == k - Len(c)
    <3>1. m \in 1 .. Len(d) /\ Len(c) + m = k
      BY <2>2, <1>6, <1>7
    <3> HIDE DEF m
    <3> QED BY <3>1, <1>6, <1>7
  <2> QED BY <2>1, <2>2
<1>10. Len(c) + 1 \in DOMAIN gs /\ gs[Len(c) + 1] = SubSeq(s2, 1, w)
  BY <1>6, <1>7, SMTT(30)
<1>11. gs # <<>>
  BY <1>10
<1>12. ASSUME fits
       PROVE  LET g == gs[Len(c) + 1] IN
                 /\ Len(g) = w /\ Total(g) <= TokenBudget
                 /\ \A i \in Feasible(s, w) : Total(SubSeq(s, i - w + 1, i)) <= Total(g)
  <2> DEFINE b == Best(s, w)
             g == gs[Len(c) + 1]
  <2>1. /\ b \in w .. l /\ Slide(s, w)[b] <= TokenBudget
        /\ \A i \in Feasible(s, w) : Slide(s, w)[i] <= Slide(s, w)[b]
    BY <1>1, <1>12, BestIs
  <2> HIDE DEF b
  <2>2. a = b - w
    BY <1>12, <1>20 DEF b
  <2>3. g = SubSeq(s, a + 1, a + w)
    <3>1. a + 1 \in 1 .. Len(s) /\ l \in 1 .. Len(s) /\ 1 \in 1 .. l - (a + 1) + 1 /\ w \in 1 .. l - (a + 1) + 1
          /\ (a + 1) + 1 - 1 = a + 1 /\ (a + 1) + w - 1 = a + w
      BY <1>1, <1>3
    <3>2. SubSeq(SubSeq(s, a + 1, l), 1, w) = SubSeq(s, (a + 1) + 1 - 1, (a + 1) + w - 1)
      BY ONLY s \in Seq(Queued), <3>1, SubSeqOfSubSeq, SMTT(30)
    <3> QED BY <3>1, <3>2, <1>10 DEF s2
  <2>4. a + w = b /\ a + 1 = b - w + 1
    BY <1>1, <1>3, <2>1, <2>2
  <2>5. Slide(s, w)[b] = Total(g)
    BY <1>1, <2>1, <2>3, <2>4, SlideIs
  <2>6. \A i \in Feasible(s, w) : Slide(s, w)[i] = Total(SubSeq(s, i - w + 1, i))
    <3> TAKE i \in Feasible(s, w)
    <3>1. i \in w .. Len(s)
      BY DEF Feasible
    <3> QED BY <1>1, <3>1, SlideIs
  <2>7. Len(g) = w
    <3>1. Len(c) + 1 \in DOMAIN gs /\ a + 1 \in 1 .. Len(s) + 1 /\ b \in (a + 1) - 1 .. Len(s) /\ b - (a + 1) + 1 = w
      BY <1>1, <1>3, <1>10, <2>1, <2>2
    <3>2. Len(SubSeq(s, a + 1, b)) = b - (a + 1) + 1
      BY <3>1, PartTotal
    <3> QED BY <2>3, <2>4, <3>1, <3>2
  <2> HIDE DEF g
  <2>8. /\ Total(g) <= TokenBudget
        /\ \A i \in Feasible(s, w) : Total(SubSeq(s, i - w + 1, i)) <= Total(g)
    BY <2>1, <2>5, <2>6
  <2> QED BY <2>7, <2>8 DEF g
<1>13. fits => \E k \in DOMAIN gs :
                 LET g == gs[k] IN
                 /\ Len(g) = w /\ Total(g) <= TokenBudget
                 /\ \A i \in Feasible(s, w) : Total(SubSeq(s, i - w + 1, i)) <= Total(g)
  BY <1>10, <1>12
<1> QED BY <1>7, <1>8, <1>9, <1>11, <1>13 DEF gs

\* The group of which the wave is fullest is one of them.
LEMMA DensestIs ==
  ASSUME Costed, NEW gs \in Seq(Seq(Queued)), gs # <<>>, NEW limit \in Nat
  PROVE  Densest(gs, limit) \in DOMAIN gs
<1> DEFINE n == Len(gs)
           packed(b) == Wave(gs[b], limit)
           lens == [b \in 1 .. n |-> Len(packed(b))]
           sums == [b \in 1 .. n |-> Total(packed(b))]
           B == {b \in DOMAIN gs : \A c \in DOMAIN gs : ~Fuller(packed(c), packed(b))}
<1>1. n \in Nat /\ DOMAIN gs = 1 .. n /\ 1 \in 1 .. n /\ \A b \in 1 .. n : gs[b] \in Seq(Queued)
  OBVIOUS
<1> HIDE DEF n
<1>2. \A b \in 1 .. n : packed(b) \in Seq(Queued)
  <2> TAKE b \in 1 .. n
  <2>1. Packed(packed(b))
    BY <1>1, WavePacks
  <2> HIDE DEF packed
  <2> QED BY <2>1 DEF Packed
<1> HIDE DEF packed
<1>3. \A b \in 1 .. n : Len(packed(b)) \in Nat /\ Total(packed(b)) \in Nat
  <2> TAKE b \in 1 .. n
  <2>1. packed(b) \in Seq(Queued)
    BY <1>2
  <2>2. Total(packed(b)) \in Nat
    BY <2>1, TotalType
  <2> QED BY <2>1, <2>2
<1>4. lens \in [1 .. n -> Nat] /\ sums \in [1 .. n -> Nat] /\ IsFiniteSet(1 .. n) /\ 1 .. n # {}
  <2>1. lens \in [1 .. n -> Nat] /\ sums \in [1 .. n -> Nat]
    BY <1>3
  <2>2. IsFiniteSet(1 .. n) /\ 1 .. n # {}
    <3>1. 1 \in Int /\ n \in Int
      BY <1>1
    <3>2. IsFiniteSet(1 .. n)
      BY <3>1, FS_Interval
    <3> QED BY <1>1, <3>2
  <2> QED BY <2>1, <2>2
<1>5. PICK b1 \in 1 .. n : \A c \in 1 .. n : lens[c] <= lens[b1]
  <2> HIDE DEF lens
  <2> QED BY <1>4, TopExists
<1> DEFINE S == {b \in 1 .. n : lens[b] = lens[b1]}
           f == [b \in S |-> sums[b]]
<1>6. S \in SUBSET (1 .. n) /\ b1 \in S /\ IsFiniteSet(S) /\ f \in [S -> Nat]
  <2>1. S \in SUBSET (1 .. n) /\ b1 \in S
    OBVIOUS
  <2> HIDE DEF S, sums
  <2> QED BY <2>1, <1>4, FS_Subset
<1>7. PICK b2 \in S : \A c \in S : f[c] <= f[b2]
  <2> HIDE DEF S, f
  <2> QED BY <1>6, TopExists
<1>8. b2 \in 1 .. n /\ lens[b2] = lens[b1] /\ \A c \in 1 .. n : lens[c] = lens[b1] => sums[c] <= sums[b2]
  <2> HIDE DEF lens, sums
  <2> QED BY <1>7
<1>9. \A c \in 1 .. n : ~Fuller(packed(c), packed(b2))
  <2> TAKE c \in 1 .. n
  <2>1. lens[c] = Len(packed(c)) /\ lens[b2] = Len(packed(b2)) /\ sums[c] = Total(packed(c))
        /\ sums[b2] = Total(packed(b2))
    BY <1>8
  <2>2. lens[c] \in Nat /\ lens[b2] \in Nat /\ sums[c] \in Nat /\ sums[b2] \in Nat
    BY <1>4, <1>8
  <2>3. lens[c] <= lens[b2] /\ (lens[c] = lens[b2] => sums[c] <= sums[b2])
    BY <1>5, <1>8
  <2> HIDE DEF lens, sums
  <2> QED BY <2>1, <2>2, <2>3 DEF Fuller
<1>10. b2 \in B
  BY <1>1, <1>8, <1>9
<1>11. B \in SUBSET Nat
  BY <1>1
<1>12. Densest(gs, limit) = Min(B)
  BY Zenon DEF Densest, packed
<1>13. Min(B) \in B
  <2> HIDE DEF B
  <2> QED BY <1>10, <1>11, MinType
<1> QED BY <1>12, <1>13

-----------------------------------------------------------------------------
(* Sorted requests.                                                        *)

\* The requests that are looked at.
LEMMA PendingIs ==
  ASSUME Costed, requests # <<>>
  PROVE  /\ Pending \in Seq(Queued) /\ Len(Pending) \in 1 .. Len(requests)
         /\ \E k \in 1 .. Len(Pending) : Pending[k] = 1
<1> DEFINE N == Min({ScanLimit, Len(requests)})
           S == 1 .. N
           sooner(a, b) == \/ requests[a][1] < requests[b][1]
                           \/ requests[a][1] = requests[b][1] /\ a < b
           R == {p \in S \X S : sooner(p[1], p[2])}
<1>1. Len(requests) \in Nat \ {0} /\ Queued = 1 .. Len(requests) /\ ScanLimit \in Nat \ {0}
  <2>1. Len(requests) # 0
    BY DEF Costed
  <2> QED BY <2>1, PrefillType, WaveAssumption
<1>2. N \in 1 .. Len(requests)
  <2>1. N = IF ScanLimit <= Len(requests) THEN ScanLimit ELSE Len(requests)
    BY <1>1, LesserOfTwo
  <2> QED BY <1>1, <2>1
<1> HIDE DEF N
<1>3. IsFiniteSet(S) /\ Cardinality(S) = N /\ 1 \in S /\ S \in SUBSET Queued
  <2>1. N \in Nat /\ N >= 1 /\ N <= Len(requests)
    BY <1>1, <1>2
  <2>2. IsFiniteSet(1 .. N) /\ Cardinality(1 .. N) = N
    BY <2>1, FS_Interval
  <2> QED BY <1>1, <2>1, <2>2
<1>4. \A a, b \in S : <<a, b>> \in R <=> sooner(a, b)
  <2> HIDE DEF sooner, S
  <2> QED OBVIOUS
<1>5. \A a \in S : requests[a][1] \in Int /\ a \in Int
  <2> TAKE a \in S
  <2>1. requests[a] \in Visual \X Prompt
    BY <1>1, <1>3 DEF Costed
  <2>2. requests[a][1] \in Visual
    BY ONLY <2>1
  <2>3. a \in Int
    BY <1>1, <1>3
  <2>4. Visual \subseteq Nat
    BY WaveAssumption
  <2>5. \A v \in Visual : v \in Int
    BY ONLY <2>4
  <2>6. requests[a][1] \in Int
    BY ONLY <2>2, <2>5, Zenon
  <2> QED BY ONLY <2>3, <2>6
<1> HIDE DEF R, S
<1>6. Orders(R, S)
  <2>1. \A a, b \in S : a # b => sooner(a, b) \/ sooner(b, a)
    BY <1>5
  <2>2. \A a, b, c \in S : sooner(a, b) /\ sooner(b, c) => sooner(a, c)
    BY <1>5
  <2>3. \A a \in S : ~sooner(a, a)
    BY <1>5
  <2> HIDE DEF sooner
  <2> QED BY <1>4, <2>1, <2>2, <2>3 DEF Orders
<1> DEFINE e(k) == CHOOSE b \in S : Cardinality({a \in S : sooner(a, b)}) = k - 1
           f(k) == CHOOSE b \in S : Cardinality({d \in S : <<d, b>> \in R}) = k - 1
<1>7. Pending = [k \in 1 .. Cardinality(S) |->
                   CHOOSE b \in S : Cardinality({a \in S : sooner(a, b)}) = k - 1]
  BY Zenon DEF Pending, Sorted, N, S
<1> HIDE DEF sooner
<1>8. \A b \in S : {a \in S : <<a, b>> \in R} = {a \in S : sooner(a, b)}
  BY <1>4
<1>9. /\ Pending = [k \in 1 .. Cardinality(S) |-> Pending[k]]
      /\ \A k \in 1 .. Cardinality(S) : Pending[k] = f(k)
  <2>1. \A k \in 1 .. Cardinality(S) : e(k) = f(k)
    <3> TAKE k \in 1 .. Cardinality(S)
    <3>1. \A b \in S : Cardinality({a \in S : sooner(a, b)}) = k - 1
                       <=> Cardinality({d \in S : <<d, b>> \in R}) = k - 1
      BY <1>8
    <3> QED BY <3>1
  <2>2. Pending = [k \in 1 .. Cardinality(S) |-> e(k)]
    BY <1>7
  <2> HIDE DEF e, f
  <2> QED BY ONLY <2>1, <2>2
<1>10. /\ Pending \in Seq(S) /\ Len(Pending) = N
       /\ \A b \in S : \E k \in 1 .. Len(Pending) : Pending[k] = b
  <2>2. \A k \in 1 .. Cardinality(S) :
          Pending[k] = CHOOSE b \in S : Cardinality({d \in S : <<d, b>> \in R}) = k - 1
    BY <1>9
  <2>3. IsFiniteSet(S) /\ Pending = [k \in 1 .. Cardinality(S) |-> Pending[k]]
    BY <1>3, <1>9
  <2> HIDE DEF e, f
  <2>4. IsFiniteSet(S)
    BY <2>3
  <2>5. Pending = [k \in 1 .. Cardinality(S) |-> Pending[k]]
    BY <2>3
  <2>1. /\ Cardinality(S) \in Nat
        /\ Pending \in [1 .. Cardinality(S) -> S]
        /\ \A b \in S : \E k \in 1 .. Cardinality(S) : Pending[k] = b
        /\ \A j, k \in 1 .. Cardinality(S) : j < k <=> <<Pending[j], Pending[k]>> \in R
    BY ONLY <2>2, <2>4, <2>5, <1>6, RankSequence
  <2>6. Pending \in Seq(S) /\ Len(Pending) = Cardinality(S)
    BY ONLY <2>1
  <2> QED BY <1>3, <2>1, <2>6
<1>11. Pending \in Seq(Queued)
  BY <1>3, <1>10
<1> QED BY <1>2, <1>3, <1>10, <1>11

\* The requests of some buckets, in their order of arrival.
LEMMA OfIs ==
  ASSUME Costed, NEW bs
  PROVE  /\ Of(bs) \in Seq(Queued)
         /\ \A b \in Queued : Bucket(b) \in bs <=> \E k \in 1 .. Len(Of(bs)) : Of(bs)[k] = b
         /\ \A j, k \in 1 .. Len(Of(bs)) : j < k <=> Of(bs)[j] < Of(bs)[k]
<1> DEFINE S == {k \in Queued : Bucket(k) \in bs}
           R == {p \in S \X S : p[1] < p[2]}
<1>1. Len(requests) \in Nat /\ Queued = 1 .. Len(requests)
  BY PrefillType
<1>2. IsFiniteSet(S) /\ S \in SUBSET Queued
  <2>1. IsFiniteSet(1 .. Len(requests))
    BY <1>1, FS_Interval
  <2> QED BY <1>1, <2>1, FS_Subset
<1>3. \A k \in Queued : k \in S <=> Bucket(k) \in bs
  OBVIOUS
<1>4. Of(bs) = [k \in 1 .. Cardinality(S) |-> CHOOSE b \in S : Cardinality({a \in S : a < b}) = k - 1]
  BY Zenon DEF Of, Sorted, Queued
<1> HIDE DEF S
<1>5. \A a, b \in S : <<a, b>> \in R <=> a < b
  OBVIOUS
<1> HIDE DEF R
<1>6. Orders(R, S)
  <2>1. \A a \in S : a \in Int
    BY <1>1, <1>2
  <2> QED BY <1>5, <2>1 DEF Orders
<1>8. \A b \in S : {a \in S : <<a, b>> \in R} = {a \in S : a < b}
  BY <1>5
<1> DEFINE s == Of(bs)
           e(k) == CHOOSE b \in S : Cardinality({a \in S : a < b}) = k - 1
           f(k) == CHOOSE b \in S : Cardinality({d \in S : <<d, b>> \in R}) = k - 1
<1>9. /\ s = [k \in 1 .. Cardinality(S) |-> s[k]]
      /\ \A k \in 1 .. Cardinality(S) : s[k] = f(k)
  <2>1. \A k \in 1 .. Cardinality(S) : e(k) = f(k)
    <3> TAKE k \in 1 .. Cardinality(S)
    <3>1. \A b \in S : Cardinality({a \in S : a < b}) = k - 1
                       <=> Cardinality({d \in S : <<d, b>> \in R}) = k - 1
      BY <1>8
    <3> QED BY <3>1
  <2>2. s = [k \in 1 .. Cardinality(S) |-> e(k)]
    BY <1>4
  <2> HIDE DEF e, f, s
  <2> QED BY ONLY <2>1, <2>2
<1> HIDE DEF s
<1>10. /\ s \in Seq(S) /\ Len(s) \in Nat
       /\ \A b \in S : \E k \in 1 .. Len(s) : s[k] = b
       /\ \A j, k \in 1 .. Len(s) : j < k <=> <<s[j], s[k]>> \in R
  <2>1. \A k \in 1 .. Cardinality(S) :
          s[k] = CHOOSE b \in S : Cardinality({d \in S : <<d, b>> \in R}) = k - 1
    BY <1>9
  <2>2. IsFiniteSet(S) /\ s = [k \in 1 .. Cardinality(S) |-> s[k]]
    BY <1>2, <1>9
  <2> HIDE DEF e, f
  <2>3. IsFiniteSet(S)
    BY <2>2
  <2>4. s = [k \in 1 .. Cardinality(S) |-> s[k]]
    BY <2>2
  <2>5. /\ Cardinality(S) \in Nat
        /\ s \in [1 .. Cardinality(S) -> S]
        /\ \A b \in S : \E k \in 1 .. Cardinality(S) : s[k] = b
        /\ \A j, k \in 1 .. Cardinality(S) : j < k <=> <<s[j], s[k]>> \in R
    BY ONLY <2>1, <2>3, <2>4, <1>6, RankSequence
  <2>6. s \in Seq(S) /\ Len(s) = Cardinality(S)
    BY ONLY <2>5
  <2> QED BY <2>5, <2>6
<1>11. \A k \in 1 .. Len(s) : s[k] \in S
  BY <1>10
<1>12. s \in Seq(Queued)
  BY <1>2, <1>10
<1>13. \A b \in Queued : Bucket(b) \in bs <=> \E k \in 1 .. Len(s) : s[k] = b
  BY <1>3, <1>10, <1>11
<1>14. \A j, k \in 1 .. Len(s) : j < k <=> s[j] < s[k]
  BY <1>5, <1>10, <1>11
<1> QED BY <1>12, <1>13, <1>14 DEF s

-----------------------------------------------------------------------------
(* Plans.                                                                  *)

\* A wave as it has to be, for n instances; `late': the oldest request has to be first.
WaveFor(v, n, late) ==
  /\ Packed(v) /\ Len(v) \in 1 .. n /\ Len(v) <= Len(requests)
  /\ late => v[1] = 1

\* A wave is as it has to be.
LEMMA WaveForIs ==
  ASSUME Costed, NEW s \in Seq(Queued), s # <<>>, NEW n \in Nat, NEW target \in 1 .. n,
         target <= Len(requests), NEW late \in BOOLEAN, late => s[1] = 1
  PROVE  WaveFor(Wave(s, target), n, late)
<1> DEFINE v == Wave(s, target)
<1>1. Packed(v) /\ Len(v) <= target /\ v # <<>> /\ v[1] = s[1] /\ target \in Nat
  BY WavePacks
<1> HIDE DEF v
<1>2. Len(v) \in Nat /\ Len(v) # 0
  <2>1. v \in Seq(Queued)
    BY <1>1 DEF Packed
  <2> QED BY <1>1, <2>1
<1>3. Len(requests) \in Nat
  BY PrefillType
<1>4. Len(v) \in 1 .. n /\ Len(v) <= Len(requests)
  BY <1>1, <1>2, <1>3
<1> QED BY <1>1, <1>4 DEF WaveFor, v

\* What adaptive buckets have to be.
GroupsFor(s, gs, w, sizes) ==
  /\ FlattenSeq(gs) = s
  /\ \A g \in Range(gs) : Len(g) \in 1 .. w
  /\ \A v \in sizes, i \in DOMAIN s :
       v <= Concurrency /\ i + v - 1 <= Len(s) /\ Total(SubSeq(s, i, i + v - 1)) <= TokenBudget
         => /\ v <= w
            /\ v = w => \E g \in Range(gs) : /\ Len(g) = v /\ Total(g) <= TokenBudget
                                             /\ Total(g) >= Total(SubSeq(s, i, i + v - 1))

\* The groups are as they have to be.
LEMMA GroupsAre ==
  ASSUME Costed, NEW s \in Seq(Queued), s # <<>>, NEW sizes \in SUBSET (Nat \ {0}), NEW w, NEW c,
         c = Min({Concurrency, Len(s)}), w = CaptureSize(s, sizes, c)
  PROVE  w \in 1 .. Len(s) /\ GroupsFor(s, Partition(s, sizes, w), w, sizes)
<1> DEFINE gs == Partition(s, sizes, w)
<1>0. Len(s) \in Nat \ {0} /\ Concurrency \in Nat \ {0}
  <2>1. Len(s) # 0
    OBVIOUS
  <2> QED BY <2>1, WaveAssumption
<1>1. c \in Nat \ {0} /\ c <= Concurrency /\ c <= Len(s)
      /\ \A v \in Nat : v <= Concurrency /\ v <= Len(s) => v <= c
  <2>1. c = IF Concurrency <= Len(s) THEN Concurrency ELSE Len(s)
    BY <1>0, LesserOfTwo
  <2>2. Len(s) \in Nat \ {0} /\ Concurrency \in Nat \ {0}
    BY <1>0
  <2> QED BY ONLY <2>1, <2>2
<1>2. w \in 1 .. c /\ \A v \in sizes : v <= c /\ Feasible(s, v) # {} => v <= w
  BY <1>1, CaptureIs
<1>3. w \in 1 .. Len(s)
  BY <1>0, <1>1, <1>2
<1>4. /\ gs \in Seq(Seq(Queued)) /\ FlattenSeq(gs) = s
      /\ \A k \in DOMAIN gs : Len(gs[k]) \in 1 .. w
      /\ w \in sizes /\ Feasible(s, w) # {} =>
           \E k \in DOMAIN gs : /\ Len(gs[k]) = w /\ Total(gs[k]) <= TokenBudget
                                /\ \A i \in Feasible(s, w) : Total(SubSeq(s, i - w + 1, i)) <= Total(gs[k])
  BY <1>3, PartitionIs
<1> HIDE DEF gs
<1>5. \A k \in DOMAIN gs : gs[k] \in Range(gs)
  BY DEF Range
<1>6. \A g \in Range(gs) : Len(g) \in 1 .. w
  BY <1>4 DEF Range
<1>7. ASSUME NEW v \in sizes, NEW i \in DOMAIN s, v <= Concurrency, i + v - 1 <= Len(s),
             Total(SubSeq(s, i, i + v - 1)) <= TokenBudget
      PROVE  /\ v <= w
             /\ v = w => \E g \in Range(gs) : /\ Len(g) = v /\ Total(g) <= TokenBudget
                                              /\ Total(g) >= Total(SubSeq(s, i, i + v - 1))
  <2> DEFINE j == i + v - 1
             t == Total(SubSeq(s, i, i + v - 1))
  <2>1. v \in Nat \ {0} /\ i \in 1 .. Len(s)
    OBVIOUS
  <2>2. j \in v .. Len(s) /\ j - v + 1 = i /\ i \in 1 .. Len(s) + 1 /\ j \in i - 1 .. Len(s) /\ v <= Len(s)
    BY ONLY <1>0, <2>1, i + v - 1 <= Len(s)
  <2> HIDE DEF j
  <2>3. Slide(s, v)[j] = Total(SubSeq(s, j - v + 1, j))
    BY <2>1, <2>2, SlideIs
  <2>4. t = Total(SubSeq(s, j - v + 1, j))
    BY <2>2 DEF j
  <2>10. t \in Nat
    <3>1. SubSeq(s, i, j) \in Seq(Queued)
      BY <2>2, PartTotal
    <3> QED BY <3>1, TotalType DEF j
  <2>11. t <= TokenBudget
    BY ONLY Zenon, Total(SubSeq(s, i, i + v - 1)) <= TokenBudget
  <2> HIDE DEF t
  <2>5. j \in Feasible(s, v)
    BY ONLY <2>2, <2>3, <2>4, <2>11 DEF Feasible
  <2>6. v <= c
    BY ONLY <1>1, <2>1, <2>2, v <= Concurrency
  <2>7. v <= w
    BY <1>2, <2>5, <2>6
  <2>8. ASSUME v = w
        PROVE  \E g \in Range(gs) : Len(g) = v /\ Total(g) <= TokenBudget /\ Total(g) >= t
    <3>1. PICK k \in DOMAIN gs : /\ Len(gs[k]) = w /\ Total(gs[k]) <= TokenBudget
             /\ \A m \in Feasible(s, w) : Total(SubSeq(s, m - w + 1, m)) <= Total(gs[k])
      BY <1>4, <2>5, <2>8
    <3>2. t <= Total(gs[k])
      BY <2>4, <2>5, <2>8, <3>1
    <3>3. Total(gs[k]) \in Nat
      <4>1. gs[k] \in Seq(Queued)
        BY <1>4
      <4> QED BY <4>1, TotalType
    <3>4. Total(gs[k]) >= t
      BY <2>10, <3>2, <3>3
    <3> QED BY <1>5, <2>8, <3>1, <3>4
  <2> QED BY <2>7, <2>8 DEF t
<1>8. GroupsFor(s, gs, w, sizes)
  BY <1>4, <1>6, <1>7 DEF GroupsFor
<1> QED BY <1>3, <1>8 DEF gs

\* What is in a flattened sequence is in one of its pieces.
LEMMA Flattened ==
  ASSUME NEW Y, NEW s \in Seq(Seq(Y)), NEW k \in 1 .. Len(FlattenSeq(s))
  PROVE  \E b \in DOMAIN s : FlattenSeq(s)[k] \in Range(s[b])
<1> DEFINE n == Len(s)
           J == Joint(s)
           In(m) == \A i \in 1 .. Len(J[m]) : \E b \in 1 .. n : J[m][i] \in Range(s[b])
           T == {m \in Nat : m <= n => In(m)}
<1>1. /\ n \in Nat /\ DOMAIN s = 1 .. n /\ J \in [0 .. n -> Seq(Y)] /\ J[0] = <<>>
      /\ \A m \in 1 .. n : J[m] = J[m - 1] \o s[m] /\ s[m] \in Seq(Y)
      /\ FlattenSeq(s) = J[n]
  <2>1. n \in Nat /\ DOMAIN s = 1 .. n /\ \A m \in 1 .. n : s[m] \in Seq(Y)
    OBVIOUS
  <2> QED BY <2>1, JointIs
<1> HIDE DEF n, J
<1>2. 0 \in T
  <2>1. Len(J[0]) = 0
    BY <1>1
  <2> QED BY <2>1
<1>3. \A m \in Nat : m \in T => m + 1 \in T
  <2> SUFFICES ASSUME NEW m \in Nat, m \in T, m + 1 <= n PROVE In(m + 1)
    <3> HIDE DEF In
    <3> QED OBVIOUS
  <2> DEFINE e == m + 1
  <2>1. e \in 1 .. n /\ e - 1 = m /\ m \in 0 .. n /\ m <= n
    BY <1>1
  <2>2. In(m)
    <3> HIDE DEF In
    <3> QED BY <2>1
  <2> HIDE DEF T, e
  <2>3. J[e] = J[m] \o s[e] /\ J[m] \in Seq(Y) /\ s[e] \in Seq(Y)
    BY <1>1, <2>1
  <2> DEFINE p == J[m]
             q == s[e]
             r == p \o q
  <2>10. p \in Seq(Y) /\ q \in Seq(Y) /\ J[e] = r
    BY <2>3
  <2> HIDE DEF p, q
  <2>4. /\ Len(p) \in Nat /\ Len(q) \in Nat
        /\ \A i \in 1 .. Len(p) : r[i] = p[i]
        /\ \A i \in 1 .. Len(q) : r[Len(p) + i] = q[i]
        /\ DOMAIN r = 1 .. Len(p) + Len(q) /\ r \in Seq(Y)
    BY <2>10, Concatenation
  <2> HIDE DEF r
  <2>5. Len(r) = Len(p) + Len(q)
    BY ONLY <2>4
  <2>6. \A i \in 1 .. Len(J[e]) : \E b \in 1 .. n : J[e][i] \in Range(s[b])
    <3> TAKE i \in 1 .. Len(J[e])
    <3>0. i \in 1 .. Len(p) + Len(q)
      BY <2>5, <2>10
    <3>1. CASE i \in 1 .. Len(p)
      <4>1. \E b \in 1 .. n : p[i] \in Range(s[b])
        BY <2>2, <3>1 DEF p
      <4> QED BY <2>4, <2>10, <3>1, <4>1
    <3>2. CASE i \notin 1 .. Len(p)
      <4> DEFINE j == i - Len(p)
      <4>1. j \in 1 .. Len(q) /\ Len(p) + j = i
        BY ONLY <2>4, <3>0, <3>2
      <4> HIDE DEF j
      <4>2. J[e][i] = q[j] /\ j \in DOMAIN q
        BY <2>4, <2>10, <4>1
      <4>3. q[j] \in Range(s[e])
        BY <4>2 DEF Range, q
      <4> QED BY <2>1, <4>2, <4>3
    <3> QED BY <3>1, <3>2
  <2> QED BY <2>6 DEF e
<1> HIDE DEF T
<1>4. n \in T
  BY <1>1, <1>2, <1>3, NatInductive
<1>5. In(n)
  <2> HIDE DEF In
  <2> QED BY <1>1, <1>4 DEF T
<1> QED BY <1>1, <1>5

\* What adaptive buckets plan.
LEMMA AdaptivePlans ==
  ASSUME Costed, requests # <<>>, NEW sizes \in Captures, NEW n \in 1 .. Concurrency,
         NEW late \in BOOLEAN, PlanAdaptive(sizes, n, late)
  PROVE  /\ WaveFor(planned', n, late)
         /\ GroupsFor(Pending, groups', capture', sizes)
<1> DEFINE s == Pending
           c == Min({Concurrency, Len(s)})
           w == CaptureSize(s, sizes, c)
           gs == Partition(s, sizes, w)
           pick == IF late THEN CHOOSE b \in DOMAIN gs : 1 \in Range(gs[b]) ELSE Densest(gs, Len(s))
           first == IF late THEN <<1>> ELSE <<>>
           queue == [k \in 1 .. Len(s) |-> k]
           target == Min({n, Len(requests), w})
           offer == first \o gs[pick] \o queue
<1>1. capture' = w /\ groups' = gs /\ planned' = Wave(offer, target)
  BY DEF PlanAdaptive
<1>2. s \in Seq(Queued) /\ Len(s) \in 1 .. Len(requests) /\ (\E k \in 1 .. Len(s) : s[k] = 1)
      /\ Len(requests) \in Nat /\ Queued = 1 .. Len(requests)
  BY PendingIs, PrefillType
<1> HIDE DEF s
<1>3. s # <<>> /\ sizes \in SUBSET (Nat \ {0}) /\ n \in Nat /\ Concurrency \in Nat /\ n >= 1
  <2>1. s # <<>>
    <3> SUFFICES ASSUME s = <<>> PROVE FALSE
      OBVIOUS
    <3>1. Len(<<>>) \in 1 .. Len(requests)
      BY ONLY <1>2, s = <<>>
    <3> QED BY ONLY <1>2, <3>1
  <2>2. sizes \in SUBSET (Nat \ {0}) /\ Concurrency \in Nat
    BY WaveAssumption
  <2>3. n \in Nat /\ n >= 1
    BY <2>2
  <2> QED BY <2>1, <2>2, <2>3
<1>4. w \in 1 .. Len(s) /\ GroupsFor(s, gs, w, sizes)
  BY <1>2, <1>3, GroupsAre
<1> HIDE DEF c, w
<1>5. gs \in Seq(Seq(Queued)) /\ gs # <<>> /\ FlattenSeq(gs) = s
  BY <1>2, <1>3, <1>4, PartitionIs
<1> HIDE DEF gs
<1>6. pick \in DOMAIN gs
  <2>1. CASE late
    <3>1. \E b \in DOMAIN gs : 1 \in Range(gs[b])
      BY <1>2, <1>5, Flattened
    <3> QED BY <2>1, <3>1
  <2>2. CASE ~late
    <3>1. Len(s) \in Nat
      BY <1>2
    <3>2. Densest(gs, Len(s)) \in DOMAIN gs
      BY <1>5, <3>1, DensestIs
    <3> QED BY <2>2, <3>2
  <2> QED BY <2>1, <2>2
<1> HIDE DEF pick
<1>7. gs[pick] \in Seq(Queued)
  BY <1>5, <1>6
<1>8. queue \in Seq(Queued) /\ Len(queue) = Len(s) /\ first \in Seq(Queued)
  <2>1. Len(s) \in Nat /\ Len(s) <= Len(requests) /\ Len(s) >= 1
    BY <1>2
  <2>2. queue \in [1 .. Len(s) -> Queued]
    BY <1>2, <2>1
  <2>3. queue \in Seq(Queued) /\ Len(queue) = Len(s)
    BY ONLY <2>1, <2>2
  <2>4. 1 \in Queued
    BY <1>2, <2>1
  <2>5. first \in Seq(Queued)
    BY <2>4
  <2> QED BY <2>3, <2>5
<1>20. first = IF late THEN <<1>> ELSE <<>>
  OBVIOUS
<1> HIDE DEF queue, first
<1>9. offer \in Seq(Queued) /\ offer # <<>> /\ (late => offer[1] = 1)
  <2> DEFINE p == first \o gs[pick]
  <2>1. /\ p \in Seq(Queued) /\ DOMAIN p = 1 .. Len(first) + Len(gs[pick]) /\ Len(first) \in Nat
        /\ Len(gs[pick]) \in Nat
        /\ \A k \in 1 .. Len(first) : p[k] = first[k]
    BY <1>7, <1>8, Concatenation
  <2> HIDE DEF p
  <2>2. /\ p \o queue \in Seq(Queued) /\ DOMAIN (p \o queue) = 1 .. Len(p) + Len(queue) /\ Len(p) \in Nat
        /\ \A k \in 1 .. Len(p) : (p \o queue)[k] = p[k]
    BY <1>8, <2>1, Concatenation
  <2> DEFINE o == p \o queue
  <2> HIDE DEF o
  <2>3. o \in Seq(Queued) /\ DOMAIN o = 1 .. Len(p) + Len(queue) /\ \A k \in 1 .. Len(p) : o[k] = p[k]
    BY <2>2 DEF o
  <2>4. 1 \in DOMAIN o
    BY <1>2, <1>8, <2>2, <2>3
  <2>5. o # <<>>
    BY <2>4
  <2>6. ASSUME late PROVE o[1] = 1
    <3>1. first = <<1>>
      BY <1>20, <2>6
    <3>2. Len(first) = 1 /\ first[1] = 1
      BY ONLY <3>1
    <3>3. 1 \in 1 .. Len(first) /\ 1 \in DOMAIN p
      BY <2>1, <3>2
    <3>4. 1 \in 1 .. Len(p)
      BY <2>1, <3>3
    <3> QED BY <2>1, <2>3, <3>2, <3>3, <3>4
  <2> QED BY <2>3, <2>5, <2>6 DEF o, p
<1> HIDE DEF offer
<1>10. target \in 1 .. n /\ target <= Len(requests)
  <2> DEFINE T == {n, Len(requests), w}
  <2>1. w \in Nat /\ w >= 1 /\ Len(requests) >= 1
    BY <1>2, <1>4
  <2>2. T \in SUBSET Nat /\ T # {} /\ \A m \in T : m >= 1
    BY <1>2, <1>3, <2>1
  <2>3. n \in T /\ Len(requests) \in T
    OBVIOUS
  <2> HIDE DEF T
  <2>4. Min(T) \in T /\ \A m \in T : Min(T) <= m
    BY <2>2, MinType
  <2>5. Min(T) \in Nat /\ Min(T) >= 1 /\ Min(T) <= n /\ Min(T) <= Len(requests)
    BY <2>2, <2>3, <2>4
  <2>6. target = Min(T)
    BY DEF T
  <2> HIDE DEF target
  <2> QED BY <2>5, <2>6, <1>3
<1> HIDE DEF target
<1>11. WaveFor(Wave(offer, target), n, late)
  BY <1>3, <1>9, <1>10, WaveForIs
<1> QED BY <1>1, <1>4, <1>11 DEF s

\* What fixed buckets plan.
LEMMA StaticPlans ==
  ASSUME Costed, requests # <<>>, NEW sizes \in Captures, NEW n \in 1 .. Concurrency,
         NEW late \in BOOLEAN, PlanStatic(sizes, n, late)
  PROVE  WaveFor(planned', n, late) /\ groups' = groups
<1> DEFINE capacity == Min({n, Len(requests)})
           target == IF sizes = {} THEN capacity ELSE Max({1} \cup {w \in sizes : w <= capacity})
           buckets == [b \in 1 .. Cardinality(Edges) + 1 |-> Of({b - 1})]
           pick == IF late THEN Bucket(1) ELSE Densest(buckets, target) - 1
           others == (0 .. Cardinality(Edges)) \ {pick}
           offer == Of({pick}) \o Of(others)
<1>1. planned' = Wave(offer, target) /\ groups' = groups
  BY DEF PlanStatic
<1>2. Len(requests) \in Nat /\ Len(requests) >= 1 /\ Queued = 1 .. Len(requests)
  <2>1. Len(requests) # 0
    BY DEF Costed
  <2> QED BY <2>1, PrefillType
<1>3. sizes \in SUBSET (Nat \ {0}) /\ n \in Nat /\ n >= 1
  <2>1. sizes \in SUBSET (Nat \ {0}) /\ Concurrency \in Nat
    BY WaveAssumption
  <2>2. n \in Nat /\ n >= 1
    BY <2>1
  <2> QED BY <2>1, <2>2
<1>4. capacity \in 1 .. n /\ capacity <= Len(requests)
  <2>1. capacity = IF n <= Len(requests) THEN n ELSE Len(requests)
    BY <1>2, <1>3, LesserOfTwo
  <2> QED BY <1>2, <1>3, <2>1
<1> HIDE DEF capacity
<1>5. target \in 1 .. n /\ target <= Len(requests)
  <2> DEFINE T == {1} \cup {w \in sizes : w <= capacity}
  <2>1. CASE sizes = {}
    BY <2>1, <1>4
  <2>2. CASE sizes # {}
    <3>1. capacity \in Nat /\ 1 <= capacity
      BY <1>3, <1>4
    <3>2. \A m \in T : m \in Nat /\ m <= capacity /\ 1 <= m
      <4> TAKE m \in T
      <4>1. CASE m = 1
        BY <3>1, <4>1
      <4>2. CASE m \in sizes /\ m <= capacity
        BY <1>3, <4>2
      <4> QED BY <4>1, <4>2
    <3>3. 1 \in T
      OBVIOUS
    <3> HIDE DEF T
    <3>4. T \in SUBSET Nat /\ T # {} /\ \A m \in T : m <= capacity
      BY <3>2, <3>3
    <3>5. Max(T) \in T
      BY <3>1, <3>4, MaxType
    <3>6. target = Max(T)
      BY <2>2 DEF T
    <3> HIDE DEF target
    <3>7. target \in Nat /\ target <= capacity /\ 1 <= target
      BY <3>2, <3>5, <3>6
    <3> QED BY <1>2, <1>3, <1>4, <3>7
  <2> QED BY <2>1, <2>2
<1> HIDE DEF target
<1>6. Bucket(1) \in 0 .. Cardinality(Edges)
  <2>1. IsFiniteSet(Edges)
    BY WaveAssumption
  <2> DEFINE F == {e \in Edges : e <= requests[1][1]}
  <2>2. F \in SUBSET Edges
    OBVIOUS
  <2> HIDE DEF F
  <2>3. IsFiniteSet(F) /\ Cardinality(F) <= Cardinality(Edges)
    BY <2>1, <2>2, FS_Subset
  <2>4. Cardinality(F) \in Nat /\ Cardinality(Edges) \in Nat
    BY <2>1, <2>3, FS_CardinalityType
  <2>5. Bucket(1) = Cardinality(F)
    BY DEF Bucket, F
  <2> QED BY <2>3, <2>4, <2>5
<1>7. late => pick = Bucket(1)
  OBVIOUS
<1> HIDE DEF pick
<1>8. Bucket(1) \in {pick} \/ Bucket(1) \in others
  BY <1>6
<1> HIDE DEF others
<1> DEFINE p == Of({pick})
           q == Of(others)
<1>9. /\ p \in Seq(Queued) /\ q \in Seq(Queued)
      /\ Bucket(1) \in {pick} <=> \E k \in 1 .. Len(p) : p[k] = 1
      /\ Bucket(1) \in others <=> \E k \in 1 .. Len(q) : q[k] = 1
      /\ \A j, k \in 1 .. Len(p) : j < k <=> p[j] < p[k]
  <2>1. 1 \in Queued
    BY <1>2
  <2> QED BY <2>1, OfIs
<1>10. offer = p \o q
  OBVIOUS
<1> HIDE DEF offer, p, q
<1>11. /\ offer \in Seq(Queued) /\ DOMAIN offer = 1 .. Len(p) + Len(q) /\ Len(p) \in Nat /\ Len(q) \in Nat
       /\ \A k \in 1 .. Len(p) : offer[k] = p[k]
  BY <1>9, <1>10, Concatenation
<1>12. offer # <<>>
  <2>1. Len(p) + Len(q) >= 1
    BY <1>8, <1>9, <1>11
  <2>2. 1 \in DOMAIN offer
    BY <1>11, <2>1
  <2> QED BY <2>2
<1>13. ASSUME late PROVE offer[1] = 1
  <2>1. PICK k \in 1 .. Len(p) : p[k] = 1
    BY <1>7, <1>9, <1>13
  <2>2. 1 \in 1 .. Len(p)
    BY <1>11, <2>1
  <2>3. p[1] \in Queued
    BY <1>9, <2>2
  <2>4. p[1] >= 1
    BY <1>2, <2>3
  <2>5. k = 1
    <3> SUFFICES ASSUME k # 1 PROVE FALSE
      OBVIOUS
    <3>1. 1 < k
      BY <1>11, <2>1
    <3>2. p[1] < p[k]
      BY <1>9, <2>1, <2>2, <3>1
    <3> QED BY <1>2, <2>1, <2>3, <2>4, <3>2
  <2> QED BY <1>11, <2>1, <2>2, <2>5
<1>14. WaveFor(Wave(offer, target), n, late)
  BY <1>3, <1>5, <1>11, <1>12, <1>13, WaveForIs
<1> QED BY <1>1, <1>14

-----------------------------------------------------------------------------
(* What ModelPool allows.                                                  *)

\* The single tokens of the first k requests of v.
Units(v, k) == UNION {{c} \X (1 .. Prefill(c)) : c \in {v[i] : i \in 1 .. k}}

\* ModelPool counts them; the sum of the requests' prefills is the same number.
LEMMA UnitsCounted ==
  ASSUME Costed, NEW v, Packed(v)
  PROVE  \A k \in 0 .. Len(v) : Cardinality(Units(v, k)) = Prefills(v)[k]
<1> DEFINE n == Len(v)
           F == Prefills(v)
           U(k) == Units(v, k)
           Ok(k) == IsFiniteSet(U(k)) /\ Cardinality(U(k)) = F[k]
           T == {k \in Nat : k <= n => Ok(k)}
<1>1. /\ n \in Nat /\ F[0] = 0 /\ F \in [0 .. n -> Nat]
      /\ \A k \in 1 .. n : F[k] = F[k - 1] + Prefill(v[k])
  BY PrefillsAre DEF Packed
<1>2. /\ \A k \in 1 .. n : v[k] \in Queued /\ Prefill(v[k]) \in Nat
      /\ \A j, k \in 1 .. n : v[j] = v[k] => j = k
  <2>1. /\ \A k \in 1 .. n : v[k] \in Queued
        /\ \A j, k \in 1 .. n : v[j] = v[k] => j = k
    BY DEF Packed
  <2> QED BY <2>1, PrefillType
<1> HIDE DEF n, F
<1>3. 0 \in T
  <2>1. U(0) = {}
    BY DEF Units
  <2>2. Ok(0)
    BY <1>1, <2>1, FS_EmptySet
  <2> HIDE DEF Ok
  <2> QED BY <2>2
<1>4. ASSUME NEW k \in Nat, k \in T PROVE k + 1 \in T
  <2> SUFFICES ASSUME k + 1 <= n PROVE Ok(k + 1)
    <3> HIDE DEF Ok
    <3> QED OBVIOUS
  <2> DEFINE e == k + 1
             c == v[e]
             p == Prefill(c)
             A == {c} \X (1 .. p)
  <2>1. e \in 1 .. n /\ e - 1 = k /\ k \in 0 .. n /\ k <= n
    BY <1>1
  <2>2. Ok(k)
    <3> HIDE DEF Ok
    <3> QED BY <1>4, <2>1
  <2>3. p \in Nat /\ F[e] = F[k] + p /\ F[k] \in Nat
    BY <1>1, <1>2, <2>1
  <2>4. {v[i] : i \in 1 .. e} = {v[i] : i \in 1 .. k} \cup {c}
    BY <2>1
  <2>5. c \notin {v[i] : i \in 1 .. k}
    <3> SUFFICES ASSUME NEW i \in 1 .. k, v[i] = c PROVE FALSE
      OBVIOUS
    <3>1. i \in 1 .. n /\ i # e
      BY <1>1, <2>1
    <3> QED BY <1>2, <2>1, <3>1
  <2> HIDE DEF T, e, c
  <2>6. U(e) = U(k) \cup A
    <3> DEFINE X == {v[i] : i \in 1 .. k}
               Y == {v[i] : i \in 1 .. e}
    <3>1. Y = X \cup {c}
      BY <2>4
    <3>2. U(e) = UNION {{d} \X (1 .. Prefill(d)) : d \in Y}
          /\ U(k) = UNION {{d} \X (1 .. Prefill(d)) : d \in X}
      BY DEF Units
    <3> HIDE DEF X, Y
    <3> QED BY <3>1, <3>2
  <2>7. U(k) \cap A = {}
    <3> SUFFICES ASSUME NEW x \in U(k), x \in A PROVE FALSE
      OBVIOUS
    <3>1. PICK d \in {v[i] : i \in 1 .. k} : x \in {d} \X (1 .. Prefill(d))
      BY DEF Units
    <3>2. x[1] = d /\ x[1] = c
      BY <3>1
    <3> QED BY <2>5, <3>1, <3>2
  <2>8. IsFiniteSet(A) /\ Cardinality(A) = p
    <3>1. IsFiniteSet({c}) /\ Cardinality({c}) = 1
      BY FS_Singleton
    <3>2. IsFiniteSet(1 .. p) /\ Cardinality(1 .. p) = p
      BY <2>3, FS_Interval
    <3>3. IsFiniteSet(A) /\ Cardinality(A) = Cardinality({c}) * Cardinality(1 .. p)
      BY <3>1, <3>2, FS_Product, Zenon
    <3> QED BY <2>3, <3>1, <3>2, <3>3
  <2> HIDE DEF U, A, p
  <2>9. IsFiniteSet(U(k) \cup A)
        /\ Cardinality(U(k) \cup A) = Cardinality(U(k)) + Cardinality(A) - Cardinality(U(k) \cap A)
    BY <2>2, <2>8, FS_Union
  <2>10. Cardinality(U(k) \cap A) = 0
    BY <2>7, FS_EmptySet
  <2>11. Ok(e)
    BY <2>2, <2>3, <2>6, <2>8, <2>9, <2>10
  <2> QED BY <2>11 DEF e
<1> HIDE DEF Ok, T
<1>5. Nat \subseteq T
  BY <1>3, <1>4, NatInductive
<1>6. \A k \in 0 .. n : Ok(k)
  <2> TAKE k \in 0 .. n
  <2>1. k \in Nat /\ k <= n
    BY <1>1
  <2> QED BY <1>5, <2>1 DEF T
<1> QED BY <1>6 DEF Ok, n, F, U

\* ModelPool counts the elements of a set as this module does.
LEMMA SameCount == ASSUME NEW S PROVE P!Cardinality(S) = Cardinality(S)
  BY DEF P!Cardinality, Cardinality

\* A wave as it has to be is one that ModelPool allows.
LEMMA WaveAllowed ==
  ASSUME Costed, requests # <<>>, free \in 1 .. Concurrency, due \in BOOLEAN,
         WaveFor(planned, free, due)
  PROVE  P!IsWave(planned) /\ Len(planned) \in P!Capacity
<1> DEFINE tok == [k \in DOMAIN requests |-> Prefill(k)]
           n == Len(planned)
<1>1. /\ Packed(planned) /\ n \in 1 .. free /\ n <= Len(requests)
      /\ due => planned[1] = 1
  BY DEF WaveFor
<1>2. Len(requests) \in Nat /\ Len(requests) >= 1 /\ Queued = 1 .. Len(requests)
      /\ Concurrency \in Nat /\ free \in Nat /\ DOMAIN requests = Queued
  <2>1. Len(requests) # 0
    BY DEF Costed
  <2>2. Concurrency \in Nat
    BY WaveAssumption
  <2>3. free \in Nat
    BY <2>2
  <2> QED BY <2>1, <2>2, <2>3, PrefillType DEF Queued
<1>3. /\ planned \in Seq(Queued)
      /\ \A j, k \in 1 .. n : planned[j] = planned[k] => j = k
      /\ \A k \in 2 .. n : Prefills(planned)[k] <= TokenBudget
  BY <1>1 DEF Packed
<1>4. n \in Nat /\ DOMAIN planned = 1 .. n /\ \A k \in 1 .. n : planned[k] \in Queued
  BY <1>3
<1>5. \A k \in 0 .. n : Cardinality(Units(planned, k)) = Prefills(planned)[k]
  BY <1>1, UnitsCounted
<1> HIDE DEF n
<1>6. \A k \in 0 .. n : P!Load(P!Upto(planned, k)) = Cardinality(Units(planned, k))
  <2> TAKE k \in 0 .. n
  <2> DEFINE X == {planned[i] : i \in 1 .. k}
  <2>1. X \subseteq DOMAIN requests
    BY <1>2, <1>4
  <2> HIDE DEF X
  <2>2. \A c \in X : tok[c] = Prefill(c)
    BY <2>1
  <2> HIDE DEF tok
  <2>3. UNION {{c} \X (1 .. tok[c]) : c \in X} = UNION {{c} \X (1 .. Prefill(c)) : c \in X}
    <3>1. {{c} \X (1 .. tok[c]) : c \in X} = {{c} \X (1 .. Prefill(c)) : c \in X}
      BY <2>2
    <3> QED BY <3>1
  <2>4. P!Load(P!Upto(planned, k)) = Cardinality(UNION {{c} \X (1 .. tok[c]) : c \in X})
    <3>1. P!Upto(planned, k) = X
      BY DEF P!Upto, X
    <3>2. P!Load(X) = P!Cardinality(UNION {{c} \X (1 .. tok[c]) : c \in X})
      BY Zenon DEF P!Load, tok
    <3> QED BY <3>1, <3>2, SameCount
  <2> QED BY <2>3, <2>4 DEF Units, X
<1>7. \A k \in DOMAIN planned : planned[k] \notin P!Upto(planned, k - 1)
  <2> SUFFICES ASSUME NEW k \in 1 .. n, NEW i \in 1 .. k - 1, planned[i] = planned[k] PROVE FALSE
    BY <1>4 DEF P!Upto
  <2>1. i \in 1 .. n /\ i # k
    BY <1>4
  <2> QED BY <1>3, <2>1
<1>8. \A k \in 2 .. n : P!Load(P!Upto(planned, k)) <= TokenBudget
  <2> TAKE k \in 2 .. n
  <2>1. k \in 0 .. n
    BY <1>4
  <2> QED BY <1>3, <1>5, <1>6, <2>1
<1>9. P!HeadIsDue => planned[1] = Head([k \in DOMAIN requests |-> k])
  <2> DEFINE q == [k \in DOMAIN requests |-> k]
  <2>1. q \in Seq(Queued) /\ q # <<>> /\ Head(q) = 1
    <3>1. q = [k \in 1 .. Len(requests) |-> k] /\ 1 \in 1 .. Len(requests)
      BY <1>2
    <3>2. q \in Seq(Queued) /\ Len(q) = Len(requests) /\ q[1] = 1
      BY <1>2, <3>1
    <3> HIDE DEF q
    <3> QED BY <1>2, <3>2
  <2>2. 1 \in DOMAIN requests
    BY <1>2
  <2>3. [k \in DOMAIN requests |-> due /\ k = 1][1] = due
    BY <2>2
  <2>4. [k \in DOMAIN requests |-> 0][1] = 0
    BY <2>2
  <2> HIDE DEF q
  <2>5. P!HeadIsDue <=> \/ [k \in DOMAIN requests |-> due /\ k = 1][Head(q)]
                        \/ [k \in DOMAIN requests |-> 0][Head(q)] >= 1
    BY DEF P!HeadIsDue, q
  <2>6. P!HeadIsDue => due
    BY <2>1, <2>3, <2>4, <2>5
  <2> QED BY <1>1, <2>1, <2>6 DEF q
<1>10. P!IsWave(planned)
  BY <1>7, <1>8, <1>9 DEF P!IsWave, n
<1>11. n \in P!Capacity
  <2>1. Len([k \in DOMAIN requests |-> k]) = Len(requests)
    BY <1>2
  <2>2. P!Cardinality(1 .. free) = free
    BY <1>2, FS_Interval, SameCount
  <2>3. n \in 1 .. Len(requests) /\ n <= free /\ n <= Concurrency
    BY <1>1, <1>2, <1>4
  <2>4. P!Capacity = {m \in 1 .. Len([k \in DOMAIN requests |-> k]) :
                        m <= P!Cardinality(1 .. free) /\ m <= Concurrency - 0}
    BY Zenon DEF P!Capacity
  <2>5. Concurrency - 0 = Concurrency
    BY <1>2
  <2> QED BY <2>1, <2>2, <2>3, <2>4, <2>5
<1> QED BY <1>10, <1>11 DEF n

-----------------------------------------------------------------------------
(* The invariant.                                                          *)

WaveInv ==
  /\ Costed
  /\ planned = <<>> => groups = <<>>
  /\ planned # <<>> =>
       /\ requests # <<>> /\ free \in 1 .. Concurrency /\ due \in BOOLEAN
       /\ captures \in Captures
       /\ WaveFor(planned, free, due)
       /\ groups # <<>> => GroupsFor(Pending, groups, capture, captures)

\* The invariant is enough.
LEMMA PlansAllowed == WaveInv => WavePlanned
<1> SUFFICES ASSUME WaveInv, planned # <<>> PROVE WavePlanned
  BY DEF WavePlanned
<1>1. P!IsWave(planned) /\ Len(planned) \in P!Capacity
  BY WaveAllowed DEF WaveInv
<1>2. ASSUME groups # <<>>
      PROVE  /\ FlattenSeq(groups) = Pending
             /\ \A g \in Range(groups) : Len(g) \in 1 .. capture
             /\ \A w \in captures, i \in DOMAIN Pending :
                  LET window == SubSeq(Pending, i, i + w - 1)
                  IN  w <= Concurrency /\ i + w - 1 <= Len(Pending) /\ Total(window) <= TokenBudget
                        => /\ w <= capture
                           /\ w = capture => \E g \in Range(groups) :
                                /\ Len(g) = w /\ Total(g) <= TokenBudget
                                /\ Total(g) >= Total(window)
  <2>1. GroupsFor(Pending, groups, capture, captures)
    BY <1>2 DEF WaveInv
  <2> QED BY <2>1, Zenon DEF GroupsFor
<1> QED BY <1>1, <1>2, Zenon DEF WavePlanned

\* As long as the requests stay, what a wave has to be stays.
LEMMA SameRequests ==
  ASSUME requests' = requests
  PROVE  /\ Costed' <=> Costed
         /\ Pending' = Pending
         /\ \A v, n, late : WaveFor(v, n, late) => WaveFor(v, n, late)'
         /\ \A s, gs, w, sizes : GroupsFor(s, gs, w, sizes) => GroupsFor(s, gs, w, sizes)'
<1>1. \A s : Prefills(s)' = Prefills(s)
  BY DEF Prefills, Prefill
<1>2. Pending' = Pending
  BY SMT DEF Pending, Sorted
<1>3. Costed' <=> Costed
  BY DEF Costed
<1>4. \A s : Total(s)' = Total(s)
  BY <1>1 DEF Total
<1>5. ASSUME NEW v, NEW n, NEW late, WaveFor(v, n, late) PROVE WaveFor(v, n, late)'
  BY <1>1, <1>5 DEF WaveFor, Packed, Queued
<1>6. ASSUME NEW s, NEW gs, NEW w, NEW sizes, GroupsFor(s, gs, w, sizes)
      PROVE  GroupsFor(s, gs, w, sizes)'
  BY <1>4, <1>6, Zenon DEF GroupsFor
<1> QED BY <1>2, <1>3, <1>5, <1>6

\* No wave is planned at first.
LEMMA WaveBegins == WaveInit => WaveInv
  BY DEF WaveInit, WaveInv, Costed

\* Requests arrive while none is.
LEMMA ArriveWaits == WaveInv /\ Arrive => WaveInv'
<1> SUFFICES ASSUME WaveInv, Arrive PROVE WaveInv'
  OBVIOUS
<1>1. planned' = <<>> /\ groups' = <<>>
  BY DEF Arrive, WaveInv
<1>2. PICK v \in Visual, p \in Prompt : requests' = Append(requests, <<v, p>>)
  BY DEF Arrive
<1>3. Costed'
  BY <1>2 DEF WaveInv, Costed
<1> QED BY <1>1, <1>3 DEF WaveInv

\* What is planned is as it has to be.
LEMMA PlanKeeps == WaveInv /\ Plan => WaveInv'
<1> SUFFICES ASSUME WaveInv, Plan PROVE WaveInv'
  OBVIOUS
<1>1. Costed /\ planned = <<>> /\ groups = <<>> /\ requests # <<>> /\ requests' = requests
  BY DEF WaveInv, Plan
<1>2. PICK sizes \in Captures, n \in 1 .. Concurrency, late \in BOOLEAN :
        /\ captures' = sizes /\ free' = n /\ due' = late
        /\ PlanAdaptive(sizes, n, late) \/ PlanStatic(sizes, n, late)
  BY DEF Plan
<1>3. /\ WaveFor(planned', n, late)
      /\ groups' # <<>> => GroupsFor(Pending, groups', capture', sizes)
  <2>1. CASE PlanAdaptive(sizes, n, late)
    BY <1>1, <2>1, AdaptivePlans
  <2>2. CASE PlanStatic(sizes, n, late)
    BY <1>1, <2>2, StaticPlans
  <2> QED BY <1>2, <2>1, <2>2
<1>4. PICK v : v = planned'
  OBVIOUS
<1>5. PICK gs : gs = groups'
  OBVIOUS
<1>6. PICK w : w = capture'
  OBVIOUS
<1>7. PICK s : s = Pending
  OBVIOUS
<1>8. WaveFor(v, n, late)'
  BY <1>1, <1>3, <1>4, SameRequests
<1>9. Costed' /\ s = Pending'
  BY <1>1, <1>7, SameRequests
<1>10. gs # <<>> => GroupsFor(s, gs, w, sizes)'
  BY <1>1, <1>3, <1>5, <1>6, <1>7, SameRequests
<1>11. WaveFor(planned, free, due)'
  BY <1>2, <1>4, <1>8 DEF WaveFor
<1>12. groups' # <<>> => GroupsFor(Pending, groups, capture, captures)'
  BY <1>2, <1>5, <1>6, <1>9, <1>10 DEF GroupsFor
<1>13. planned' # <<>>
  <2>1. Len(planned') \in 1 .. n /\ n \in Nat
    BY <1>3, WaveAssumption DEF WaveFor
  <2> QED BY <2>1
<1>14. requests' # <<>> /\ free' \in 1 .. Concurrency /\ due' \in BOOLEAN /\ captures' \in Captures
  BY <1>1, <1>2
<1> QED BY <1>9, <1>11, <1>12, <1>13, <1>14 DEF WaveInv

\* Every step keeps the invariant.
LEMMA WaveStep == WaveInv /\ [WaveNext]_waveVars => WaveInv'
<1> SUFFICES ASSUME WaveInv, [WaveNext]_waveVars PROVE WaveInv'
  OBVIOUS
<1>1. CASE Arrive
  BY <1>1, ArriveWaits
<1>2. CASE Plan
  BY <1>2, PlanKeeps
<1>3. CASE UNCHANGED waveVars
  <2>1. /\ requests' = requests /\ planned' = planned /\ groups' = groups /\ free' = free
        /\ due' = due /\ capture' = capture /\ captures' = captures
    BY <1>3 DEF waveVars
  <2>2. PICK v, n, late, gs, w, sizes, s :
          /\ v = planned /\ n = free /\ late = due /\ gs = groups /\ w = capture
          /\ sizes = captures /\ s = Pending
    OBVIOUS
  <2>3. planned # <<>> => WaveFor(v, n, late)'
    BY <2>1, <2>2, SameRequests DEF WaveInv
  <2>4. Costed' /\ s = Pending'
    BY <2>1, <2>2, SameRequests DEF WaveInv
  <2>5. planned # <<>> /\ groups # <<>> => GroupsFor(s, gs, w, sizes)'
    BY <2>1, <2>2, SameRequests DEF WaveInv
  <2>6. planned # <<>> => WaveFor(planned, free, due)'
    BY <2>1, <2>2, <2>3 DEF WaveFor
  <2>7. planned # <<>> /\ groups # <<>> => GroupsFor(Pending, groups, capture, captures)'
    BY <2>1, <2>2, <2>4, <2>5 DEF GroupsFor
  <2> QED BY <2>1, <2>4, <2>6, <2>7 DEF WaveInv
<1> QED BY <1>1, <1>2, <1>3 DEF WaveNext

\* Whatever the requests cost, and whichever sizes, buckets and budget are configured,
\* what plan_visual_wave() picks is a wave that ModelPool allows, and the groups of
\* partition_visual_buckets() hold every scanned request and the fullest window of the
\* size chosen.
THEOREM WavesArePlanned == WaveSpec => []WavePlanned
<1>1. WaveSpec => []WaveInv
  BY WaveBegins, WaveStep, PTL DEF WaveSpec
<1> QED BY <1>1, PlansAllowed, PTL
=============================================================================

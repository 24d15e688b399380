--------------------------- MODULE BatchQueueProofs ---------------------------
(***************************************************************************)
(* Proofs about BatchQueue: every request is accounted for, for any        *)
(* callers, workers, batch sizes and bound of the queue.                   *)
(***************************************************************************)
EXTENDS BatchQueue, FiniteSetTheorems, FunctionTheorems, SequenceTheorems, TLAPS

-----------------------------------------------------------------------------
(* The inductive invariant.                                                *)

Distinct(s) == \A k, m \in 1 .. Len(s) : s[k] = s[m] => k = m

TypeInv ==
  /\ pc \in [Caller -> {"out", "waiting", "getting"}]
  /\ queue \in Seq(Caller)
  /\ started \in [Caller -> BOOLEAN] /\ answer \in [Caller -> {"none", "value", "error"}]
  /\ worker \in [Worker -> {"idle", "collecting", "calling", "answering", "exited"}]
  /\ batch \in [Worker -> Seq(Caller)]
  /\ outcome \in [Worker -> {"none", "value", "error"}]
  /\ inflight \in Int /\ stopping \in BOOLEAN

\* The queue holds the requests that wait to be started, each once.
QueueInv ==
  /\ Distinct(queue) /\ Len(queue) <= MaxPending
  /\ \A c \in Caller : c \in Elements(queue) <=> pc[c] = "waiting" /\ ~started[c]
  /\ \A c \in Caller : pc[c] = "getting" => started[c]
  /\ \A c \in Caller : pc[c] = "waiting" /\ ~started[c] => answer[c] = "none"

\* A worker holds requests while it is in the call or answers, and then knows
\* what to answer.
WorkerInv ==
  \A w \in Worker :
    /\ Distinct(batch[w]) /\ Len(batch[w]) <= BatchSize[w]
    /\ batch[w] # <<>> <=> worker[w] \in {"calling", "answering"}
    /\ worker[w] = "answering" => outcome[w] # "none"

\* A started request without an answer is with one worker, and its caller waits.
BatchInv ==
  /\ \A w \in Worker : \A c \in Unanswered(w) :
       pc[c] \in {"waiting", "getting"} /\ started[c] /\ answer[c] = "none"
  /\ \A v, w \in Worker : v # w => Unanswered(v) \cap Unanswered(w) = {}
  /\ \A c \in Caller :
       pc[c] # "out" /\ started[c] /\ answer[c] = "none" => \E w \in Worker : c \in Unanswered(w)

Called == UNION {Unanswered(w) : w \in Calling}
CallInv == inflight = Cardinality(Called)

IInv == TypeInv /\ QueueInv /\ WorkerInv /\ BatchInv /\ CallInv

-----------------------------------------------------------------------------
(* Sequences without repetitions.                                          *)

LEMMA SeqMade ==
  \A T : \A n \in Nat : \A f \in [1 .. n -> T] : f \in Seq(T) /\ Len(f) = n
<1> TAKE T
<1> TAKE n \in Nat
<1> TAKE f \in [1 .. n -> T]
<1>1. f \in Seq(T) BY SeqDef
<1>2. Len(f) \in Nat /\ DOMAIN f = 1 .. Len(f) BY <1>1, LenProperties
<1>3. 1 .. Len(f) = 1 .. n BY <1>2
<1>4. QED BY <1>1, <1>2, <1>3

LEMMA Placed ==
  \A s, c : (\E i \in DOMAIN s : s[i] = c) => Place(s, c) \in DOMAIN s /\ s[Place(s, c)] = c
  BY Zenon DEF Place

LEMMA Erased ==
  \A T, c : \A s \in Seq(T) : Distinct(s) =>
    /\ Erase(s, c) \in Seq(T) /\ Distinct(Erase(s, c))
    /\ Elements(Erase(s, c)) = Elements(s) \ {c}
    /\ Len(Erase(s, c)) <= Len(s)
    /\ c \in Elements(s) => Len(Erase(s, c)) = Len(s) - 1
    /\ s # <<>> /\ s[1] # c => Erase(s, c) # <<>> /\ Erase(s, c)[1] = s[1]
<1> TAKE T, c
<1> TAKE s \in Seq(T)
<1> SUFFICES ASSUME Distinct(s)
             PROVE  /\ Erase(s, c) \in Seq(T) /\ Distinct(Erase(s, c))
                    /\ Elements(Erase(s, c)) = Elements(s) \ {c}
                    /\ Len(Erase(s, c)) <= Len(s)
                    /\ c \in Elements(s) => Len(Erase(s, c)) = Len(s) - 1
                    /\ s # <<>> /\ s[1] # c => Erase(s, c) # <<>> /\ Erase(s, c)[1] = s[1]
  OBVIOUS
<1>1. Len(s) \in Nat /\ DOMAIN s = 1 .. Len(s) /\ \A k \in 1 .. Len(s) : s[k] \in T
  BY LenProperties
<1>2. CASE c \notin Elements(s)
  <2>1. Erase(s, c) = s BY <1>1, <1>2 DEF Erase, Elements
  <2>2. Len(s) <= Len(s) /\ Elements(s) = Elements(s) \ {c} BY <1>1, <1>2
  <2>3. QED BY <1>2, <2>1, <2>2, Zenon
<1>3. CASE c \in Elements(s)
  <2> DEFINE p == Place(s, c)
             n == Len(s) - 1
             r == [k \in 1 .. n |-> IF k < p THEN s[k] ELSE s[k + 1]]
  <2>1. p \in 1 .. Len(s) /\ s[p] = c
    <3>1. \E i \in DOMAIN s : s[i] = c BY <1>1, <1>3 DEF Elements
    <3>2. p \in DOMAIN s /\ s[p] = c BY <3>1, Placed
    <3>3. QED BY <1>1, <3>2
  <2>2. Erase(s, c) = r BY <1>1, <2>1 DEF Erase
  <2> HIDE DEF p
  <2>3. n \in Nat /\ r \in [1 .. n -> T] BY <1>1, <2>1
  <2>4. r \in Seq(T) /\ Len(r) = n BY <2>3, SeqMade
  <2>5. \A k \in 1 .. n : /\ k < p => r[k] = s[k] /\ k \in 1 .. Len(s)
                          /\ k >= p => r[k] = s[k + 1] /\ k + 1 \in 1 .. Len(s)
    BY <1>1, <2>1
  <2> HIDE DEF r
  <2>6. Distinct(r)
    <3> SUFFICES ASSUME NEW k \in 1 .. n, NEW m \in 1 .. n, r[k] = r[m] PROVE k = m
      BY <2>4 DEF Distinct
    <3>1. CASE k < p /\ m < p BY <1>1, <2>1, <2>5, <3>1 DEF Distinct
    <3>2. CASE k < p /\ m >= p BY <1>1, <2>1, <2>5, <3>2 DEF Distinct
    <3>3. CASE k >= p /\ m < p BY <1>1, <2>1, <2>5, <3>3 DEF Distinct
    <3>4. CASE k >= p /\ m >= p BY <1>1, <2>1, <2>5, <3>4 DEF Distinct
    <3>5. QED BY <1>1, <2>1, <3>1, <3>2, <3>3, <3>4
  <2>7. Elements(r) = Elements(s) \ {c}
    <3>1. ASSUME NEW x \in Elements(r) PROVE x \in Elements(s) \ {c}
      <4>1. PICK k \in 1 .. n : x = r[k] BY <2>4 DEF Elements
      <4>2. CASE k < p BY <1>1, <2>1, <2>5, <4>1, <4>2 DEF Distinct, Elements
      <4>3. CASE k >= p BY <1>1, <2>1, <2>5, <4>1, <4>3 DEF Distinct, Elements
      <4>4. QED BY <1>1, <2>1, <4>2, <4>3
    <3>2. ASSUME NEW x \in Elements(s) \ {c} PROVE x \in Elements(r)
      <4>1. PICK i \in 1 .. Len(s) : x = s[i] BY DEF Elements
      <4>2. i # p BY <2>1, <4>1
      <4>3. CASE i < p
        <5>1. i \in 1 .. n /\ r[i] = s[i] BY <1>1, <2>1, <2>5, <4>3
        <5>2. QED BY <2>4, <4>1, <5>1 DEF Elements
      <4>4. CASE i > p
        <5>1. i - 1 \in 1 .. n /\ r[i - 1] = s[(i - 1) + 1] BY <1>1, <2>1, <2>5, <4>4
        <5>2. r[i - 1] = s[i] BY <1>1, <5>1
        <5>3. QED BY <2>4, <4>1, <5>1, <5>2 DEF Elements
      <4>5. QED BY <1>1, <2>1, <4>2, <4>3, <4>4
    <3>3. QED BY <3>1, <3>2
  <2>8. s # <<>> /\ s[1] # c => r # <<>> /\ r[1] = s[1]
    <3> SUFFICES ASSUME s[1] # c PROVE r # <<>> /\ r[1] = s[1] OBVIOUS
    <3>1. p > 1 /\ 1 \in 1 .. n BY <1>1, <2>1
    <3>2. QED BY <2>4, <2>5, <3>1, EmptySeq
  <2>9. QED BY <1>1, <2>2, <2>4, <2>6, <2>7, <2>8
<1>4. QED BY <1>2, <1>3

LEMMA Appended ==
  \A T : \A c \in T : \A s \in Seq(T) : Distinct(s) /\ c \notin Elements(s) =>
    /\ Append(s, c) \in Seq(T) /\ Distinct(Append(s, c)) /\ Append(s, c) # <<>>
    /\ Elements(Append(s, c)) = Elements(s) \cup {c}
    /\ s # <<>> => Append(s, c)[1] = s[1]
    /\ s = <<>> => Append(s, c)[1] = c
<1> TAKE T
<1> TAKE c \in T
<1> TAKE s \in Seq(T)
<1> SUFFICES ASSUME Distinct(s), c \notin Elements(s)
             PROVE  /\ Append(s, c) \in Seq(T) /\ Distinct(Append(s, c)) /\ Append(s, c) # <<>>
                    /\ Elements(Append(s, c)) = Elements(s) \cup {c}
                    /\ s # <<>> => Append(s, c)[1] = s[1]
                    /\ s = <<>> => Append(s, c)[1] = c
  OBVIOUS
<1> DEFINE a == Append(s, c)
<1>1. /\ a \in Seq(T) /\ Len(s) \in Nat /\ Len(a) = Len(s) + 1
      /\ \A k \in 1 .. Len(s) : a[k] = s[k] /\ s[k] # c
      /\ a[Len(s) + 1] = c
  BY LenProperties DEF Elements
<1> HIDE DEF a
<1>2. Distinct(a)
  <2> SUFFICES ASSUME NEW k \in 1 .. Len(s) + 1, NEW m \in 1 .. Len(s) + 1, a[k] = a[m] PROVE k = m
    BY <1>1 DEF Distinct
  <2>1. CASE k \in 1 .. Len(s) /\ m \in 1 .. Len(s) BY <1>1, <2>1 DEF Distinct
  <2>2. CASE k = Len(s) + 1 /\ m \in 1 .. Len(s) BY <1>1, <2>2
  <2>3. CASE k \in 1 .. Len(s) /\ m = Len(s) + 1 BY <1>1, <2>3
  <2>4. CASE k = Len(s) + 1 /\ m = Len(s) + 1 BY <2>4
  <2>5. QED BY <1>1, <2>1, <2>2, <2>3, <2>4
<1>3. Elements(a) = Elements(s) \cup {c}
  <2>1. ASSUME NEW x \in Elements(a) PROVE x \in Elements(s) \cup {c}
    <3>1. PICK k \in 1 .. Len(s) + 1 : x = a[k] BY <1>1 DEF Elements
    <3>2. k \in 1 .. Len(s) \/ k = Len(s) + 1 BY <1>1
    <3>3. QED BY <1>1, <3>1, <3>2 DEF Elements
  <2>2. ASSUME NEW x \in Elements(s) \cup {c} PROVE x \in Elements(a)
    <3>1. \A k \in 1 .. Len(s) : k \in 1 .. Len(a) BY <1>1
    <3>2. Len(s) + 1 \in 1 .. Len(a) BY <1>1
    <3>3. CASE x = c BY <1>1, <3>2, <3>3 DEF Elements
    <3>4. CASE x \in Elements(s) BY <1>1, <3>1, <3>4 DEF Elements
    <3>5. QED BY <3>3, <3>4
  <2>3. QED BY <2>1, <2>2
<1>4. a # <<>> BY <1>1, EmptySeq
<1>5. (s # <<>> => a[1] = s[1]) /\ (s = <<>> => a[1] = c)
  <2>1. CASE s = <<>> BY <1>1, <2>1, EmptySeq
  <2>2. CASE s # <<>>
    <3>1. 1 \in 1 .. Len(s) BY <2>2, EmptySeq
    <3>2. QED BY <1>1, <2>2, <3>1
  <2>3. QED BY <2>1, <2>2
<1>6. QED BY <1>1, <1>2, <1>3, <1>4, <1>5 DEF a

LEMMA EmptyElements ==
  /\ \A T : <<>> \in Seq(T)
  /\ Len(<<>>) = 0 /\ Distinct(<<>>) /\ Elements(<<>>) = {}
  /\ \A T : \A s \in Seq(T) : /\ s # <<>> => s[1] \in Elements(s) /\ Elements(s) # {}
                              /\ Elements(s) \in SUBSET T
<1>1. Len(<<>>) = 0 /\ \A T : <<>> \in Seq(T) OBVIOUS
<1>2. 1 .. 0 = {} OBVIOUS
<1>3. Distinct(<<>>) /\ Elements(<<>>) = {} BY <1>1, <1>2 DEF Distinct, Elements
<1>4. ASSUME NEW T, NEW s \in Seq(T)
      PROVE  /\ s # <<>> => s[1] \in Elements(s) /\ Elements(s) # {}
             /\ Elements(s) \in SUBSET T
  <2>1. s # <<>> => 1 \in 1 .. Len(s) BY EmptySeq
  <2>2. \A k \in 1 .. Len(s) : s[k] \in T BY LenProperties
  <2>3. QED BY <2>1, <2>2 DEF Elements
<1>5. QED BY <1>1, <1>3, <1>4

LEMMA Tailed ==
  \A T : \A s \in Seq(T) : Distinct(s) /\ s # <<>> =>
    /\ Tail(s) \in Seq(T) /\ Distinct(Tail(s)) /\ Len(Tail(s)) = Len(s) - 1
    /\ Elements(Tail(s)) = Elements(s) \ {s[1]}
    /\ s[1] \in Elements(s) /\ Head(s) = s[1]
<1> TAKE T
<1> TAKE s \in Seq(T)
<1> SUFFICES ASSUME Distinct(s), s # <<>>
             PROVE  /\ Tail(s) \in Seq(T) /\ Distinct(Tail(s)) /\ Len(Tail(s)) = Len(s) - 1
                    /\ Elements(Tail(s)) = Elements(s) \ {s[1]}
                    /\ s[1] \in Elements(s) /\ Head(s) = s[1]
  OBVIOUS
<1> DEFINE t == Tail(s)
<1>1. /\ Len(s) \in Nat \ {0} /\ t \in Seq(T) /\ Len(t) = Len(s) - 1
      /\ \A k \in 1 .. Len(t) : t[k] = s[k + 1] /\ k + 1 \in 1 .. Len(s)
      /\ Head(s) = s[1] /\ 1 \in 1 .. Len(s)
  <2>1. Len(s) \in Nat \ {0} BY EmptySeq
  <2>2. t \in Seq(T) /\ Len(t) = Len(s) - 1 /\ \A k \in 1 .. Len(t) : t[k] = s[k + 1]
    BY HeadTailProperties
  <2>3. QED BY <2>1, <2>2
<1> HIDE DEF t
<1>2. Distinct(t)
  <2> SUFFICES ASSUME NEW k \in 1 .. Len(t), NEW m \in 1 .. Len(t), t[k] = t[m] PROVE k = m
    BY DEF Distinct
  <2>1. k + 1 = m + 1 BY <1>1 DEF Distinct
  <2>2. QED BY <1>1, <2>1
<1>3. Elements(t) = Elements(s) \ {s[1]}
  <2>1. ASSUME NEW x \in Elements(t) PROVE x \in Elements(s) \ {s[1]}
    <3>1. PICK k \in 1 .. Len(t) : x = t[k] BY DEF Elements
    <3>2. x = s[k + 1] /\ k + 1 \in 1 .. Len(s) /\ k + 1 # 1 BY <1>1, <3>1
    <3>3. QED BY <1>1, <3>2 DEF Elements, Distinct
  <2>2. ASSUME NEW x \in Elements(s) \ {s[1]} PROVE x \in Elements(t)
    <3>1. PICK i \in 1 .. Len(s) : x = s[i] BY DEF Elements
    <3>2. i - 1 \in 1 .. Len(t) /\ (i - 1) + 1 = i BY <1>1, <3>1
    <3>3. t[i - 1] = s[i] BY <1>1, <3>2
    <3>4. QED BY <3>1, <3>2, <3>3 DEF Elements
  <2>3. QED BY <2>1, <2>2
<1>4. s[1] \in Elements(s) BY <1>1 DEF Elements
<1>5. QED BY <1>1, <1>2, <1>3, <1>4 DEF t

LEMMA Counted ==
  \A T : \A s \in Seq(T) : Distinct(s) =>
    IsFiniteSet(Elements(s)) /\ Cardinality(Elements(s)) = Len(s)
<1> TAKE T
<1> TAKE s \in Seq(T)
<1> HAVE Distinct(s)
<1>1. Len(s) \in Nat /\ s \in [1 .. Len(s) -> T] BY LenProperties
<1>2. s \in Bijection(1 .. Len(s), Elements(s))
  <2>1. s \in [1 .. Len(s) -> Elements(s)] BY <1>1 DEF Elements
  <2>2. IsInjective(s) BY <1>1 DEF IsInjective, Distinct
  <2>3. \A t \in Elements(s) : \E k \in 1 .. Len(s) : s[k] = t BY DEF Elements
  <2>4. QED BY <2>1, <2>2, <2>3 DEF Bijection, Injection, Surjection
<1>3. ExistsBijection(1 .. Len(s), Elements(s)) BY <1>2 DEF ExistsBijection
<1>4. IsFiniteSet(1 .. Len(s)) /\ Cardinality(1 .. Len(s)) = Len(s)
  <2>1. \A n \in Int : IsFiniteSet(1 .. n) /\ Cardinality(1 .. n) = IF 1 > n THEN 0 ELSE n - 1 + 1
    BY FS_Interval
  <2>2. QED BY <1>1, <2>1
<1>5. QED BY <1>3, <1>4, FS_Bijection

LEMMA Divided ==
  \A T : \A s \in Seq(T) : \A n \in 0 .. Len(s) : Distinct(s) =>
    LET front == SubSeq(s, 1, n)  rest == SubSeq(s, n + 1, Len(s)) IN
      /\ front \in Seq(T) /\ Distinct(front) /\ Len(front) = n
      /\ rest \in Seq(T) /\ Distinct(rest) /\ Len(rest) = Len(s) - n
      /\ Elements(front) \cap Elements(rest) = {}
      /\ Elements(front) \cup Elements(rest) = Elements(s)
<1> TAKE T
<1> TAKE s \in Seq(T)
<1> TAKE n \in 0 .. Len(s)
<1> DEFINE front == SubSeq(s, 1, n)
           rest == SubSeq(s, n + 1, Len(s))
<1> SUFFICES ASSUME Distinct(s)
             PROVE  /\ front \in Seq(T) /\ Distinct(front) /\ Len(front) = n
                    /\ rest \in Seq(T) /\ Distinct(rest) /\ Len(rest) = Len(s) - n
                    /\ Elements(front) \cap Elements(rest) = {}
                    /\ Elements(front) \cup Elements(rest) = Elements(s)
  OBVIOUS
<1>1. Len(s) \in Nat /\ n \in Nat /\ n <= Len(s) /\ \A k \in 1 .. Len(s) : s[k] \in T
  BY LenProperties
<1>2. front \in Seq(T) /\ Len(front) = n /\ \A k \in 1 .. n : front[k] = s[k] /\ k \in 1 .. Len(s)
  BY <1>1, SubSeqProperties
<1>3. /\ rest \in Seq(T) /\ Len(rest) = Len(s) - n
      /\ \A k \in 1 .. Len(s) - n : rest[k] = s[n + k] /\ n + k \in 1 .. Len(s)
  <2>1. \A k \in n + 1 .. Len(s) : s[k] \in T BY <1>1
  <2>2. /\ rest \in Seq(T) /\ Len(rest) = IF n + 1 <= Len(s) THEN Len(s) - (n + 1) + 1 ELSE 0
        /\ \A k \in 1 .. Len(s) - (n + 1) + 1 : rest[k] = s[(n + 1) + k - 1]
    BY <1>1, <2>1, SubSeqProperties
  <2>3. QED BY <1>1, <2>2
<1> HIDE DEF front, rest
<1>4. Distinct(front) /\ Distinct(rest)
  <2>1. Distinct(front) BY <1>1, <1>2 DEF Distinct
  <2>2. ASSUME NEW k \in 1 .. Len(rest), NEW m \in 1 .. Len(rest), rest[k] = rest[m] PROVE k = m
    <3>1. n + k = n + m BY <1>3, <2>2 DEF Distinct
    <3>2. QED BY <1>1, <1>3, <3>1
  <2>3. QED BY <2>1, <2>2 DEF Distinct
<1>5. Elements(front) \cap Elements(rest) = {}
  <2> SUFFICES ASSUME NEW k \in 1 .. n, NEW m \in 1 .. Len(s) - n, front[k] = rest[m] PROVE FALSE
    BY <1>2, <1>3 DEF Elements
  <2>1. s[k] = s[n + m] /\ k \in 1 .. Len(s) /\ n + m \in 1 .. Len(s) BY <1>2, <1>3
  <2>2. k = n + m BY <2>1 DEF Distinct
  <2>3. QED BY <1>1, <2>2
<1>6. Elements(front) \cup Elements(rest) = Elements(s)
  <2>1. Elements(front) \subseteq Elements(s) BY <1>2 DEF Elements
  <2>2. Elements(rest) \subseteq Elements(s) BY <1>3 DEF Elements
  <2>3. ASSUME NEW k \in 1 .. Len(s) PROVE s[k] \in Elements(front) \cup Elements(rest)
    <3>1. CASE k <= n
      <4>1. k \in 1 .. n BY <1>1, <3>1
      <4>2. QED BY <1>2, <4>1 DEF Elements
    <3>2. CASE k > n
      <4>1. k - n \in 1 .. Len(s) - n /\ n + (k - n) = k BY <1>1, <3>2
      <4>2. rest[k - n] = s[k] BY <1>3, <4>1
      <4>3. QED BY <1>3, <4>1, <4>2 DEF Elements
    <3>3. QED BY <1>1, <3>1, <3>2
  <2>4. Elements(s) \subseteq Elements(front) \cup Elements(rest) BY <2>3 DEF Elements
  <2>5. QED BY <2>1, <2>2, <2>4
<1>7. QED BY <1>2, <1>3, <1>4, <1>5, <1>6

-----------------------------------------------------------------------------
(* The steps.                                                              *)

LEMMA Sizes ==
  /\ MaxPending \in Nat /\ \A w \in Worker : BatchSize[w] \in Nat \ {0} /\ BatchSize[w] <= MaxPending
  /\ \A S \in SUBSET Caller : IsFiniteSet(S) /\ Cardinality(S) \in Nat
  BY BatchAssumption, FS_Subset, FS_CardinalityType

LEMMA Lists ==
  ASSUME TypeInv
  PROVE  /\ Elements(queue) \in SUBSET Caller /\ Len(queue) \in Nat
         /\ \A w \in Worker : /\ batch[w] \in Seq(Caller) /\ Len(batch[w]) \in Nat
                              /\ Unanswered(w) \in SUBSET Caller
         /\ Called \in SUBSET Caller
<1>1. Elements(queue) \in SUBSET Caller /\ Len(queue) \in Nat
  BY EmptyElements, LenProperties DEF TypeInv
<1>2. \A w \in Worker : batch[w] \in Seq(Caller) /\ Len(batch[w]) \in Nat
  BY LenProperties DEF TypeInv
<1>3. \A w \in Worker : Unanswered(w) \in SUBSET Caller BY <1>2, EmptyElements DEF Unanswered
<1>4. Called \in SUBSET Caller BY <1>3 DEF Called, Calling
<1>5. QED BY <1>1, <1>2, <1>3, <1>4

LEMMA CalledKept ==
  ASSUME Calling' = Calling, \A w \in Calling : batch'[w] = batch[w]
  PROVE  Called' = Called
<1>1. \A w \in Calling : Unanswered(w)' = Unanswered(w) BY DEF Unanswered
<1>2. QED BY <1>1 DEF Called

\* A caller's own steps leave the workers alone.
LEMMA CallerKept ==
  ASSUME TypeInv, WorkerInv, BatchInv, CallInv, UNCHANGED workerVars,
         NEW c \in Caller, \A d \in Caller \ {c} :
           pc'[d] = pc[d] /\ started'[d] = started[d] /\ answer'[d] = answer[d],
         \/ pc'[c] \in {"waiting", "getting"} /\ pc[c] # "out"
              /\ started'[c] = started[c] /\ answer'[c] = answer[c]
         \/ /\ ~started[c] \/ pc[c] = "out" \/ answer[c] # "none"
            /\ pc'[c] = "out" \/ ~started'[c] \/ answer'[c] # "none"
  PROVE  WorkerInv' /\ BatchInv' /\ CallInv'
<1>1. UNCHANGED <<worker, batch, outcome, inflight>> BY DEF workerVars
<1>2. WorkerInv' BY <1>1 DEF WorkerInv
<1>3. CallInv' BY <1>1, CalledKept DEF CallInv, Calling
<1>4. \A w \in Worker : Unanswered(w)' = Unanswered(w) BY <1>1 DEF Unanswered
<1>5. \A w \in Worker : \A d \in Unanswered(w) : d = c => pc'[c] \in {"waiting", "getting"}
        /\ started'[c] = started[c] /\ answer'[c] = answer[c]
  BY DEF BatchInv
<1>6. \A w \in Worker : \A d \in Unanswered(w) :
        d \in Caller /\ pc'[d] \in {"waiting", "getting"} /\ started'[d] /\ answer'[d] = "none"
  BY <1>5, Lists DEF BatchInv
<1>7. \A d \in Caller : pc'[d] # "out" /\ started'[d] /\ answer'[d] = "none" =>
        \E w \in Worker : d \in Unanswered(w)
  BY DEF BatchInv
<1>8. BatchInv' BY <1>4, <1>6, <1>7 DEF BatchInv
<1>9. QED BY <1>2, <1>3, <1>8

LEMMA CallerStep ==
  ASSUME IInv, NEW c \in Caller, Enqueue(c) \/ GiveUp(c) \/ AwaitAnswer(c) \/ GetAnswer(c)
  PROVE  IInv'
<1> USE DEF IInv
<1>1. CASE Enqueue(c)
  <2>1. /\ pc[c] = "out" /\ pc' = [pc EXCEPT ![c] = "waiting"] /\ queue' = Append(queue, c)
        /\ started' = [started EXCEPT ![c] = FALSE] /\ answer' = [answer EXCEPT ![c] = "none"]
        /\ UNCHANGED <<workerVars, stopping>> /\ Len(queue) < MaxPending
    BY <1>1 DEF Enqueue
  <2>2. c \notin Elements(queue) BY <2>1 DEF QueueInv
  <2>3. /\ queue' \in Seq(Caller) /\ Distinct(queue') /\ Elements(queue') = Elements(queue) \cup {c}
    BY <2>1, <2>2, Appended DEF TypeInv, QueueInv
  <2>4. Len(queue') <= MaxPending BY <2>1, Lists, Sizes DEF TypeInv
  <2>5. TypeInv' BY <2>1, <2>3 DEF TypeInv, workerVars
  <2>6. QueueInv' BY <2>1, <2>3, <2>4 DEF TypeInv, QueueInv
  <2>7. /\ \A d \in Caller \ {c} :
             pc'[d] = pc[d] /\ started'[d] = started[d] /\ answer'[d] = answer[d]
        /\ ~started'[c]
    BY <2>1 DEF TypeInv
  <2>8. QED BY <2>1, <2>5, <2>6, <2>7, CallerKept
<1>2. CASE GiveUp(c)
  <2>1. /\ pc[c] = "waiting" /\ ~started[c] /\ queue' = Erase(queue, c)
        /\ pc' = [pc EXCEPT ![c] = "out"] /\ UNCHANGED <<started, answer, workerVars, stopping>>
    BY <1>2 DEF GiveUp
  <2>2. /\ queue' \in Seq(Caller) /\ Distinct(queue') /\ Elements(queue') = Elements(queue) \ {c}
        /\ Len(queue') <= Len(queue)
    BY <2>1, Erased DEF TypeInv, QueueInv
  <2>3. Len(queue') <= MaxPending
    <3>1. Len(queue') \in Nat BY <2>2, LenProperties
    <3>2. QED BY <2>2, <3>1, Lists, Sizes DEF QueueInv
  <2>4. TypeInv' BY <2>1, <2>2 DEF TypeInv, workerVars
  <2>5. QueueInv' BY <2>1, <2>2, <2>3 DEF TypeInv, QueueInv
  <2>6. /\ \A d \in Caller \ {c} :
             pc'[d] = pc[d] /\ started'[d] = started[d] /\ answer'[d] = answer[d]
        /\ pc'[c] = "out"
    BY <2>1 DEF TypeInv
  <2>7. QED BY <2>1, <2>4, <2>5, <2>6, CallerKept
<1>3. CASE AwaitAnswer(c)
  <2>1. /\ pc[c] = "waiting" /\ started[c] /\ pc' = [pc EXCEPT ![c] = "getting"]
        /\ UNCHANGED <<queue, started, answer, workerVars, stopping>>
    BY <1>3 DEF AwaitAnswer
  <2>2. TypeInv' BY <2>1 DEF TypeInv, workerVars
  <2>3. QueueInv' BY <2>1 DEF TypeInv, QueueInv
  <2>4. \A d \in Caller \ {c} :
           pc'[d] = pc[d] /\ started'[d] = started[d] /\ answer'[d] = answer[d]
    BY <2>1 DEF TypeInv
  <2>5. pc'[c] = "getting" BY <2>1 DEF TypeInv
  <2>6. QED BY <2>1, <2>2, <2>3, <2>4, <2>5, CallerKept
<1>4. CASE GetAnswer(c)
  <2>1. /\ pc[c] = "getting" /\ answer[c] # "none" /\ pc' = [pc EXCEPT ![c] = "out"]
        /\ UNCHANGED <<queue, started, answer, workerVars, stopping>>
    BY <1>4 DEF GetAnswer
  <2>2. TypeInv' BY <2>1 DEF TypeInv, workerVars
  <2>3. QueueInv' BY <2>1 DEF TypeInv, QueueInv
  <2>4. /\ \A d \in Caller \ {c} :
             pc'[d] = pc[d] /\ started'[d] = started[d] /\ answer'[d] = answer[d]
        /\ pc'[c] = "out"
    BY <2>1 DEF TypeInv
  <2>5. QED BY <2>1, <2>2, <2>3, <2>4, CallerKept
<1>5. QED BY <1>1, <1>2, <1>3, <1>4

LEMMA TakeStep ==
  ASSUME IInv, NEW w \in Worker, Take(w)
  PROVE  IInv'
<1> USE DEF IInv
<1> DEFINE n == Least(Len(queue), BatchSize[w])
           front == SubSeq(queue, 1, n)
           rest == SubSeq(queue, n + 1, Len(queue))
<1>1. n \in 0 .. Len(queue) /\ n >= 1 /\ n <= BatchSize[w] /\ n \in Nat
  <2>1. Len(queue) \in Nat \ {0} BY EmptyElements, EmptySeq DEF Take, TypeInv
  <2>2. QED BY <2>1, Sizes DEF Least
<1> HIDE DEF n
<1>2. /\ front \in Seq(Caller) /\ Distinct(front) /\ Len(front) = n
      /\ rest \in Seq(Caller) /\ Distinct(rest) /\ Len(rest) = Len(queue) - n
      /\ Elements(front) \cap Elements(rest) = {}
      /\ Elements(front) \cup Elements(rest) = Elements(queue)
  BY <1>1, Divided DEF TypeInv, QueueInv
<1>3. Taken(w) = front BY DEF Taken, n
<1> HIDE DEF front
<1>4. /\ worker[w] = "collecting" /\ worker' = [worker EXCEPT ![w] = "calling"]
      /\ batch' = [batch EXCEPT ![w] = front] /\ queue' = rest
      /\ started' = [c \in Caller |-> started[c] \/ c \in Elements(front)]
      /\ inflight' = inflight + n /\ UNCHANGED <<pc, answer, outcome, stopping>>
  BY <1>2, <1>3 DEF Take
<1> HIDE DEF rest
<1>5. /\ \A c \in Elements(front) : c \in Caller /\ pc[c] = "waiting" /\ ~started[c]
      /\ front # <<>>
  <2>1. front # <<>> BY <1>1, <1>2, EmptyElements
  <2>2. QED BY <1>2, <2>1, Lists DEF QueueInv
<1>6. \A v \in Worker : Unanswered(v) \cap Elements(front) = {} BY <1>5 DEF BatchInv
<1>7. /\ batch[w] = <<>> /\ Unanswered(w) = {} /\ Unanswered(w)' = Elements(front)
      /\ \A v \in Worker \ {w} : Unanswered(v)' = Unanswered(v) /\ batch'[v] = batch[v]
  <2>1. batch[w] = <<>> BY <1>4 DEF WorkerInv
  <2>2. QED BY <1>4, <2>1, EmptyElements DEF Unanswered, TypeInv
<1>8. \A c \in Caller : started'[c] = (started[c] \/ c \in Elements(front)) BY <1>4
<1>9. TypeInv'
  <2>1. inflight' \in Int BY <1>1, <1>4 DEF TypeInv
  <2>2. batch' \in [Worker -> Seq(Caller)] BY <1>2, <1>4 DEF TypeInv
  <2>3. started' \in [Caller -> BOOLEAN] BY <1>4
  <2>4. QED BY <1>2, <1>4, <2>1, <2>2, <2>3 DEF TypeInv
<1>10. QueueInv'
  <2>1. Len(queue') <= MaxPending BY <1>1, <1>2, <1>4, Lists, Sizes DEF QueueInv
  <2>2. \A c \in Caller : c \in Elements(rest) <=> pc[c] = "waiting" /\ ~started'[c]
    BY <1>2, <1>8 DEF QueueInv
  <2>3. \A c \in Caller : pc[c] = "getting" => started'[c] BY <1>8 DEF QueueInv
  <2>4. QED BY <1>2, <1>4, <2>1, <2>2, <2>3 DEF QueueInv
<1>11. WorkerInv'
  <2>1. batch'[w] = front /\ worker'[w] = "calling" BY <1>4 DEF TypeInv
  <2>2. \A v \in Worker \ {w} : worker'[v] = worker[v] /\ batch'[v] = batch[v]
    BY <1>4 DEF TypeInv
  <2>3. QED BY <1>1, <1>2, <1>4, <1>5, <2>1, <2>2 DEF WorkerInv
<1>12. BatchInv'
  <2>1. ASSUME NEW v \in Worker, NEW c \in Unanswered(v)'
        PROVE  pc'[c] \in {"waiting", "getting"} /\ started'[c] /\ answer'[c] = "none"
    <3>1. CASE v = w
      <4>1. c \in Elements(front) BY <1>7, <2>1, <3>1
      <4>2. answer[c] = "none" BY <1>5, <4>1 DEF QueueInv
      <4>3. QED BY <1>4, <1>5, <1>8, <4>1, <4>2
    <3>2. CASE v # w
      <4>1. c \in Unanswered(v) /\ c \in Caller BY <1>7, <2>1, <3>2, Lists
      <4>2. pc[c] \in {"waiting", "getting"} /\ started[c] /\ answer[c] = "none"
        BY <4>1 DEF BatchInv
      <4>3. QED BY <1>4, <1>8, <4>1, <4>2
    <3>3. QED BY <3>1, <3>2
  <2>2. ASSUME NEW u \in Worker, NEW v \in Worker, u # v
        PROVE  (Unanswered(u) \cap Unanswered(v) = {})'
    <3>1. CASE u = w BY <1>6, <1>7, <2>2, <3>1
    <3>2. CASE v = w BY <1>6, <1>7, <2>2, <3>2
    <3>3. CASE u # w /\ v # w BY <1>7, <2>2, <3>3 DEF BatchInv
    <3>4. QED BY <3>1, <3>2, <3>3
  <2>3. ASSUME NEW c \in Caller, pc'[c] # "out", started'[c], answer'[c] = "none"
        PROVE  \E v \in Worker : c \in Unanswered(v)'
    <3>1. CASE c \in Elements(front) BY <1>7, <3>1
    <3>2. CASE c \notin Elements(front)
      <4>1. pc[c] # "out" /\ started[c] /\ answer[c] = "none" BY <1>4, <1>8, <2>3, <3>2
      <4>2. PICK v \in Worker : c \in Unanswered(v) BY <4>1 DEF BatchInv
      <4>3. v # w BY <1>7, <4>2
      <4>4. QED BY <1>7, <4>2, <4>3
    <3>3. QED BY <3>1, <3>2
  <2>4. QED BY <2>1, <2>2, <2>3 DEF BatchInv
<1>13. CallInv'
  <2>1. Calling' = Calling \cup {w} /\ w \notin Calling BY <1>4 DEF Calling, TypeInv
  <2>2. \A v \in Calling : v \in Worker /\ v # w BY <2>1 DEF Calling
  <2>3. Called' = Called \cup Elements(front) BY <1>7, <2>1, <2>2 DEF Called
  <2>4. Called \cap Elements(front) = {} BY <1>6, <2>2 DEF Called
  <2>5. IsFiniteSet(Elements(front)) /\ Cardinality(Elements(front)) = n BY <1>2, Counted
  <2>6. IsFiniteSet(Called) /\ Cardinality(Called) \in Nat BY Lists, Sizes
  <2>7. Cardinality(Called') = Cardinality(Called) + n
    <3>1. Cardinality(Called \cup Elements(front))
            = Cardinality(Called) + Cardinality(Elements(front)) - Cardinality(Called \cap Elements(front))
      BY <2>5, <2>6, FS_Union
    <3>2. Cardinality(Called \cap Elements(front)) = 0 BY <2>4, FS_EmptySet
    <3>3. QED BY <1>1, <2>3, <2>5, <2>6, <3>1, <3>2
  <2>8. QED BY <1>4, <2>7 DEF CallInv
<1>14. QED BY <1>9, <1>10, <1>11, <1>12, <1>13

LEMMA CallEndsStep ==
  ASSUME IInv, NEW w \in Worker, CallEnds(w)
  PROVE  IInv'
<1> USE DEF IInv
<1>1. PICK o \in {"value", "error"} : outcome' = [outcome EXCEPT ![w] = o] BY DEF CallEnds
<1>2. /\ worker[w] = "calling" /\ worker' = [worker EXCEPT ![w] = "answering"]
      /\ inflight' = inflight - Len(batch[w])
      /\ UNCHANGED <<pc, queue, started, answer, batch, stopping>>
  BY DEF CallEnds, callerVars
<1>3. TypeInv' BY <1>1, <1>2, Lists DEF TypeInv
<1>4. QueueInv' BY <1>2 DEF QueueInv
<1>5. WorkerInv'
  <2>1. worker'[w] = "answering" /\ outcome'[w] # "none" BY <1>1, <1>2 DEF TypeInv
  <2>2. \A v \in Worker \ {w} : worker'[v] = worker[v] /\ outcome'[v] = outcome[v]
    BY <1>1, <1>2 DEF TypeInv
  <2>3. QED BY <1>2, <2>1, <2>2 DEF WorkerInv
<1>6. BatchInv' BY <1>2 DEF BatchInv, Unanswered
<1>7. CallInv'
  <2>1. Calling' = Calling \ {w} /\ w \in Calling BY <1>2 DEF Calling, TypeInv
  <2>2. Called = Called' \cup Unanswered(w) BY <1>2, <2>1 DEF Called, Unanswered
  <2>3. Called' \cap Unanswered(w) = {}
    <3>1. ASSUME NEW c \in Called', c \in Unanswered(w) PROVE FALSE
      <4>1. PICK v \in Calling' : c \in Unanswered(v)' BY <3>1 DEF Called
      <4>2. v \in Worker /\ v # w BY <2>1, <4>1 DEF Calling
      <4>3. c \in Unanswered(v) BY <1>2, <4>1 DEF Unanswered
      <4>4. QED BY <3>1, <4>2, <4>3 DEF BatchInv
    <3>2. QED BY <3>1
  <2>4. IsFiniteSet(Unanswered(w)) /\ Cardinality(Unanswered(w)) = Len(batch[w])
    BY Lists, Counted DEF WorkerInv, Unanswered
  <2>5. IsFiniteSet(Called') /\ Cardinality(Called') \in Nat
    <3>1. Called' \in SUBSET Caller BY <2>2, Lists
    <3>2. QED BY <3>1, Sizes
  <2>6. Cardinality(Called) = Cardinality(Called') + Len(batch[w])
    <3>1. Cardinality(Called' \cup Unanswered(w))
            = Cardinality(Called') + Cardinality(Unanswered(w)) - Cardinality(Called' \cap Unanswered(w))
      BY <2>4, <2>5, FS_Union
    <3>2. Cardinality(Called' \cap Unanswered(w)) = 0 BY <2>3, FS_EmptySet
    <3>3. Len(batch[w]) \in Nat BY Lists
    <3>4. QED BY <2>2, <2>4, <2>5, <3>1, <3>2, <3>3
  <2>7. Len(batch[w]) \in Nat BY Lists
  <2>8. QED BY <1>2, <2>5, <2>6, <2>7 DEF CallInv
<1>8. QED BY <1>3, <1>4, <1>5, <1>6, <1>7

LEMMA AnswerStep ==
  ASSUME IInv, NEW w \in Worker, Answer(w)
  PROVE  IInv'
<1> USE DEF IInv
<1> DEFINE c == batch[w][1]
           left == Tail(batch[w])
           last == Len(batch[w]) = 1
<1>1. /\ batch[w] \in Seq(Caller) /\ batch[w] # <<>> /\ Distinct(batch[w])
      /\ outcome[w] \in {"value", "error"}
  BY DEF Answer, WorkerInv, TypeInv
<1>2. /\ left \in Seq(Caller) /\ Distinct(left) /\ Len(left) = Len(batch[w]) - 1
      /\ Elements(left) = Unanswered(w) \ {c} /\ c \in Unanswered(w) /\ Head(batch[w]) = c
  BY <1>1, Tailed DEF Unanswered
<1>3. c \in Caller BY <1>2, Lists
<1>4. /\ worker[w] = "answering" /\ answer' = [answer EXCEPT ![c] = outcome[w]]
      /\ batch' = [batch EXCEPT ![w] = left]
      /\ worker' = [worker EXCEPT ![w] = IF last THEN "idle" ELSE "answering"]
      /\ outcome' = [outcome EXCEPT ![w] = IF last THEN "none" ELSE @]
      /\ UNCHANGED <<pc, queue, started, inflight, stopping>>
  BY <1>2 DEF Answer, callerVars, TypeInv
<1>5. last <=> left = <<>>
  <2>1. Len(batch[w]) \in Nat /\ Len(left) \in Nat BY <1>1, <1>2, LenProperties
  <2>2. Len(left) = 0 <=> left = <<>> BY <1>2, EmptySeq
  <2>3. QED BY <1>2, <2>1, <2>2
<1>6. Len(left) <= BatchSize[w]
  <2>1. Len(batch[w]) \in Nat /\ Len(batch[w]) <= BatchSize[w] BY Lists DEF WorkerInv
  <2>2. QED BY <1>2, <2>1, Sizes
<1>7. /\ pc[c] \in {"waiting", "getting"} /\ started[c] /\ answer'[c] # "none"
      /\ \A d \in Caller \ {c} : answer'[d] = answer[d]
  <2>1. pc[c] \in {"waiting", "getting"} /\ started[c] BY <1>2 DEF BatchInv
  <2>2. answer'[c] = outcome[w] /\ \A d \in Caller \ {c} : answer'[d] = answer[d]
    BY <1>3, <1>4 DEF TypeInv
  <2>3. QED BY <1>1, <2>1, <2>2
<1>8. /\ batch'[w] = left /\ worker'[w] = IF last THEN "idle" ELSE "answering"
      /\ outcome'[w] = IF last THEN "none" ELSE outcome[w]
      /\ \A v \in Worker \ {w} : batch'[v] = batch[v] /\ worker'[v] = worker[v]
                                 /\ outcome'[v] = outcome[v]
  BY <1>4 DEF TypeInv
<1> HIDE DEF c, left, last
<1>9. /\ Unanswered(w)' = Unanswered(w) \ {c}
      /\ \A v \in Worker \ {w} : Unanswered(v)' = Unanswered(v) /\ c \notin Unanswered(v)
  <2>1. Unanswered(w)' = Unanswered(w) \ {c} BY <1>2, <1>8 DEF Unanswered
  <2>2. \A v \in Worker \ {w} : Unanswered(v)' = Unanswered(v) BY <1>8 DEF Unanswered
  <2>3. \A v \in Worker \ {w} : c \notin Unanswered(v) BY <1>2 DEF BatchInv
  <2>4. QED BY <2>1, <2>2, <2>3
<1>10. TypeInv'
  <2>1. answer' \in [Caller -> {"none", "value", "error"}] BY <1>1, <1>4 DEF TypeInv
  <2>2. batch' \in [Worker -> Seq(Caller)] BY <1>2, <1>4 DEF TypeInv
  <2>3. QED BY <1>4, <2>1, <2>2 DEF TypeInv
<1>11. QueueInv'
  <2>1. \A d \in Caller : pc[d] = "waiting" /\ ~started[d] => answer'[d] = "none"
    BY <1>7 DEF QueueInv
  <2>2. QED BY <1>4, <2>1 DEF QueueInv
<1>12. WorkerInv' BY <1>1, <1>2, <1>5, <1>6, <1>8 DEF WorkerInv
<1>13. BatchInv'
  <2>1. ASSUME NEW v \in Worker, NEW d \in Unanswered(v)'
        PROVE  pc'[d] \in {"waiting", "getting"} /\ started'[d] /\ answer'[d] = "none"
    <3>1. d \in Unanswered(v) /\ d # c BY <1>9, <2>1
    <3>2. pc[d] \in {"waiting", "getting"} /\ started[d] /\ answer[d] = "none" /\ d \in Caller
      BY <3>1, Lists DEF BatchInv
    <3>3. QED BY <1>4, <1>7, <3>1, <3>2
  <2>2. \A u, v \in Worker : u # v => Unanswered(u)' \cap Unanswered(v)' = {}
    <3>1. \A v \in Worker : Unanswered(v)' \subseteq Unanswered(v) BY <1>9
    <3>2. QED BY <3>1 DEF BatchInv
  <2>3. ASSUME NEW d \in Caller, pc'[d] # "out", started'[d], answer'[d] = "none"
        PROVE  \E v \in Worker : d \in Unanswered(v)'
    <3>1. d # c /\ answer[d] = "none" BY <1>7, <2>3
    <3>2. PICK v \in Worker : d \in Unanswered(v) BY <1>4, <2>3, <3>1 DEF BatchInv
    <3>3. QED BY <1>9, <3>1, <3>2
  <2>4. QED BY <2>1, <2>2, <2>3 DEF BatchInv
<1>14. CallInv'
  <2>1. Calling' = Calling /\ w \notin Calling BY <1>4, <1>8 DEF Calling
  <2>2. \A v \in Calling : batch'[v] = batch[v] BY <1>8, <2>1 DEF Calling
  <2>3. Called' = Called BY <2>1, <2>2, CalledKept
  <2>4. QED BY <1>4, <2>3 DEF CallInv
<1>15. QED BY <1>10, <1>11, <1>12, <1>13, <1>14

\* Collecting, finding nothing, stopping and leaving change where a worker is.
LEMMA QuietStep ==
  ASSUME IInv,
         \/ \E w \in Worker : Collect(w) \/ CollectNothing(w) \/ Exit(w)
         \/ Stop
         \/ UNCHANGED vars
  PROVE  IInv'
<1> USE DEF IInv
<1>1. /\ UNCHANGED <<pc, queue, started, answer, batch, outcome, inflight>>
      /\ worker' \in [Worker -> {"idle", "collecting", "calling", "answering", "exited"}]
      /\ stopping' \in BOOLEAN
      /\ \A w \in Worker : \A t \in {"calling", "answering"} : (worker'[w] = t) <=> (worker[w] = t)
  <2>1. ASSUME NEW w \in Worker, (Collect(w) \/ CollectNothing(w) \/ Exit(w)) 
        PROVE  /\ UNCHANGED <<pc, queue, started, answer, batch, outcome, inflight>>
               /\ worker' \in [Worker -> {"idle", "collecting", "calling", "answering", "exited"}]
               /\ stopping' \in BOOLEAN
               /\ \A v \in Worker : \A t \in {"calling", "answering"} : (worker'[v] = t) <=> (worker[v] = t)
    <3>1. PICK t \in {"idle", "collecting", "exited"} : worker' = [worker EXCEPT ![w] = t]
      BY <2>1 DEF Collect, CollectNothing, Exit
    <3>2. worker[w] \in {"idle", "collecting"} BY <2>1 DEF Collect, CollectNothing, Exit
    <3>3. UNCHANGED <<pc, queue, started, answer, batch, outcome, inflight, stopping>>
      BY <2>1 DEF Collect, CollectNothing, Exit, callerVars
    <3>4. \A v \in Worker \ {w} : worker'[v] = worker[v] BY <3>1 DEF TypeInv
    <3>5. worker'[w] = t BY <3>1 DEF TypeInv
    <3>6. QED BY <3>1, <3>2, <3>3, <3>4, <3>5 DEF TypeInv
  <2>2. CASE Stop BY <2>2 DEF Stop, callerVars, workerVars, TypeInv
  <2>3. CASE UNCHANGED vars BY <2>3 DEF vars, callerVars, workerVars, TypeInv
  <2>4. QED BY <2>1, <2>2, <2>3
<1>2. TypeInv' BY <1>1 DEF TypeInv
<1>3. QueueInv' BY <1>1 DEF QueueInv
<1>4. WorkerInv' BY <1>1 DEF WorkerInv
<1>5. BatchInv' BY <1>1 DEF BatchInv, Unanswered
<1>6. CallInv'
  <2>1. Calling' = Calling BY <1>1 DEF Calling
  <2>2. Called' = Called BY <1>1, <2>1, CalledKept
  <2>3. QED BY <1>1, <2>2 DEF CallInv
<1>7. QED BY <1>2, <1>3, <1>4, <1>5, <1>6

LEMMA InitInv ==
  ASSUME Init
  PROVE  IInv
<1>1. \A w \in Worker : batch[w] = <<>> /\ Unanswered(w) = {} BY EmptyElements DEF Init, Unanswered
<1>2. TypeInv
  <2>1. <<>> \in Seq(Caller) BY EmptyElements
  <2>2. queue \in Seq(Caller) /\ batch \in [Worker -> Seq(Caller)] BY <2>1 DEF Init
  <2>3. inflight \in Int /\ stopping \in BOOLEAN
    <3>1. inflight \in Int BY DEF Init
    <3>2. stopping \in BOOLEAN BY Zenon DEF Init
    <3>3. QED BY <3>1, <3>2
  <2>4. /\ pc \in [Caller -> {"out", "waiting", "getting"}]
        /\ started \in [Caller -> BOOLEAN] /\ answer \in [Caller -> {"none", "value", "error"}]
        /\ worker \in [Worker -> {"idle", "collecting", "calling", "answering", "exited"}]
        /\ outcome \in [Worker -> {"none", "value", "error"}]
    BY DEF Init
  <2>5. QED BY <2>2, <2>3, <2>4 DEF TypeInv
<1>3. QueueInv BY EmptyElements, Sizes DEF Init, QueueInv
<1>4. WorkerInv BY <1>1, EmptyElements, Sizes DEF Init, WorkerInv
<1>5. BatchInv BY <1>1 DEF Init, BatchInv
<1>6. CallInv
  <2>1. Called = {} BY <1>1 DEF Called, Calling
  <2>2. QED BY <2>1, FS_EmptySet DEF Init, CallInv
<1>7. QED BY <1>2, <1>3, <1>4, <1>5, <1>6 DEF IInv

LEMMA Invariance == Spec => []IInv
<1>1. Init => IInv BY InitInv
<1>2. IInv /\ [Next]_vars => IInv'
  <2> SUFFICES ASSUME IInv, [Next]_vars PROVE IInv' OBVIOUS
  <2>1. CASE \E c \in Caller : Enqueue(c) \/ GiveUp(c) \/ AwaitAnswer(c) \/ GetAnswer(c)
    BY <2>1, CallerStep
  <2>2. CASE \E w \in Worker : Take(w) BY <2>2, TakeStep
  <2>3. CASE \E w \in Worker : CallEnds(w) BY <2>3, CallEndsStep
  <2>4. CASE \E w \in Worker : Answer(w) BY <2>4, AnswerStep
  <2>5. CASE \/ \E w \in Worker : Collect(w) \/ CollectNothing(w) \/ Exit(w)
             \/ Stop
             \/ UNCHANGED vars
    BY <2>5, QuietStep
  <2>6. QED BY <2>1, <2>2, <2>3, <2>4, <2>5 DEF Next
<1>3. QED BY <1>1, <1>2, PTL DEF Spec

-----------------------------------------------------------------------------
(* The theorems.                                                           *)

LEMMA InvAccounts ==
  ASSUME IInv
  PROVE  RequestsAccountedFor
<1> USE DEF IInv
<1>1. \A w \in Worker : Cardinality(Unanswered(w)) = Len(batch[w])
  BY Lists, Counted DEF WorkerInv, Unanswered
<1>2. Cardinality(Elements(queue)) = Len(queue) BY Counted DEF QueueInv, TypeInv
<1>3. inflight = Cardinality(UNION {Unanswered(w) : w \in Calling}) BY DEF CallInv, Called
<1>4. \A w \in Worker : \A c \in Unanswered(w) :
        pc[c] \in {"waiting", "getting"} /\ started[c] /\ answer[c] = "none"
  BY DEF BatchInv
<1>5. \A v, w \in Worker : v # w => Unanswered(v) \cap Unanswered(w) = {} BY DEF BatchInv
<1>6. \A c \in Caller : c \in Elements(queue) <=> pc[c] = "waiting" /\ ~started[c] BY DEF QueueInv
<1>7. \A c \in Caller : pc[c] # "out" /\ started[c] /\ answer[c] = "none" =>
        \E w \in Worker : c \in Unanswered(w)
  BY DEF BatchInv
<1>8. QED BY <1>1, <1>2, <1>3, <1>4, <1>5, <1>6, <1>7 DEF RequestsAccountedFor

(* A request of Pool::infer that waits for a batch is in the queue once, or *)
(* with one worker once, or answered, and while a worker has it its caller *)
(* has not left, so the image it refers to is alive; inflight is the number *)
(* of requests in calls of the backend.  For any callers and workers.      *)
THEOREM RequestsNeverLost == Spec => []RequestsAccountedFor
<1>1. IInv => RequestsAccountedFor BY InvAccounts
<1>2. QED BY <1>1, Invariance, PTL

LEMMA InvTypes ==
  ASSUME IInv
  PROVE  TypeOK
<1> USE DEF IInv
<1>1. inflight \in Nat BY Lists, Sizes DEF CallInv
<1>2. \A w \in Worker : batch[w] \in Seq(Caller) /\ Len(batch[w]) <= BatchSize[w]
  BY DEF TypeInv, WorkerInv
<1>3. QED BY <1>1, <1>2 DEF TypeInv, QueueInv, TypeOK

(* The members of a pool with native batching keep their types, its queue  *)
(* stays within max_pending_requests and no worker takes more than its     *)
(* batch_size.                                                             *)
THEOREM BatchesStayBounded == Spec => []TypeOK
<1>1. IInv => TypeOK BY InvTypes
<1>2. QED BY <1>1, Invariance, PTL
=============================================================================

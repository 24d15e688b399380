--------------------------- MODULE ModelPoolProofs ---------------------------
(***************************************************************************)
(* Proofs about ModelPool: leases, the budget's accounts and the limit on  *)
(* passes hold for any callers, instances, strategies, estimates, budgets  *)
(* and limits.                                                             *)
(***************************************************************************)
EXTENDS ModelPool, FiniteSetTheorems, FunctionTheorems, SequenceTheorems, TLAPS

-----------------------------------------------------------------------------
(* The inductive invariant.                                                *)

Distinct(s) == \A k, m \in 1 .. Len(s) : s[k] = s[m] => k = m
Members(s) == {s[k] : k \in 1 .. Len(s)}

\* Counters are integers here; that they are natural follows from the ledger.
TypeInv ==
  /\ strategy \in Strategies
  /\ pc \in [Caller -> {"out", "waiting", "calling", "returning"}]
  /\ queue \in Seq(Caller) /\ wave \in Seq(Caller)
  /\ tokens \in [Caller -> Tokens \cup {0}] /\ bypasses \in [Caller -> Nat]
  /\ aged \in [Caller -> BOOLEAN]
  /\ available \in SUBSET Instance /\ lease \in [Caller -> Instance \cup {NoInstance}]
  /\ inflight \in Int /\ inflightTokens \in Int /\ staleInflight \in Int
  /\ budget \in Budgets /\ fresh \in [Caller -> BOOLEAN]

\* The queue holds whoever waits, once; a wave holds some of them, once.
QueueInv ==
  /\ Distinct(queue) /\ Members(queue) = {c \in Caller : pc[c] = "waiting"}
  /\ Distinct(wave) /\ Members(wave) \subseteq Members(queue)
  /\ ~Waves => wave = <<>>

LeaseInv ==
  /\ \A c \in Caller : pc[c] \in {"calling", "returning"} <=> lease[c] # NoInstance
  /\ \A c, d \in Caller : lease[c] = lease[d] /\ lease[c] # NoInstance => c = d
  /\ available = {i \in Instance : \A c \in Caller : lease[c] # i}
  /\ strategy # "adaptive" => \A c \in Caller : pc[c] # "returning"

\* What is planned finds its instance and its sequence.
RoomInv ==
  /\ Len(wave) <= Cardinality(available)
  /\ Waves => inflight + Len(wave) <= MaxSeqs

LedgerInv ==
  /\ \A c \in Caller : fresh[c] => pc[c] = "calling"
  /\ strategy # "adaptive" => inflightTokens = 0 /\ staleInflight = 0
  /\ BudgetLedger

\* Only the head of the queue is passed.  It is the next of the wave, or what is
\* left of the wave cannot take it past the limit.
PassInv ==
  /\ \A c \in Caller : bypasses[c] # 0 => queue # <<>> /\ queue[1] = c
  /\ HeadBypassedSeldom
  /\ strategy = "visual" /\ queue # <<>> =>
       \/ wave # <<>> /\ wave[1] = queue[1]
       \/ bypasses[queue[1]] + Len(wave) < HeadBypasses + MaxWave

IInv == TypeInv /\ QueueInv /\ LeaseInv /\ RoomInv /\ LedgerInv /\ PassInv

-----------------------------------------------------------------------------
(* Sequences without repetitions.                                          *)

LEMMA SeqMade ==
  \A T : \A n \in Nat : \A f \in [1 .. n -> T] : f \in Seq(T) /\ Len(f) = n
<1> TAKE T
<1> TAKE n \in Nat
<1> TAKE f \in [1 .. n -> T]
<1>1. f \in Seq(T) BY SeqDef
<1>2. Len(f) \in Nat /\ DOMAIN f = 1 .. Len(f) BY <1>1, LenProperties
<1>3. 1 .. Len(f) = 1 .. n BY <1>2
<1>4. QED BY <1>1, <1>2, <1>3

LEMMA Placed ==
  \A s, c : (\E i \in DOMAIN s : s[i] = c) => Place(s, c) \in DOMAIN s /\ s[Place(s, c)] = c
  BY Zenon DEF Place

LEMMA Removed ==
  \A T, c : \A s \in Seq(T) : Distinct(s) =>
    /\ Remove(s, c) \in Seq(T) /\ Distinct(Remove(s, c))
    /\ Members(Remove(s, c)) = Members(s) \ {c}
    /\ Len(Remove(s, c)) <= Len(s)
    /\ c \in Members(s) => Len(Remove(s, c)) = Len(s) - 1
    /\ s # <<>> /\ s[1] # c => Remove(s, c) # <<>> /\ Remove(s, c)[1] = s[1]
<1> TAKE T, c
<1> TAKE s \in Seq(T)
<1> SUFFICES ASSUME Distinct(s)
             PROVE  /\ Remove(s, c) \in Seq(T) /\ Distinct(Remove(s, c))
                    /\ Members(Remove(s, c)) = Members(s) \ {c}
                    /\ Len(Remove(s, c)) <= Len(s)
                    /\ c \in Members(s) => Len(Remove(s, c)) = Len(s) - 1
                    /\ s # <<>> /\ s[1] # c => Remove(s, c) # <<>> /\ Remove(s, c)[1] = s[1]
  OBVIOUS
<1>1. Len(s) \in Nat /\ DOMAIN s = 1 .. Len(s) /\ \A k \in 1 .. Len(s) : s[k] \in T
  BY LenProperties
<1>2. CASE c \notin Members(s)
  <2>1. Remove(s, c) = s BY <1>1, <1>2 DEF Remove, Members
  <2>2. Len(s) <= Len(s) /\ Members(s) = Members(s) \ {c} BY <1>1, <1>2
  <2>3. QED BY <1>2, <2>1, <2>2, Zenon
<1>3. CASE c \in Members(s)
  <2> DEFINE p == Place(s, c)
             n == Len(s) - 1
             r == [k \in 1 .. n |-> IF k < p THEN s[k] ELSE s[k + 1]]
  <2>1. p \in 1 .. Len(s) /\ s[p] = c
    <3>1. \E i \in DOMAIN s : s[i] = c BY <1>1, <1>3 DEF Members
    <3>2. p \in DOMAIN s /\ s[p] = c BY <3>1, Placed
    <3>3. QED BY <1>1, <3>2
  <2>2. Remove(s, c) = r BY <1>1, <2>1 DEF Remove
  <2> HIDE DEF p
  <2>3. n \in Nat /\ r \in [1 .. n -> T] BY <1>1, <2>1
  <2>4. r \in Seq(T) /\ Len(r) = n BY <2>3, SeqMade
  <2>5. \A k \in 1 .. n : /\ k < p => r[k] = s[k] /\ k \in 1 .. Len(s)
                          /\ k >= p => r[k] = s[k + 1] /\ k + 1 \in 1 .. Len(s)
    BY <1>1, <2>1
  <2> HIDE DEF r
  <2>6. Distinct(r)
    <3> SUFFICES ASSUME NEW k \in 1 .. n, NEW m \in 1 .. n, r[k] = r[m] PROVE k = m
      BY <2>4 DEF Distinct
    <3>1. CASE k < p /\ m < p BY <1>1, <2>1, <2>5, <3>1 DEF Distinct
    <3>2. CASE k < p /\ m >= p BY <1>1, <2>1, <2>5, <3>2 DEF Distinct
    <3>3. CASE k >= p /\ m < p BY <1>1, <2>1, <2>5, <3>3 DEF Distinct
    <3>4. CASE k >= p /\ m >= p BY <1>1, <2>1, <2>5, <3>4 DEF Distinct
    <3>5. QED BY <1>1, <2>1, <3>1, <3>2, <3>3, <3>4
  <2>7. Members(r) = Members(s) \ {c}
    <3>1. ASSUME NEW x \in Members(r) PROVE x \in Members(s) \ {c}
      <4>1. PICK k \in 1 .. n : x = r[k] BY <2>4 DEF Members
      <4>2. CASE k < p BY <1>1, <2>1, <2>5, <4>1, <4>2 DEF Distinct, Members
      <4>3. CASE k >= p BY <1>1, <2>1, <2>5, <4>1, <4>3 DEF Distinct, Members
      <4>4. QED BY <1>1, <2>1, <4>2, <4>3
    <3>2. ASSUME NEW x \in Members(s) \ {c} PROVE x \in Members(r)
      <4>1. PICK i \in 1 .. Len(s) : x = s[i] BY DEF Members
      <4>2. i # p BY <2>1, <4>1
      <4>3. CASE i < p
        <5>1. i \in 1 .. n /\ r[i] = s[i] BY <1>1, <2>1, <2>5, <4>3
        <5>2. QED BY <2>4, <4>1, <5>1 DEF Members
      <4>4. CASE i > p
        <5>1. i - 1 \in 1 .. n /\ r[i - 1] = s[(i - 1) + 1] BY <1>1, <2>1, <2>5, <4>4
        <5>2. r[i - 1] = s[i] BY <1>1, <5>1
        <5>3. QED BY <2>4, <4>1, <5>1, <5>2 DEF Members
      <4>5. QED BY <1>1, <2>1, <4>2, <4>3, <4>4
    <3>3. QED BY <3>1, <3>2
  <2>8. s # <<>> /\ s[1] # c => r # <<>> /\ r[1] = s[1]
    <3> SUFFICES ASSUME s[1] # c PROVE r # <<>> /\ r[1] = s[1] OBVIOUS
    <3>1. p > 1 /\ 1 \in 1 .. n BY <1>1, <2>1
    <3>2. QED BY <2>4, <2>5, <3>1, EmptySeq
  <2>9. QED BY <1>1, <2>2, <2>4, <2>6, <2>7, <2>8
<1>4. QED BY <1>2, <1>3

LEMMA Appended ==
  \A T : \A c \in T : \A s \in Seq(T) : Distinct(s) /\ c \notin Members(s) =>
    /\ Append(s, c) \in Seq(T) /\ Distinct(Append(s, c)) /\ Append(s, c) # <<>>
    /\ Members(Append(s, c)) = Members(s) \cup {c}
    /\ s # <<>> => Append(s, c)[1] = s[1]
    /\ s = <<>> => Append(s, c)[1] = c
<1> TAKE T
<1> TAKE c \in T
<1> TAKE s \in Seq(T)
<1> SUFFICES ASSUME Distinct(s), c \notin Members(s)
             PROVE  /\ Append(s, c) \in Seq(T) /\ Distinct(Append(s, c)) /\ Append(s, c) # <<>>
                    /\ Members(Append(s, c)) = Members(s) \cup {c}
                    /\ s # <<>> => Append(s, c)[1] = s[1]
                    /\ s = <<>> => Append(s, c)[1] = c
  OBVIOUS
<1> DEFINE a == Append(s, c)
<1>1. /\ a \in Seq(T) /\ Len(s) \in Nat /\ Len(a) = Len(s) + 1
      /\ \A k \in 1 .. Len(s) : a[k] = s[k] /\ s[k] # c
      /\ a[Len(s) + 1] = c
  BY LenProperties DEF Members
<1> HIDE DEF a
<1>2. Distinct(a)
  <2> SUFFICES ASSUME NEW k \in 1 .. Len(s) + 1, NEW m \in 1 .. Len(s) + 1, a[k] = a[m] PROVE k = m
    BY <1>1 DEF Distinct
  <2>1. CASE k \in 1 .. Len(s) /\ m \in 1 .. Len(s) BY <1>1, <2>1 DEF Distinct
  <2>2. CASE k = Len(s) + 1 /\ m \in 1 .. Len(s) BY <1>1, <2>2
  <2>3. CASE k \in 1 .. Len(s) /\ m = Len(s) + 1 BY <1>1, <2>3
  <2>4. CASE k = Len(s) + 1 /\ m = Len(s) + 1 BY <2>4
  <2>5. QED BY <1>1, <2>1, <2>2, <2>3, <2>4
<1>3. Members(a) = Members(s) \cup {c}
  <2>1. ASSUME NEW x \in Members(a) PROVE x \in Members(s) \cup {c}
    <3>1. PICK k \in 1 .. Len(s) + 1 : x = a[k] BY <1>1 DEF Members
    <3>2. k \in 1 .. Len(s) \/ k = Len(s) + 1 BY <1>1
    <3>3. QED BY <1>1, <3>1, <3>2 DEF Members
  <2>2. ASSUME NEW x \in Members(s) \cup {c} PROVE x \in Members(a)
    <3>1. \A k \in 1 .. Len(s) : k \in 1 .. Len(a) BY <1>1
    <3>2. Len(s) + 1 \in 1 .. Len(a) BY <1>1
    <3>3. CASE x = c BY <1>1, <3>2, <3>3 DEF Members
    <3>4. CASE x \in Members(s) BY <1>1, <3>1, <3>4 DEF Members
    <3>5. QED BY <3>3, <3>4
  <2>3. QED BY <2>1, <2>2
<1>4. a # <<>> BY <1>1, EmptySeq
<1>5. (s # <<>> => a[1] = s[1]) /\ (s = <<>> => a[1] = c)
  <2>1. CASE s = <<>> BY <1>1, <2>1, EmptySeq
  <2>2. CASE s # <<>>
    <3>1. 1 \in 1 .. Len(s) BY <2>2, EmptySeq
    <3>2. QED BY <1>1, <2>2, <3>1
  <2>3. QED BY <2>1, <2>2
<1>6. QED BY <1>1, <1>2, <1>3, <1>4, <1>5 DEF a

LEMMA Tailed ==
  \A T : \A s \in Seq(T) : Distinct(s) /\ s # <<>> =>
    /\ Tail(s) \in Seq(T) /\ Distinct(Tail(s)) /\ Len(Tail(s)) = Len(s) - 1
    /\ Members(Tail(s)) = Members(s) \ {s[1]}
    /\ s[1] \in Members(s) /\ Head(s) = s[1]
<1> TAKE T
<1> TAKE s \in Seq(T)
<1> SUFFICES ASSUME Distinct(s), s # <<>>
             PROVE  /\ Tail(s) \in Seq(T) /\ Distinct(Tail(s)) /\ Len(Tail(s)) = Len(s) - 1
                    /\ Members(Tail(s)) = Members(s) \ {s[1]}
                    /\ s[1] \in Members(s) /\ Head(s) = s[1]
  OBVIOUS
<1> DEFINE t == Tail(s)
<1>1. /\ Len(s) \in Nat \ {0} /\ t \in Seq(T) /\ Len(t) = Len(s) - 1
      /\ \A k \in 1 .. Len(t) : t[k] = s[k + 1] /\ k + 1 \in 1 .. Len(s)
      /\ Head(s) = s[1] /\ 1 \in 1 .. Len(s)
  <2>1. Len(s) \in Nat \ {0} BY EmptySeq
  <2>2. t \in Seq(T) /\ Len(t) = Len(s) - 1 /\ \A k \in 1 .. Len(t) : t[k] = s[k + 1]
    BY HeadTailProperties
  <2>3. QED BY <2>1, <2>2
<1> HIDE DEF t
<1>2. Distinct(t)
  <2> SUFFICES ASSUME NEW k \in 1 .. Len(t), NEW m \in 1 .. Len(t), t[k] = t[m] PROVE k = m
    BY DEF Distinct
  <2>1. k + 1 = m + 1 BY <1>1 DEF Distinct
  <2>2. QED BY <1>1, <2>1
<1>3. Members(t) = Members(s) \ {s[1]}
  <2>1. ASSUME NEW x \in Members(t) PROVE x \in Members(s) \ {s[1]}
    <3>1. PICK k \in 1 .. Len(t) : x = t[k] BY DEF Members
    <3>2. x = s[k + 1] /\ k + 1 \in 1 .. Len(s) /\ k + 1 # 1 BY <1>1, <3>1
    <3>3. QED BY <1>1, <3>2 DEF Members, Distinct
  <2>2. ASSUME NEW x \in Members(s) \ {s[1]} PROVE x \in Members(t)
    <3>1. PICK i \in 1 .. Len(s) : x = s[i] BY DEF Members
    <3>2. i - 1 \in 1 .. Len(t) /\ (i - 1) + 1 = i BY <1>1, <3>1
    <3>3. t[i - 1] = s[i] BY <1>1, <3>2
    <3>4. QED BY <3>1, <3>2, <3>3 DEF Members
  <2>3. QED BY <2>1, <2>2
<1>4. s[1] \in Members(s) BY <1>1 DEF Members
<1>5. QED BY <1>1, <1>2, <1>3, <1>4 DEF t

LEMMA EmptyMembers ==
  /\ \A T : <<>> \in Seq(T)
  /\ Len(<<>>) = 0 /\ Distinct(<<>>) /\ Members(<<>>) = {}
  /\ \A T : \A s \in Seq(T) : /\ s # <<>> => s[1] \in Members(s) /\ Members(s) # {}
                              /\ Members(s) \in SUBSET T
<1>1. Len(<<>>) = 0 /\ \A T : <<>> \in Seq(T) OBVIOUS
<1>2. 1 .. 0 = {} OBVIOUS
<1>3. Distinct(<<>>) /\ Members(<<>>) = {} BY <1>1, <1>2 DEF Distinct, Members
<1>4. ASSUME NEW T, NEW s \in Seq(T)
      PROVE  /\ s # <<>> => s[1] \in Members(s) /\ Members(s) # {}
             /\ Members(s) \in SUBSET T
  <2>1. s # <<>> => 1 \in 1 .. Len(s) BY EmptySeq
  <2>2. \A k \in 1 .. Len(s) : s[k] \in T BY LenProperties
  <2>3. QED BY <2>1, <2>2 DEF Members
<1>5. QED BY <1>1, <1>3, <1>4

-----------------------------------------------------------------------------
(* Estimates and other cardinalities.                                      *)

Singles(S, f) == UNION {{c} \X (1 .. f[c]) : c \in S}

LEMMA Limits ==
  /\ NoInstance \notin Instance /\ HeadBypasses \in Nat /\ MaxSeqs \in Nat \ {0}
  /\ Tokens \subseteq Nat \ {0} /\ Budgets \subseteq Nat \ {0} /\ Budgets # {}
  /\ Cardinality(Instance) \in Nat \ {0} /\ MaxWave \in Nat \ {0}
  /\ MaxWave <= Cardinality(Instance) /\ MaxWave <= MaxSeqs
  /\ \A n \in Int : n <= Cardinality(Instance) /\ n <= MaxSeqs => n <= MaxWave
<1>1. /\ NoInstance \notin Instance /\ HeadBypasses \in Nat /\ MaxSeqs \in Nat \ {0}
      /\ Tokens \subseteq Nat \ {0} /\ Budgets \subseteq Nat \ {0} /\ Budgets # {}
      /\ IsFiniteSet(Instance) /\ Instance # {}
  BY PoolAssumption
<1>2. Cardinality(Instance) \in Nat \ {0} BY <1>1, FS_CardinalityType, FS_EmptySet
<1>3. QED BY <1>1, <1>2 DEF MaxWave

LEMMA Estimates == TypeInv => \A c \in Caller : tokens[c] \in Nat
<1> HAVE TypeInv
<1>1. Tokens \cup {0} \subseteq Nat BY Limits
<1>2. QED BY <1>1 DEF TypeInv

LEMMA Finite ==
  /\ \A S \in SUBSET Caller : IsFiniteSet(S) /\ Cardinality(S) \in Nat
  /\ \A S \in SUBSET Instance : /\ IsFiniteSet(S) /\ Cardinality(S) \in Nat
                                /\ Cardinality(S) <= Cardinality(Instance)
  BY PoolAssumption, FS_Subset, FS_CardinalityType

LEMMA SinglesOne ==
  \A c, f : f[c] \in Nat =>
    IsFiniteSet(Singles({c}, f)) /\ Cardinality(Singles({c}, f)) = f[c]
<1> TAKE c, f
<1> SUFFICES ASSUME f[c] \in Nat
             PROVE  IsFiniteSet(Singles({c}, f)) /\ Cardinality(Singles({c}, f)) = f[c]
  OBVIOUS
<1> DEFINE n == f[c]
           g == [i \in 1 .. n |-> <<c, i>>]
<1>1. n \in Nat OBVIOUS
<1>2. Singles({c}, f) = {c} \X (1 .. n) BY DEF Singles
<1> HIDE DEF n
<1>3. Singles({c}, f) = {<<c, i>> : i \in 1 .. n} BY <1>2
<1>4. g \in Bijection(1 .. n, Singles({c}, f))
  <2>1. g \in [1 .. n -> Singles({c}, f)] BY <1>3
  <2>2. IsInjective(g) BY DEF IsInjective
  <2>3. \A t \in Singles({c}, f) : \E i \in 1 .. n : g[i] = t BY <1>3
  <2>4. QED BY <2>1, <2>2, <2>3 DEF Bijection, Injection, Surjection
<1>5. ExistsBijection(1 .. n, Singles({c}, f)) BY <1>4 DEF ExistsBijection
<1>6. IsFiniteSet(1 .. n) /\ Cardinality(1 .. n) = n
  <2>1. \A k \in Int : IsFiniteSet(1 .. k) /\ Cardinality(1 .. k) = IF 1 > k THEN 0 ELSE k - 1 + 1
    BY FS_Interval
  <2>2. QED BY <1>1, <2>1
<1>7. QED BY <1>5, <1>6, FS_Bijection DEF n

LEMMA SinglesFinite ==
  \A S, f : IsFiniteSet(S) /\ (\A c \in S : f[c] \in Nat) =>
    IsFiniteSet(Singles(S, f)) /\ Cardinality(Singles(S, f)) \in Nat
<1> TAKE S, f
<1> SUFFICES ASSUME IsFiniteSet(S), \A c \in S : f[c] \in Nat
             PROVE  IsFiniteSet(Singles(S, f)) /\ Cardinality(Singles(S, f)) \in Nat
  OBVIOUS
<1> DEFINE K == {{c} \X (1 .. f[c]) : c \in S}
           h == [c \in S |-> {c} \X (1 .. f[c])]
<1>1. h \in Surjection(S, K) BY DEF Surjection
<1>2. IsFiniteSet(K) BY <1>1, FS_Surjection
<1>3. \A T \in K : IsFiniteSet(T)
  <2> SUFFICES ASSUME NEW c \in S PROVE IsFiniteSet({c} \X (1 .. f[c])) OBVIOUS
  <2>1. Singles({c}, f) = {c} \X (1 .. f[c]) BY DEF Singles
  <2>2. QED BY <2>1, SinglesOne
<1> HIDE DEF K
<1>4. IsFiniteSet(UNION K) BY <1>2, <1>3, FS_UNION
<1>5. Singles(S, f) = UNION K BY DEF Singles, K
<1>6. QED BY <1>4, <1>5, FS_CardinalityType

LEMMA SinglesAdd ==
  \A S, c, f : IsFiniteSet(S) /\ (\A d \in S : f[d] \in Nat) /\ c \notin S /\ f[c] \in Nat =>
    Cardinality(Singles(S \cup {c}, f)) = Cardinality(Singles(S, f)) + f[c]
<1> TAKE S, c, f
<1> SUFFICES ASSUME IsFiniteSet(S), \A d \in S : f[d] \in Nat, c \notin S, f[c] \in Nat
             PROVE  Cardinality(Singles(S \cup {c}, f)) = Cardinality(Singles(S, f)) + f[c]
  OBVIOUS
<1>1. Singles(S \cup {c}, f) = Singles(S, f) \cup Singles({c}, f) BY DEF Singles
<1>2. Singles(S, f) \cap Singles({c}, f) = {} BY DEF Singles
<1>3. Cardinality(Singles(S, f) \cap Singles({c}, f)) = 0 BY <1>2, FS_EmptySet
<1>4. /\ IsFiniteSet(Singles(S, f)) /\ Cardinality(Singles(S, f)) \in Nat
      /\ IsFiniteSet(Singles({c}, f)) /\ Cardinality(Singles({c}, f)) = f[c]
  BY SinglesFinite, SinglesOne
<1>5. Cardinality(Singles(S, f) \cup Singles({c}, f))
        = Cardinality(Singles(S, f)) + Cardinality(Singles({c}, f))
          - Cardinality(Singles(S, f) \cap Singles({c}, f))
  BY <1>4, FS_Union
<1>6. Cardinality(Singles(S \cup {c}, f)) = Cardinality(Singles(S, f)) + f[c] - 0
  BY <1>1, <1>3, <1>4, <1>5, Zenon
<1>7. QED BY <1>4, <1>6

LEMMA SinglesLess ==
  \A S, c, f : IsFiniteSet(S) /\ (\A d \in S : f[d] \in Nat) /\ c \in S =>
    /\ Cardinality(Singles(S \ {c}, f)) = Cardinality(Singles(S, f)) - f[c]
    /\ f[c] <= Cardinality(Singles(S, f))
<1> TAKE S, c, f
<1> SUFFICES ASSUME IsFiniteSet(S), \A d \in S : f[d] \in Nat, c \in S
             PROVE  /\ Cardinality(Singles(S \ {c}, f)) = Cardinality(Singles(S, f)) - f[c]
                    /\ f[c] <= Cardinality(Singles(S, f))
  OBVIOUS
<1> DEFINE rest == S \ {c}
<1>1. IsFiniteSet(rest) /\ c \notin rest /\ rest \cup {c} = S /\ f[c] \in Nat BY FS_Subset
<1>2. \A d \in rest : f[d] \in Nat OBVIOUS
<1> HIDE DEF rest
<1>3. Cardinality(Singles(rest, f)) \in Nat BY <1>1, <1>2, SinglesFinite
<1>4. Cardinality(Singles(rest \cup {c}, f)) = Cardinality(Singles(rest, f)) + f[c]
  BY <1>1, <1>2, SinglesAdd
<1>5. Cardinality(Singles(S, f)) = Cardinality(Singles(rest, f)) + f[c] BY <1>1, <1>4
<1>6. QED BY <1>1, <1>3, <1>5 DEF rest

LEMMA SinglesSame ==
  \A S, f, g : (\A c \in S : f[c] = g[c]) => Singles(S, f) = Singles(S, g)
<1> TAKE S, f, g
<1> HAVE \A c \in S : f[c] = g[c]
<1>1. \A c \in S : {c} \X (1 .. f[c]) = {c} \X (1 .. g[c]) OBVIOUS
<1>2. QED BY <1>1 DEF Singles

LEMMA Loads ==
  Load(InFlight) = Cardinality(Singles(InFlight, tokens))
    /\ Load(InFlight)' = Cardinality(Singles(InFlight', tokens'))
  BY DEF Load, Singles

-----------------------------------------------------------------------------
(* What each step does to the queue and the wave.                          *)

LEMMA Lists ==
  ASSUME TypeInv, QueueInv
  PROVE  /\ Waiting = Members(queue) /\ Members(wave) \in SUBSET Caller
         /\ \A k \in DOMAIN wave : wave[k] \in Members(wave)
         /\ Len(wave) \in Nat /\ Len(queue) \in Nat
         /\ queue # <<>> => Head(queue) = queue[1]
         /\ wave # <<>> => Head(wave) = wave[1] /\ wave[1] \in Members(wave)
         /\ queue = <<>> => wave = <<>>
<1>1. /\ DOMAIN queue = 1 .. Len(queue) /\ DOMAIN wave = 1 .. Len(wave)
      /\ Len(queue) \in Nat /\ Len(wave) \in Nat
  BY LenProperties DEF TypeInv
<1>2. Waiting = Members(queue) BY <1>1 DEF Waiting, Members
<1>3. \A k \in DOMAIN wave : wave[k] \in Members(wave) BY <1>1 DEF Members
<1>4. Members(wave) \in SUBSET Caller BY EmptyMembers DEF TypeInv
<1>5. queue # <<>> => Head(queue) = queue[1] BY DEF TypeInv
<1>6. wave # <<>> => Head(wave) = wave[1] /\ wave[1] \in Members(wave)
  BY EmptyMembers DEF TypeInv
<1>7. queue = <<>> => wave = <<>> BY EmptyMembers DEF TypeInv, QueueInv
<1>8. QED BY <1>1, <1>2, <1>3, <1>4, <1>5, <1>6, <1>7

LEMMA Planned ==
  ASSUME TypeInv, QueueInv, PlanWave
  PROVE  /\ wave' \in Seq(Caller) /\ Distinct(wave') /\ Members(wave') \subseteq Members(queue)
         /\ Len(wave') \in Nat /\ wave' # <<>>
         /\ Len(wave') <= Cardinality(available) /\ Len(wave') <= MaxSeqs - inflight
         /\ HeadIsDue => wave'[1] = queue[1]
<1>1. PICK n \in Capacity : \E s \in [1 .. n -> Waiting] : IsWave(s) /\ wave' = s
  BY DEF PlanWave
<1>2. /\ n \in Nat /\ n >= 1 /\ n <= Cardinality(available) /\ n <= MaxSeqs - inflight
  BY Lists DEF Capacity
<1>3. wave' \in [1 .. n -> Waiting] /\ IsWave(wave') BY <1>1
<1>4. wave' \in Seq(Members(queue)) /\ Len(wave') = n BY <1>2, <1>3, SeqMade, Lists
<1>5. Members(queue) \in SUBSET Caller BY EmptyMembers DEF TypeInv
<1>6. wave' \in Seq(Caller) BY <1>4, <1>5, SeqMonotonic
<1>7. DOMAIN wave' = 1 .. n BY <1>3
<1>8. Distinct(wave')
  <2>1. \A k, m \in 1 .. n : k < m => wave'[k] # wave'[m]
    <3> SUFFICES ASSUME NEW k \in 1 .. n, NEW m \in 1 .. n, k < m PROVE wave'[k] # wave'[m]
      OBVIOUS
    <3>1. wave'[m] \notin Upto(wave', m - 1) BY <1>3, <1>7 DEF IsWave
    <3>2. k \in 1 .. m - 1 BY <1>2
    <3>3. QED BY <3>1, <3>2 DEF Upto
  <2>2. QED BY <1>2, <1>4, <2>1 DEF Distinct
<1>9. Members(wave') \subseteq Members(queue) BY <1>4, EmptyMembers
<1>10. wave' # <<>> BY <1>2, <1>4, EmptyMembers
<1>11. HeadIsDue => wave'[1] = queue[1]
  <2>1. HeadIsDue => wave'[1] = Head(queue) BY <1>3 DEF IsWave
  <2>2. QED BY <2>1, Lists DEF PlanWave
<1>12. QED BY <1>2, <1>4, <1>6, <1>8, <1>9, <1>10, <1>11

\* Whoever takes an instance waits for it, and in waves it is the next one.
LEMMA Taker ==
  ASSUME TypeInv, QueueInv, NEW c \in Caller, Acquire(c)
  PROVE  /\ queue # <<>> /\ available # {} /\ queue[1] \in Caller /\ c \in Members(queue)
         /\ Waves => wave # <<>> /\ c = wave[1]
         /\ strategy = "adaptive" =>
              /\ inflight = 0 \/ inflightTokens + tokens[c] <= budget
              /\ c # queue[1] => bypasses[queue[1]] < HeadBypasses
<1>1. Admissible(c) /\ pc[c] = "waiting" BY DEF Acquire
<1>2. queue # <<>> /\ available # {} BY <1>1 DEF Admissible
<1>3. Head(queue) = queue[1] /\ queue[1] \in Caller BY <1>2, Lists, EmptyMembers DEF TypeInv
<1>4. c \in Members(queue) BY <1>1 DEF QueueInv
<1>5. ASSUME Waves PROVE wave # <<>> /\ c = wave[1]
  <2>1. wave # <<>> /\ c = Head(wave) BY <1>1, <1>5 DEF Admissible, Waves
  <2>2. QED BY <2>1, Lists
<1>6. ASSUME strategy = "adaptive"
      PROVE  /\ inflight = 0 \/ inflightTokens + tokens[c] <= budget
             /\ c # queue[1] => bypasses[queue[1]] < HeadBypasses
  <2>1. IF Fits(tokens[Head(queue)]) THEN c = Head(queue) ELSE Bypass(c)
    BY <1>1, <1>6 DEF Admissible, Waves
  <2>2. CASE Fits(tokens[Head(queue)]) BY <1>3, <2>1, <2>2 DEF Fits
  <2>3. CASE ~Fits(tokens[Head(queue)]) BY <1>3, <2>1, <2>3 DEF Bypass, Fits
  <2>4. QED BY <2>2, <2>3
<1>7. QED BY <1>2, <1>3, <1>4, <1>5, <1>6

LEMMA TypeStep ==
  ASSUME TypeInv, QueueInv, LeaseInv, Next
  PROVE  TypeInv'
<1>1. CASE PlanWave BY <1>1, Planned DEF PlanWave, controlVars, TypeInv
<1> SUFFICES ASSUME NEW c \in Caller,
                    Enter(c) \/ Age(c) \/ Leave(c) \/ Acquire(c) \/ Complete(c) \/ Return(c)
             PROVE  TypeInv'
  BY <1>1 DEF Next
<1>2. CASE Enter(c)
  <2>1. queue' \in Seq(Caller) BY <1>2 DEF Enter, TypeInv
  <2>2. QED BY <1>2, <2>1 DEF Enter, TypeInv, controlVars
<1>3. CASE Age(c) BY <1>3 DEF Age, TypeInv, controlVars
<1>4. CASE Leave(c)
  <2>1. queue' \in Seq(Caller) /\ wave' \in Seq(Caller) BY <1>4, Removed DEF Leave, TypeInv, QueueInv
  <2>2. QED BY <1>4, <2>1 DEF Leave, TypeInv, controlVars
<1>5. CASE Acquire(c)
  <2>1. queue' \in Seq(Caller) BY <1>5, Removed DEF Acquire, TypeInv, QueueInv
  <2>2. wave' \in Seq(Caller)
    <3>1. CASE Waves
      <4>1. wave # <<>> BY <1>5, <3>1, Taker
      <4>2. Tail(wave) \in Seq(Caller) BY <4>1, Tailed DEF TypeInv, QueueInv
      <4>3. QED BY <1>5, <3>1, <4>2 DEF Acquire
    <3>2. CASE ~Waves BY <1>5, <3>2 DEF Acquire, TypeInv
    <3>3. QED BY <3>1, <3>2
  <2>3. bypasses' \in [Caller -> Nat]
    <3>1. queue # <<>> /\ queue[1] \in Caller /\ Head(queue) = queue[1] BY <1>5, Taker, Lists
    <3>2. Passed(c) \in [Caller -> Nat] BY <3>1 DEF Passed, TypeInv
    <3>3. QED BY <1>5, <3>2 DEF Acquire
  <2>4. tokens[c] \in Int BY Estimates
  <2>5. inflight' \in Int /\ inflightTokens' \in Int BY <1>5, <2>4 DEF Acquire, TypeInv
  <2>6. available' \in SUBSET Instance /\ lease' \in [Caller -> Instance \cup {NoInstance}]
    BY <1>5 DEF Acquire, TypeInv
  <2>7. QED BY <1>5, <2>1, <2>2, <2>3, <2>5, <2>6 DEF Acquire, TypeInv
<1>6. CASE Complete(c)
  <2>1. tokens[c] \in Int BY Estimates
  <2>2. inflight' \in Int /\ inflightTokens' \in Int BY <1>6, <2>1 DEF Complete, TypeInv
  <2>3. budget' \in Budgets /\ fresh' \in [Caller -> BOOLEAN] /\ staleInflight' \in Int
    <3>1. CASE /\ fresh' = [fresh EXCEPT ![c] = FALSE]
               /\ staleInflight' = IF ~fresh[c] /\ staleInflight > 0 THEN staleInflight - 1
                                   ELSE staleInflight
               /\ UNCHANGED budget
      BY <3>1 DEF TypeInv
    <3>2. CASE \E b \in Budgets \ {budget} : SetBudget(b)
      BY <2>2, <3>2 DEF SetBudget
    <3>3. QED BY <1>6, <3>1, <3>2 DEF Complete
  <2>4. QED BY <1>6, <2>2, <2>3 DEF Complete, TypeInv
<1>7. CASE Return(c)
  <2>1. inflight' \in Int BY <1>7 DEF Return, TypeInv
  <2>2. available' \in SUBSET Instance
    <3>1. lease[c] # NoInstance => lease[c] \in Instance BY DEF TypeInv
    <3>2. lease[c] # NoInstance BY <1>7 DEF Return, LeaseInv
    <3>3. QED BY <1>7, <3>1, <3>2 DEF Return, TypeInv
  <2>3. /\ lease' \in [Caller -> Instance \cup {NoInstance}]
        /\ pc' \in [Caller -> {"out", "waiting", "calling", "returning"}]
        /\ tokens' \in [Caller -> Tokens \cup {0}] /\ fresh' \in [Caller -> BOOLEAN]
    BY <1>7 DEF Return, TypeInv
  <2>4. QED BY <1>7, <2>1, <2>2, <2>3 DEF Return, TypeInv
<1>8. QED BY <1>2, <1>3, <1>4, <1>5, <1>6, <1>7

LEMMA QueueStep ==
  ASSUME TypeInv, QueueInv, Next
  PROVE  QueueInv'
<1>1. CASE PlanWave
  <2>1. UNCHANGED <<pc, queue, strategy>> /\ Waves BY <1>1 DEF PlanWave, controlVars
  <2>2. QED BY <1>1, <2>1, Planned DEF QueueInv, Waves
<1> SUFFICES ASSUME NEW c \in Caller,
                    Enter(c) \/ Age(c) \/ Leave(c) \/ Acquire(c) \/ Complete(c) \/ Return(c)
             PROVE  QueueInv'
  BY <1>1 DEF Next
<1>2. CASE Enter(c)
  <2>1. /\ pc[c] = "out" /\ pc' = [pc EXCEPT ![c] = "waiting"] /\ queue' = Append(queue, c)
        /\ wave' = wave /\ strategy' = strategy
    BY <1>2 DEF Enter, controlVars
  <2>2. c \notin Members(queue) BY <2>1 DEF QueueInv
  <2>3. Distinct(queue') /\ Members(queue') = Members(queue) \cup {c}
    BY <2>1, <2>2, Appended DEF TypeInv, QueueInv
  <2>4. QED BY <2>1, <2>3 DEF QueueInv, TypeInv, Waves
<1>3. CASE Age(c) BY <1>3 DEF Age, QueueInv, Waves, controlVars
<1>4. CASE Leave(c)
  <2>1. /\ pc' = [pc EXCEPT ![c] = "out"] /\ strategy' = strategy
        /\ queue' = Remove(queue, c) /\ wave' = Remove(wave, c)
    BY <1>4 DEF Leave, controlVars
  <2>2. /\ Distinct(queue') /\ Members(queue') = Members(queue) \ {c}
        /\ Distinct(wave') /\ Members(wave') = Members(wave) \ {c}
    BY <2>1, Removed DEF TypeInv, QueueInv
  <2>3. ~Waves => wave' = <<>>
    <3>1. ASSUME wave = <<>> PROVE wave' = <<>>
      <4>1. wave' \in Seq(Caller) /\ Members(wave') = {}
        BY <2>1, <2>2, <3>1, Removed, EmptyMembers DEF TypeInv, QueueInv
      <4>2. QED BY <4>1, EmptyMembers
    <3>2. QED BY <3>1 DEF QueueInv
  <2>4. QED BY <2>1, <2>2, <2>3 DEF QueueInv, TypeInv, Waves
<1>5. CASE Acquire(c)
  <2>1. /\ pc' = [pc EXCEPT ![c] = "calling"] /\ strategy' = strategy
        /\ queue' = Remove(queue, c) /\ wave' = IF Waves THEN Tail(wave) ELSE wave
    BY <1>5 DEF Acquire
  <2>2. Distinct(queue') /\ Members(queue') = Members(queue) \ {c}
    BY <2>1, Removed DEF TypeInv, QueueInv
  <2>3. Distinct(wave') /\ Members(wave') \subseteq Members(queue')
    <3>1. CASE Waves
      <4>1. wave # <<>> /\ c = wave[1] BY <1>5, <3>1, Taker
      <4>2. Distinct(Tail(wave)) /\ Members(Tail(wave)) = Members(wave) \ {c}
        BY <4>1, Tailed DEF TypeInv, QueueInv
      <4>3. QED BY <2>1, <2>2, <3>1, <4>2 DEF QueueInv
    <3>2. CASE ~Waves BY <2>1, <3>2, EmptyMembers DEF QueueInv
    <3>3. QED BY <3>1, <3>2
  <2>4. QED BY <2>1, <2>2, <2>3 DEF QueueInv, TypeInv, Waves
<1>6. CASE Complete(c) BY <1>6 DEF Complete, QueueInv, TypeInv, Waves
<1>7. CASE Return(c) BY <1>7 DEF Return, QueueInv, TypeInv, Waves
<1>8. QED BY <1>2, <1>3, <1>4, <1>5, <1>6, <1>7

LEMMA LeaseStep ==
  ASSUME TypeInv, LeaseInv, Next
  PROVE  LeaseInv'
<1>1. CASE PlanWave BY <1>1 DEF PlanWave, LeaseInv, controlVars
<1> SUFFICES ASSUME NEW c \in Caller,
                    Enter(c) \/ Age(c) \/ Leave(c) \/ Acquire(c) \/ Complete(c) \/ Return(c)
             PROVE  LeaseInv'
  BY <1>1 DEF Next
<1>2. CASE Enter(c) BY <1>2 DEF Enter, LeaseInv, TypeInv, controlVars
<1>3. CASE Age(c) BY <1>3 DEF Age, LeaseInv, controlVars
<1>4. CASE Leave(c) BY <1>4 DEF Leave, LeaseInv, TypeInv, controlVars
<1>5. CASE Acquire(c)
  <2>1. PICK i \in available : available' = available \ {i} /\ lease' = [lease EXCEPT ![c] = i]
    BY <1>5 DEF Acquire
  <2>2. /\ pc' = [pc EXCEPT ![c] = "calling"] /\ pc[c] = "waiting" /\ strategy' = strategy
        /\ i \in Instance /\ i # NoInstance /\ lease[c] = NoInstance
        /\ \A d \in Caller : lease[d] # i
    BY <1>5, <2>1, Limits DEF Acquire, LeaseInv, TypeInv
  <2>3. /\ pc'[c] = "calling" /\ lease'[c] = i
        /\ \A d \in Caller \ {c} : pc'[d] = pc[d] /\ lease'[d] = lease[d]
    BY <2>1, <2>2 DEF TypeInv
  <2>4. \A d \in Caller : pc'[d] \in {"calling", "returning"} <=> lease'[d] # NoInstance
    BY <2>2, <2>3 DEF LeaseInv
  <2>5. \A d, e \in Caller : lease'[d] = lease'[e] /\ lease'[d] # NoInstance => d = e
    BY <2>2, <2>3 DEF LeaseInv
  <2>6. available' = {k \in Instance : \A d \in Caller : lease'[d] # k}
    <3>1. \A k \in Instance : k \in available <=> \A d \in Caller : lease[d] # k BY DEF LeaseInv
    <3>2. \A k \in Instance : k \in available \ {i} <=> \A d \in Caller : lease'[d] # k
      <4> SUFFICES ASSUME NEW k \in Instance
                   PROVE  k \in available \ {i} <=> \A d \in Caller : lease'[d] # k
        OBVIOUS
      <4>1. CASE k = i BY <2>3, <4>1
      <4>2. CASE k # i
        <5>1. lease[c] # k BY <2>2, Limits
        <5>2. \A d \in Caller : lease[d] # k <=> lease'[d] # k BY <2>3, <4>2, <5>1
        <5>3. QED BY <3>1, <4>2, <5>2
      <4>3. QED BY <4>1, <4>2
    <3>3. available \ {i} \subseteq Instance BY DEF TypeInv
    <3>4. available \ {i} = {k \in Instance : \A d \in Caller : lease'[d] # k} BY <3>2, <3>3
    <3>5. QED BY <2>1, <3>4
  <2>7. strategy # "adaptive" => \A d \in Caller : pc'[d] # "returning" BY <2>3 DEF LeaseInv
  <2>8. QED BY <2>2, <2>4, <2>5, <2>6, <2>7 DEF LeaseInv
<1>6. CASE Complete(c) BY <1>6 DEF Complete, LeaseInv, TypeInv
<1>7. CASE Return(c)
  <2>1. /\ pc' = [pc EXCEPT ![c] = "out"] /\ strategy' = strategy
        /\ available' = available \cup {lease[c]} /\ lease' = [lease EXCEPT ![c] = NoInstance]
        /\ pc[c] \in {"calling", "returning"}
    BY <1>7 DEF Return
  <2>2. lease[c] \in Instance /\ \A d \in Caller \ {c} : lease[d] # lease[c]
    BY <2>1 DEF LeaseInv, TypeInv
  <2>3. /\ pc'[c] = "out" /\ lease'[c] = NoInstance
        /\ \A d \in Caller \ {c} : pc'[d] = pc[d] /\ lease'[d] = lease[d]
    BY <2>1 DEF TypeInv
  <2>4. \A d \in Caller : pc'[d] \in {"calling", "returning"} <=> lease'[d] # NoInstance
    BY <2>3 DEF LeaseInv
  <2>5. \A d, e \in Caller : lease'[d] = lease'[e] /\ lease'[d] # NoInstance => d = e
    BY <2>3 DEF LeaseInv
  <2>6. available' = {k \in Instance : \A d \in Caller : lease'[d] # k}
    BY <2>1, <2>2, <2>3, Limits DEF LeaseInv
  <2>7. strategy # "adaptive" => \A d \in Caller : pc'[d] # "returning" BY <2>3 DEF LeaseInv
  <2>8. QED BY <2>1, <2>4, <2>5, <2>6, <2>7 DEF LeaseInv
<1>8. QED BY <1>2, <1>3, <1>4, <1>5, <1>6, <1>7

LEMMA RoomStep ==
  ASSUME TypeInv, QueueInv, LeaseInv, RoomInv, Next
  PROVE  RoomInv'
<1> Len(wave) \in Nat /\ inflight \in Int /\ MaxSeqs \in Nat /\ Cardinality(available) \in Nat
  BY Lists, Limits, Finite DEF TypeInv
<1>1. CASE PlanWave
  <2>1. UNCHANGED <<available, inflight, strategy>> BY <1>1 DEF PlanWave, controlVars
  <2>2. Len(wave') \in Nat /\ Len(wave') <= Cardinality(available) /\ Len(wave') <= MaxSeqs - inflight
    BY <1>1, Planned
  <2>3. QED BY <2>1, <2>2 DEF RoomInv, Waves
<1> SUFFICES ASSUME NEW c \in Caller,
                    Enter(c) \/ Age(c) \/ Leave(c) \/ Acquire(c) \/ Complete(c) \/ Return(c)
             PROVE  RoomInv'
  BY <1>1 DEF Next
<1>2. CASE Enter(c) \/ Age(c) BY <1>2 DEF Enter, Age, RoomInv, Waves, controlVars
<1>3. CASE Leave(c)
  <2>1. UNCHANGED <<available, inflight, strategy>> /\ wave' = Remove(wave, c)
    BY <1>3 DEF Leave, controlVars
  <2>2. wave' \in Seq(Caller) /\ Len(wave') <= Len(wave) BY <2>1, Removed DEF TypeInv, QueueInv
  <2>3. Len(wave') \in Nat BY <2>2, LenProperties
  <2>4. QED BY <2>1, <2>2, <2>3 DEF RoomInv, Waves
<1>4. CASE Acquire(c)
  <2>1. PICK i \in available : available' = available \ {i} BY <1>4 DEF Acquire
  <2>2. inflight' = inflight + 1 /\ strategy' = strategy /\ wave' = IF Waves THEN Tail(wave) ELSE wave
    BY <1>4 DEF Acquire
  <2>3. Cardinality(available') = Cardinality(available) - 1
    BY <2>1, Finite, FS_RemoveElement DEF TypeInv
  <2>4. Cardinality(available') \in Nat BY <2>1, Finite DEF TypeInv
  <2>5. CASE Waves
    <3>1. wave # <<>> BY <1>4, <2>5, Taker
    <3>2. Len(wave') = Len(wave) - 1 BY <2>2, <2>5, <3>1, Tailed DEF TypeInv, QueueInv
    <3>3. Len(wave) <= Cardinality(available) /\ inflight + Len(wave) <= MaxSeqs
      BY <2>5 DEF RoomInv
    <3>4. Len(wave') <= Cardinality(available') /\ inflight' + Len(wave') <= MaxSeqs
      <4>1. inflight' = inflight + 1 BY <2>2
      <4>2. QED BY <2>3, <3>2, <3>3, <4>1
    <3>5. QED BY <3>4 DEF RoomInv
  <2>6. CASE ~Waves
    <3>1. Len(wave') = 0 BY <2>2, <2>6, EmptyMembers DEF QueueInv
    <3>2. QED BY <2>2, <2>4, <2>6, <3>1 DEF RoomInv, Waves
  <2>7. QED BY <2>5, <2>6
<1>5. CASE Complete(c) BY <1>5 DEF Complete, RoomInv, Waves
<1>6. CASE Return(c)
  <2>1. /\ wave' = wave /\ strategy' = strategy /\ available' = available \cup {lease[c]}
        /\ inflight' = IF strategy = "adaptive" THEN inflight ELSE inflight - 1
    BY <1>6 DEF Return
  <2>2. inflight' \in Int /\ inflight' <= inflight BY <2>1
  <2>3. available' \in SUBSET Instance BY <1>6, TypeStep DEF TypeInv, Next
  <2>4. Cardinality(available') \in Nat /\ Cardinality(available) <= Cardinality(available')
    <3>1. available \in SUBSET available' /\ IsFiniteSet(available') BY <2>1, <2>3, Finite
    <3>2. Cardinality(available) <= Cardinality(available') BY <3>1, FS_Subset
    <3>3. QED BY <2>3, <3>2, Finite
  <2>5. QED BY <2>1, <2>2, <2>4 DEF RoomInv, Waves
<1>7. QED BY <1>2, <1>3, <1>4, <1>5, <1>6

\* The accounts do not change while the calls in flight do not.
LEMMA LedgerKept ==
  ASSUME LedgerInv, TypeInv, InFlight' = InFlight, strategy' = strategy,
         UNCHANGED <<inflight, inflightTokens, staleInflight>>,
         \A c \in InFlight : tokens'[c] = tokens[c] /\ fresh'[c] = fresh[c],
         \A c \in Caller : fresh'[c] => c \in InFlight
  PROVE  LedgerInv'
<1>1. Load(InFlight)' = Load(InFlight)
  <2>1. Singles(InFlight, tokens') = Singles(InFlight, tokens) BY SinglesSame
  <2>2. QED BY <2>1, Loads
<1>2. {c \in InFlight' : ~fresh'[c]} = {c \in InFlight : ~fresh[c]} OBVIOUS
<1>3. \A c \in Caller : fresh'[c] => pc'[c] = "calling"
  <2>1. \A c \in InFlight' : pc'[c] = "calling" BY DEF InFlight
  <2>2. QED BY <2>1
<1>4. BudgetLedger' BY <1>1, <1>2 DEF LedgerInv, BudgetLedger
<1>5. QED BY <1>3, <1>4 DEF LedgerInv

LEMMA LedgerStep ==
  ASSUME TypeInv, QueueInv, LeaseInv, LedgerInv, Next
  PROVE  LedgerInv'
<1>0. /\ InFlight \in SUBSET Caller /\ IsFiniteSet(InFlight) /\ Cardinality(InFlight) \in Nat
      /\ \A d \in InFlight : tokens[d] \in Nat
  BY Finite, Estimates DEF InFlight
<1>1. CASE PlanWave
  <2>1. UNCHANGED <<pc, strategy, inflight, inflightTokens, staleInflight, tokens, fresh>>
    BY <1>1 DEF PlanWave, controlVars
  <2>2. QED BY <2>1, LedgerKept DEF InFlight, LedgerInv
<1> SUFFICES ASSUME NEW c \in Caller,
                    Enter(c) \/ Age(c) \/ Leave(c) \/ Acquire(c) \/ Complete(c) \/ Return(c)
             PROVE  LedgerInv'
  BY <1>1 DEF Next
<1>2. CASE Enter(c) \/ Age(c) \/ Leave(c)
  <2>1. /\ UNCHANGED <<strategy, inflight, inflightTokens, staleInflight, fresh>>
        /\ pc[c] # "calling" /\ pc'[c] # "calling"
        /\ \A d \in Caller \ {c} : pc'[d] = pc[d] /\ tokens'[d] = tokens[d]
    BY <1>2 DEF Enter, Age, Leave, controlVars, TypeInv
  <2>2. InFlight' = InFlight /\ c \notin InFlight BY <2>1 DEF InFlight
  <2>3. \A d \in InFlight : tokens'[d] = tokens[d] BY <1>0, <2>1, <2>2
  <2>4. \A d \in Caller : fresh'[d] => d \in InFlight BY <2>1 DEF LedgerInv, InFlight
  <2>5. QED BY <2>1, <2>2, <2>3, <2>4, LedgerKept
<1>3. CASE Acquire(c)
  <2>1. /\ pc' = [pc EXCEPT ![c] = "calling"] /\ pc[c] = "waiting"
        /\ UNCHANGED <<strategy, tokens, budget, staleInflight>>
        /\ inflight' = inflight + 1
        /\ inflightTokens' = IF strategy = "adaptive" THEN inflightTokens + tokens[c] ELSE 0
        /\ fresh' = [fresh EXCEPT ![c] = TRUE]
    BY <1>3 DEF Acquire
  <2>2. InFlight' = InFlight \cup {c} /\ c \notin InFlight BY <2>1 DEF InFlight, TypeInv
  <2>3. inflight' = Cardinality(InFlight')
    BY <1>0, <2>1, <2>2, FS_AddElement DEF LedgerInv, BudgetLedger
  <2>4. \A d \in Caller : fresh'[d] => pc'[d] = "calling" BY <2>1 DEF LedgerInv, TypeInv
  <2>5. ASSUME strategy = "adaptive"
        PROVE  /\ inflightTokens' = Load(InFlight)'
               /\ staleInflight' = Cardinality({d \in InFlight' : ~fresh'[d]})
               /\ inflight' > 1 => \E b \in Budgets : inflightTokens' <= b
    <3>1. Cardinality(Singles(InFlight \cup {c}, tokens)) = Cardinality(Singles(InFlight, tokens)) + tokens[c]
      BY <1>0, <2>2, SinglesAdd, Estimates
    <3>2. inflightTokens' = Load(InFlight)'
      BY <2>1, <2>2, <2>5, <3>1, Loads DEF LedgerInv, BudgetLedger
    <3>3. {d \in InFlight' : ~fresh'[d]} = {d \in InFlight : ~fresh[d]}
      BY <1>0, <2>1, <2>2 DEF TypeInv
    <3>4. inflight' > 1 => inflightTokens' <= budget
      BY <1>3, <2>1, <2>5, Taker DEF TypeInv
    <3>5. QED BY <2>1, <2>5, <3>2, <3>3, <3>4 DEF LedgerInv, BudgetLedger, TypeInv
  <2>6. QED BY <2>1, <2>3, <2>4, <2>5 DEF LedgerInv, BudgetLedger
<1>4. CASE Complete(c)
  <2>1. /\ pc' = [pc EXCEPT ![c] = "returning"] /\ pc[c] = "calling" /\ strategy = "adaptive"
        /\ UNCHANGED <<strategy, tokens>>
        /\ inflight' = inflight - 1 /\ inflightTokens' = inflightTokens - tokens[c]
    BY <1>4 DEF Complete
  <2>2. InFlight' = InFlight \ {c} /\ c \in InFlight BY <2>1 DEF InFlight, TypeInv
  <2>3. inflight' = Cardinality(InFlight')
    BY <1>0, <2>1, <2>2, FS_RemoveElement DEF LedgerInv, BudgetLedger
  <2>4. inflightTokens' = Load(InFlight)' /\ inflightTokens' <= inflightTokens
    <3>1. Cardinality(Singles(InFlight \ {c}, tokens)) = Cardinality(Singles(InFlight, tokens)) - tokens[c]
      BY <1>0, <2>2, SinglesLess
    <3>2. inflightTokens' = Load(InFlight)'
      BY <2>1, <2>2, <3>1, Loads DEF LedgerInv, BudgetLedger
    <3>3. tokens[c] \in Nat BY Estimates
    <3>4. QED BY <2>1, <3>2, <3>3 DEF TypeInv
  <2>5. inflight' > 1 => \E b \in Budgets : inflightTokens' <= b
    <3>1. SUFFICES ASSUME inflight' > 1 PROVE \E b \in Budgets : inflightTokens' <= b OBVIOUS
    <3>2. PICK b \in Budgets : inflightTokens <= b
      BY <2>1, <3>1 DEF LedgerInv, BudgetLedger, TypeInv
    <3>3. b \in Int /\ inflightTokens' \in Int BY <2>1, Limits, Estimates DEF TypeInv
    <3>4. QED BY <2>4, <3>2, <3>3 DEF TypeInv
  <2>6. /\ staleInflight' = Cardinality({d \in InFlight' : ~fresh'[d]})
        /\ \A d \in Caller : fresh'[d] => pc'[d] = "calling"
    <3>1. CASE /\ fresh' = [fresh EXCEPT ![c] = FALSE]
               /\ staleInflight' = IF ~fresh[c] /\ staleInflight > 0 THEN staleInflight - 1
                                   ELSE staleInflight
      <4> DEFINE old == {d \in InFlight : ~fresh[d]}
      <4>1. old \in SUBSET Caller /\ staleInflight = Cardinality(old)
        BY <1>0, <2>1 DEF LedgerInv, BudgetLedger
      <4>2. {d \in InFlight' : ~fresh'[d]} = old \ {c}
        BY <1>0, <2>2, <3>1 DEF TypeInv
      <4>3. IsFiniteSet(old) /\ Cardinality(old) \in Nat BY <4>1, Finite
      <4>4. c \in old <=> ~fresh[c] BY <2>2
      <4> HIDE DEF old
      <4>5. Cardinality(old \ {c}) = IF c \in old THEN Cardinality(old) - 1 ELSE Cardinality(old)
        BY <4>3, FS_RemoveElement
      <4>6. c \in old => Cardinality(old) # 0 BY <4>3, FS_EmptySet
      <4>7. staleInflight' = Cardinality(old \ {c}) BY <3>1, <4>1, <4>3, <4>4, <4>5, <4>6
      <4>8. \A d \in Caller : fresh'[d] => pc'[d] = "calling"
        BY <2>1, <3>1 DEF LedgerInv, TypeInv
      <4>9. QED BY <4>2, <4>7, <4>8
    <3>2. CASE \E b \in Budgets : SetBudget(b)
      <4>1. staleInflight' = inflight' /\ fresh' = [d \in Caller |-> FALSE]
        BY <3>2 DEF SetBudget
      <4>2. {d \in InFlight' : ~fresh'[d]} = InFlight' BY <1>0, <2>2, <4>1
      <4>3. QED BY <2>3, <4>1, <4>2
    <3>3. QED BY <1>4, <3>1, <3>2 DEF Complete
  <2>7. QED BY <2>1, <2>3, <2>4, <2>5, <2>6 DEF LedgerInv, BudgetLedger
<1>5. CASE Return(c)
  <2>1. /\ pc' = [pc EXCEPT ![c] = "out"] /\ UNCHANGED <<strategy, inflightTokens, staleInflight>>
        /\ tokens' = [tokens EXCEPT ![c] = 0] /\ fresh' = [fresh EXCEPT ![c] = FALSE]
    BY <1>5 DEF Return
  <2>2. CASE strategy = "adaptive"
    <3>1. pc[c] = "returning" /\ inflight' = inflight BY <1>5, <2>2 DEF Return
    <3>2. InFlight' = InFlight /\ c \notin InFlight BY <2>1, <3>1 DEF InFlight, TypeInv
    <3>3. \A d \in InFlight : tokens'[d] = tokens[d] /\ fresh'[d] = fresh[d]
      BY <1>0, <2>1, <3>2 DEF TypeInv
    <3>4. \A d \in Caller : fresh'[d] => d \in InFlight
      BY <2>1 DEF LedgerInv, InFlight, TypeInv
    <3>5. QED BY <2>1, <3>1, <3>2, <3>3, <3>4, LedgerKept
  <2>3. CASE strategy # "adaptive"
    <3>1. pc[c] = "calling" /\ inflight' = inflight - 1 BY <1>5, <2>3 DEF Return
    <3>2. InFlight' = InFlight \ {c} /\ c \in InFlight BY <2>1, <3>1 DEF InFlight, TypeInv
    <3>3. inflight' = Cardinality(InFlight')
      BY <1>0, <3>1, <3>2, FS_RemoveElement DEF LedgerInv, BudgetLedger
    <3>4. \A d \in Caller : fresh'[d] => pc'[d] = "calling" BY <2>1 DEF LedgerInv, TypeInv
    <3>5. QED BY <2>1, <2>3, <3>3, <3>4 DEF LedgerInv, BudgetLedger
  <2>4. QED BY <2>2, <2>3
<1>6. QED BY <1>2, <1>3, <1>4, <1>5

LEMMA PassStep ==
  ASSUME TypeInv, QueueInv, RoomInv, LedgerInv, PassInv, Next
  PROVE  PassInv'
<1> DEFINE limit == HeadBypasses + MaxWave
<1>0. /\ HeadBypasses \in Nat /\ MaxWave \in Nat \ {0} /\ limit \in Nat
      /\ bypasses \in [Caller -> Nat] /\ Len(wave) \in Nat
      /\ queue # <<>> => queue[1] \in Caller /\ queue[1] \in Members(queue)
      /\ Waves => Len(wave) <= MaxWave
  <2>1. queue # <<>> => queue[1] \in Caller /\ queue[1] \in Members(queue)
    BY EmptyMembers DEF TypeInv
  <2>2. Waves => Len(wave) <= MaxWave
    <3>1. Len(wave) \in Nat /\ Cardinality(available) \in Nat /\ MaxSeqs \in Nat
          /\ Cardinality(Instance) \in Nat /\ Cardinality(available) <= Cardinality(Instance)
      BY Lists, Limits, Finite DEF TypeInv
    <3>2. inflight \in Nat
      <4>1. InFlight \in SUBSET Caller BY DEF InFlight
      <4>2. QED BY <4>1, Finite DEF LedgerInv, BudgetLedger
    <3>3. Waves => Len(wave) <= Cardinality(Instance) /\ Len(wave) <= MaxSeqs
      BY <3>1, <3>2 DEF RoomInv
    <3>4. QED BY <3>1, <3>3, Limits
  <2>3. QED BY <2>1, <2>2, Limits, Lists DEF TypeInv
<1> HIDE DEF limit
<1>a. /\ \A d \in Caller : bypasses[d] # 0 => queue # <<>> /\ queue[1] = d
      /\ strategy = "adaptive" => \A d \in Caller : bypasses[d] <= HeadBypasses
      /\ strategy = "visual" => \A d \in Caller : bypasses[d] < limit
      /\ strategy = "visual" /\ queue # <<>> =>
           \/ wave # <<>> /\ wave[1] = queue[1]
           \/ bypasses[queue[1]] + Len(wave) < limit
  BY DEF PassInv, HeadBypassedSeldom, limit
<1>b. SUFFICES
      /\ \A d \in Caller : bypasses'[d] # 0 => queue' # <<>> /\ queue'[1] = d
      /\ strategy' = "adaptive" => \A d \in Caller : bypasses'[d] <= HeadBypasses
      /\ strategy' = "visual" => \A d \in Caller : bypasses'[d] < limit
      /\ strategy' = "visual" /\ queue' # <<>> =>
           \/ wave' # <<>> /\ wave'[1] = queue'[1]
           \/ bypasses'[queue'[1]] + Len(wave') < limit
  BY DEF PassInv, HeadBypassedSeldom, limit
<1>1. CASE PlanWave
  <2>1. UNCHANGED <<bypasses, queue, strategy>> /\ wave = <<>> /\ queue # <<>>
    BY <1>1 DEF PlanWave, controlVars
  <2>2. Len(wave') \in Nat /\ wave' # <<>> /\ (HeadIsDue => wave'[1] = queue[1])
        /\ Len(wave') <= MaxWave
    <3>1. /\ Len(wave') \in Nat /\ wave' # <<>> /\ (HeadIsDue => wave'[1] = queue[1])
          /\ Len(wave') <= Cardinality(available) /\ Len(wave') <= MaxSeqs - inflight
      BY <1>1, Planned
    <3>2. /\ Cardinality(available) \in Nat /\ MaxSeqs \in Nat /\ Cardinality(Instance) \in Nat
          /\ Cardinality(available) <= Cardinality(Instance) /\ inflight \in Nat
      <4>1. InFlight \in SUBSET Caller BY DEF InFlight
      <4>2. QED BY <4>1, Finite, Limits DEF LedgerInv, BudgetLedger, TypeInv
    <3>3. Len(wave') <= Cardinality(Instance) /\ Len(wave') <= MaxSeqs BY <3>1, <3>2
    <3>4. QED BY <3>1, <3>3, Limits
  <2>3. strategy = "visual" /\ ~HeadIsDue => bypasses[queue[1]] < HeadBypasses
    <3>1. strategy = "visual" /\ ~HeadIsDue => ~(bypasses[Head(queue)] >= HeadBypasses)
      BY DEF HeadIsDue
    <3>2. Head(queue) = queue[1] BY <2>1, Lists
    <3>3. QED BY <1>0, <2>1, <3>1, <3>2
  <2>4. strategy = "visual" => wave'[1] = queue[1] \/ bypasses[queue[1]] + Len(wave') < limit
    BY <1>0, <2>1, <2>2, <2>3 DEF limit
  <2>5. QED BY <1>a, <2>1, <2>2, <2>4
<1> SUFFICES ASSUME NEW c \in Caller,
                    Enter(c) \/ Age(c) \/ Leave(c) \/ Acquire(c) \/ Complete(c) \/ Return(c)
             PROVE  /\ \A d \in Caller : bypasses'[d] # 0 => queue' # <<>> /\ queue'[1] = d
                    /\ strategy' = "adaptive" => \A d \in Caller : bypasses'[d] <= HeadBypasses
                    /\ strategy' = "visual" => \A d \in Caller : bypasses'[d] < limit
                    /\ strategy' = "visual" /\ queue' # <<>> =>
                         \/ wave' # <<>> /\ wave'[1] = queue'[1]
                         \/ bypasses'[queue'[1]] + Len(wave') < limit
  BY <1>1 DEF Next
<1>2. CASE Age(c) \/ Complete(c) \/ Return(c)
  <2>1. UNCHANGED <<strategy, queue, bypasses, wave>>
    BY <1>2 DEF Age, Complete, Return, controlVars
  <2>2. QED BY <1>a, <2>1
<1>3. CASE Enter(c)
  <2>1. /\ pc[c] = "out" /\ queue' = Append(queue, c) /\ bypasses' = [bypasses EXCEPT ![c] = 0]
        /\ wave' = wave /\ strategy' = strategy
    BY <1>3 DEF Enter, controlVars
  <2>2. c \notin Members(queue) BY <2>1 DEF QueueInv
  <2>3. /\ queue' # <<>> /\ (queue # <<>> => queue'[1] = queue[1])
        /\ (queue = <<>> => queue'[1] = c)
    BY <2>1, <2>2, Appended DEF TypeInv, QueueInv
  <2>4. bypasses'[c] = 0 /\ \A d \in Caller \ {c} : bypasses'[d] = bypasses[d]
    BY <1>0, <2>1
  <2>5. \A d \in Caller : bypasses'[d] # 0 => queue' # <<>> /\ queue'[1] = d
    BY <1>a, <2>3, <2>4
  <2>6. 0 < limit BY <1>0 DEF limit
  <2>7. CASE queue = <<>>
    <3>1. Len(wave) = 0 BY <2>7, Lists, EmptyMembers
    <3>2. bypasses'[queue'[1]] + Len(wave') < limit BY <2>1, <2>3, <2>4, <2>6, <2>7, <3>1
    <3>3. QED BY <1>0, <1>a, <2>1, <2>4, <2>5, <2>6, <3>2
  <2>8. CASE queue # <<>>
    <3>1. queue[1] # c BY <1>0, <2>2, <2>8
    <3>2. bypasses'[queue'[1]] = bypasses[queue[1]] /\ queue'[1] = queue[1]
      BY <1>0, <2>3, <2>4, <2>8, <3>1
    <3>3. QED BY <1>0, <1>a, <2>1, <2>4, <2>5, <2>6, <2>8, <3>2
  <2>9. QED BY <2>7, <2>8
<1>4. ASSUME queue' = Remove(queue, c), queue # <<>>, strategy' = strategy,
             bypasses'[c] = 0, Len(wave') \in Nat, Len(wave') <= Len(wave),
             \A d \in Caller \ {c, queue[1]} : bypasses'[d] = bypasses[d],
             c = queue[1] \/
               /\ bypasses'[queue[1]] \in Nat
               /\ strategy = "adaptive" => bypasses'[queue[1]] <= HeadBypasses
               /\ strategy = "visual" =>
                    \/ wave' # <<>> /\ wave'[1] = queue[1] /\ bypasses'[queue[1]] = bypasses[queue[1]]
                    \/ bypasses'[queue[1]] + Len(wave') < limit,
             strategy = "visual" /\ c = queue[1] /\ wave # <<>> /\ wave[1] = c
               => Len(wave') < Len(wave)
      PROVE  /\ \A d \in Caller : bypasses'[d] # 0 => queue' # <<>> /\ queue'[1] = d
             /\ strategy' = "adaptive" => \A d \in Caller : bypasses'[d] <= HeadBypasses
             /\ strategy' = "visual" => \A d \in Caller : bypasses'[d] < limit
             /\ strategy' = "visual" /\ queue' # <<>> =>
                  \/ wave' # <<>> /\ wave'[1] = queue'[1]
                  \/ bypasses'[queue'[1]] + Len(wave') < limit
  <2>1. /\ queue' \in Seq(Caller) /\ Members(queue') = Members(queue) \ {c}
        /\ queue[1] # c => queue' # <<>> /\ queue'[1] = queue[1]
    <3>1. queue \in Seq(Caller) /\ Distinct(queue) BY DEF TypeInv, QueueInv
    <3>2. /\ Remove(queue, c) \in Seq(Caller) /\ Members(Remove(queue, c)) = Members(queue) \ {c}
          /\ queue[1] # c => Remove(queue, c) # <<>> /\ Remove(queue, c)[1] = queue[1]
      BY <1>4, <3>1, Removed
    <3>3. QED BY <1>4, <3>2
  <2>2. \A d \in Caller \ {c, queue[1]} : bypasses'[d] = 0 BY <1>4, <1>a
  <2>3. \A d \in Caller : bypasses'[d] # 0 => queue' # <<>> /\ queue'[1] = d
    BY <1>4, <2>1, <2>2
  <2>4. 0 < limit /\ 0 <= HeadBypasses BY <1>0 DEF limit
  <2>5. CASE c = queue[1]
    <3>1. \A d \in Caller : bypasses'[d] = 0 BY <1>4, <2>2, <2>5
    <3>2. ASSUME strategy = "visual" PROVE Len(wave') < limit
      <4>1. CASE wave # <<>> /\ wave[1] = c
        <5>1. Waves BY <3>2 DEF Waves
        <5>2. Len(wave') < MaxWave BY <1>0, <1>4, <2>5, <3>2, <4>1, <5>1
        <5>3. QED BY <1>0, <1>4, <5>2 DEF limit
      <4>2. CASE ~(wave # <<>> /\ wave[1] = c)
        <5>1. bypasses[c] + Len(wave) < limit /\ bypasses[c] \in Nat
          BY <1>0, <1>4, <1>a, <2>5, <3>2, <4>2
        <5>2. QED BY <1>0, <1>4, <5>1
      <4>3. QED BY <4>1, <4>2
    <3>3. queue' # <<>> => queue'[1] \in Caller BY <2>1, EmptyMembers
    <3>4. QED BY <1>4, <2>3, <2>4, <3>1, <3>2, <3>3
  <2>6. CASE c # queue[1]
    <3>1. queue' # <<>> /\ queue'[1] = queue[1] BY <2>1, <2>6
    <3>2. strategy = "visual" => bypasses'[queue[1]] < limit
      BY <1>0, <1>4, <1>a, <2>6
    <3>3. \A d \in Caller : bypasses'[d] = 0 \/ d = queue[1] BY <1>4, <2>2
    <3>4. QED BY <1>4, <2>3, <2>4, <2>6, <3>1, <3>2, <3>3
  <2>7. QED BY <2>5, <2>6
<1>5. CASE Leave(c)
  <2>1. /\ pc[c] = "waiting" /\ queue' = Remove(queue, c) /\ wave' = Remove(wave, c)
        /\ bypasses' = [bypasses EXCEPT ![c] = 0] /\ strategy' = strategy
    BY <1>5 DEF Leave, controlVars
  <2>2. c \in Members(queue) /\ queue # <<>> BY <2>1, EmptyMembers DEF QueueInv
  <2>3. bypasses'[c] = 0 /\ \A d \in Caller \ {c} : bypasses'[d] = bypasses[d] BY <1>0, <2>1
  <2>4. /\ wave' \in Seq(Caller) /\ Len(wave') <= Len(wave)
        /\ c \in Members(wave) => Len(wave') = Len(wave) - 1
        /\ wave # <<>> /\ wave[1] # c => wave' # <<>> /\ wave'[1] = wave[1]
    BY <2>1, Removed DEF TypeInv, QueueInv
  <2>5. Len(wave') \in Nat BY <2>4, LenProperties
  <2>6. wave # <<>> /\ wave[1] = c => Len(wave') < Len(wave)
    <3>1. wave # <<>> => wave[1] \in Members(wave) BY Lists
    <3>2. QED BY <1>0, <2>4, <2>5, <3>1
  <2>7. ASSUME c # queue[1]
        PROVE  /\ bypasses'[queue[1]] \in Nat
               /\ strategy = "adaptive" => bypasses'[queue[1]] <= HeadBypasses
               /\ strategy = "visual" =>
                    \/ wave' # <<>> /\ wave'[1] = queue[1] /\ bypasses'[queue[1]] = bypasses[queue[1]]
                    \/ bypasses'[queue[1]] + Len(wave') < limit
    <3>1. bypasses'[queue[1]] = bypasses[queue[1]] /\ queue[1] \in Caller BY <1>0, <2>2, <2>3, <2>7
    <3>2. strategy = "visual" /\ ~(wave # <<>> /\ wave[1] = queue[1]) =>
            bypasses[queue[1]] + Len(wave') < limit
      <4>1. bypasses[queue[1]] \in Nat BY <1>0, <3>1
      <4>2. QED BY <1>0, <1>a, <2>2, <2>4, <2>5, <4>1
    <3>3. QED BY <1>0, <1>a, <2>4, <2>7, <3>1, <3>2
  <2>8. QED BY <1>4, <2>1, <2>2, <2>3, <2>4, <2>5, <2>6, <2>7
<1>6. CASE Acquire(c)
  <2>1. /\ queue' = Remove(queue, c) /\ strategy' = strategy
        /\ bypasses' = [Passed(c) EXCEPT ![c] = 0]
        /\ wave' = IF Waves THEN Tail(wave) ELSE wave
    BY <1>6 DEF Acquire
  <2>2. /\ queue # <<>> /\ queue[1] \in Caller /\ Head(queue) = queue[1]
        /\ Waves => wave # <<>> /\ c = wave[1]
        /\ strategy = "adaptive" /\ c # queue[1] => bypasses[queue[1]] < HeadBypasses
    BY <1>6, Taker, Lists
  <2>3. /\ bypasses'[c] = 0
        /\ \A d \in Caller \ {c, queue[1]} : bypasses'[d] = bypasses[d]
        /\ c # queue[1] => bypasses'[queue[1]] = IF strategy # "buckets" THEN bypasses[queue[1]] + 1
                                                 ELSE bypasses[queue[1]]
    BY <1>0, <2>1, <2>2 DEF Passed
  <2>4. Len(wave') \in Nat /\ Len(wave') <= Len(wave) /\ (Waves => Len(wave') = Len(wave) - 1)
    <3>1. CASE Waves
      <4>1. wave' \in Seq(Caller) /\ Len(wave') = Len(wave) - 1
        BY <2>1, <2>2, <3>1, Tailed DEF TypeInv, QueueInv
      <4>2. QED BY <1>0, <4>1, LenProperties
    <3>2. CASE ~Waves BY <1>0, <2>1, <3>2
    <3>3. QED BY <3>1, <3>2
  <2>5. strategy = "visual" => Len(wave') < Len(wave) BY <1>0, <2>4 DEF Waves
  <2>6. ASSUME c # queue[1]
        PROVE  /\ bypasses'[queue[1]] \in Nat
               /\ strategy = "adaptive" => bypasses'[queue[1]] <= HeadBypasses
               /\ strategy = "visual" => bypasses'[queue[1]] + Len(wave') < limit
    <3>1. bypasses[queue[1]] \in Nat BY <1>0, <2>2
    <3>2. strategy = "visual" => bypasses[queue[1]] + Len(wave) < limit
      BY <1>a, <2>2, <2>6 DEF Waves
    <3>3. strategy = "visual" => Len(wave') = Len(wave) - 1 BY <2>4 DEF Waves
    <3>4. QED BY <1>0, <2>2, <2>3, <2>6, <3>1, <3>2, <3>3
  <2>7. QED BY <1>4, <2>1, <2>2, <2>3, <2>4, <2>5, <2>6
<1>7. QED BY <1>2, <1>3, <1>5, <1>6

-----------------------------------------------------------------------------
LEMMA InvInit == Init => IInv
<1> SUFFICES ASSUME Init PROVE IInv OBVIOUS
<1>1. TypeInv BY Limits, EmptyMembers DEF Init, TypeInv
<1>2. QueueInv BY EmptyMembers DEF Init, QueueInv
<1>3. LeaseInv BY Limits DEF Init, LeaseInv
<1>4. RoomInv
  <2>1. Len(wave) = 0 /\ inflight = 0 BY EmptyMembers DEF Init
  <2>2. Cardinality(available) \in Nat BY <1>1, Finite DEF TypeInv
  <2>3. QED BY <2>1, <2>2, Limits DEF RoomInv
<1>5. LedgerInv
  <2>1. InFlight = {} /\ inflight = 0 /\ inflightTokens = 0 /\ staleInflight = 0
        /\ \A c \in Caller : ~fresh[c]
    BY DEF Init, InFlight
  <2>2. Load(InFlight) = 0
    <3>1. Singles({}, tokens) = {} BY DEF Singles
    <3>2. QED BY <2>1, <3>1, Loads, FS_EmptySet
  <2>3. {c \in InFlight : ~fresh[c]} = {} BY <2>1
  <2>4. QED BY <2>1, <2>2, <2>3, FS_EmptySet DEF LedgerInv, BudgetLedger
<1>6. PassInv BY Limits DEF Init, PassInv, HeadBypassedSeldom
<1>7. QED BY <1>1, <1>2, <1>3, <1>4, <1>5, <1>6 DEF IInv

LEMMA InvNext == IInv /\ [Next]_vars => IInv'
<1> SUFFICES ASSUME IInv, [Next]_vars PROVE IInv' OBVIOUS
<1>1. CASE Next
  BY <1>1, TypeStep, QueueStep, LeaseStep, RoomStep, LedgerStep, PassStep DEF IInv
<1>2. CASE UNCHANGED vars
  <2>1. /\ UNCHANGED <<strategy, pc, queue, tokens, bypasses, aged, available, lease, inflight>>
        /\ UNCHANGED <<inflightTokens, budget, fresh, staleInflight, wave>>
    BY <1>2 DEF vars
  <2>2. TypeInv' BY <2>1 DEF IInv, TypeInv
  <2>3. QueueInv' BY <2>1 DEF IInv, QueueInv, Waves
  <2>4. LeaseInv' /\ RoomInv' BY <2>1 DEF IInv, LeaseInv, RoomInv, Waves
  <2>5. LedgerInv' BY <2>1, LedgerKept DEF IInv, LedgerInv, InFlight
  <2>6. PassInv' BY <2>1 DEF IInv, PassInv, HeadBypassedSeldom
  <2>7. QED BY <2>2, <2>3, <2>4, <2>5, <2>6 DEF IInv
<1>3. QED BY <1>1, <1>2

LEMMA InvAlways == Spec => []IInv
  BY InvInit, InvNext, PTL DEF Spec

(* TypeOK: the fields keep their types; in particular no counter goes      *)
(* below zero, whichever way calls end.                                    *)
THEOREM TypeCorrect == Spec => []TypeOK
<1>1. IInv => TypeOK
  <2> SUFFICES ASSUME IInv PROVE TypeOK OBVIOUS
  <2>1. InFlight \in SUBSET Caller /\ \A S \in SUBSET Caller : Cardinality(S) \in Nat
    BY Finite DEF InFlight
  <2>2. inflight \in Nat BY <2>1 DEF IInv, LedgerInv, BudgetLedger
  <2>3. inflightTokens \in Nat
    <3>1. IsFiniteSet(InFlight) /\ \A c \in InFlight : tokens[c] \in Nat
      BY <2>1, Finite, Estimates DEF IInv
    <3>2. Cardinality(Singles(InFlight, tokens)) \in Nat BY <3>1, SinglesFinite
    <3>3. QED BY <3>2, Loads DEF IInv, LedgerInv, BudgetLedger
  <2>4. staleInflight \in Nat
    <3>1. {c \in InFlight : ~fresh[c]} \in SUBSET Caller BY <2>1
    <3>2. QED BY <2>1, <3>1 DEF IInv, LedgerInv, BudgetLedger
  <2>5. QED BY <2>2, <2>3, <2>4 DEF IInv, TypeInv, TypeOK
<1>2. QED BY <1>1, InvAlways, PTL

(* LeasesExclusive: an instance belongs to one caller from its lease until *)
(* it is available again, none gets lost, and what a wave plans always     *)
(* finds an instance and a sequence, whoever gives up in the meantime.     *)
THEOREM LeasesAreExclusive == Spec => []LeasesExclusive
<1>1. IInv => LeasesExclusive
  <2> SUFFICES ASSUME IInv PROVE LeasesExclusive OBVIOUS
  <2> USE DEF IInv
  <2>1. /\ DOMAIN wave = 1 .. Len(wave)
        /\ \A k \in DOMAIN wave : wave[k] \in Waiting
    BY Lists, LenProperties DEF TypeInv, QueueInv
  <2>2. \A k, m \in DOMAIN wave : wave[k] = wave[m] => k = m BY <2>1 DEF QueueInv, Distinct
  <2>3. QED BY <2>1, <2>2 DEF LeasesExclusive, LeaseInv, RoomInv
<1>2. QED BY <1>1, InvAlways, PTL

(* BudgetLedger: the budget's accounts are those of the calls in flight,   *)
(* stale_inflight counts the calls of older epochs, and calls overlap only *)
(* within the largest budget.                                              *)
THEOREM LedgerIsTrue == Spec => []BudgetLedger
<1>1. IInv => BudgetLedger BY DEF IInv, LedgerInv
<1>2. QED BY <1>1, InvAlways, PTL

(* HeadBypassedSeldom: the head of the queue is passed a bounded number of *)
(* times, by single calls and by waves planned before it was due.          *)
THEOREM PassesAreBounded == Spec => []HeadBypassedSeldom
<1>1. IInv => HeadBypassedSeldom BY DEF IInv, PassInv
<1>2. QED BY <1>1, InvAlways, PTL
=============================================================================

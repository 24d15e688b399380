------------------------ MODULE RecognitionPoolProofs ------------------------
(***************************************************************************)
(* Proofs about RecognitionPool: its types, and that its credits and       *)
(* totals match the crops inside, for any crops, sizes, workers and limits,*)
(* in whatever surroundings.                                               *)
(***************************************************************************)
EXTENDS RecognitionPool, FiniteSetTheorems, FunctionTheorems, TLAPS

-----------------------------------------------------------------------------
(* The inductive invariant.                                                *)

\* Counters are integers here; that they are natural follows from CreditsMatch.
TypeInv ==
  /\ stage \in [Crop -> Stages] /\ tasks \in Seq(Crop)
  /\ requests \in Int /\ bytes \in Int /\ running \in Int
  /\ submitted \in Nat /\ completed \in Nat /\ failed \in Nat /\ cancelled \in Nat
  /\ timeouts \in Nat /\ oversized \in Nat
  /\ crop \in [Worker -> Crop \cup {NoCrop}]
  /\ outcome \in [Worker -> {"none", "ok", "failed", "cancelled"}]
  /\ stopping \in BOOLEAN /\ exited \subseteq Worker /\ abandoned \subseteq Crop

\* A queued task is in the queue once, and a crop at work with one worker.
TasksInv ==
  /\ \A i \in 1 .. Len(tasks) : stage[tasks[i]] = "queued"
  /\ \A i, j \in 1 .. Len(tasks) : tasks[i] = tasks[j] => i = j

WorkersInv ==
  /\ \A w \in Worker : crop[w] # NoCrop => stage[crop[w]] \in {"running", "released", "credited"}
  /\ \A v, w \in Worker : crop[v] = crop[w] /\ crop[v] # NoCrop => v = w

SizesInv == \A c \in Admitted : Size[c] <= MaxBytes

IInv == TypeInv /\ TasksInv /\ WorkersInv /\ SizesInv /\ CreditsMatch

-----------------------------------------------------------------------------
(* Cardinalities.                                                          *)

LEMMA Finite ==
  /\ \A S \in SUBSET Crop : IsFiniteSet(S) /\ Cardinality(S) \in Nat
  /\ \A S \in SUBSET Worker : IsFiniteSet(S) /\ Cardinality(S) \in Nat
  BY PoolAssumption, FS_Subset, FS_CardinalityType

\* The bytes of one crop are counted by as many pairs.
LEMMA BytesOfOne ==
  ASSUME NEW c \in Crop, Size[c] <= MaxBytes
  PROVE  IsFiniteSet(ByteSet({c})) /\ Cardinality(ByteSet({c})) = Size[c]
<1> DEFINE f == [i \in 1 .. Size[c] |-> <<c, i>>]
<1>1. Size[c] \in Nat /\ MaxBytes \in Nat
  BY PoolAssumption
<1>2. ByteSet({c}) = {<<c, i>> : i \in 1 .. Size[c]}
  BY <1>1 DEF ByteSet
<1>3. f \in Bijection(1 .. Size[c], ByteSet({c}))
  <2>1. f \in [1 .. Size[c] -> ByteSet({c})]
    BY <1>2
  <2>2. IsInjective(f)
    BY DEF IsInjective
  <2>3. \A t \in ByteSet({c}) : \E i \in 1 .. Size[c] : f[i] = t
    BY <1>2
  <2> QED
    BY <2>1, <2>2, <2>3 DEF Bijection, Injection, Surjection
<1>4. ExistsBijection(1 .. Size[c], ByteSet({c}))
  BY <1>3 DEF ExistsBijection
<1>5. IsFiniteSet(1 .. Size[c]) /\ Cardinality(1 .. Size[c]) = Size[c]
  <2>1. \A n \in Int : IsFiniteSet(1 .. n) /\ Cardinality(1 .. n) = IF 1 > n THEN 0 ELSE n - 1 + 1
    BY FS_Interval
  <2> QED
    BY <1>1, <2>1
<1> QED
  BY <1>4, <1>5, FS_Bijection

LEMMA BytesFinite ==
  ASSUME NEW S \in SUBSET Crop
  PROVE  IsFiniteSet(ByteSet(S)) /\ Cardinality(ByteSet(S)) \in Nat
<1>1. IsFiniteSet(S) /\ IsFiniteSet(1 .. MaxBytes)
  <2>1. IsFiniteSet(S)
    BY Finite
  <2>2. \A n \in Int : IsFiniteSet(1 .. n)
    BY FS_Interval
  <2>3. MaxBytes \in Int
    BY PoolAssumption
  <2> QED
    BY <2>1, <2>2, <2>3
<1>2. IsFiniteSet(S \X (1 .. MaxBytes))
  BY <1>1, FS_Product
<1>3. ByteSet(S) \in SUBSET (S \X (1 .. MaxBytes))
  BY DEF ByteSet
<1> QED
  BY <1>2, <1>3, FS_Subset, FS_CardinalityType

LEMMA BytesAdd ==
  ASSUME NEW S \in SUBSET Crop, NEW c \in Crop, c \notin S, Size[c] <= MaxBytes
  PROVE  Cardinality(ByteSet(S \cup {c})) = Cardinality(ByteSet(S)) + Size[c]
<1>1. ByteSet(S \cup {c}) = ByteSet(S) \cup ByteSet({c})
  BY DEF ByteSet
<1>2. ByteSet(S) \cap ByteSet({c}) = {}
  BY DEF ByteSet
<1>3. Cardinality(ByteSet(S) \cap ByteSet({c})) = 0
  BY <1>2, FS_EmptySet
<1>4. /\ IsFiniteSet(ByteSet(S)) /\ Cardinality(ByteSet(S)) \in Nat
      /\ IsFiniteSet(ByteSet({c})) /\ Cardinality(ByteSet({c})) = Size[c] /\ Size[c] \in Nat
  BY BytesFinite, BytesOfOne, PoolAssumption
<1>5. Cardinality(ByteSet(S) \cup ByteSet({c}))
        = Cardinality(ByteSet(S)) + Cardinality(ByteSet({c})) - Cardinality(ByteSet(S) \cap ByteSet({c}))
  BY <1>4, FS_Union
<1>6. Cardinality(ByteSet(S \cup {c})) = Cardinality(ByteSet(S)) + Size[c] - 0
  BY <1>1, <1>3, <1>4, <1>5, Zenon
<1> QED
  BY <1>4, <1>6

-----------------------------------------------------------------------------
(* Initially, and for each step.                                           *)

LEMMA BytesLess ==
  ASSUME NEW S \in SUBSET Crop, NEW c \in S, Size[c] <= MaxBytes
  PROVE  /\ Cardinality(ByteSet(S)) = Cardinality(ByteSet(S \ {c})) + Size[c]
         /\ Cardinality(ByteSet(S \ {c})) \in Nat /\ Size[c] \in Nat
<1> DEFINE rest == S \ {c}
<1>1. rest \in SUBSET Crop /\ c \in Crop /\ c \notin rest /\ rest \cup {c} = S
  OBVIOUS
<1>2. Size[c] \in Nat
  BY <1>1, PoolAssumption
<1> HIDE DEF rest
<1>3. Cardinality(ByteSet(rest \cup {c})) = Cardinality(ByteSet(rest)) + Size[c]
  BY <1>1, BytesAdd
<1>4. Cardinality(ByteSet(rest)) \in Nat
  BY <1>1, BytesFinite
<1> QED
  BY <1>1, <1>2, <1>3, <1>4 DEF rest

LEMMA EmptyBytes == ByteSet({}) = {}
  BY DEF ByteSet

LEMMA InitInv == Init => IInv
<1> SUFFICES ASSUME Init PROVE IInv
  OBVIOUS
<1>1. TypeInv /\ TasksInv
  <2>1. tasks = <<>> /\ tasks \in Seq(Crop) /\ Len(tasks) = 0
    BY DEF Init
  <2>2. TasksInv
    BY <2>1 DEF TasksInv
  <2>3. /\ stage \in [Crop -> Stages]
        /\ crop \in [Worker -> Crop \cup {NoCrop}]
        /\ outcome \in [Worker -> {"none", "ok", "failed", "cancelled"}]
    BY DEF Init, Stages
  <2>4. /\ requests \in Int /\ bytes \in Int /\ running \in Int
        /\ submitted \in Nat /\ completed \in Nat /\ failed \in Nat /\ cancelled \in Nat
        /\ timeouts \in Nat /\ oversized \in Nat
    BY DEF Init
  <2>5. stopping \in BOOLEAN /\ exited \subseteq Worker /\ abandoned \subseteq Crop
    BY DEF Init
  <2> QED
    BY <2>1, <2>2, <2>3, <2>4, <2>5 DEF TypeInv
<1>5. WorkersInv /\ SizesInv
  BY DEF Init, WorkersInv, SizesInv, Admitted
<1>2. /\ Admitted = {} /\ Completed = {} /\ Refused = {} /\ Busy = {}
  BY DEF Init, Admitted, Completed, Refused, Busy
<1>3. Cardinality({}) = 0
  BY FS_EmptySet
<1>4. CreditsMatch
  <2>1. /\ Cardinality(Admitted) = 0 /\ Cardinality(Completed) = 0 /\ Cardinality(Refused) = 0
        /\ Cardinality(Busy) = 0 /\ Cardinality(ByteSet(Admitted)) = 0
    BY <1>2, <1>3, EmptyBytes
  <2> QED
    BY <2>1, PoolAssumption DEF Init, CreditsMatch
<1> QED
  BY <1>1, <1>4, <1>5 DEF IInv

\* Where the crops are counted that CreditsMatch counts.
Counts(admittedCrops, completedCrops, refusedCrops, busy) ==
  /\ Admitted' = admittedCrops /\ Completed' = completedCrops
  /\ Refused' = refusedCrops /\ Busy' = busy

LEMMA CountsKnown ==
  ASSUME TypeInv
  PROVE  /\ Admitted \subseteq Crop /\ Completed \subseteq Crop /\ Refused \subseteq Crop
         /\ Busy \subseteq Worker
         /\ IsFiniteSet(Admitted) /\ IsFiniteSet(Completed) /\ IsFiniteSet(Refused) /\ IsFiniteSet(Busy)
         /\ Cardinality(Admitted) \in Nat /\ Cardinality(Completed) \in Nat
         /\ Cardinality(Refused) \in Nat /\ Cardinality(Busy) \in Nat
         /\ Cardinality(ByteSet(Admitted)) \in Nat
  BY Finite, BytesFinite DEF Admitted, Completed, Refused, Busy

\* A step that moves no crop into or out of one of the sets, and changes no counter.
LEMMA SameCounts ==
  ASSUME CreditsMatch, Counts(Admitted, Completed, Refused, Busy),
         UNCHANGED <<requests, bytes, running, totals>>
  PROVE  CreditsMatch'
  BY DEF CreditsMatch, Counts, totals, ByteSet

-----------------------------------------------------------------------------
(* The steps.                                                              *)

LEMMA Constants ==
  /\ NoCrop \notin Crop /\ Size \in [Crop -> Nat] /\ MaxRequests \in Nat /\ MaxBytes \in Nat
  BY PoolAssumption

LEMMA TypesStep == TypeInv /\ TasksInv /\ [Next]_vars => TypeInv'
<1> SUFFICES ASSUME TypeInv, TasksInv, [Next]_vars PROVE TypeInv'
  OBVIOUS
<1> USE DEF TypeInv, Stages, At, totals, workerVars, poolVars
<1>1. ASSUME NEW c \in Crop, Submit(c), UNCHANGED abandoned PROVE TypeInv'
  BY <1>1 DEF Submit
<1>2. ASSUME NEW c \in Crop, Admit(c), UNCHANGED abandoned PROVE TypeInv'
  BY <1>2, Constants DEF Admit
<1>3. ASSUME NEW c \in Crop, TimeOut(c), UNCHANGED abandoned PROVE TypeInv'
  BY <1>3 DEF TimeOut
<1>4. ASSUME NEW c \in Crop, Withdraw(c), UNCHANGED abandoned PROVE TypeInv'
  BY <1>4 DEF Withdraw
<1>5. ASSUME NEW w \in Worker, Take(w), UNCHANGED abandoned PROVE TypeInv'
  BY <1>5 DEF Take
<1>6. ASSUME NEW w \in Worker, NEW r \in {"ok", "failed", "cancelled"}, Work(w, r), UNCHANGED abandoned
      PROVE TypeInv'
  BY <1>6 DEF Work
<1>7. ASSUME NEW w \in Worker, Credit(w), UNCHANGED abandoned PROVE TypeInv'
  BY <1>7, Constants DEF Credit
<1>8. ASSUME NEW w \in Worker, Finished(w), UNCHANGED abandoned PROVE TypeInv'
  BY <1>8 DEF Finished
<1>9. ASSUME NEW w \in Worker, WorkerExits(w), UNCHANGED abandoned PROVE TypeInv'
  BY <1>9 DEF WorkerExits
<1>10. CASE Stop /\ UNCHANGED abandoned
  BY <1>10 DEF Stop
<1>11. CASE UNCHANGED poolVars /\ abandoned' \subseteq Crop
  BY <1>11
<1> QED
  BY <1>1, <1>2, <1>3, <1>4, <1>5, <1>6, <1>7, <1>8, <1>9, <1>10, <1>11
     DEF Next, PoolNext, Submitter, PoolWorker, Ended, Abandon, vars

Rest == TasksInv /\ WorkersInv /\ SizesInv /\ CreditsMatch

\* A crop that is neither queued nor with a worker moves outside the pool.
LEMMA OutsideStep ==
  ASSUME IInv, NEW c \in Crop, stage[c] \in {"new", "waiting"},
         NEW s \in {"waiting", "withdrawn"}, At(c, s),
         UNCHANGED <<tasks, requests, bytes, running, totals, workerVars>>
  PROVE  Rest'
<1> USE DEF IInv, TypeInv, At, workerVars
<1>1. TasksInv'
  BY DEF TasksInv
<1>2. WorkersInv'
  BY DEF WorkersInv
<1>3. Counts(Admitted, Completed, Refused, Busy)
  BY DEF Counts, Admitted, Completed, Refused, Busy, WorkersInv
<1>4. SizesInv'
  BY <1>3 DEF SizesInv, Counts
<1>5. CreditsMatch'
  BY <1>3, SameCounts
<1> QED
  BY <1>1, <1>2, <1>4, <1>5 DEF Rest

\* A crop is refused, and one of two totals says so.
LEMMA RefusedStep ==
  ASSUME IInv, NEW c \in Crop, stage[c] \in {"new", "waiting"}, At(c, "refused"),
         timeouts' + oversized' = timeouts + oversized + 1,
         UNCHANGED <<tasks, requests, bytes, running, submitted, completed, failed, cancelled, workerVars>>
  PROVE  Rest'
<1> USE DEF IInv, TypeInv, At, workerVars
<1>1. TasksInv'
  BY DEF TasksInv
<1>2. WorkersInv'
  BY DEF WorkersInv
<1>3. Counts(Admitted, Completed, Refused \cup {c}, Busy)
  BY DEF Counts, Admitted, Completed, Refused, Busy, WorkersInv
<1>4. SizesInv'
  BY <1>3 DEF SizesInv, Counts
<1>5. Cardinality(Refused \cup {c}) = Cardinality(Refused) + 1
  BY CountsKnown, FS_AddElement DEF Refused
<1>6. CreditsMatch'
  BY <1>3, <1>5, CountsKnown DEF CreditsMatch, Counts, ByteSet
<1> QED
  BY <1>1, <1>2, <1>4, <1>6 DEF Rest

LEMMA AdmitStep ==
  ASSUME IInv, NEW c \in Crop, Admit(c)
  PROVE  Rest'
<1> USE DEF IInv, TypeInv, At, workerVars, Admit
<1>1. /\ Len(tasks') = Len(tasks) + 1 /\ tasks'[Len(tasks) + 1] = c
      /\ \A i \in 1 .. Len(tasks) : tasks'[i] = tasks[i] /\ tasks[i] \in Crop
  OBVIOUS
<1>2. TasksInv'
  BY <1>1 DEF TasksInv
<1>3. WorkersInv'
  BY DEF WorkersInv
<1>4. Counts(Admitted \cup {c}, Completed, Refused, Busy)
  BY DEF Counts, Admitted, Completed, Refused, Busy, WorkersInv
<1>5. Size[c] \in Nat /\ Size[c] <= MaxBytes - bytes /\ requests < MaxRequests
  BY Constants DEF Room
<1>6. bytes \in Nat /\ Size[c] <= MaxBytes
  <2>1. bytes = Cardinality(ByteSet(Admitted))
    BY DEF CreditsMatch
  <2>2. bytes \in Nat
    BY <2>1, CountsKnown
  <2> QED
    BY <1>5, <2>2, Constants
<1>7. SizesInv'
  BY <1>4, <1>6 DEF SizesInv, Counts
<1>8. /\ Cardinality(Admitted \cup {c}) = Cardinality(Admitted) + 1
      /\ Cardinality(ByteSet(Admitted \cup {c})) = Cardinality(ByteSet(Admitted)) + Size[c]
  BY <1>6, CountsKnown, FS_AddElement, BytesAdd DEF Admitted
<1>9. CreditsMatch'
  <2>1. requests' = Cardinality(Admitted)' /\ bytes' = Cardinality(ByteSet(Admitted))'
    BY <1>4, <1>8 DEF CreditsMatch, Counts
  <2>2. requests' <= MaxRequests /\ bytes' <= MaxBytes /\ submitted' = completed' + requests'
    <3>1. requests' = requests + 1 /\ bytes' = bytes + Size[c] /\ submitted' = submitted + 1 /\ completed' = completed
      OBVIOUS
    <3>2. submitted = completed + requests
      BY DEF CreditsMatch
    <3> QED
      BY <1>5, <1>6, <3>1, <3>2, Constants
  <2> QED
    BY <1>4, <2>1, <2>2 DEF CreditsMatch, Counts
<1> QED
  BY <1>2, <1>3, <1>7, <1>9 DEF Rest

LEMMA TakeStep ==
  ASSUME IInv, NEW w \in Worker, Take(w)
  PROVE  Rest'
<1> DEFINE c == Head(tasks)
<1> USE DEF IInv, TypeInv, At, Take
<1>1. /\ Len(tasks) \in Nat /\ Len(tasks) >= 1 /\ c = tasks[1] /\ c \in Crop
      /\ Len(tasks') = Len(tasks) - 1
      /\ \A i \in 1 .. Len(tasks') : tasks'[i] = tasks[i + 1] /\ tasks[i + 1] \in Crop
  OBVIOUS
<1>2. stage[c] = "queued"
  BY <1>1 DEF TasksInv
<1>3. TasksInv'
  BY <1>1 DEF TasksInv
<1>4. \A v \in Worker : crop[v] # c
  BY <1>1, <1>2, Constants DEF WorkersInv
<1>5. /\ crop' = [crop EXCEPT ![w] = c] /\ stage' = [stage EXCEPT ![c] = "running"]
      /\ c # NoCrop /\ crop[w] = NoCrop
  BY <1>1, Constants
<1> HIDE DEF c, Take
<1>6. WorkersInv'
  BY <1>1, <1>4, <1>5 DEF WorkersInv
<1>7. Counts(Admitted, Completed, Refused, Busy \cup {w})
  BY <1>1, <1>2, <1>4, <1>5 DEF Counts, Admitted, Completed, Refused, Busy
<1>8. SizesInv'
  BY <1>7 DEF SizesInv, Counts
<1>9. Cardinality(Busy \cup {w}) = Cardinality(Busy) + 1
  BY <1>5, CountsKnown, FS_AddElement DEF Busy
<1>10. CreditsMatch'
  BY <1>7, <1>9, CountsKnown DEF CreditsMatch, Counts, ByteSet, totals, Take
<1> QED
  BY <1>3, <1>6, <1>8, <1>10 DEF Rest

\* The crop of a worker moves on within the pool, or its credits are returned already.
LEMMA WorkStep ==
  ASSUME IInv, NEW w \in Worker, NEW r \in {"ok", "failed", "cancelled"}, Work(w, r)
  PROVE  Rest'
<1> USE DEF IInv, TypeInv, At, Work
<1>1. crop[w] \in Crop
  BY Constants
<1>2. TasksInv'
  BY <1>1 DEF TasksInv
<1>3. WorkersInv'
  BY <1>1 DEF WorkersInv
<1>4. Counts(Admitted, Completed, Refused, Busy)
  BY <1>1, Constants DEF Counts, Admitted, Completed, Refused, Busy, WorkersInv
<1>5. SizesInv'
  BY <1>4 DEF SizesInv, Counts
<1>6. CreditsMatch'
  BY <1>4, SameCounts
<1> QED
  BY <1>2, <1>3, <1>5, <1>6 DEF Rest

LEMMA CreditStep ==
  ASSUME IInv, NEW w \in Worker, Credit(w)
  PROVE  Rest'
<1> DEFINE c == crop[w]
<1> USE DEF IInv, TypeInv, At, workerVars, Credit
<1>1. c \in Crop /\ c \in Admitted /\ w \in Busy /\ c \notin Completed
  BY Constants DEF Admitted, Busy, Completed
<1>2. TasksInv'
  BY <1>1 DEF TasksInv
<1>3. WorkersInv'
  BY <1>1 DEF WorkersInv
<1>4. Counts(Admitted \ {c}, Completed \cup {c}, Refused, Busy \ {w})
  BY <1>1, Constants DEF Counts, Admitted, Completed, Refused, Busy, WorkersInv
<1>5. SizesInv'
  BY <1>4 DEF SizesInv, Counts
<1>6. /\ Cardinality(Admitted \ {c}) = Cardinality(Admitted) - 1
      /\ Cardinality(Completed \cup {c}) = Cardinality(Completed) + 1
      /\ Cardinality(Busy \ {w}) = Cardinality(Busy) - 1
  BY <1>1, CountsKnown, FS_AddElement, FS_RemoveElement
<1>7. /\ Cardinality(ByteSet(Admitted)) = Cardinality(ByteSet(Admitted \ {c})) + Size[c]
      /\ Cardinality(ByteSet(Admitted \ {c})) \in Nat /\ Size[c] \in Nat
  <2>1. Admitted \in SUBSET Crop /\ c \in Admitted
    BY <1>1 DEF Admitted
  <2>2. Size[c] <= MaxBytes
    BY <1>1 DEF SizesInv
  <2> HIDE DEF c
  <2> QED
    BY <2>1, <2>2, BytesLess
<1>8. CreditsMatch'
  <2>1. requests' = Cardinality(Admitted)' /\ requests' <= MaxRequests
    <3>1. requests = Cardinality(Admitted) /\ requests <= MaxRequests /\ requests' = requests - 1
      BY DEF CreditsMatch
    <3>2. Cardinality(Admitted)' = Cardinality(Admitted \ {c})
      BY <1>4 DEF Counts
    <3>3. requests' = Cardinality(Admitted \ {c})
      BY <1>6, <3>1
    <3>4. requests \in Int /\ MaxRequests \in Nat
      BY Constants
    <3> QED
      BY <3>1, <3>2, <3>3, <3>4
  <2>2. bytes' = Cardinality(ByteSet(Admitted))' /\ bytes' <= MaxBytes
    <3>0. /\ bytes = Cardinality(ByteSet(Admitted)) /\ bytes <= MaxBytes
          /\ bytes' = bytes - Size[c]
      BY DEF CreditsMatch
    <3>1. bytes' = Cardinality(ByteSet(Admitted \ {c}))
      BY <1>7, <3>0
    <3>2. Admitted' = Admitted \ {c}
      BY <1>4 DEF Counts
    <3>3. bytes' <= bytes /\ bytes <= MaxBytes
      BY <1>7, <3>0
    <3> QED
      BY <3>1, <3>2, <3>3, <1>7, Constants
  <2>3. submitted' = completed' + requests' /\ completed' = Cardinality(Completed)'
    BY <1>4, <1>6 DEF CreditsMatch, Counts
  <2>4. failed' + cancelled' <= completed'
    <3>1. failed' + cancelled' \in {failed + cancelled, failed + cancelled + 1}
      OBVIOUS
    <3>2. failed + cancelled <= completed /\ completed' = completed + 1
      BY DEF CreditsMatch
    <3> QED
      BY <3>1, <3>2
  <2>5. running' = Cardinality(Busy)' /\ timeouts' + oversized' = Cardinality(Refused)'
    BY <1>4, <1>6 DEF CreditsMatch, Counts
  <2> QED
    BY <2>1, <2>2, <2>3, <2>4, <2>5 DEF CreditsMatch
<1> QED
  BY <1>2, <1>3, <1>5, <1>8 DEF Rest

LEMMA FinishedStep ==
  ASSUME IInv, NEW w \in Worker, Finished(w)
  PROVE  Rest'
<1> USE DEF IInv, TypeInv, At, Finished
<1>1. crop[w] \in Crop
  BY Constants
<1>2. TasksInv'
  BY <1>1 DEF TasksInv
<1>3. WorkersInv'
  BY <1>1, Constants DEF WorkersInv
<1>4. Counts(Admitted, Completed, Refused, Busy)
  BY <1>1, Constants DEF Counts, Admitted, Completed, Refused, Busy, WorkersInv
<1>5. SizesInv'
  BY <1>4 DEF SizesInv, Counts
<1>6. CreditsMatch'
  BY <1>4, SameCounts
<1> QED
  BY <1>2, <1>3, <1>5, <1>6 DEF Rest

\* Nothing of the pool but stopping, exited or abandoned changes.
LEMMA QuietStep ==
  ASSUME IInv, UNCHANGED <<stage, tasks, requests, bytes, running, totals, crop>>
  PROVE  Rest'
<1>1. TasksInv' /\ WorkersInv'
  BY DEF IInv, TasksInv, WorkersInv
<1>2. Counts(Admitted, Completed, Refused, Busy)
  BY DEF Counts, Admitted, Completed, Refused, Busy
<1>3. SizesInv'
  BY <1>2 DEF IInv, SizesInv, Counts
<1>4. CreditsMatch'
  BY <1>2, SameCounts DEF IInv
<1> QED
  BY <1>1, <1>3, <1>4 DEF Rest

LEMMA StepInv == IInv /\ [Next]_vars => IInv'
<1> SUFFICES ASSUME IInv, [Next]_vars PROVE IInv'
  OBVIOUS
<1>1. TypeInv'
  BY TypesStep DEF IInv
<1>2. ASSUME NEW c \in Crop, Submit(c) PROVE Rest'
  <2>1. CASE Size[c] > MaxBytes
    BY <1>2, <2>1, RefusedStep DEF Submit, IInv, TypeInv
  <2>2. CASE ~(Size[c] > MaxBytes)
    BY <1>2, <2>2, OutsideStep DEF Submit, totals
  <2> QED
    BY <2>1, <2>2
<1>3. ASSUME NEW c \in Crop, TimeOut(c) PROVE Rest'
  BY <1>3, RefusedStep DEF TimeOut, IInv, TypeInv
<1>4. ASSUME NEW c \in Crop, Withdraw(c) PROVE Rest'
  BY <1>4, OutsideStep DEF Withdraw
<1>5. ASSUME NEW c \in Crop, Submitter(c) PROVE Rest'
  BY <1>2, <1>3, <1>4, <1>5, AdmitStep DEF Submitter
<1>6. ASSUME NEW w \in Worker, PoolWorker(w) PROVE Rest'
  BY <1>6, TakeStep, WorkStep, CreditStep, FinishedStep, QuietStep DEF PoolWorker, WorkerExits
<1>7. ASSUME Stop PROVE Rest'
  <2>1. UNCHANGED <<stage, tasks, requests, bytes, running, totals, crop>>
    BY <1>7 DEF Stop, workerVars
  <2> QED
    BY <2>1, QuietStep
<1>8. ASSUME UNCHANGED poolVars PROVE Rest'
  <2>1. UNCHANGED <<stage, tasks, requests, bytes, running, totals, crop>>
    BY <1>8 DEF poolVars, workerVars
  <2> QED
    BY <2>1, QuietStep
<1>9. Rest'
  <2>1. CASE PoolNext
    BY <2>1, <1>5, <1>6, <1>7, <1>8 DEF PoolNext, Ended
  <2>2. CASE UNCHANGED poolVars
    BY <2>2, <1>8
  <2> QED
    BY <2>1, <2>2 DEF Next, vars
<1> QED
  BY <1>1, <1>9 DEF IInv, Rest

-----------------------------------------------------------------------------

(* The members of the pool and the locals of its threads keep their types, the credits
   and totals being natural numbers (recognition_pool.hpp:50-57 subtracts from size_t). *)
THEOREM PoolTypes == Spec => []TypeOK
<1>1. IInv => TypeOK
  <2> SUFFICES ASSUME IInv PROVE TypeOK
    OBVIOUS
  <2>1. requests \in Nat /\ bytes \in Nat /\ running \in Nat
    BY CountsKnown DEF IInv, CreditsMatch
  <2> QED
    BY <2>1 DEF IInv, TypeInv, TypeOK
<1> QED
  BY <1>1, InitInv, StepInv, PTL DEF Spec

(* The credits are those of the crops inside and within both limits, and the totals agree
   with what became of the crops (recognition_pool.hpp:81-109 against 36-60). *)
THEOREM CreditsAreTrue == Spec => []CreditsMatch
<1>1. IInv => CreditsMatch
  BY DEF IInv
<1> QED
  BY <1>1, InitInv, StepInv, PTL DEF Spec
=============================================================================

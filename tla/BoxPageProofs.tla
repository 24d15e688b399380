---------------------------- MODULE BoxPageProofs ----------------------------
(***************************************************************************)
(* Proofs about BoxPage: no page has more than its share of tasks, nothing *)
(* of a page outlives it, and its report is true, for any pages, boxes,    *)
(* threads and surroundings; and while a box is at work, one thread or     *)
(* queue has it, and the page waits for exactly the crops it has given     *)
(* away.                                                                   *)
(***************************************************************************)
EXTENDS BoxPage, FiniteSetTheorems, FunctionTheorems, SequenceTheorems, TLAPS

-----------------------------------------------------------------------------
(* The inductive invariant.                                                *)

Idle == {"idle", "exited"}
PagePlaces == WorkPlaces \cup {"new", "launch", "push", "abort", "check", "asleep", "drain",
                               "returned", "spawn", "join"}
WorkerPlaces == WorkPlaces \cup Idle \cup {"again", "resubmit", "blame", "count", "notify", "leave"}

TypeInv ==
  /\ pc \in [Agent -> PagePlaces \cup WorkerPlaces]
  /\ \A p \in Page : pc[p] \in PagePlaces
  /\ \A w \in BoxWorker : pc[w] \in WorkerPlaces
  /\ onPage \in [Agent -> Page \cup {NoPage}] /\ index \in [Agent -> Nat]
  /\ queue \in Seq(Page) /\ next \in [Page -> Nat] /\ launched \in [Page -> Nat]
  /\ outstanding \in [Page -> Int] /\ pending \in [Page -> Int]
  /\ stop \in [Page -> BOOLEAN] /\ thrown \in [Page -> BOOLEAN]
  /\ cancel \in [Page -> BOOLEAN] /\ mode \in Modes /\ boxes \in [Page -> BoxCounts]
  /\ error \in [Page -> {"none", "failed", "cancelled"}]
  /\ result \in [Page -> {"none", "ok", "failed", "cancelled"}]
  /\ DOMAIN box = Page /\ \A p \in Page : box[p] \in [1 .. boxes[p] -> BoxStates]
  /\ stage \in [Crop -> Pool!Stages] /\ tasks \in Seq(Crop)
  /\ crop \in [RecWorker -> Crop \cup {NoCrop}]

\* Which threads are where, with a BOX pool and without.
PlaceInv ==
  /\ \A p \in Page : onPage[p] = p
  /\ \A w \in BoxWorker : pc[w] \notin Idle => onPage[w] \in Page
  /\ OwnThreads =>
       /\ queue = <<>>
       /\ \A p \in Page : pc[p] \notin {"launch", "push", "abort", "check", "asleep"}
       /\ \A w \in BoxWorker : pc[w] \notin {"again", "resubmit", "blame", "count", "notify"}
  /\ ~OwnThreads =>
       /\ \A p \in Page : pc[p] \notin {"spawn", "join"}
       /\ \A w \in BoxWorker : pc[w] # "leave"
  /\ stopping => \A a \in Agent : pc[a] \in {"returned", "exited"}

\* The tasks of a page that may still claim a box, those not counted out, those
\* about to queue a successor, and whoever is inside the task.
Claimers == WorkPlaces \cup {"again", "resubmit"}
Counted == Claimers \cup {"blame", "count"}
Inside == Counted \cup {"leave"}
Seekers(p) == At(p, Claimers)
Tasks(p) == At(p, Counted)
Successors(p) == At(p, {"resubmit"})
Insiders(p) == At(p, Inside)
Blamers(p) == At(p, {"blame"})
Pushing(p) == IF pc[p] = "push" THEN 1 ELSE 0

\* Nothing of the page is queued or at work but its own thread.
Clean(p) == Queued(p) = {} /\ Insiders(p) = {}
Alone == WorkPlaces \cup {"new", "drain", "returned"}

\* The count of a page's tasks is true: the task that is about to be queued
\* is counted already.
TasksOf(p) ==
  /\ ~OwnThreads =>
       outstanding[p] = Cardinality(Queued(p)) + Cardinality(Tasks(p))
                          + Cardinality(Successors(p)) + Pushing(p)
  /\ Cardinality(Queued(p)) + Cardinality(Seekers(p)) <= launched[p]
  /\ launched[p] <= WorkerCount(p)
  /\ pc[p] = "push" => launched[p] < WorkerCount(p)
  /\ pc[p] \in {"launch", "push", "spawn"} => WorkerCount(p) > 1
  /\ pc[p] \in Alone => Clean(p)
TaskInv == \A p \in Page : TasksOf(p)

\* Boxes left behind have a task that will look for them.
Progress(p) ==
  /\ launched[p] > 0 /\ next[p] < boxes[p] /\ ~Stopped(p) =>
       Queued(p) # {} \/ Seekers(p) # {}
  /\ pc[p] \in {"check", "asleep", "join"} => launched[p] > 0 \/ stop[p]
  /\ pc[p] = "drain" => next[p] >= boxes[p] \/ Stopped(p)
  /\ pc[p] = "abort" => thrown[p]
ProgressInv == \A p \in Page : Progress(p)

Holding == {"box", "recognize", "infer", "admit"}
HoldInv == \A a \in Agent : pc[a] \in Holding => index[a] \in 1 .. boxes[onPage[a]]
Holds(p, i, places) == \E a \in Agent : onPage[a] = p /\ index[a] = i /\ pc[a] \in places

\* What the state of a box says about who has it.
BoxOf(p, i) ==
  /\ box[p][i] = "todo" => i > next[p]
  /\ box[p][i] = "working" => Holds(p, i, {"box"})
  /\ box[p][i] = "recognizing" =>
       Holds(p, i, {"recognize", "admit"}) \/ stage[<<p, i>>] \in {"queued", "running"}
  /\ box[p][i] = "inferring" => Holds(p, i, {"infer"}) \/ stage[<<p, i>>] = "running"
  /\ box[p][i] = "cancelled" \/ (box[p][i] = "failed" /\ ~RecordErrors) => error[p] # "none"
BoxInv == \A p \in Page : \A i \in 1 .. boxes[p] : BoxOf(p, i)

\* The recognition pool's queue, and who is in its submit().
QueuedOnce ==
  /\ \A k \in 1 .. Len(tasks) : stage[tasks[k]] = "queued"
  /\ \A k, m \in 1 .. Len(tasks) : tasks[k] = tasks[m] => k = m
WaitOf(p, i) ==
  /\ stage[<<p, i>>] = "waiting" => Holds(p, i, {"admit"})
  /\ stage[<<p, i>>] = "withdrawn" => Stopped(p)
CropInv == QueuedOnce /\ \A p \in Page : \A i \in 1 .. MaxBoxes : WaitOf(p, i)

\* The page waits for its crops in the pool and its threads in submit().
PendOf(p) ==
  /\ pending[p] = Cardinality(InPool(p)) + Cardinality(Submitting(p))
  /\ pc[p] \in {"new", "returned"} => pending[p] = 0
PendInv == \A p \in Page : PendOf(p)

\* Why a page stops, and why it reports what it reports.
Excused(p) == cancel[p] \/ thrown[p] \/ (CanRefuse /\ ~OwnThreads)
ReportOf(p) ==
  /\ result[p] = "ok" =>
       \A i \in 1 .. boxes[p] :
         box[p][i] \in {"done"} \cup (IF RecordErrors THEN {"failed"} ELSE {})
  /\ result[p] = "cancelled" => cancel[p] \/ (CanRefuse /\ ~OwnThreads)
ReasonOf(p) ==
  /\ stop[p] => error[p] # "none" \/ thrown[p] \/ Blamers(p) # {}
  /\ thrown[p] \/ Blamers(p) # {} => CanRefuse
  /\ error[p] = "cancelled" => Excused(p)
  /\ result[p] # "none" => pc[p] = "returned"
  /\ ReportOf(p)
ReasonInv == \A p \in Page : ReasonOf(p)

IInv ==
  /\ TypeInv /\ PlaceInv /\ TaskInv /\ ProgressInv /\ HoldInv /\ BoxInv /\ CropInv
  /\ PendInv /\ ReasonInv

-----------------------------------------------------------------------------
(* Finite sets, and the positions of a page in the queue.                  *)

LEMMA Constants ==
  /\ Page \cap BoxWorker = {} /\ NoPage \notin Page /\ NoCrop \notin Crop
  /\ MaxBoxes \in Nat /\ \A n \in BoxCounts : n \in Nat /\ n <= MaxBoxes
  /\ Cardinality(BoxWorker) \in Nat /\ IsFiniteSet(BoxWorker) /\ IsFiniteSet(Page)
  /\ \A m \in Modes : {m.record, m.refuse, m.async, m.threads} \subseteq BOOLEAN
<1>1. Cardinality(BoxWorker) \in Nat BY PageAssumption, FS_CardinalityType
<1>2. QED BY <1>1, PageAssumption

LEMMA FiniteAgents ==
  \A S \in SUBSET Agent : IsFiniteSet(S) /\ Cardinality(S) \in Nat /\ (Cardinality(S) = 0 <=> S = {})
<1>1. IsFiniteSet(Agent) BY Constants, FS_Union DEF Agent
<1>2. QED BY <1>1, FS_Subset, FS_CardinalityType, FS_EmptySet

LEMMA FiniteCrops ==
  \A S \in SUBSET Crop : IsFiniteSet(S) /\ Cardinality(S) \in Nat /\ (Cardinality(S) = 0 <=> S = {})
<1>1. IsFiniteSet(1 .. MaxBoxes) BY Constants, FS_Interval
<1>2. IsFiniteSet(Crop) BY <1>1, Constants, FS_Product DEF Crop
<1>3. QED BY <1>2, FS_Subset, FS_CardinalityType, FS_EmptySet

Positions(s, p) == {k \in DOMAIN s : s[k] = p}

LEMMA PositionsFinite ==
  \A T : \A s \in Seq(T) : \A p :
    /\ IsFiniteSet(Positions(s, p)) /\ Cardinality(Positions(s, p)) \in Nat
    /\ Cardinality(Positions(s, p)) = 0 <=> Positions(s, p) = {}
<1> TAKE T
<1> TAKE s \in Seq(T)
<1> TAKE p
<1>1. Len(s) \in Nat /\ DOMAIN s = 1 .. Len(s) BY LenProperties
<1>2. IsFiniteSet(1 .. Len(s)) BY <1>1, FS_Interval
<1>3. IsFiniteSet(Positions(s, p)) BY <1>1, <1>2, FS_Subset DEF Positions
<1>4. QED BY <1>3, FS_CardinalityType, FS_EmptySet

LEMMA PositionsAppend ==
  \A T : \A s \in Seq(T) : \A q \in T : \A p :
    Cardinality(Positions(Append(s, q), p)) =
      Cardinality(Positions(s, p)) + (IF p = q THEN 1 ELSE 0)
<1> TAKE T
<1> TAKE s \in Seq(T)
<1> TAKE q \in T
<1> TAKE p
<1>1. /\ Len(s) \in Nat /\ DOMAIN s = 1 .. Len(s)
      /\ DOMAIN Append(s, q) = 1 .. Len(s) + 1
      /\ \A k \in 1 .. Len(s) : Append(s, q)[k] = s[k]
      /\ Append(s, q)[Len(s) + 1] = q
  BY LenProperties, AppendProperties
<1>2. IsFiniteSet(Positions(s, p)) /\ Cardinality(Positions(s, p)) \in Nat BY PositionsFinite
<1>3. CASE p = q
  <2>1. Positions(Append(s, q), p) = Positions(s, p) \cup {Len(s) + 1}
    <3>1. \A k \in 1 .. Len(s) + 1 : k \in 1 .. Len(s) \/ k = Len(s) + 1 BY <1>1
    <3>2. \A k \in 1 .. Len(s) : k \in 1 .. Len(s) + 1 BY <1>1
    <3>3. Len(s) + 1 \in 1 .. Len(s) + 1 BY <1>1
    <3>4. QED BY <1>1, <1>3, <3>1, <3>2, <3>3 DEF Positions
  <2>2. Len(s) + 1 \notin Positions(s, p) BY <1>1 DEF Positions
  <2>3. QED BY <1>2, <1>3, <2>1, <2>2, FS_AddElement
<1>4. CASE p # q
  <2>1. Positions(Append(s, q), p) = Positions(s, p)
    <3>1. \A k \in 1 .. Len(s) + 1 : k \in 1 .. Len(s) \/ k = Len(s) + 1 BY <1>1
    <3>2. \A k \in 1 .. Len(s) : k \in 1 .. Len(s) + 1 BY <1>1
    <3>3. QED BY <1>1, <1>4, <3>1, <3>2 DEF Positions
  <2>2. QED BY <1>2, <1>4, <2>1
<1>5. QED BY <1>3, <1>4

LEMMA PositionsTail ==
  \A T : \A s \in Seq(T) : s # <<>> => \A p :
    Cardinality(Positions(Tail(s), p)) =
      Cardinality(Positions(s, p)) - (IF p = Head(s) THEN 1 ELSE 0)
<1> TAKE T
<1> TAKE s \in Seq(T)
<1> HAVE s # <<>>
<1> TAKE p
<1>1. /\ Len(s) \in Nat /\ Len(s) >= 1 /\ DOMAIN s = 1 .. Len(s) /\ Head(s) = s[1]
      /\ Tail(s) \in Seq(T) /\ DOMAIN Tail(s) = 1 .. Len(s) - 1
      /\ \A k \in 1 .. Len(s) - 1 : Tail(s)[k] = s[k + 1]
  BY LenProperties, HeadTailProperties, EmptySeq
<1> DEFINE A == Positions(Tail(s), p)
           B == Positions(s, p) \ {1}
           f == [k \in A |-> k + 1]
<1>2. /\ IsFiniteSet(A) /\ IsFiniteSet(Positions(s, p)) /\ IsFiniteSet(B)
      /\ Cardinality(Positions(s, p)) \in Nat
  BY <1>1, PositionsFinite, FS_Subset
<1>3. /\ \A k \in A : k \in 1 .. Len(s) - 1 /\ s[k + 1] = p
      /\ \A k \in 1 .. Len(s) - 1 : s[k + 1] = p => k \in A
  BY <1>1 DEF Positions
<1>4. B = {k \in 2 .. Len(s) : s[k] = p} BY <1>1 DEF Positions
<1>5. f \in Bijection(A, B)
  <2> HIDE DEF A, B
  <2>1. \A k \in A : k + 1 \in B BY <1>1, <1>3, <1>4
  <2>2. f \in [A -> B] BY <2>1
  <2>3. \A k, m \in A : f[k] = f[m] => k = m BY <1>3
  <2>4. \A b \in B : \E k \in A : f[k] = b
    <3> TAKE b \in B
    <3>1. b - 1 \in 1 .. Len(s) - 1 /\ s[(b - 1) + 1] = p BY <1>1, <1>4
    <3>2. b - 1 \in A BY <1>3, <3>1
    <3>3. f[b - 1] = b BY <1>4, <3>2
    <3>4. QED BY <3>2, <3>3
  <2>5. f \in Injection(A, B) /\ f \in Surjection(A, B)
    BY <2>2, <2>3, <2>4 DEF Injection, Surjection, IsInjective
  <2>6. QED BY <2>5 DEF Bijection
<1>6. Cardinality(A) = Cardinality(B)
  <2> HIDE DEF A, B, f
  <2>1. ExistsBijection(A, B) BY <1>5 DEF ExistsBijection
  <2>2. QED BY <1>2, <2>1, FS_Bijection
<1>7. CASE p = Head(s)
  <2>1. 1 \in Positions(s, p) BY <1>1, <1>7 DEF Positions
  <2>2. Cardinality(B) = Cardinality(Positions(s, p)) - 1 BY <1>2, <2>1, FS_RemoveElement
  <2>3. QED BY <1>2, <1>6, <1>7, <2>2
<1>8. CASE p # Head(s)
  <2>1. 1 \notin Positions(s, p) BY <1>1, <1>8 DEF Positions
  <2>2. B = Positions(s, p) BY <2>1
  <2>3. Cardinality(A) = Cardinality(Positions(s, p)) BY <1>6, <2>2
  <2> HIDE DEF A, B
  <2>4. QED BY <1>2, <1>8, <2>3 DEF A
<1>9. QED BY <1>7, <1>8

LEMMA FirstPosition ==
  \A T : \A s \in Seq(T) : s # <<>> =>
    1 \in Positions(s, Head(s)) /\ Head(s) \in T /\ Tail(s) \in Seq(T)
<1> TAKE T
<1> TAKE s \in Seq(T)
<1> HAVE s # <<>>
<1>1. /\ Len(s) \in Nat /\ Len(s) >= 1 /\ DOMAIN s = 1 .. Len(s) /\ Head(s) = s[1]
      /\ Tail(s) \in Seq(T) /\ Head(s) \in T
  BY LenProperties, HeadTailProperties, EmptySeq
<1>2. QED BY <1>1 DEF Positions

-----------------------------------------------------------------------------
(* How a step changes what is counted.                                     *)

LEMMA QueuedPositions ==
  /\ \A p : Queued(p) = Positions(queue, p)
  /\ \A p : Queued(p)' = Positions(queue', p)
  BY DEF Queued, Positions

LEMMA Counts ==
  ASSUME queue \in Seq(Page)
  PROVE  \A p :
           /\ {Cardinality(Queued(p)), Cardinality(Tasks(p)), Cardinality(Seekers(p)),
               Cardinality(Successors(p))} \subseteq Nat
           /\ Cardinality(Queued(p)) = 0 <=> Queued(p) = {}
           /\ Cardinality(Tasks(p)) = 0 <=> Tasks(p) = {}
           /\ IsFiniteSet(Tasks(p)) /\ IsFiniteSet(Seekers(p)) /\ IsFiniteSet(Successors(p))
<1>1. \A p : {Tasks(p), Seekers(p), Successors(p)} \subseteq SUBSET Agent
  BY DEF Tasks, Seekers, Successors, At, Agent
<1>2. QED BY <1>1, QueuedPositions, PositionsFinite, FiniteAgents

LEMMA AtKept ==
  ASSUME \A w \in BoxWorker : pc'[w] = pc[w] /\ onPage'[w] = onPage[w]
  PROVE  \A p : /\ Tasks(p)' = Tasks(p) /\ Seekers(p)' = Seekers(p)
                /\ Successors(p)' = Successors(p) /\ Insiders(p)' = Insiders(p)
                /\ Blamers(p)' = Blamers(p)
  BY DEF Tasks, Seekers, Successors, Insiders, Blamers, At

LEMMA OneChanged ==
  \A w, A, B : IsFiniteSet(A) /\ A \ {w} = B \ {w} =>
    Cardinality(B) = Cardinality(A) + (IF w \in B THEN 1 ELSE 0) - (IF w \in A THEN 1 ELSE 0)
<1> TAKE w, A, B
<1> HAVE IsFiniteSet(A) /\ A \ {w} = B \ {w}
<1> DEFINE R == A \ {w}
<1>1. /\ Cardinality(A) \in Nat /\ IsFiniteSet(R) /\ Cardinality(R) \in Nat /\ w \notin R
  BY FS_Subset, FS_CardinalityType
<1>2. Cardinality(R) = Cardinality(A) - (IF w \in A THEN 1 ELSE 0)
  <2>1. CASE w \in A BY <2>1, FS_RemoveElement
  <2>2. CASE w \notin A
    <3>1. R = A BY <2>2
    <3> HIDE DEF R
    <3>2. QED BY <1>1, <2>2, <3>1
  <2>3. QED BY <2>1, <2>2
<1>3. Cardinality(B) = Cardinality(R) + (IF w \in B THEN 1 ELSE 0)
  <2>1. CASE w \in B
    <3>1. B = R \cup {w} BY <2>1
    <3> HIDE DEF R
    <3>2. Cardinality(R \cup {w}) = Cardinality(R) + 1 BY <1>1, FS_AddElement
    <3>3. QED BY <2>1, <3>1, <3>2
  <2>2. CASE w \notin B
    <3>1. R = B BY <2>2
    <3> HIDE DEF R
    <3>2. QED BY <1>1, <2>2, <3>1
  <2>3. QED BY <2>1, <2>2
<1> HIDE DEF R
<1>4. QED BY <1>1, <1>2, <1>3

Bit(b) == IF b THEN 1 ELSE 0

\* One worker moves.
LEMMA WorkerMoved ==
  ASSUME queue \in Seq(Page), NEW w \in BoxWorker,
         \A v \in BoxWorker \ {w} : pc'[v] = pc[v] /\ onPage'[v] = onPage[v]
  PROVE  \A p :
    /\ Cardinality(Tasks(p)') = Cardinality(Tasks(p))
         + Bit(onPage'[w] = p /\ pc'[w] \in Counted) - Bit(onPage[w] = p /\ pc[w] \in Counted)
    /\ Cardinality(Seekers(p)') = Cardinality(Seekers(p))
         + Bit(onPage'[w] = p /\ pc'[w] \in Claimers) - Bit(onPage[w] = p /\ pc[w] \in Claimers)
    /\ Cardinality(Successors(p)') = Cardinality(Successors(p))
         + Bit(onPage'[w] = p /\ pc'[w] = "resubmit") - Bit(onPage[w] = p /\ pc[w] = "resubmit")
    /\ Seekers(p)' # {} <=> (onPage'[w] = p /\ pc'[w] \in Claimers) \/ Seekers(p) \ {w} # {}
    /\ Blamers(p)' # {} <=> (onPage'[w] = p /\ pc'[w] = "blame") \/ Blamers(p) \ {w} # {}
    /\ Insiders(p)' = {} <=> ~(onPage'[w] = p /\ pc'[w] \in Inside) /\ Insiders(p) \subseteq {w}
    /\ w \in Insiders(p) <=> onPage[w] = p /\ pc[w] \in Inside
    /\ w \in Seekers(p) <=> onPage[w] = p /\ pc[w] \in Claimers
    /\ w \in Blamers(p) <=> onPage[w] = p /\ pc[w] = "blame"
<1> TAKE p
<1>1. /\ w \in Tasks(p)' <=> (onPage'[w] = p /\ pc'[w] \in Counted)
      /\ w \in Tasks(p) <=> (onPage[w] = p /\ pc[w] \in Counted)
      /\ Tasks(p) \ {w} = Tasks(p)' \ {w}
  BY DEF Tasks, At
<1>2. /\ w \in Seekers(p)' <=> (onPage'[w] = p /\ pc'[w] \in Claimers)
      /\ w \in Seekers(p) <=> (onPage[w] = p /\ pc[w] \in Claimers)
      /\ Seekers(p) \ {w} = Seekers(p)' \ {w}
  BY DEF Seekers, At
<1>3. /\ w \in Successors(p)' <=> (onPage'[w] = p /\ pc'[w] = "resubmit")
      /\ w \in Successors(p) <=> (onPage[w] = p /\ pc[w] = "resubmit")
      /\ Successors(p) \ {w} = Successors(p)' \ {w}
  BY DEF Successors, At
<1>4. /\ w \in Blamers(p)' <=> (onPage'[w] = p /\ pc'[w] = "blame")
      /\ w \in Blamers(p) <=> (onPage[w] = p /\ pc[w] = "blame")
      /\ Blamers(p) \ {w} = Blamers(p)' \ {w}
  BY DEF Blamers, At
<1>5. /\ w \in Insiders(p)' <=> (onPage'[w] = p /\ pc'[w] \in Inside)
      /\ w \in Insiders(p) <=> (onPage[w] = p /\ pc[w] \in Inside)
      /\ Insiders(p) \ {w} = Insiders(p)' \ {w}
  BY DEF Insiders, At
<1>6. IsFiniteSet(Tasks(p)) /\ IsFiniteSet(Seekers(p)) /\ IsFiniteSet(Successors(p)) BY Counts
<1>7. /\ Cardinality(Tasks(p)') = Cardinality(Tasks(p))
           + (IF w \in Tasks(p)' THEN 1 ELSE 0) - (IF w \in Tasks(p) THEN 1 ELSE 0)
      /\ Cardinality(Seekers(p)') = Cardinality(Seekers(p))
           + (IF w \in Seekers(p)' THEN 1 ELSE 0) - (IF w \in Seekers(p) THEN 1 ELSE 0)
      /\ Cardinality(Successors(p)') = Cardinality(Successors(p))
           + (IF w \in Successors(p)' THEN 1 ELSE 0) - (IF w \in Successors(p) THEN 1 ELSE 0)
  BY <1>1, <1>2, <1>3, <1>6, OneChanged
<1>8. /\ Seekers(p)' # {} <=> w \in Seekers(p)' \/ Seekers(p) \ {w} # {}
      /\ Blamers(p)' # {} <=> w \in Blamers(p)' \/ Blamers(p) \ {w} # {}
      /\ Insiders(p)' = {} <=> w \notin Insiders(p)' /\ Insiders(p) \subseteq {w}
  BY <1>2, <1>4, <1>5
<1>9. QED BY <1>1, <1>2, <1>3, <1>4, <1>5, <1>7, <1>8 DEF Bit

LEMMA Workers ==
  ASSUME TypeInv
  PROVE  /\ \A p \in Page : WorkerCount(p) \in Nat /\ boxes[p] \in Nat /\ boxes[p] <= MaxBoxes
         /\ {RecordErrors, CanRefuse, Async, OwnThreads} \subseteq BOOLEAN
<1>1. \A p \in Page : boxes[p] \in Nat /\ boxes[p] <= MaxBoxes BY Constants DEF TypeInv
<1>2. \A p \in Page : WorkerCount(p) \in Nat BY <1>1, Constants DEF WorkerCount
<1>3. {RecordErrors, CanRefuse, Async, OwnThreads} \subseteq BOOLEAN
  BY Constants DEF TypeInv, RecordErrors, CanRefuse, Async, OwnThreads
<1>4. QED BY <1>1, <1>2, <1>3

LEMMA CountKept ==
  ASSUME UNCHANGED <<boxes, mode>>
  PROVE  /\ \A p : WorkerCount(p)' = WorkerCount(p)
         /\ RecordErrors' = RecordErrors /\ CanRefuse' = CanRefuse
         /\ Async' = Async /\ OwnThreads' = OwnThreads
  BY DEF WorkerCount, RecordErrors, CanRefuse, Async, OwnThreads

-----------------------------------------------------------------------------
(* A thread at work on a box, whatever it does to it.                      *)

Onward(a) == WorkPlaces \cup (IF a \in Page THEN {"drain"} ELSE IF OwnThreads THEN {"leave"} ELSE {"again"})

WorkMove(a, x) ==
  /\ pc[a] \in WorkPlaces /\ x \in Onward(a) /\ pc' = [pc EXCEPT ![a] = x]
  /\ x \in {"drain", "leave"} => Stopped(onPage[a]) \/ next[onPage[a]] >= boxes[onPage[a]]
  /\ \A p \in Page : /\ next'[p] \in Nat /\ next'[p] >= next[p]
                     /\ (stop[p] => stop'[p]) /\ (error[p] # "none" => error'[p] # "none")
  /\ UNCHANGED <<onPage, queue, outstanding, launched, thrown, result, cancel, boxes, mode,
                 stopping>>

\* A page somebody works on is open.
LEMMA AtWork ==
  ASSUME TypeInv, PlaceInv, TaskInv, ReasonInv, NEW a \in Agent, pc[a] \in WorkPlaces
  PROVE  /\ onPage[a] \in Page /\ pc[onPage[a]] \notin {"new", "drain", "returned"}
         /\ result[onPage[a]] = "none"
         /\ a \in Page \/ a \in BoxWorker
<1>1. CASE a \in Page
  <2>1. onPage[a] = a BY <1>1 DEF PlaceInv
  <2>2. QED BY <1>1, <2>1 DEF ReasonInv, ReasonOf, WorkPlaces
<1>2. CASE a \in BoxWorker
  <2>1. onPage[a] \in Page BY <1>2 DEF PlaceInv, WorkPlaces, Idle
  <2>2. PICK p \in Page : p = onPage[a] BY <2>1
  <2>3. a \in Insiders(p) BY <1>2, <2>2 DEF Insiders, At, Inside, Counted, Claimers
  <2>4. pc[p] \notin Alone BY <2>3 DEF TaskInv, TasksOf, Clean
  <2>5. QED BY <1>2, <2>2, <2>4 DEF Alone, ReasonInv, ReasonOf
<1>3. QED BY <1>1, <1>2 DEF Agent

LEMMA WorkKeepsPlaces ==
  ASSUME TypeInv, PlaceInv, NEW a \in Agent, NEW x, WorkMove(a, x)
  PROVE  PlaceInv'
<1>1. OwnThreads' = OwnThreads BY DEF WorkMove, OwnThreads
<1>2. ~stopping BY DEF WorkMove, PlaceInv, WorkPlaces
<1>3. \A b \in Agent : pc'[b] = IF b = a THEN x ELSE pc[b] BY DEF WorkMove, TypeInv
<1>4. x \in WorkPlaces \cup {"drain", "leave", "again"} BY DEF WorkMove, Onward
<1>5. \A w \in BoxWorker : w \notin Page /\ w \in Agent BY Constants DEF Agent
<1>6. \A p \in Page : p \in Agent BY DEF Agent
<1>7. \A p \in Page : onPage'[p] = p BY DEF WorkMove, PlaceInv
<1>8. \A w \in BoxWorker : pc'[w] \notin Idle => onPage'[w] \in Page
  BY <1>3, <1>5 DEF WorkMove, PlaceInv, Idle, WorkPlaces
<1>9. a \in BoxWorker => /\ OwnThreads => x \notin {"again", "resubmit", "blame", "count", "notify"}
                         /\ ~OwnThreads => x # "leave"
  BY <1>5 DEF WorkMove, Onward, WorkPlaces
<1>10. OwnThreads =>
         /\ queue' = <<>>
         /\ \A p \in Page : pc'[p] \notin {"launch", "push", "abort", "check", "asleep"}
         /\ \A w \in BoxWorker : pc'[w] \notin {"again", "resubmit", "blame", "count", "notify"}
  <2> HAVE OwnThreads
  <2>1. queue' = <<>> BY DEF WorkMove, PlaceInv
  <2>2. \A p \in Page : pc'[p] \notin {"launch", "push", "abort", "check", "asleep"}
    BY <1>3, <1>4, <1>6 DEF PlaceInv, WorkPlaces
  <2>3. \A w \in BoxWorker : pc'[w] \notin {"again", "resubmit", "blame", "count", "notify"}
    BY <1>3, <1>5, <1>9 DEF PlaceInv
  <2>4. QED BY <2>1, <2>2, <2>3
<1>11. ~OwnThreads => /\ \A p \in Page : pc'[p] \notin {"spawn", "join"}
                      /\ \A w \in BoxWorker : pc'[w] # "leave"
  <2> HAVE ~OwnThreads
  <2>1. \A p \in Page : pc'[p] \notin {"spawn", "join"}
    BY <1>3, <1>4, <1>6 DEF PlaceInv, WorkPlaces
  <2>2. \A w \in BoxWorker : pc'[w] # "leave" BY <1>3, <1>5, <1>9 DEF PlaceInv
  <2>3. QED BY <2>1, <2>2
<1>12. ~stopping' BY <1>2 DEF WorkMove
<1>13. QED BY <1>1, <1>7, <1>8, <1>10, <1>11, <1>12 DEF PlaceInv

\* The page's own thread at work: the tasks stay as they are.
LEMMA PageWorkKeepsTasks ==
  ASSUME TypeInv, PlaceInv, TaskInv, ProgressInv, NEW a \in Page, NEW x, WorkMove(a, x)
  PROVE  TaskInv' /\ ProgressInv'
<1>1. /\ \A b \in Agent : pc'[b] = IF b = a THEN x ELSE pc[b]
      /\ \A p : /\ Tasks(p)' = Tasks(p) /\ Seekers(p)' = Seekers(p)
                /\ Successors(p)' = Successors(p) /\ Insiders(p)' = Insiders(p)
                /\ Queued(p)' = Queued(p)
      /\ x \in WorkPlaces \cup {"drain"} /\ onPage[a] = a
  <2>1. \A b \in Agent : pc'[b] = IF b = a THEN x ELSE pc[b] BY DEF WorkMove, TypeInv
  <2>2. \A w \in BoxWorker : pc'[w] = pc[w] /\ onPage'[w] = onPage[w]
    BY <2>1, Constants DEF WorkMove, Agent
  <2>3. \A p : Queued(p)' = Queued(p) BY DEF Queued, WorkMove
  <2>4. QED BY <2>1, <2>2, <2>3, AtKept DEF WorkMove, Onward, PlaceInv
<1>2. \A p \in Page : pc'[p] = IF p = a THEN x ELSE pc[p] BY <1>1 DEF Agent
<1>3. /\ OwnThreads' = OwnThreads /\ \A p \in Page : WorkerCount(p)' = WorkerCount(p)
      /\ outstanding' = outstanding /\ launched' = launched /\ boxes' = boxes /\ thrown' = thrown
  BY CountKept DEF WorkMove
<1>4. \A p \in Page : Clean(p)' <=> Clean(p) BY <1>1 DEF Clean
<1>5. pc[a] \in WorkPlaces /\ a \in Page BY DEF WorkMove
<1>6. ASSUME NEW p \in Page PROVE TasksOf(p)'
  <2>1. Pushing(p)' = Pushing(p) BY <1>1, <1>2, <1>5 DEF Pushing, WorkPlaces
  <2>2. pc'[p] # pc[p] => pc[p] \in Alone /\ pc'[p] \notin {"push", "launch", "spawn"}
    BY <1>1, <1>2, <1>5 DEF Alone, WorkPlaces
  <2>3. TasksOf(p) BY DEF TaskInv
  <2>4. pc'[p] \in Alone => Clean(p)' BY <1>4, <2>2, <2>3 DEF TasksOf
  <2>5. QED BY <1>1, <1>3, <2>1, <2>2, <2>3, <2>4 DEF TasksOf
<1>7. ASSUME NEW p \in Page PROVE Progress(p)'
  <2>1. /\ next'[p] \in Nat /\ next[p] \in Nat /\ next'[p] >= next[p] /\ boxes[p] \in Nat
        /\ (Stopped(p) => Stopped(p)') /\ (stop[p] => stop'[p]) /\ Progress(p)
    BY Workers DEF WorkMove, TypeInv, Stopped, ProgressInv
  <2>2. next'[p] < boxes[p] => next[p] < boxes[p] BY <2>1
  <2>3. next[p] >= boxes[p] => next'[p] >= boxes[p] BY <2>1
  <2>4. pc'[p] = "drain" => next[p] >= boxes[p] \/ Stopped(p)
    <3>1. CASE p = a BY <1>1, <1>2, <3>1 DEF WorkMove
    <3>2. CASE p # a BY <1>2, <2>1, <3>2 DEF Progress
    <3>3. QED BY <3>1, <3>2
  <2>5. pc'[p] \in {"check", "asleep", "join", "abort"} => pc'[p] = pc[p]
    BY <1>1, <1>2 DEF WorkPlaces
  <2>6. QED BY <1>1, <1>3, <2>1, <2>2, <2>3, <2>4, <2>5 DEF Progress
<1>8. QED BY <1>6, <1>7 DEF TaskInv, ProgressInv

\* A task or a thread the page has started.
LEMMA WorkerWorkKeepsTasks ==
  ASSUME TypeInv, PlaceInv, TaskInv, ProgressInv, NEW a \in BoxWorker, NEW x, WorkMove(a, x)
  PROVE  TaskInv' /\ ProgressInv'
<1>1. /\ \A b \in Agent : pc'[b] = IF b = a THEN x ELSE pc[b]
      /\ onPage' = onPage /\ a \in Agent /\ a \notin Page /\ pc[a] \in WorkPlaces
      /\ \A p : Queued(p)' = Queued(p)
      /\ x \in WorkPlaces \cup (IF OwnThreads THEN {"leave"} ELSE {"again"})
  <2>1. \A b \in Agent : pc'[b] = IF b = a THEN x ELSE pc[b] BY DEF WorkMove, TypeInv
  <2>2. \A p : Queued(p)' = Queued(p) BY DEF Queued, WorkMove
  <2>3. a \in Agent /\ a \notin Page BY Constants DEF Agent
  <2>4. QED BY <2>1, <2>2, <2>3 DEF WorkMove, Onward
<1>2. /\ \A p \in Page : pc'[p] = pc[p]
      /\ \A v \in BoxWorker \ {a} : pc'[v] = pc[v] /\ onPage'[v] = onPage[v]
      /\ pc'[a] = x /\ onPage'[a] = onPage[a] /\ queue \in Seq(Page)
  BY <1>1 DEF Agent, TypeInv
<1>3. /\ OwnThreads' = OwnThreads /\ \A p \in Page : WorkerCount(p)' = WorkerCount(p)
      /\ outstanding' = outstanding /\ launched' = launched /\ boxes' = boxes /\ thrown' = thrown
  BY CountKept DEF WorkMove
<1>4. \A p :
        /\ Cardinality(Tasks(p)') = Cardinality(Tasks(p))
             + Bit(onPage[a] = p /\ x \in Counted) - Bit(onPage[a] = p /\ pc[a] \in Counted)
        /\ Cardinality(Seekers(p)') = Cardinality(Seekers(p))
             + Bit(onPage[a] = p /\ x \in Claimers) - Bit(onPage[a] = p /\ pc[a] \in Claimers)
        /\ Cardinality(Successors(p)') = Cardinality(Successors(p))
             + Bit(onPage[a] = p /\ x = "resubmit") - Bit(onPage[a] = p /\ pc[a] = "resubmit")
        /\ Seekers(p)' # {} <=> (onPage[a] = p /\ x \in Claimers) \/ Seekers(p) \ {a} # {}
        /\ Insiders(p)' = {} <=> ~(onPage[a] = p /\ x \in Inside) /\ Insiders(p) \subseteq {a}
        /\ a \in Insiders(p) <=> onPage[a] = p /\ pc[a] \in Inside
        /\ a \in Seekers(p) <=> onPage[a] = p /\ pc[a] \in Claimers
  BY <1>2, WorkerMoved
<1>5. \A p : {Cardinality(Queued(p)), Cardinality(Tasks(p)), Cardinality(Seekers(p)),
               Cardinality(Successors(p))} \subseteq Nat
  BY <1>2, Counts
<1>6. ASSUME NEW p \in Page PROVE TasksOf(p)'
  <2>1. Pushing(p)' = Pushing(p) BY <1>2 DEF Pushing
  <2>2. ~OwnThreads => Cardinality(Tasks(p)') = Cardinality(Tasks(p))
    <3>1. ~OwnThreads => pc[a] \in Counted /\ x \in Counted BY <1>1 DEF Counted, Claimers
    <3>2. QED BY <1>4, <1>5, <3>1 DEF Bit
  <2>3. ~OwnThreads => Cardinality(Successors(p)') = Cardinality(Successors(p))
    <3>1. ~OwnThreads => pc[a] # "resubmit" /\ x # "resubmit" BY <1>1 DEF WorkPlaces
    <3>2. QED BY <1>4, <1>5, <3>1 DEF Bit
  <2>4. Cardinality(Seekers(p)') <= Cardinality(Seekers(p)) /\ Cardinality(Seekers(p)') \in Int
    <3>1. pc[a] \in Claimers BY <1>1 DEF Claimers
    <3>2. QED BY <1>4, <1>5, <3>1 DEF Bit
  <2>5. TasksOf(p) /\ launched[p] \in Nat BY DEF TaskInv, TypeInv
  <2>6. pc[p] \in Alone => Clean(p)'
    <3> SUFFICES ASSUME pc[p] \in Alone PROVE Clean(p)' OBVIOUS
    <3>1. Clean(p) BY <2>5 DEF TasksOf
    <3>2. pc[a] \in Inside BY <1>1 DEF Inside, Counted, Claimers
    <3>3. QED BY <1>1, <1>4, <3>1, <3>2 DEF Clean
  <2>7. /\ Cardinality(Queued(p)) + Cardinality(Seekers(p)) <= launched[p]
        /\ Cardinality(Queued(p)') = Cardinality(Queued(p))
    BY <1>1, <2>5 DEF TasksOf
  <2>8. Cardinality(Queued(p)') + Cardinality(Seekers(p)') <= launched[p]
    BY <1>5, <2>4, <2>5, <2>7
  <2>9. ~OwnThreads =>
          outstanding[p] = Cardinality(Queued(p)') + Cardinality(Tasks(p)')
                             + Cardinality(Successors(p)') + Pushing(p)'
    BY <2>1, <2>2, <2>3, <2>5, <2>7 DEF TasksOf
  <2>10. /\ launched[p] <= WorkerCount(p)
         /\ pc[p] = "push" => launched[p] < WorkerCount(p)
         /\ pc[p] \in {"launch", "push", "spawn"} => WorkerCount(p) > 1
    BY <2>5 DEF TasksOf
  <2>11. QED BY <1>2, <1>3, <2>6, <2>8, <2>9, <2>10 DEF TasksOf
<1>7. ASSUME NEW p \in Page PROVE Progress(p)'
  <2>1. /\ next'[p] \in Nat /\ next[p] \in Nat /\ next'[p] >= next[p] /\ boxes[p] \in Nat
        /\ (Stopped(p) => Stopped(p)') /\ (stop[p] => stop'[p]) /\ Progress(p)
    BY Workers DEF WorkMove, TypeInv, Stopped, ProgressInv
  <2>2. next'[p] < boxes[p] => next[p] < boxes[p] BY <2>1
  <2>3. next[p] >= boxes[p] => next'[p] >= boxes[p] BY <2>1
  <2>4. Seekers(p) # {} => Seekers(p)' # {} \/ Stopped(p) \/ next[p] >= boxes[p]
    <3>1. CASE x \in Claimers BY <1>1, <1>4, <3>1 DEF Claimers
    <3>2. CASE x \notin Claimers
      <4>1. x = "leave" BY <1>1, <3>2 DEF Claimers
      <4>2. CASE onPage[a] = p BY <4>1, <4>2 DEF WorkMove
      <4>3. CASE onPage[a] # p BY <1>4, <4>3
      <4>4. QED BY <4>2, <4>3
    <3>3. QED BY <3>1, <3>2
  <2>5. launched[p] > 0 /\ next'[p] < boxes[p] /\ ~Stopped(p)' =>
             Queued(p)' # {} \/ Seekers(p)' # {}
    BY <1>1, <2>1, <2>2, <2>4 DEF Progress
  <2>6. QED BY <1>2, <1>3, <2>1, <2>3, <2>5 DEF Progress
<1>8. QED BY <1>6, <1>7 DEF TaskInv, ProgressInv

LEMMA WorkKeeps ==
  ASSUME TypeInv, PlaceInv, TaskInv, ProgressInv, NEW a \in Agent, NEW x, WorkMove(a, x)
  PROVE  PlaceInv' /\ TaskInv' /\ ProgressInv'
  BY WorkKeepsPlaces, PageWorkKeepsTasks, WorkerWorkKeepsTasks DEF Agent

-----------------------------------------------------------------------------
(* What other threads' steps leave alone.                                  *)

LEMMA BoxSame ==
  ASSUME NEW p \in Page, NEW i \in Nat, BoxOf(p, i), box'[p][i] = box[p][i], mode' = mode,
         box[p][i] = "todo" => i > next'[p],
         error[p] # "none" => error'[p] # "none",
         \A b \in Agent : onPage[b] = p /\ index[b] = i /\ pc[b] \in Holding =>
           onPage'[b] = p /\ index'[b] = i /\ pc'[b] = pc[b],
         stage[<<p, i>>] \in {"queued", "running"} => stage'[<<p, i>>] \in {"queued", "running"},
         stage[<<p, i>>] = "running" => stage'[<<p, i>>] = "running"
  PROVE  BoxOf(p, i)'
<1>1. /\ Holds(p, i, {"box"}) => Holds(p, i, {"box"})'
      /\ Holds(p, i, {"recognize", "admit"}) => Holds(p, i, {"recognize", "admit"})'
      /\ Holds(p, i, {"infer"}) => Holds(p, i, {"infer"})'
  BY DEF Holds, Holding
<1>2. QED BY <1>1 DEF BoxOf, RecordErrors

LEMMA WaitSame ==
  ASSUME NEW p \in Page, NEW i \in Nat, WaitOf(p, i),
         stage'[<<p, i>>] \in {"waiting", "withdrawn"} => stage'[<<p, i>>] = stage[<<p, i>>],
         Stopped(p) => Stopped(p)',
         \A b \in Agent : onPage[b] = p /\ index[b] = i /\ pc[b] = "admit" =>
           onPage'[b] = p /\ index'[b] = i /\ pc'[b] = "admit"
  PROVE  WaitOf(p, i)'
<1>1. Holds(p, i, {"admit"}) => Holds(p, i, {"admit"})' BY DEF Holds
<1>2. QED BY <1>1 DEF WaitOf

LEMMA QueuedSame ==
  ASSUME QueuedOnce, TypeInv, tasks' = tasks,
         \A c \in Crop : stage[c] = "queued" => stage'[c] = "queued"
  PROVE  QueuedOnce'
<1>1. \A k \in 1 .. Len(tasks) : tasks[k] \in Crop BY LenProperties DEF TypeInv
<1>2. QED BY <1>1 DEF QueuedOnce

LEMMA PendCounts ==
  \A p : /\ IsFiniteSet(InPool(p)) /\ Cardinality(InPool(p)) \in Nat
         /\ Cardinality(InPool(p)) = 0 <=> InPool(p) = {}
         /\ IsFiniteSet(Submitting(p)) /\ Cardinality(Submitting(p)) \in Nat
         /\ Cardinality(Submitting(p)) = 0 <=> Submitting(p) = {}
<1>1. \A p : InPool(p) \in SUBSET Crop /\ Submitting(p) \in SUBSET Agent BY DEF InPool, Submitting
<1>2. QED BY <1>1, FiniteCrops, FiniteAgents

LEMMA SubmitterMoved ==
  ASSUME NEW a \in Agent, \A b \in Agent \ {a} : pc'[b] = pc[b] /\ onPage'[b] = onPage[b]
  PROVE  \A p : Cardinality(Submitting(p)') = Cardinality(Submitting(p))
           + Bit(onPage'[a] = p /\ pc'[a] = "admit") - Bit(onPage[a] = p /\ pc[a] = "admit")
<1> TAKE p
<1>1. /\ a \in Submitting(p)' <=> (onPage'[a] = p /\ pc'[a] = "admit")
      /\ a \in Submitting(p) <=> (onPage[a] = p /\ pc[a] = "admit")
      /\ Submitting(p) \ {a} = Submitting(p)' \ {a}
  BY DEF Submitting
<1>2. Cardinality(Submitting(p)') = Cardinality(Submitting(p))
        + (IF a \in Submitting(p)' THEN 1 ELSE 0) - (IF a \in Submitting(p) THEN 1 ELSE 0)
  BY <1>1, PendCounts, OneChanged
<1>3. QED BY <1>1, <1>2 DEF Bit

LEMMA CropMoved ==
  ASSUME NEW c \in Crop, \A d \in Crop \ {c} : stage'[d] = stage[d]
  PROVE  \A p : Cardinality(InPool(p)') = Cardinality(InPool(p))
           + Bit(c[1] = p /\ stage'[c] \in PoolStages) - Bit(c[1] = p /\ stage[c] \in PoolStages)
<1> TAKE p
<1>1. /\ c \in InPool(p)' <=> (c[1] = p /\ stage'[c] \in PoolStages)
      /\ c \in InPool(p) <=> (c[1] = p /\ stage[c] \in PoolStages)
      /\ InPool(p) \ {c} = InPool(p)' \ {c}
  BY DEF InPool
<1>2. Cardinality(InPool(p)') = Cardinality(InPool(p))
        + (IF c \in InPool(p)' THEN 1 ELSE 0) - (IF c \in InPool(p) THEN 1 ELSE 0)
  BY <1>1, PendCounts, OneChanged
<1>3. QED BY <1>1, <1>2 DEF Bit

\* A step that no crop and no thread inside a box takes part in.
LEMMA ControlKeeps ==
  ASSUME TypeInv, HoldInv, BoxInv, CropInv, PendInv,
         UNCHANGED <<box, next, stage, tasks, crop, pending, boxes, mode>>,
         \A a \in Agent : pc'[a] \in Holding \/ pc[a] \in Holding =>
           pc'[a] = pc[a] /\ onPage'[a] = onPage[a] /\ index'[a] = index[a],
         \A p \in Page : /\ error[p] # "none" => error'[p] # "none"
                         /\ Stopped(p) => Stopped(p)'
                         /\ pc'[p] \in {"new", "returned"} => pending[p] = 0
  PROVE  HoldInv' /\ BoxInv' /\ CropInv' /\ PendInv'
<1>1. HoldInv' BY DEF HoldInv
<1>2. ASSUME NEW p \in Page, NEW i \in 1 .. boxes[p] PROVE BoxOf(p, i)'
  <2>1. BoxOf(p, i) /\ i \in Nat BY Workers DEF BoxInv
  <2>2. \A b \in Agent : onPage[b] = p /\ index[b] = i /\ pc[b] \in Holding =>
           onPage'[b] = p /\ index'[b] = i /\ pc'[b] = pc[b]
    OBVIOUS
  <2>3. box[p][i] = "todo" => i > next'[p] BY <2>1 DEF BoxOf
  <2>4. QED BY <2>1, <2>2, <2>3, BoxSame
<1>3. ASSUME NEW p \in Page, NEW i \in 1 .. MaxBoxes PROVE WaitOf(p, i)'
  <2>1. WaitOf(p, i) /\ i \in Nat BY Constants DEF CropInv
  <2>2. \A b \in Agent : onPage[b] = p /\ index[b] = i /\ pc[b] = "admit" =>
           onPage'[b] = p /\ index'[b] = i /\ pc'[b] = "admit"
    BY DEF Holding
  <2>3. QED BY <2>1, <2>2, WaitSame
<1>4. QueuedOnce' BY QueuedSame DEF CropInv
<1>5. ASSUME NEW p \in Page PROVE PendOf(p)'
  <2>1. InPool(p)' = InPool(p) BY DEF InPool
  <2>2. Submitting(p)' = Submitting(p) BY DEF Submitting, Holding
  <2>3. PendOf(p) BY DEF PendInv
  <2>4. QED BY <2>1, <2>2, <2>3 DEF PendOf
<1>6. QED BY <1>1, <1>2, <1>3, <1>4, <1>5 DEF BoxInv, CropInv, PendInv

-----------------------------------------------------------------------------
(* The steps of a thread at work on a box.                                 *)

LEMMA WorkOthers ==
  ASSUME TypeInv, PlaceInv, NEW a \in Agent, NEW x, WorkMove(a, x)
  PROVE  /\ \A b \in Agent \ {a} : pc'[b] = pc[b] /\ onPage'[b] = onPage[b]
         /\ pc'[a] = x /\ onPage'[a] = onPage[a]
         /\ \A p \in Page : p # a => pc'[p] = pc[p]
         /\ \A p \in Page : (pc'[p] \in {"new", "returned"}) <=> (pc[p] \in {"new", "returned"})
         /\ \A p \in Page : (pc'[p] = "returned") <=> (pc[p] = "returned")
         /\ \A p : Blamers(p)' = Blamers(p)
         /\ \A p : WorkerCount(p)' = WorkerCount(p)
         /\ RecordErrors' = RecordErrors /\ CanRefuse' = CanRefuse
         /\ Async' = Async /\ OwnThreads' = OwnThreads
<1>1. \A b \in Agent : pc'[b] = IF b = a THEN x ELSE pc[b] BY DEF WorkMove, TypeInv
<1>2. onPage' = onPage /\ pc[a] \in WorkPlaces /\ x \in WorkPlaces \cup {"drain", "leave", "again"}
  BY DEF WorkMove, Onward
<1>3. x # "blame" /\ pc[a] # "blame" /\ x \notin {"new", "returned"} /\ pc[a] \notin {"new", "returned"}
  BY <1>2 DEF WorkPlaces
<1>4. \A p \in Page : p \in Agent BY DEF Agent
<1>5. \A p : Blamers(p)' = Blamers(p)
  <2> TAKE p
  <2>1. \A w \in BoxWorker : w \in Agent BY DEF Agent
  <2>2. \A w \in BoxWorker : (pc'[w] = "blame") <=> (pc[w] = "blame") BY <1>1, <1>3, <2>1
  <2>3. QED BY <1>2, <2>2 DEF Blamers, At
<1>6. QED BY <1>1, <1>2, <1>3, <1>4, <1>5, CountKept DEF WorkMove

LEMMA WorkTypes ==
  ASSUME TypeInv, PlaceInv, NEW a \in Agent, NEW x, WorkMove(a, x),
         index' \in [Agent -> Nat], next' \in [Page -> Nat], pending' \in [Page -> Int],
         stop' \in [Page -> BOOLEAN], error' \in [Page -> {"none", "failed", "cancelled"}],
         DOMAIN box' = Page, \A p \in Page : box'[p] \in [1 .. boxes[p] -> BoxStates],
         stage' \in [Crop -> Pool!Stages], tasks' \in Seq(Crop), crop' = crop
  PROVE  TypeInv'
<1>1. /\ pc' = [pc EXCEPT ![a] = x]
      /\ UNCHANGED <<onPage, queue, outstanding, launched, thrown, result, cancel, boxes, mode>>
      /\ x \in Onward(a)
  BY DEF WorkMove
<1>2. /\ a \in Page => x \in PagePlaces
      /\ a \in BoxWorker => x \in WorkerPlaces
  BY <1>1, Constants DEF Onward, PagePlaces, WorkerPlaces
<1>3. /\ pc' \in [Agent -> PagePlaces \cup WorkerPlaces]
      /\ \A p \in Page : pc'[p] \in PagePlaces
      /\ \A w \in BoxWorker : pc'[w] \in WorkerPlaces
  BY <1>1, <1>2 DEF TypeInv, Agent
<1>4. QED BY <1>1, <1>3 DEF TypeInv

LEMMA StoppedExcuse ==
  ASSUME PlaceInv, NEW p \in Page, ReasonOf(p), Stopped(p), error[p] = "none"
  PROVE  Excused(p)
<1>1. CASE cancel[p] BY <1>1 DEF Excused
<1>2. CASE thrown[p] BY <1>2 DEF Excused
<1>3. CASE stop[p] /\ ~thrown[p]
  <2>1. Blamers(p) # {} BY <1>3 DEF ReasonOf
  <2>2. PICK w \in BoxWorker : pc[w] = "blame" BY <2>1 DEF Blamers, At
  <2>3. ~OwnThreads BY <2>2 DEF PlaceInv
  <2>4. CanRefuse BY <2>1 DEF ReasonOf
  <2>5. QED BY <2>3, <2>4 DEF Excused
<1>4. QED BY <1>1, <1>2, <1>3 DEF Stopped

\* What a thread does to its box is a reason its page has.
LEMMA WorkReason ==
  ASSUME TypeInv, PlaceInv, TaskInv, ReasonInv, NEW a \in Agent, NEW x, WorkMove(a, x),
         NEW p \in Page, p = onPage[a],
         \A q \in Page \ {p} : box'[q] = box[q] /\ stop'[q] = stop[q] /\ error'[q] = error[q],
         \/ stop'[p] = stop[p] /\ error'[p] = error[p]
         \/ error'[p] # "none" /\ (error'[p] = "cancelled" => error[p] = "cancelled" \/ Excused(p))
  PROVE  ReasonInv'
<1>1. /\ \A q \in Page : (pc'[q] = "returned") <=> (pc[q] = "returned")
      /\ \A q : Blamers(q)' = Blamers(q)
      /\ RecordErrors' = RecordErrors /\ CanRefuse' = CanRefuse /\ OwnThreads' = OwnThreads
      /\ thrown' = thrown /\ cancel' = cancel /\ result' = result /\ boxes' = boxes
  BY WorkOthers DEF WorkMove
<1>2. \A q \in Page : Excused(q)' <=> Excused(q) BY <1>1 DEF Excused
<1>3. result[p] = "none"
  <2>1. pc[a] \in WorkPlaces BY DEF WorkMove
  <2>2. QED BY <2>1, AtWork
<1>4. ASSUME NEW q \in Page, q # p PROVE ReasonOf(q)'
  <2>1. ReasonOf(q) /\ box'[q] = box[q] /\ stop'[q] = stop[q] /\ error'[q] = error[q]
    BY <1>4 DEF ReasonInv
  <2>2. ReportOf(q)' BY <1>1, <2>1 DEF ReportOf, ReasonOf
  <2>3. QED BY <1>1, <1>2, <2>1, <2>2 DEF ReasonOf
<1>5. ReasonOf(p)'
  <2>1. ReasonOf(p) BY DEF ReasonInv
  <2>2. ReportOf(p)' BY <1>1, <1>3 DEF ReportOf
  <2>3. (stop[p] => error[p] # "none" \/ thrown[p] \/ Blamers(p) # {})
        /\ (thrown[p] \/ Blamers(p) # {} => CanRefuse)
        /\ (error[p] = "cancelled" => Excused(p))
    BY <2>1 DEF ReasonOf
  <2>4. CASE stop'[p] = stop[p] /\ error'[p] = error[p]
    BY <1>1, <1>2, <1>3, <2>2, <2>3, <2>4 DEF ReasonOf
  <2>5. CASE error'[p] # "none" /\ (error'[p] = "cancelled" => error[p] = "cancelled" \/ Excused(p))
    BY <1>1, <1>2, <1>3, <2>2, <2>3, <2>5 DEF ReasonOf
  <2>6. QED BY <2>4, <2>5
<1>6. QED BY <1>4, <1>5 DEF ReasonInv

\* Between two boxes: Begin, and Claim when there is none left.
LEMMA LookStep ==
  ASSUME IInv, NEW a \in Agent, Begin(a) \/ (Claim(a) /\ next[onPage[a]] >= boxes[onPage[a]])
  PROVE  IInv'
<1> USE DEF IInv
<1>1. pc[a] \in {"begin", "claim"} /\ pc[a] \in WorkPlaces BY DEF Begin, Claim, WorkPlaces
<1>2. onPage[a] \in Page /\ (a \in Page \/ a \in BoxWorker) BY <1>1, AtWork
<1>3. PICK p \in Page : p = onPage[a] BY <1>2
<1>4. next[p] \in Nat /\ boxes[p] \in Nat BY Workers DEF TypeInv
<1>5. PICK x : x = pc'[a] OBVIOUS
<1>6. /\ pc' = [pc EXCEPT ![a] = x] /\ (x = "claim" \/ x = NoMore(a))
      /\ x = NoMore(a) => Stopped(p) \/ next[p] >= boxes[p]
      /\ next' = next \/ next' = [next EXCEPT ![p] = @ + 1]
      /\ UNCHANGED <<onPage, index, queue, outstanding, launched, thrown, result, cancel, boxes,
                     mode, stop, error, box, pending, stage, tasks, crop, stopping>>
  <2>1. CASE Begin(a)
    <3>1. pc' = [pc EXCEPT ![a] = IF ~Stopped(p) THEN "claim" ELSE NoMore(a)]
      BY <1>3, <2>1 DEF Begin, Goto
    <3>2. x = IF ~Stopped(p) THEN "claim" ELSE NoMore(a) BY <1>5, <3>1 DEF TypeInv
    <3>3. NoMore(a) # "claim" BY DEF NoMore
    <3>4. QED BY <2>1, <3>1, <3>2, <3>3 DEF Begin, frameVars, endVars, control, poolVars
  <2>2. CASE Claim(a) /\ next[onPage[a]] >= boxes[onPage[a]]
    <3>1. ~(next[p] < boxes[p]) BY <1>3, <1>4, <2>2
    <3>2. pc' = [pc EXCEPT ![a] = NoMore(a)] /\ next' = [next EXCEPT ![p] = @ + 1]
          /\ UNCHANGED <<onPage, index, box>>
      BY <1>3, <2>2, <3>1 DEF Claim, Goto
    <3>3. x = NoMore(a) BY <1>5, <3>2 DEF TypeInv
    <3>4. QED BY <1>3, <2>2, <3>2, <3>3 DEF Claim, endVars, control, poolVars
  <2>3. QED BY <2>1, <2>2
<1>7. /\ next' \in [Page -> Nat]
      /\ \A q \in Page : next'[q] >= next[q] /\ (q # p => next'[q] = next[q])
  <2>1. CASE next' = next BY <2>1 DEF TypeInv
  <2>2. CASE next' = [next EXCEPT ![p] = @ + 1] BY <1>4, <2>2 DEF TypeInv
  <2>3. QED BY <1>6, <2>1, <2>2
<1>8. WorkMove(a, x)
  <2>1. x \in Onward(a) /\ (x \in {"drain", "leave"} => x = NoMore(a))
    BY <1>2, <1>6, Constants DEF Onward, NoMore, WorkPlaces
  <2>2. QED BY <1>1, <1>3, <1>6, <1>7, <2>1 DEF WorkMove
<1>9. TypeInv' BY <1>6, <1>7, <1>8, WorkTypes DEF TypeInv
<1>10. PlaceInv' /\ TaskInv' /\ ProgressInv' BY <1>8, WorkKeeps
<1>11. ReasonInv' BY <1>3, <1>6, <1>8, WorkReason
<1>12. /\ \A b \in Agent \ {a} : pc'[b] = pc[b]
       /\ pc'[a] = x /\ x \notin Holding /\ pc[a] \notin Holding
       /\ \A q \in Page : (pc'[q] \in {"new", "returned"}) <=> (pc[q] \in {"new", "returned"})
  BY <1>1, <1>6, <1>8, WorkOthers DEF Holding, NoMore
<1>13. HoldInv' BY <1>6, <1>12 DEF HoldInv
<1>14. ASSUME NEW q \in Page, NEW i \in 1 .. boxes[q] PROVE BoxOf(q, i)'
  <2>1. BoxOf(q, i) /\ i \in Nat BY Workers DEF BoxInv
  <2>2. \A b \in Agent : onPage[b] = q /\ index[b] = i /\ pc[b] \in Holding =>
           onPage'[b] = q /\ index'[b] = i /\ pc'[b] = pc[b]
    BY <1>6, <1>12
  <2>3. box[q][i] = "todo" => i > next[q] BY <2>1 DEF BoxOf
  <2>4. next'[q] # next[q] => q = p /\ next[p] >= boxes[p]
    <3>1. next'[q] # next[q] => q = p /\ next' # next BY <1>7
    <3>2. Begin(a) => next' = next BY DEF Begin, frameVars
    <3>3. QED BY <1>3, <3>1, <3>2
  <2>5. boxes[q] \in Nat /\ next[q] \in Nat BY Workers DEF TypeInv
  <2>6. box[q][i] = "todo" => i > next'[q] BY <2>3, <2>4, <2>5
  <2>7. QED BY <1>6, <2>1, <2>2, <2>6, BoxSame
<1>15. ASSUME NEW q \in Page, NEW i \in 1 .. MaxBoxes PROVE WaitOf(q, i)'
  <2>1. WaitOf(q, i) /\ i \in Nat BY Constants DEF CropInv
  <2>2. \A b \in Agent : onPage[b] = q /\ index[b] = i /\ pc[b] = "admit" =>
           onPage'[b] = q /\ index'[b] = i /\ pc'[b] = "admit"
    BY <1>6, <1>12 DEF Holding
  <2>3. Stopped(q)' <=> Stopped(q) BY <1>6 DEF Stopped
  <2>4. QED BY <1>6, <2>1, <2>2, <2>3, WaitSame
<1>16. QueuedOnce' BY <1>6, QueuedSame DEF CropInv
<1>17. ASSUME NEW q \in Page PROVE PendOf(q)'
  <2>1. InPool(q)' = InPool(q) BY <1>6 DEF InPool
  <2>2. Submitting(q)' = Submitting(q) BY <1>6, <1>12 DEF Submitting, Holding
  <2>3. PendOf(q) BY DEF PendInv
  <2>4. QED BY <1>6, <1>12, <2>1, <2>2, <2>3 DEF PendOf
<1>18. QED BY <1>9, <1>10, <1>11, <1>13, <1>14, <1>15, <1>16, <1>17, <1>6
       DEF BoxInv, CropInv, PendInv

\* A thread changes its box (p, i) to r and goes to x.
BoxStep(a, x, p, i, r) ==
  /\ WorkMove(a, x) /\ p = onPage[a] /\ i \in 1 .. boxes[p]
  /\ index' \in [Agent -> Nat] /\ index'[a] = i
  /\ \A b \in Agent \ {a} : index'[b] = index[b]
  /\ pc[a] \in Holding => index[a] = i
  /\ box' = [box EXCEPT ![p][i] = r]
  /\ next' \in [Page -> Nat]
  /\ \A q \in Page : \A j \in 1 .. boxes[q] :
       box[q][j] = "todo" /\ (q # p \/ j # i) => j > next'[q]
  /\ stop' \in [Page -> BOOLEAN] /\ error' \in [Page -> {"none", "failed", "cancelled"}]
  /\ \A q \in Page \ {p} : stop'[q] = stop[q] /\ error'[q] = error[q]
  /\ \/ stop'[p] = stop[p] /\ error'[p] = error[p]
     \/ error'[p] # "none" /\ (error'[p] = "cancelled" => error[p] = "cancelled" \/ Excused(p))
  /\ \/ r = "working" /\ x = "box" 
     \/ r = "recognizing" /\ x \in {"recognize", "admit"}
     \/ r = "inferring" /\ x = "infer"
     \/ /\ r \in {"done", "failed", "cancelled"} /\ x \notin Holding
        /\ r = "cancelled" \/ (r = "failed" /\ ~RecordErrors) => error'[p] # "none"
  /\ tasks' = tasks /\ crop' = crop /\ stage' \in [Crop -> Pool!Stages]
  /\ \A c \in Crop \ {<<p, i>>} : stage'[c] = stage[c]
  /\ \/ stage'[<<p, i>>] = stage[<<p, i>>]
     \/ x = "admit" /\ stage[<<p, i>>] = "new" /\ stage'[<<p, i>>] \in {"waiting", "refused"}
  /\ pc[a] = "admit" => stage[<<p, i>>] # "waiting"
  /\ pending' = [pending EXCEPT ![p] = @ + Bit(x = "admit") - Bit(pc[a] = "admit")]

LEMMA BoxStepKeeps ==
  ASSUME IInv, NEW a \in Agent, NEW x, NEW p \in Page, NEW i \in Nat, NEW r, BoxStep(a, x, p, i, r)
  PROVE  IInv'
<1> USE DEF IInv
<1>1. WorkMove(a, x) /\ p = onPage[a] /\ i \in 1 .. boxes[p] BY DEF BoxStep
<1>2. /\ \A b \in Agent \ {a} : pc'[b] = pc[b] /\ onPage'[b] = onPage[b] /\ index'[b] = index[b]
      /\ pc'[a] = x /\ onPage'[a] = p /\ index'[a] = i
      /\ \A q \in Page : (pc'[q] \in {"new", "returned"}) <=> (pc[q] \in {"new", "returned"})
      /\ RecordErrors' = RecordErrors
  BY <1>1, WorkOthers DEF BoxStep
<1>3. UNCHANGED <<onPage, mode, boxes, cancel>> BY <1>1 DEF WorkMove
<1>4. i \in 1 .. MaxBoxes /\ <<p, i>> \in Crop /\ boxes[p] \in Nat
  <2>1. boxes[p] \in Nat /\ boxes[p] <= MaxBoxes /\ MaxBoxes \in Nat BY Workers, Constants
  <2>2. i \in 1 .. MaxBoxes BY <1>1, <2>1
  <2>3. QED BY <2>1, <2>2 DEF Crop
<1>5. r \in BoxStates \ {"todo"} BY DEF BoxStep, BoxStates
<1>6. /\ DOMAIN box' = Page /\ \A q \in Page : box'[q] \in [1 .. boxes[q] -> BoxStates]
      /\ \A q \in Page \ {p} : box'[q] = box[q]
      /\ box'[p][i] = r /\ \A j \in (1 .. boxes[p]) \ {i} : box'[p][j] = box[p][j]
  <2>1. box' = [box EXCEPT ![p] = [box[p] EXCEPT ![i] = r]] BY DEF BoxStep
  <2>2. DOMAIN box = Page /\ \A q \in Page : box[q] \in [1 .. boxes[q] -> BoxStates] BY DEF TypeInv
  <2>3. DOMAIN box' = Page /\ box'[p] = [box[p] EXCEPT ![i] = r]
        /\ \A q \in Page \ {p} : box'[q] = box[q]
    BY <2>1, <2>2
  <2>4. box'[p] \in [1 .. boxes[p] -> BoxStates] /\ box'[p][i] = r
        /\ \A j \in (1 .. boxes[p]) \ {i} : box'[p][j] = box[p][j]
    <3>1. box[p] \in [1 .. boxes[p] -> BoxStates] BY <2>2
    <3>2. r \in BoxStates /\ i \in 1 .. boxes[p] BY <1>1, <1>5
    <3>3. box'[p] = [box[p] EXCEPT ![i] = r] BY <2>3
    <3>4. QED BY <3>1, <3>2, <3>3
  <2>5. QED BY <2>2, <2>3, <2>4
<1>7. TypeInv'
  <2>1. pending' \in [Page -> Int] BY DEF BoxStep, TypeInv, Bit
  <2>2. tasks' \in Seq(Crop) BY DEF BoxStep, TypeInv
  <2>3. QED BY <1>1, <1>6, <2>1, <2>2, WorkTypes DEF BoxStep
<1>8. PlaceInv' /\ TaskInv' /\ ProgressInv' BY <1>1, WorkKeeps
<1>9. ReasonInv' BY <1>1, <1>6, WorkReason DEF BoxStep
<1>10. HoldInv' BY <1>1, <1>2, <1>3 DEF HoldInv
<1>11. ASSUME NEW q \in Page, NEW j \in 1 .. boxes[q], q # p \/ j # i PROVE BoxOf(q, j)'
  <2>1. BoxOf(q, j) /\ j \in Nat BY Workers DEF BoxInv
  <2>2. \A b \in Agent : onPage[b] = q /\ index[b] = j /\ pc[b] \in Holding =>
           onPage'[b] = q /\ index'[b] = j /\ pc'[b] = pc[b]
    BY <1>1, <1>2, <1>11 DEF BoxStep
  <2>3. box'[q][j] = box[q][j] BY <1>6, <1>11
  <2>4. <<q, j>> \in Crop \ {<<p, i>>}
    <3>1. boxes[q] \in Nat /\ boxes[q] <= MaxBoxes /\ MaxBoxes \in Nat BY Workers, Constants
    <3>2. j \in 1 .. MaxBoxes BY <3>1
    <3>3. <<q, j>> \in Crop BY <3>2 DEF Crop
    <3>4. QED BY <1>11, <3>3
  <2>5. stage'[<<q, j>>] = stage[<<q, j>>] BY <2>4 DEF BoxStep
  <2>6. error[q] # "none" => error'[q] # "none" BY <1>1 DEF WorkMove
  <2>7. box[q][j] = "todo" => j > next'[q] BY <1>11 DEF BoxStep
  <2>8. QED BY <1>3, <2>1, <2>2, <2>3, <2>5, <2>6, <2>7, BoxSame
<1>12. BoxOf(p, i)'
  <2>1. Holds(p, i, {"box"})' <=> \E b \in Agent : onPage'[b] = p /\ index'[b] = i /\ pc'[b] \in {"box"}
    BY DEF Holds
  <2>2. Holds(p, i, {"recognize", "admit"})' <=>
          \E b \in Agent : onPage'[b] = p /\ index'[b] = i /\ pc'[b] \in {"recognize", "admit"}
    BY DEF Holds
  <2>3. Holds(p, i, {"infer"})' <=> \E b \in Agent : onPage'[b] = p /\ index'[b] = i /\ pc'[b] \in {"infer"}
    BY DEF Holds
  <2>4. box'[p][i] # "todo" BY <1>5, <1>6
  <2>5. box'[p][i] = "working" => Holds(p, i, {"box"})' BY <1>2, <1>6, <2>1 DEF BoxStep
  <2>6. box'[p][i] = "recognizing" => Holds(p, i, {"recognize", "admit"})'
    BY <1>2, <1>6, <2>2 DEF BoxStep
  <2>7. box'[p][i] = "inferring" => Holds(p, i, {"infer"})' BY <1>2, <1>6, <2>3 DEF BoxStep
  <2>8. box'[p][i] = "cancelled" \/ (box'[p][i] = "failed" /\ ~RecordErrors') => error'[p] # "none"
    BY <1>2, <1>6 DEF BoxStep
  <2>9. QED BY <2>4, <2>5, <2>6, <2>7, <2>8 DEF BoxOf
<1>13. BoxInv'
  <2>1. \A q \in Page : \A j \in 1 .. boxes[q] : BoxOf(q, j)' BY <1>11, <1>12
  <2>2. QED BY <1>3, <2>1 DEF BoxInv
<1>14. ASSUME NEW q \in Page, NEW j \in 1 .. MaxBoxes PROVE WaitOf(q, j)'
  <2>1. WaitOf(q, j) /\ j \in Nat /\ <<q, j>> \in Crop BY Constants DEF CropInv, Crop
  <2>2. Stopped(q) => Stopped(q)' BY <1>1 DEF WorkMove, Stopped
  <2>3. CASE q # p \/ j # i
    <3>1. stage'[<<q, j>>] = stage[<<q, j>>]
      <4>1. <<q, j>> \in Crop \ {<<p, i>>} BY <2>1, <2>3
      <4>2. QED BY <4>1 DEF BoxStep
    <3>2. \A b \in Agent : onPage[b] = q /\ index[b] = j /\ pc[b] = "admit" =>
             onPage'[b] = q /\ index'[b] = j /\ pc'[b] = "admit"
      <4>1. pc[a] = "admit" => index[a] = i BY DEF BoxStep, Holding
      <4>2. QED BY <1>1, <1>2, <2>3, <4>1
    <3>3. QED BY <2>1, <2>2, <3>1, <3>2, WaitSame
  <2>4. CASE q = p /\ j = i
    <3>1. CASE x = "admit"
      <4>1. Holds(p, i, {"admit"})' BY <1>2, <3>1 DEF Holds
      <4>2. stage'[<<p, i>>] = "withdrawn" => stage[<<p, i>>] = "withdrawn" BY DEF BoxStep
      <4>3. QED BY <2>1, <2>2, <2>4, <4>1, <4>2 DEF WaitOf
    <3>2. CASE x # "admit"
      <4>1. stage'[<<p, i>>] = stage[<<p, i>>] BY <3>2 DEF BoxStep
      <4>2. CASE pc[a] = "admit"
        <5>1. stage'[<<p, i>>] # "waiting" BY <4>1, <4>2 DEF BoxStep
        <5>2. QED BY <2>1, <2>2, <2>4, <4>1, <5>1 DEF WaitOf
      <4>3. CASE pc[a] # "admit"
        <5>1. \A b \in Agent : onPage[b] = q /\ index[b] = j /\ pc[b] = "admit" =>
                 onPage'[b] = q /\ index'[b] = j /\ pc'[b] = "admit"
          BY <1>2, <4>3
        <5>2. QED BY <2>1, <2>2, <2>4, <4>1, <5>1, WaitSame
      <4>4. QED BY <4>2, <4>3
    <3>3. QED BY <3>1, <3>2
  <2>5. QED BY <2>3, <2>4
<1>15. QueuedOnce'
  <2>1. \A c \in Crop : stage[c] = "queued" => stage'[c] = "queued" BY <1>4 DEF BoxStep
  <2>2. QED BY <2>1, QueuedSame DEF BoxStep, CropInv
<1>16. ASSUME NEW q \in Page PROVE PendOf(q)'
  <2>1. InPool(q)' = InPool(q)
    <3>1. \A c \in Crop : (stage'[c] \in PoolStages) <=> (stage[c] \in PoolStages)
      BY <1>4 DEF BoxStep, PoolStages
    <3>2. QED BY <3>1 DEF InPool
  <2>2. Cardinality(Submitting(q)') = Cardinality(Submitting(q))
           + Bit(p = q /\ x = "admit") - Bit(p = q /\ pc[a] = "admit")
    BY <1>1, <1>2, SubmitterMoved
  <2>3. PendOf(q) /\ Cardinality(InPool(q)) \in Nat /\ Cardinality(Submitting(q)) \in Nat
    BY PendCounts DEF PendInv
  <2>4. CASE q = p
    <3>1. pending'[p] = pending[p] + Bit(x = "admit") - Bit(pc[a] = "admit")
      BY DEF BoxStep, TypeInv
    <3>2. pc'[p] \notin {"new", "returned"}
      <4>1. pc[a] \in WorkPlaces BY <1>1 DEF WorkMove
      <4>2. pc[p] \notin {"new", "returned"} BY <1>1, <4>1, AtWork
      <4>3. QED BY <1>2, <4>2
    <3>3. Bit(p = q /\ x = "admit") = Bit(x = "admit") /\ Bit(p = q /\ pc[a] = "admit") = Bit(pc[a] = "admit")
      BY <2>4 DEF Bit
    <3>4. {Bit(x = "admit"), Bit(pc[a] = "admit")} \subseteq Nat BY DEF Bit
    <3>5. pending'[p] = Cardinality(InPool(p)) + Cardinality(Submitting(p)')
      BY <2>2, <2>3, <2>4, <3>1, <3>3, <3>4 DEF PendOf
    <3>6. QED BY <2>1, <2>4, <3>2, <3>5 DEF PendOf
  <2>5. CASE q # p
    <3>1. pending'[q] = pending[q] BY <2>5 DEF BoxStep, TypeInv
    <3>2. Cardinality(Submitting(q)') = Cardinality(Submitting(q)) BY <2>2, <2>3, <2>5 DEF Bit
    <3>3. QED BY <1>2, <2>1, <2>3, <3>1, <3>2 DEF PendOf
  <2>6. QED BY <2>4, <2>5
<1>17. QED BY <1>7, <1>8, <1>9, <1>10, <1>13, <1>14, <1>15, <1>16 DEF CropInv, PendInv

\* The thread that works on a box, and the box.
LEMMA HoldFacts ==
  ASSUME IInv, NEW a \in Agent, pc[a] \in Holding
  PROVE  /\ onPage[a] \in Page /\ index[a] \in 1 .. boxes[onPage[a]] /\ index[a] \in Nat
         /\ boxes[onPage[a]] \in Nat /\ boxes[onPage[a]] <= MaxBoxes
         /\ <<onPage[a], index[a]>> \in Crop /\ pc[a] \in WorkPlaces
         /\ next[onPage[a]] \in Nat /\ ~stopping
<1> USE DEF IInv
<1>1. pc[a] \in WorkPlaces BY DEF Holding, WorkPlaces
<1>2. onPage[a] \in Page BY <1>1, AtWork
<1>3. PICK p \in Page : p = onPage[a] BY <1>2
<1>4. /\ boxes[p] \in Nat /\ boxes[p] <= MaxBoxes /\ MaxBoxes \in Nat
      /\ index[a] \in 1 .. boxes[p] /\ next[p] \in Nat
  BY <1>3, Workers, Constants DEF HoldInv, TypeInv
<1>5. index[a] \in 1 .. MaxBoxes BY <1>4
<1>6. ~stopping BY <1>1 DEF PlaceInv, WorkPlaces
<1>7. QED BY <1>1, <1>3, <1>4, <1>5, <1>6 DEF Crop

LEMMA ClaimStep ==
  ASSUME IInv, NEW a \in Agent, Claim(a), next[onPage[a]] < boxes[onPage[a]]
  PROVE  IInv'
<1> USE DEF IInv
<1>1. pc[a] = "claim" /\ pc[a] \in WorkPlaces BY DEF Claim, WorkPlaces
<1>2. onPage[a] \in Page BY <1>1, AtWork
<1>3. PICK p \in Page : p = onPage[a] BY <1>2
<1>4. next[p] \in Nat /\ boxes[p] \in Nat BY Workers DEF TypeInv
<1>5. PICK i \in Nat : i = next[p] + 1 BY <1>4
<1>6. i \in 1 .. boxes[p] BY <1>3, <1>4, <1>5
<1>7. /\ pc' = [pc EXCEPT ![a] = "box"] /\ next' = [next EXCEPT ![p] = @ + 1]
      /\ onPage' = [onPage EXCEPT ![a] = p] /\ index' = [index EXCEPT ![a] = i]
      /\ box' = [box EXCEPT ![p][i] = "working"]
      /\ UNCHANGED <<queue, outstanding, launched, thrown, result, cancel, boxes,
                     mode, stop, error, pending, stage, tasks, crop, stopping>>
  BY <1>3, <1>5 DEF Claim, Goto, Hold, endVars, control, poolVars
<1>8. onPage' = onPage BY <1>3, <1>7 DEF TypeInv
<1>9. next' \in [Page -> Nat] /\ next'[p] = i /\ \A q \in Page \ {p} : next'[q] = next[q]
  BY <1>4, <1>5, <1>7 DEF TypeInv
<1>10. WorkMove(a, "box")
  <2>1. "box" \in Onward(a) BY DEF Onward, WorkPlaces
  <2>2. \A q \in Page : next'[q] \in Nat /\ next'[q] >= next[q]
    <3>1. next'[p] \in Nat /\ next'[p] >= next[p] BY <1>4, <1>5, <1>9
    <3>2. \A q \in Page \ {p} : next'[q] \in Nat /\ next'[q] >= next[q] BY <1>9 DEF TypeInv
    <3>3. QED BY <3>1, <3>2
  <2>3. QED BY <1>1, <1>7, <1>8, <2>1, <2>2 DEF WorkMove
<1>11. ASSUME NEW q \in Page, NEW j \in 1 .. boxes[q], box[q][j] = "todo", q # p \/ j # i
       PROVE  j > next'[q]
  <2>1. BoxOf(q, j) BY DEF BoxInv
  <2>2. j > next[q] /\ boxes[q] \in Nat /\ next[q] \in Nat
    BY <1>11, <2>1, Workers DEF BoxOf, TypeInv
  <2>3. CASE q # p BY <1>9, <2>2, <2>3
  <2>4. CASE q = p
    <3>1. j > next[p] /\ j # next[p] + 1 BY <1>5, <1>11, <2>2, <2>4
    <3>2. QED BY <1>4, <1>5, <1>9, <2>2, <2>4, <3>1
  <2>5. QED BY <2>3, <2>4
<1>12. BoxStep(a, "box", p, i, "working")
  <2>1. /\ index' \in [Agent -> Nat] /\ index'[a] = i
        /\ \A b \in Agent \ {a} : index'[b] = index[b]
    BY <1>7 DEF TypeInv
  <2>2. pc[a] \notin Holding BY <1>1 DEF Holding
  <2>3. /\ stop' \in [Page -> BOOLEAN] /\ error' \in [Page -> {"none", "failed", "cancelled"}]
        /\ stage' \in [Crop -> Pool!Stages]
    BY <1>7 DEF TypeInv
  <2>4. pending' = [pending EXCEPT ![p] = @ + Bit("box" = "admit") - Bit(pc[a] = "admit")]
    <3>1. pending[p] + Bit("box" = "admit") - Bit(pc[a] = "admit") = pending[p]
      BY <1>1 DEF Bit, TypeInv
    <3>2. [pending EXCEPT ![p] = pending[p]] = pending BY DEF TypeInv
    <3>3. QED BY <1>7, <3>1, <3>2
  <2>5. pc[a] # "admit" BY <1>1
  <2>6. /\ tasks' = tasks /\ crop' = crop /\ stage' = stage /\ stop' = stop /\ error' = error
        /\ box' = [box EXCEPT ![p][i] = "working"]
    BY <1>7
  <2>7. "working" = "working" /\ "box" = "box" /\ "box" # "admit" OBVIOUS
  <2>8. \A q \in Page : \A j \in 1 .. boxes[q] :
          box[q][j] = "todo" /\ (q # p \/ j # i) => j > next'[q]
    BY <1>11
  <2>9. QED
    BY <1>3, <1>6, <1>9, <1>10, <2>1, <2>2, <2>3, <2>4, <2>5, <2>6, <2>7, <2>8 DEF BoxStep
<1>13. QED BY <1>12, BoxStepKeeps

LEMMA BitStays ==
  ASSUME TypeInv, NEW p \in Page, NEW b, NEW d, b = d
  PROVE  [pending EXCEPT ![p] = @ + Bit(b) - Bit(d)] = pending
<1>1. pending[p] + Bit(b) - Bit(d) = pending[p] BY DEF Bit, TypeInv
<1>2. [pending EXCEPT ![p] = pending[p]] = pending BY DEF TypeInv
<1>3. QED BY <1>1, <1>2

\* A box has an outcome r: by its own thread, by the model, or as its submission fails.
LEMMA EndStep ==
  ASSUME IInv, NEW a \in Agent, NEW r \in {"done", "failed", "cancelled"},
         pc[a] \in Holding, EndBox(a, r),
         UNCHANGED <<onPage, index, queue, restOfFrame, control, stage, tasks, crop, stopping>>,
         pc[a] = "admit" => stage[<<onPage[a], index[a]>>] # "waiting",
         pending' = [pending EXCEPT ![onPage[a]] = @ - Bit(pc[a] = "admit")],
         r = "cancelled" => Excused(onPage[a]) \/ error[onPage[a]] # "none"
  PROVE  IInv'
<1> USE DEF IInv
<1>1. /\ onPage[a] \in Page /\ index[a] \in 1 .. boxes[onPage[a]] /\ index[a] \in Nat
      /\ pc[a] \in WorkPlaces
  BY HoldFacts
<1>2. PICK p \in Page : p = onPage[a] BY <1>1
<1>3. PICK i \in Nat : i = index[a] BY <1>1
<1>4. PICK x : x = AfterBox(a) OBVIOUS
<1>5. /\ pc' = [pc EXCEPT ![a] = x] /\ box' = [box EXCEPT ![p][i] = r]
      /\ IF r = "cancelled" \/ (r = "failed" /\ ~RecordErrors)
         THEN /\ error' = [error EXCEPT ![p] = IF @ = "none" THEN r ELSE @]
              /\ stop' = [stop EXCEPT ![p] = TRUE]
         ELSE UNCHANGED <<error, stop>>
  BY <1>2, <1>3, <1>4 DEF EndBox, Goto, Outcome
<1>6. x \in {"begin", "again"} /\ x \in Onward(a) BY <1>4 DEF AfterBox, Onward, WorkPlaces
<1>7. /\ stop' \in [Page -> BOOLEAN] /\ error' \in [Page -> {"none", "failed", "cancelled"}]
      /\ \A q \in Page \ {p} : stop'[q] = stop[q] /\ error'[q] = error[q]
      /\ stop[p] => stop'[p]
      /\ error[p] # "none" => error'[p] = error[p]
      /\ \/ stop'[p] = stop[p] /\ error'[p] = error[p]
         \/ error'[p] # "none" /\ (error'[p] = "cancelled" => error[p] = "cancelled" \/ Excused(p))
      /\ r = "cancelled" \/ (r = "failed" /\ ~RecordErrors) => error'[p] # "none"
  <2>1. CASE r = "cancelled" \/ (r = "failed" /\ ~RecordErrors)
    <3>1. /\ error' = [error EXCEPT ![p] = IF @ = "none" THEN r ELSE @]
          /\ stop' = [stop EXCEPT ![p] = TRUE]
      BY <1>5, <2>1
    <3>2. /\ stop' \in [Page -> BOOLEAN] /\ error' \in [Page -> {"none", "failed", "cancelled"}]
          /\ \A q \in Page \ {p} : stop'[q] = stop[q] /\ error'[q] = error[q]
          /\ stop'[p] /\ error'[p] = IF error[p] = "none" THEN r ELSE error[p]
      <4>1. stop' \in [Page -> BOOLEAN] /\ stop'[p] = TRUE /\ \A q \in Page \ {p} : stop'[q] = stop[q]
        BY <3>1, Zenon DEF TypeInv
      <4>2. r \in {"none", "failed", "cancelled"} BY <2>1
      <4>3. /\ error' \in [Page -> {"none", "failed", "cancelled"}]
            /\ \A q \in Page \ {p} : error'[q] = error[q]
            /\ error'[p] = IF error[p] = "none" THEN r ELSE error[p]
        BY <3>1, <4>2 DEF TypeInv
      <4>4. QED BY <4>1, <4>3
    <3>3. error'[p] = "cancelled" => error[p] = "cancelled" \/ Excused(p) BY <1>2, <3>2
    <3>4. error'[p] # "none" BY <3>2
    <3>5. QED BY <3>2, <3>3, <3>4
  <2>2. CASE ~(r = "cancelled" \/ (r = "failed" /\ ~RecordErrors)) BY <1>5, <2>2 DEF TypeInv
  <2>3. QED BY <2>1, <2>2
<1>8. WorkMove(a, x)
  <2>1. \A q \in Page : /\ stop[q] => stop'[q] 
                        /\ error[q] # "none" => error'[q] # "none"
    BY <1>7
  <2>2. next' = next /\ \A q \in Page : next[q] \in Nat BY DEF restOfFrame, TypeInv
  <2>3. x \notin {"drain", "leave"} BY <1>6
  <2>4. QED BY <1>1, <1>5, <1>6, <2>1, <2>2, <2>3 DEF WorkMove, restOfFrame, endVars, control
<1>9. BoxStep(a, x, p, i, r)
  <2>1. index' \in [Agent -> Nat] /\ index' = index /\ next' = next /\ next' \in [Page -> Nat]
        /\ stage' \in [Crop -> Pool!Stages]
    BY DEF TypeInv, restOfFrame
  <2>2. \A q \in Page : \A j \in 1 .. boxes[q] :
          box[q][j] = "todo" /\ (q # p \/ j # i) => j > next'[q]
    BY <2>1 DEF BoxInv, BoxOf
  <2>3. x \notin Holding /\ x # "admit" BY <1>6 DEF Holding
  <2>4. pending' = [pending EXCEPT ![p] = @ + Bit(x = "admit") - Bit(pc[a] = "admit")]
    <3>1. pending[p] + Bit(x = "admit") - Bit(pc[a] = "admit") = pending[p] - Bit(pc[a] = "admit")
      BY <2>3 DEF Bit, TypeInv
    <3>2. QED BY <1>2, <3>1
  <2>5. r \in {"done", "failed", "cancelled"} OBVIOUS
  <2>6. i \in 1 .. boxes[p] BY <1>1, <1>2, <1>3
  <2>7. QED BY <1>2, <1>3, <1>5, <1>7, <1>8, <2>1, <2>2, <2>3, <2>4, <2>5, <2>6 DEF BoxStep
<1>10. QED BY <1>9, BoxStepKeeps

\* A thread goes on with its box.
GoOn(a, x, r) ==
  /\ pc[a] \in {"box", "recognize"} /\ pc' = [pc EXCEPT ![a] = x]
  /\ box' = [box EXCEPT ![onPage[a]][index[a]] = r]
  /\ UNCHANGED <<onPage, index, queue, stop, error, restOfFrame, control, tasks, crop, stopping>>
  /\ stage' \in [Crop -> Pool!Stages]
  /\ \A c \in Crop : c # <<onPage[a], index[a]>> => stage'[c] = stage[c]
  /\ \/ r = "recognizing" /\ x = "recognize" /\ UNCHANGED <<pending, stage>>
     \/ r = "inferring" /\ x = "infer" /\ UNCHANGED <<pending, stage>>
     \/ /\ r = "recognizing" /\ x = "admit" /\ stage[<<onPage[a], index[a]>>] = "new"
        /\ stage'[<<onPage[a], index[a]>>] \in {"waiting", "refused"}
        /\ pending' = [pending EXCEPT ![onPage[a]] = @ + 1]

LEMMA GoOnStep ==
  ASSUME IInv, NEW a \in Agent, NEW x, NEW r, GoOn(a, x, r)
  PROVE  IInv'
<1> USE DEF IInv, GoOn
<1>1. /\ onPage[a] \in Page /\ index[a] \in 1 .. boxes[onPage[a]] /\ index[a] \in Nat
      /\ pc[a] \in WorkPlaces /\ pc[a] \in Holding /\ pc[a] # "admit"
  BY HoldFacts DEF Holding
<1>2. PICK p \in Page : p = onPage[a] BY <1>1
<1>3. PICK i \in Nat : i = index[a] BY <1>1
<1>4. x \in {"recognize", "infer", "admit"} /\ x \in Onward(a) BY DEF Onward, WorkPlaces
<1>5. next' = next /\ next' \in [Page -> Nat] /\ index' \in [Agent -> Nat]
      /\ stop' \in [Page -> BOOLEAN] /\ error' \in [Page -> {"none", "failed", "cancelled"}]
  BY DEF restOfFrame, TypeInv
<1>6. WorkMove(a, x)
  <2>1. \A q \in Page : next'[q] \in Nat /\ next'[q] >= next[q] BY <1>5
  <2>2. x \notin {"drain", "leave"} BY <1>4
  <2>3. QED BY <1>1, <1>4, <2>1, <2>2 DEF WorkMove, restOfFrame, endVars, control
<1>7. BoxStep(a, x, p, i, r)
  <2>1. \A q \in Page : \A j \in 1 .. boxes[q] :
          box[q][j] = "todo" /\ (q # p \/ j # i) => j > next'[q]
    BY <1>5 DEF BoxInv, BoxOf
  <2>2. pending' = [pending EXCEPT ![p] = @ + Bit(x = "admit") - Bit(pc[a] = "admit")]
    <3>1. CASE x = "admit"
      <4>1. pending[p] + Bit(x = "admit") - Bit(pc[a] = "admit") = pending[p] + 1
        BY <1>1, <3>1 DEF Bit, TypeInv
      <4>2. QED BY <1>2, <3>1, <4>1
    <3>2. CASE x # "admit"
      <4>1. pending' = pending BY <3>2
      <4>2. (x = "admit") = (pc[a] = "admit") BY <1>1, <3>2
      <4>3. QED BY <4>1, <4>2, BitStays
    <3>3. QED BY <3>1, <3>2
  <2>3. i \in 1 .. boxes[p] /\ box' = [box EXCEPT ![p][i] = r] BY <1>1, <1>2, <1>3
  <2>4. \/ stage'[<<p, i>>] = stage[<<p, i>>]
        \/ x = "admit" /\ stage[<<p, i>>] = "new" /\ stage'[<<p, i>>] \in {"waiting", "refused"}
    BY <1>2, <1>3
  <2>5. \A c \in Crop \ {<<p, i>>} : stage'[c] = stage[c] BY <1>2, <1>3
  <2>6. QED BY <1>1, <1>2, <1>3, <1>5, <1>6, <2>1, <2>2, <2>3, <2>4, <2>5 DEF BoxStep
<1>8. QED BY <1>7, BoxStepKeeps

LEMMA NoBit ==
  ASSUME TypeInv, NEW q, NEW b, ~b
  PROVE  [pending EXCEPT ![q] = @ - Bit(b)] = pending
<1>1. CASE q \in Page
  <2>1. pending[q] - Bit(b) = pending[q] BY <1>1 DEF Bit, TypeInv
  <2>2. [pending EXCEPT ![q] = pending[q]] = pending BY <1>1 DEF TypeInv
  <2>3. QED BY <2>1, <2>2
<1>2. CASE q \notin Page BY <1>2 DEF TypeInv
<1>3. QED BY <1>1, <1>2

LEMMA OwnEnd ==
  ASSUME IInv, NEW a \in Agent,
         PrepareOnly(a) \/ (Infer(a) /\ Stopped(onPage[a])) \/ Answer(a)
  PROVE  IInv'
<1> USE DEF IInv
<1>1. pc[a] \in Holding /\ pc[a] # "admit" BY DEF PrepareOnly, Infer, Answer, Holding
<1>2. onPage[a] \in Page BY <1>1, HoldFacts
<1>3. PICK p \in Page : p = onPage[a] BY <1>2
<1>4. UNCHANGED <<onPage, index, queue, restOfFrame, control, pending, stage, tasks, crop, stopping>>
  BY DEF PrepareOnly, Infer, Answer, poolVars
<1>5. PICK r \in {"done", "failed", "cancelled"} :
        EndBox(a, r) /\ (r = "cancelled" => Stopped(p))
  <2>1. CASE PrepareOnly(a) BY <1>3, <2>1 DEF PrepareOnly, Stopped
  <2>2. CASE Infer(a) /\ Stopped(onPage[a]) BY <1>3, <2>2 DEF Infer
  <2>3. CASE Answer(a) BY <1>3, <2>3 DEF Answer, Answers, Stopped
  <2>4. QED BY <2>1, <2>2, <2>3
<1>6. r = "cancelled" => Excused(p) \/ error[p] # "none"
  BY <1>5, StoppedExcuse DEF ReasonInv
<1>7. pending' = [pending EXCEPT ![onPage[a]] = @ - Bit(pc[a] = "admit")]
  BY <1>1, <1>4, NoBit
<1>8. QED BY <1>1, <1>3, <1>4, <1>5, <1>6, <1>7, EndStep

LEMMA RejectedStep ==
  ASSUME IInv, NEW a \in Agent, Rejected(a)
  PROVE  IInv'
<1> USE DEF IInv
<1>1. pc[a] = "admit" /\ pc[a] \in Holding BY DEF Rejected, Holding
<1>2. onPage[a] \in Page /\ index[a] \in Nat /\ <<onPage[a], index[a]>> \in Crop BY <1>1, HoldFacts
<1>3. PICK p \in Page : p = onPage[a] BY <1>2
<1>4. PICK i \in Nat : i = index[a] BY <1>2
<1>5. UNCHANGED <<onPage, index, queue, restOfFrame, control, stage, tasks, crop, stopping>>
  BY DEF Rejected, poolVars
<1>6. PICK r \in {"done", "failed", "cancelled"} :
        EndBox(a, r) /\ (r = "cancelled" => stage[<<p, i>>] = "withdrawn")
  BY <1>3, <1>4 DEF Rejected
<1>7. r = "cancelled" => Excused(p) \/ error[p] # "none"
  <2>1. i \in 1 .. MaxBoxes BY <1>2, <1>3, <1>4 DEF Crop
  <2>2. r = "cancelled" => Stopped(p) BY <1>6, <2>1 DEF CropInv, WaitOf
  <2>3. QED BY <2>2, StoppedExcuse DEF ReasonInv
<1>8. pending' = [pending EXCEPT ![onPage[a]] = @ - Bit(pc[a] = "admit")]
  <2>1. Bit(pc[a] = "admit") = 1 BY <1>1 DEF Bit
  <2>2. QED BY <2>1 DEF Rejected
<1>9. stage[<<onPage[a], index[a]>>] # "waiting" BY DEF Rejected
<1>10. QED BY <1>1, <1>3, <1>5, <1>6, <1>7, <1>8, <1>9, EndStep

LEMMA PrepareStep ==
  ASSUME IInv, NEW a \in Agent, Prepare(a) \/ (Infer(a) /\ ~Stopped(onPage[a]))
  PROVE  IInv'
<1> USE DEF IInv
<1>1. pc[a] \in {"box", "recognize"} /\ pc[a] \in Holding BY DEF Prepare, Infer, Holding
<1>2. <<onPage[a], index[a]>> \in Crop BY <1>1, HoldFacts
<1>3. PICK c \in Crop : c = <<onPage[a], index[a]>> BY <1>2
<1>4. stage \in [Crop -> Pool!Stages] BY DEF TypeInv
<1>5. CASE Prepare(a) /\ Async
  <2>1. /\ Pool!Submit(c) /\ pc' = [pc EXCEPT ![a] = "admit"]
        /\ pending' = [pending EXCEPT ![onPage[a]] = @ + 1]
        /\ box' = [box EXCEPT ![onPage[a]][index[a]] = "recognizing"]
        /\ UNCHANGED <<onPage, index, queue, stop, error, restOfFrame, control>>
    BY <1>3, <1>5 DEF Prepare, Goto
  <2>2. PICK s \in {"waiting", "refused"} : stage' = [stage EXCEPT ![c] = s]
    BY <2>1 DEF Pool!Submit, Pool!At
  <2>3. stage[c] = "new" /\ UNCHANGED <<tasks, crop, stopping>>
    BY <2>1 DEF Pool!Submit, Pool!workerVars
  <2>4. /\ stage' \in [Crop -> Pool!Stages] /\ stage'[c] \in {"waiting", "refused"}
        /\ \A d \in Crop : d # c => stage'[d] = stage[d]
    BY <1>4, <2>2 DEF Pool!Stages
  <2>5. GoOn(a, "admit", "recognizing") BY <1>1, <1>3, <2>1, <2>3, <2>4 DEF GoOn
  <2>6. QED BY <2>5, GoOnStep
<1>6. CASE Prepare(a) /\ ~Async
  <2>1. /\ pc' = [pc EXCEPT ![a] = "recognize"]
        /\ box' = [box EXCEPT ![onPage[a]][index[a]] = "recognizing"]
        /\ UNCHANGED <<onPage, index, queue, stop, error, restOfFrame, control, pending, stage,
                       tasks, crop, stopping>>
    BY <1>6 DEF Prepare, Goto, poolVars
  <2>2. GoOn(a, "recognize", "recognizing") BY <1>1, <1>4, <2>1 DEF GoOn
  <2>3. QED BY <2>2, GoOnStep
<1>7. CASE Infer(a) /\ ~Stopped(onPage[a])
  <2>1. /\ pc' = [pc EXCEPT ![a] = "infer"]
        /\ box' = [box EXCEPT ![onPage[a]][index[a]] = "inferring"]
        /\ UNCHANGED <<onPage, index, queue, stop, error, restOfFrame, control, pending, stage,
                       tasks, crop, stopping>>
    BY <1>7 DEF Infer, Goto, poolVars
  <2>2. GoOn(a, "infer", "inferring") BY <1>1, <1>4, <2>1 DEF GoOn
  <2>3. QED BY <2>2, GoOnStep
<1>8. QED BY <1>5, <1>6, <1>7

LEMMA QueuedAppend ==
  ASSUME QueuedOnce, TypeInv, NEW c \in Crop, stage[c] # "queued",
         stage' = [stage EXCEPT ![c] = "queued"], tasks' = Append(tasks, c)
  PROVE  QueuedOnce' /\ tasks' \in Seq(Crop)
<1>1. /\ Len(tasks) \in Nat /\ tasks' \in Seq(Crop) /\ Len(tasks') = Len(tasks) + 1
      /\ \A k \in 1 .. Len(tasks) : tasks'[k] = tasks[k] /\ tasks[k] \in Crop
      /\ tasks'[Len(tasks) + 1] = c
  BY LenProperties, AppendProperties DEF TypeInv
<1>2. \A k \in 1 .. Len(tasks') : k \in 1 .. Len(tasks) \/ k = Len(tasks) + 1 BY <1>1
<1>3. stage'[c] = "queued" /\ \A d \in Crop : stage[d] = "queued" => stage'[d] = "queued"
  BY DEF TypeInv
<1>4. \A k \in 1 .. Len(tasks) : stage[tasks[k]] = "queued" /\ tasks[k] # c BY DEF QueuedOnce
<1>5. \A k \in 1 .. Len(tasks') : stage'[tasks'[k]] = "queued" BY <1>1, <1>2, <1>3, <1>4
<1>6. ASSUME NEW k \in 1 .. Len(tasks'), NEW m \in 1 .. Len(tasks'), tasks'[k] = tasks'[m]
      PROVE  k = m
  <2>1. CASE k \in 1 .. Len(tasks) /\ m \in 1 .. Len(tasks) BY <1>1, <1>6, <2>1 DEF QueuedOnce
  <2>2. CASE k \in 1 .. Len(tasks) /\ m = Len(tasks) + 1 BY <1>1, <1>4, <1>6, <2>2
  <2>3. CASE k = Len(tasks) + 1 /\ m \in 1 .. Len(tasks) BY <1>1, <1>4, <1>6, <2>3
  <2>4. CASE k = Len(tasks) + 1 /\ m = Len(tasks) + 1 BY <2>4
  <2>5. QED BY <1>2, <2>1, <2>2, <2>3, <2>4
<1>7. QED BY <1>1, <1>5, <1>6 DEF QueuedOnce

LEMMA QueuedTail ==
  ASSUME QueuedOnce, TypeInv, tasks # <<>>, tasks' = Tail(tasks), NEW c \in Crop, c = Head(tasks),
         stage' = [stage EXCEPT ![c] = "running"]
  PROVE  QueuedOnce' /\ tasks' \in Seq(Crop) /\ stage[c] = "queued"
<1>1. /\ Len(tasks) \in Nat /\ Len(tasks) >= 1 /\ c = tasks[1]
      /\ tasks' \in Seq(Crop) /\ Len(tasks') = Len(tasks) - 1
      /\ \A k \in 1 .. Len(tasks) - 1 : tasks'[k] = tasks[k + 1]
      /\ \A k \in 1 .. Len(tasks) : tasks[k] \in Crop
  BY LenProperties, HeadTailProperties, EmptySeq DEF TypeInv
<1>2. \A k \in 1 .. Len(tasks) - 1 : k + 1 \in 1 .. Len(tasks) /\ k + 1 # 1 BY <1>1
<1>3. 1 \in 1 .. Len(tasks) BY <1>1
<1>4. \A k \in 1 .. Len(tasks) - 1 : tasks[k + 1] # c BY <1>1, <1>2, <1>3 DEF QueuedOnce
<1>5. \A k \in 1 .. Len(tasks) : stage[tasks[k]] = "queued" BY DEF QueuedOnce
<1>6. \A d \in Crop : d # c => stage'[d] = stage[d] BY DEF TypeInv
<1>7. \A k \in 1 .. Len(tasks') : stage'[tasks'[k]] = "queued"
  BY <1>1, <1>2, <1>4, <1>5, <1>6
<1>8. \A k, m \in 1 .. Len(tasks') : tasks'[k] = tasks'[m] => k = m
  <2> TAKE k \in 1 .. Len(tasks'), m \in 1 .. Len(tasks')
  <2>1. tasks'[k] = tasks'[m] => k + 1 = m + 1 BY <1>1, <1>2 DEF QueuedOnce
  <2>2. QED BY <1>1, <2>1
<1>9. QED BY <1>1, <1>3, <1>5, <1>7, <1>8 DEF QueuedOnce

\* submit() returns, or finds that the crop will not be admitted.
LEMMA AdmissionStep ==
  ASSUME IInv, NEW a \in Agent, Admission(a)
  PROVE  IInv'
<1> USE DEF IInv
<1>1. pc[a] = "admit" /\ pc[a] \in Holding BY DEF Admission, Holding
<1>2. /\ onPage[a] \in Page /\ index[a] \in Nat /\ <<onPage[a], index[a]>> \in Crop
      /\ pc[a] \in WorkPlaces
  BY <1>1, HoldFacts
<1>3. PICK p \in Page : p = onPage[a] BY <1>2
<1>4. PICK i \in Nat : i = index[a] BY <1>2
<1>5. PICK c \in Crop : c = <<p, i>> BY <1>2, <1>3, <1>4
<1>6. UNCHANGED <<onPage, index, queue, frameVars, control>> BY DEF Admission
<1>7. \/ Pool!Admit(c) /\ Goto(a, AfterBox(a))
      \/ (Pool!TimeOut(c) \/ Pool!Withdraw(c)) /\ UNCHANGED pc
  BY <1>3, <1>4, <1>5 DEF Admission
<1>8. PICK x \in {"begin", "again", "admit"}, s \in {"queued", "refused", "withdrawn"} :
        /\ stage[c] = "waiting" /\ stage' = [stage EXCEPT ![c] = s]
        /\ pc' = [pc EXCEPT ![a] = x] /\ x \in Onward(a)
        /\ s = "queued" => x # "admit" /\ tasks' = Append(tasks, c)
        /\ s # "queued" => x = "admit" /\ tasks' = tasks
        /\ s = "withdrawn" => Stopped(p)
        /\ UNCHANGED <<crop, stopping>>
  <2>1. CASE Pool!Admit(c) /\ Goto(a, AfterBox(a))
    <3>1. /\ stage[c] = "waiting" /\ stage' = [stage EXCEPT ![c] = "queued"]
          /\ tasks' = Append(tasks, c) /\ UNCHANGED <<crop, stopping>>
      BY <2>1 DEF Pool!Admit, Pool!At, Pool!workerVars
    <3>2. PICK x \in {"begin", "again"} : pc' = [pc EXCEPT ![a] = x] /\ x \in Onward(a)
      BY <2>1 DEF Goto, AfterBox, Onward, WorkPlaces
    <3>3. QED BY <3>1, <3>2
  <2>2. CASE Pool!TimeOut(c) /\ UNCHANGED pc
    <3>1. /\ stage[c] = "waiting" /\ stage' = [stage EXCEPT ![c] = "refused"]
          /\ tasks' = tasks /\ UNCHANGED <<crop, stopping>>
      BY <2>2 DEF Pool!TimeOut, Pool!At, Pool!workerVars
    <3>2. pc' = [pc EXCEPT ![a] = "admit"] /\ "admit" \in Onward(a)
      BY <1>1, <2>2 DEF TypeInv, Onward, WorkPlaces
    <3>3. QED BY <3>1, <3>2
  <2>3. CASE Pool!Withdraw(c) /\ UNCHANGED pc
    <3>1. /\ stage[c] = "waiting" /\ stage' = [stage EXCEPT ![c] = "withdrawn"]
          /\ tasks' = tasks /\ UNCHANGED <<crop, stopping>>
      BY <2>3 DEF Pool!Withdraw, Pool!At, Pool!workerVars
    <3>2. pc' = [pc EXCEPT ![a] = "admit"] /\ "admit" \in Onward(a)
      BY <1>1, <2>3 DEF TypeInv, Onward, WorkPlaces
    <3>3. Stopped(p) BY <1>5, <2>3 DEF Pool!Withdraw, Stopped
    <3>4. QED BY <3>1, <3>2, <3>3
  <2>4. QED BY <1>7, <2>1, <2>2, <2>3
<1>9. /\ stage'[c] = s /\ \A d \in Crop : d # c => stage'[d] = stage[d]
      /\ stage' \in [Crop -> Pool!Stages]
  BY <1>8 DEF TypeInv, Pool!Stages
<1>10. /\ QueuedOnce' /\ tasks' \in Seq(Crop)
  <2>1. CASE s = "queued"
    <3>1. stage[c] # "queued" /\ tasks' = Append(tasks, c) BY <1>8, <2>1
    <3>2. QED BY <1>8, <2>1, <3>1, QueuedAppend DEF CropInv
  <2>2. CASE s # "queued"
    <3>1. \A d \in Crop : stage[d] = "queued" => stage'[d] = "queued" BY <1>8, <1>9
    <3>2. QED BY <1>8, <2>2, <3>1, QueuedSame DEF CropInv, TypeInv
  <2>3. QED BY <2>1, <2>2
<1>11. WorkMove(a, x)
  <2>1. \A q \in Page : next'[q] \in Nat /\ next'[q] >= next[q]
    BY <1>6 DEF frameVars, TypeInv
  <2>2. QED BY <1>2, <1>6, <1>8, <2>1 DEF WorkMove, frameVars, endVars, control
<1>12. TypeInv'
  BY <1>6, <1>8, <1>9, <1>10, <1>11, WorkTypes DEF TypeInv, frameVars
<1>13. PlaceInv' /\ TaskInv' /\ ProgressInv' BY <1>11, WorkKeeps
<1>14. ReasonInv' BY <1>3, <1>6, <1>11, WorkReason DEF frameVars
<1>15. /\ \A b \in Agent \ {a} : pc'[b] = pc[b] /\ onPage'[b] = onPage[b] /\ index'[b] = index[b]
       /\ pc'[a] = x /\ onPage'[a] = p /\ index'[a] = i
       /\ \A q \in Page : (pc'[q] \in {"new", "returned"}) <=> (pc[q] \in {"new", "returned"})
       /\ RecordErrors' = RecordErrors /\ boxes' = boxes /\ mode' = mode
  BY <1>3, <1>4, <1>6, <1>11, WorkOthers DEF control
<1>16. UNCHANGED <<box, next, stop, error, cancel, pending>> BY <1>6 DEF frameVars, control
<1>17. HoldInv'
  <2>1. i \in 1 .. boxes[p] BY <1>1, <1>3, <1>4, HoldFacts
  <2>2. QED BY <1>3, <1>6, <1>15, <2>1 DEF HoldInv
<1>18. ASSUME NEW q \in Page, NEW j \in 1 .. boxes[q] PROVE BoxOf(q, j)'
  <2>1. BoxOf(q, j) /\ j \in Nat BY Workers DEF BoxInv
  <2>2. CASE <<q, j>> # c
    <3>1. <<q, j>> \in Crop
      <4>1. boxes[q] \in Nat /\ boxes[q] <= MaxBoxes /\ MaxBoxes \in Nat BY Workers, Constants
      <4>2. j \in 1 .. MaxBoxes BY <4>1
      <4>3. QED BY <4>2 DEF Crop
    <3>2. stage'[<<q, j>>] = stage[<<q, j>>] BY <1>9, <2>2, <3>1
    <3>3. \A b \in Agent : onPage[b] = q /\ index[b] = j /\ pc[b] \in Holding =>
             onPage'[b] = q /\ index'[b] = j /\ pc'[b] = pc[b]
      BY <1>3, <1>4, <1>5, <1>15, <2>2
    <3>4. box[q][j] = "todo" => j > next'[q] BY <1>16, <2>1 DEF BoxOf
    <3>5. QED BY <1>15, <1>16, <2>1, <3>2, <3>3, <3>4, BoxSame
  <2>3. CASE <<q, j>> = c
    <3>1. q = p /\ j = i BY <1>5, <2>3
    <3>2. Holds(p, i, {"box"}) => Holds(p, i, {"box"})' BY <1>1, <1>15 DEF Holds
    <3>3. Holds(p, i, {"infer"}) => Holds(p, i, {"infer"})' BY <1>1, <1>15 DEF Holds
    <3>4. s # "queued" => Holds(p, i, {"recognize", "admit"})' BY <1>8, <1>15 DEF Holds
    <3>5. stage[<<p, i>>] = "waiting" /\ stage'[<<p, i>>] = s BY <1>5, <1>8, <1>9
    <3>6. QED BY <1>15, <1>16, <2>1, <3>1, <3>2, <3>3, <3>4, <3>5 DEF BoxOf
  <2>4. QED BY <2>2, <2>3
<1>19. ASSUME NEW q \in Page, NEW j \in 1 .. MaxBoxes PROVE WaitOf(q, j)'
  <2>1. WaitOf(q, j) /\ j \in Nat /\ <<q, j>> \in Crop BY Constants DEF CropInv, Crop
  <2>2. Stopped(q)' <=> Stopped(q) BY <1>16 DEF Stopped
  <2>3. CASE <<q, j>> # c
    <3>1. stage'[<<q, j>>] = stage[<<q, j>>] BY <1>9, <2>1, <2>3
    <3>2. \A b \in Agent : onPage[b] = q /\ index[b] = j /\ pc[b] = "admit" =>
             onPage'[b] = q /\ index'[b] = j /\ pc'[b] = "admit"
      BY <1>3, <1>4, <1>5, <1>15, <2>3
    <3>3. QED BY <2>1, <2>2, <3>1, <3>2, WaitSame
  <2>4. CASE <<q, j>> = c
    <3>1. q = p /\ stage'[<<q, j>>] = s BY <1>5, <1>9, <2>4
    <3>2. QED BY <1>8, <2>2, <3>1 DEF WaitOf
  <2>5. QED BY <2>3, <2>4
<1>20. ASSUME NEW q \in Page PROVE PendOf(q)'
  <2>1. Cardinality(Submitting(q)') = Cardinality(Submitting(q))
           + Bit(p = q /\ x = "admit") - Bit(p = q /\ pc[a] = "admit")
    BY <1>3, <1>15, SubmitterMoved
  <2>2. c[1] = p BY <1>5
  <2>3. Cardinality(InPool(q)') = Cardinality(InPool(q))
           + Bit(p = q /\ s \in PoolStages) - Bit(p = q /\ stage[c] \in PoolStages)
    BY <1>9, <2>2, CropMoved
  <2>4. PendOf(q) /\ Cardinality(InPool(q)) \in Nat /\ Cardinality(Submitting(q)) \in Nat
    BY PendCounts DEF PendInv
  <2>5. /\ (x = "admit") <=> (s # "queued")
        /\ (s \in PoolStages) <=> (s = "queued") 
        /\ stage[c] \notin PoolStages
    BY <1>8 DEF PoolStages
  <2>6. Cardinality(InPool(q)') + Cardinality(Submitting(q)')
          = Cardinality(InPool(q)) + Cardinality(Submitting(q))
    BY <1>1, <2>1, <2>3, <2>4, <2>5 DEF Bit
  <2>7. QED BY <1>15, <1>16, <2>4, <2>6 DEF PendOf
<1>21. QED BY <1>10, <1>12, <1>13, <1>14, <1>15, <1>17, <1>18, <1>19, <1>20
       DEF BoxInv, CropInv, PendInv

LEMMA BoxThreadStep ==
  ASSUME IInv, NEW a \in Agent, Box(a)
  PROVE  IInv'
<1>1. CASE Claim(a)
  <2>1. onPage[a] \in Page BY <1>1, AtWork DEF IInv, Claim, WorkPlaces
  <2>2. PICK p \in Page : p = onPage[a] BY <2>1
  <2>3. next[p] \in Nat /\ boxes[p] \in Nat BY Workers DEF IInv, TypeInv
  <2>4. next[p] < boxes[p] \/ next[p] >= boxes[p] BY <2>3
  <2>5. QED BY <1>1, <2>2, <2>4, ClaimStep, LookStep
<1>2. CASE Infer(a) BY <1>2, OwnEnd, PrepareStep
<1>3. QED BY <1>1, <1>2, LookStep, OwnEnd, RejectedStep, PrepareStep, AdmissionStep DEF Box

-----------------------------------------------------------------------------
(* The steps of the recognition pool's threads.                            *)

\* Nothing but a crop, its box and what the page knows of them.
LEMMA ThreadsStay ==
  ASSUME IInv, UNCHANGED <<agentVars, queue, next, outstanding, launched, thrown, cancel, mode, boxes>>,
         \A p \in Page : stop[p] => stop'[p],
         stopping' = stopping \/ \A a \in Agent : pc[a] \in {"returned", "exited"}
  PROVE  PlaceInv' /\ TaskInv' /\ ProgressInv' /\ HoldInv'
<1> USE DEF IInv
<1>1. UNCHANGED <<pc, onPage, index>> BY DEF agentVars
<1>2. /\ OwnThreads' = OwnThreads /\ \A p : WorkerCount(p)' = WorkerCount(p) BY CountKept
<1>3. \A p : /\ Tasks(p)' = Tasks(p) /\ Seekers(p)' = Seekers(p)
             /\ Successors(p)' = Successors(p) /\ Insiders(p)' = Insiders(p)
             /\ Queued(p)' = Queued(p)
  BY <1>1, AtKept DEF Queued
<1>4. PlaceInv' BY <1>1, <1>2 DEF PlaceInv
<1>5. TaskInv'
  <2>1. ASSUME NEW p \in Page PROVE TasksOf(p)'
    <3>1. TasksOf(p) BY DEF TaskInv
    <3>2. QED BY <1>1, <1>2, <1>3, <3>1 DEF TasksOf, Clean, Pushing
  <2>2. QED BY <2>1 DEF TaskInv
<1>6. ProgressInv'
  <2>1. ASSUME NEW p \in Page PROVE Progress(p)'
    <3>1. Progress(p) /\ (Stopped(p) => Stopped(p)') /\ (stop[p] => stop'[p])
      BY DEF ProgressInv, Stopped
    <3>2. QED BY <1>1, <1>3, <3>1 DEF Progress
  <2>2. QED BY <2>1 DEF ProgressInv
<1>7. HoldInv' BY <1>1 DEF HoldInv
<1>8. QED BY <1>4, <1>5, <1>6, <1>7

\* A crop (p, i) goes to stage s, its box perhaps to r.
CropStep(p, i, s, r) ==
  /\ <<p, i>> \in Crop /\ stage' = [stage EXCEPT ![<<p, i>>] = s]
  /\ UNCHANGED <<agentVars, queue, next, outstanding, launched, thrown, result, cancel, mode, boxes,
                 stopping>>
  /\ \/ stage[<<p, i>>] = "queued" /\ s = "running"
     \/ stage[<<p, i>>] = "running" /\ s \in {"running", "released"}
     \/ stage[<<p, i>>] = "released" /\ s = "credited"
     \/ stage[<<p, i>>] = "credited" /\ s = "done"
  /\ \/ box' = box /\ UNCHANGED <<stop, error>> /\ s # "released"
     \/ /\ box' = [box EXCEPT ![p][i] = r] /\ box[p][i] \in {"recognizing", "inferring"}
        /\ \/ r = "inferring" /\ s = "running" /\ UNCHANGED <<stop, error>>
           \/ /\ r \in {"done", "failed", "cancelled"} /\ s = "released" /\ Outcome(p, i, r)
              /\ r = "cancelled" => Excused(p) \/ error[p] # "none"
  /\ pending' = [pending EXCEPT ![p] = @ - Bit(s = "done")]
  /\ QueuedOnce' /\ tasks' \in Seq(Crop) /\ crop' \in [RecWorker -> Crop \cup {NoCrop}]

LEMMA OutcomeType ==
  ASSUME TypeInv, NEW p \in Page, NEW i, NEW r \in {"done", "failed", "cancelled"}, Outcome(p, i, r)
  PROVE  /\ stop' \in [Page -> BOOLEAN] /\ error' \in [Page -> {"none", "failed", "cancelled"}]
         /\ \A q \in Page \ {p} : stop'[q] = stop[q] /\ error'[q] = error[q]
         /\ \A q \in Page : (stop[q] => stop'[q]) /\ (error[q] # "none" => error'[q] = error[q])
         /\ \/ stop'[p] = stop[p] /\ error'[p] = error[p]
            \/ error'[p] # "none" /\ (error'[p] = "cancelled" => error[p] = "cancelled"
                                                        \/ (r = "cancelled" /\ error[p] = "none"))
         /\ r = "cancelled" \/ (r = "failed" /\ ~RecordErrors) => error'[p] # "none"
<1>1. CASE r = "cancelled" \/ (r = "failed" /\ ~RecordErrors)
  <2>1. /\ error' = [error EXCEPT ![p] = IF @ = "none" THEN r ELSE @]
        /\ stop' = [stop EXCEPT ![p] = TRUE]
    BY <1>1 DEF Outcome
  <2>2. stop' \in [Page -> BOOLEAN] /\ stop'[p] = TRUE /\ \A q \in Page \ {p} : stop'[q] = stop[q]
    BY <2>1, Zenon DEF TypeInv
  <2>3. r \in {"none", "failed", "cancelled"} BY <1>1
  <2>4. /\ error' \in [Page -> {"none", "failed", "cancelled"}]
        /\ \A q \in Page \ {p} : error'[q] = error[q]
        /\ error'[p] = IF error[p] = "none" THEN r ELSE error[p]
    BY <2>1, <2>3 DEF TypeInv
  <2>5. error'[p] # "none" /\ (error'[p] = "cancelled" => error[p] = "cancelled"
                                                        \/ (r = "cancelled" /\ error[p] = "none"))
    BY <1>1, <2>4
  <2>6. QED BY <2>2, <2>4, <2>5
<1>2. CASE ~(r = "cancelled" \/ (r = "failed" /\ ~RecordErrors))
  <2>1. UNCHANGED <<error, stop>> BY <1>2 DEF Outcome
  <2>2. QED BY <1>2, <2>1 DEF TypeInv
<1>3. QED BY <1>1, <1>2

LEMMA CropStepKeeps ==
  ASSUME IInv, NEW p \in Page, NEW i \in Nat, NEW s, NEW r, CropStep(p, i, s, r)
  PROVE  IInv'
<1> USE DEF IInv
<1>1. /\ <<p, i>> \in Crop /\ s \in {"running", "released", "credited", "done"}
      /\ stage' \in [Crop -> Pool!Stages] /\ stage'[<<p, i>>] = s
      /\ \A d \in Crop : d # <<p, i>> => stage'[d] = stage[d]
  BY DEF CropStep, TypeInv, Pool!Stages
<1>2. /\ UNCHANGED <<pc, onPage, index, queue, next, outstanding, launched, thrown, result, cancel,
                     mode, boxes, stopping>>
      /\ RecordErrors' = RecordErrors /\ CanRefuse' = CanRefuse /\ OwnThreads' = OwnThreads
  BY CountKept DEF CropStep, agentVars
<1>3. /\ stop' \in [Page -> BOOLEAN] /\ error' \in [Page -> {"none", "failed", "cancelled"}]
      /\ \A q \in Page \ {p} : stop'[q] = stop[q] /\ error'[q] = error[q]
      /\ \A q \in Page : (stop[q] => stop'[q]) /\ (error[q] # "none" => error'[q] # "none")
      /\ \/ stop'[p] = stop[p] /\ error'[p] = error[p]
         \/ error'[p] # "none" /\ (error'[p] = "cancelled" => error[p] = "cancelled" \/ Excused(p))
  <2>1. CASE UNCHANGED <<stop, error>> /\ (box' = box \/ r = "inferring") BY <2>1 DEF TypeInv
  <2>2. CASE /\ r \in {"done", "failed", "cancelled"} /\ Outcome(p, i, r)
             /\ r = "cancelled" => Excused(p) \/ error[p] # "none"
    <3>1. /\ stop' \in [Page -> BOOLEAN] /\ error' \in [Page -> {"none", "failed", "cancelled"}]
          /\ \A q \in Page \ {p} : stop'[q] = stop[q] /\ error'[q] = error[q]
          /\ \A q \in Page : (stop[q] => stop'[q]) /\ (error[q] # "none" => error'[q] = error[q])
          /\ \/ stop'[p] = stop[p] /\ error'[p] = error[p]
             \/ error'[p] # "none" /\ (error'[p] = "cancelled" => error[p] = "cancelled"
                                                         \/ (r = "cancelled" /\ error[p] = "none"))
          /\ r = "cancelled" \/ (r = "failed" /\ ~RecordErrors) => error'[p] # "none"
      BY <2>2, OutcomeType
    <3>2. \/ stop'[p] = stop[p] /\ error'[p] = error[p]
          \/ error'[p] # "none" /\ (error'[p] = "cancelled" => error[p] = "cancelled" \/ Excused(p))
      BY <2>2, <3>1
    <3>3. \A q \in Page : error[q] # "none" => error'[q] # "none" BY <3>1
    <3>4. QED BY <3>1, <3>2, <3>3
  <2>3. QED BY <2>1, <2>2 DEF CropStep
<1>4. /\ DOMAIN box' = Page /\ \A q \in Page : box'[q] \in [1 .. boxes[q] -> BoxStates]
      /\ \A q \in Page \ {p} : box'[q] = box[q]
      /\ \A j \in 1 .. boxes[p] : j # i => box'[p][j] = box[p][j]
      /\ box' = box \/ (i \in 1 .. boxes[p] => box'[p][i] = r)
  <2>1. CASE box' = box BY <2>1 DEF TypeInv
  <2>2. CASE box' = [box EXCEPT ![p][i] = r] /\ r \in {"inferring", "done", "failed", "cancelled"}
    BY <2>2 DEF TypeInv, BoxStates
  <2>3. QED BY <2>1, <2>2 DEF CropStep
<1>5. TypeInv'
  <2>1. pending' \in [Page -> Int] BY DEF CropStep, TypeInv, Bit
  <2>2. tasks' \in Seq(Crop) /\ crop' \in [RecWorker -> Crop \cup {NoCrop}] BY DEF CropStep
  <2>3. QED BY <1>1, <1>2, <1>3, <1>4, <2>1, <2>2 DEF TypeInv
<1>6. PlaceInv' /\ TaskInv' /\ ProgressInv' /\ HoldInv'
  BY <1>2, <1>3, ThreadsStay DEF agentVars
<1>7. ASSUME NEW q \in Page, NEW j \in 1 .. boxes[q] PROVE BoxOf(q, j)'
  <2>1. BoxOf(q, j) /\ j \in Nat BY Workers DEF BoxInv
  <2>2. /\ Holds(q, j, {"box"})' <=> Holds(q, j, {"box"})
        /\ Holds(q, j, {"recognize", "admit"})' <=> Holds(q, j, {"recognize", "admit"})
        /\ Holds(q, j, {"infer"})' <=> Holds(q, j, {"infer"})
    BY <1>2 DEF Holds
  <2>3. error[q] # "none" => error'[q] # "none" BY <1>3
  <2>4. CASE q # p \/ j # i
    <3>1. <<q, j>> \in Crop
      <4>1. boxes[q] \in Nat /\ boxes[q] <= MaxBoxes /\ MaxBoxes \in Nat BY Workers, Constants
      <4>2. j \in 1 .. MaxBoxes BY <4>1
      <4>3. QED BY <4>2 DEF Crop
    <3>2. stage'[<<q, j>>] = stage[<<q, j>>] BY <1>1, <2>4, <3>1
    <3>3. box'[q][j] = box[q][j] BY <1>4, <2>4
    <3>4. QED BY <1>2, <2>1, <2>2, <2>3, <3>2, <3>3 DEF BoxOf
  <2>5. CASE q = p /\ j = i
    <3>1. CASE box' = box
      <4>1. s # "released" \/ stage[<<p, i>>] \notin {"queued", "running"}
            \/ (box' = [box EXCEPT ![p][i] = r] /\ r \in {"done", "failed", "cancelled"})
        BY DEF CropStep
      <4>2. CASE s # "released"
        <5>1. /\ stage[<<p, i>>] \in {"queued", "running"} => s \in {"queued", "running"}
              /\ stage[<<p, i>>] = "running" => s = "running"
          BY <4>2 DEF CropStep
        <5>2. QED BY <1>1, <1>2, <2>1, <2>2, <2>3, <2>5, <3>1, <5>1 DEF BoxOf
      <4>3. CASE s = "released"
        <5>1. r \in {"done", "failed", "cancelled"} /\ box' = [box EXCEPT ![p][i] = r]
              /\ (r = "cancelled" \/ (r = "failed" /\ ~RecordErrors) => error'[p] # "none")
          BY <4>3, OutcomeType DEF CropStep
        <5>2. box'[p][i] = r BY <2>5, <5>1 DEF TypeInv
        <5>3. QED BY <1>2, <2>5, <5>1, <5>2 DEF BoxOf
      <4>4. QED BY <4>2, <4>3
    <3>2. CASE box' # box
      <4>1. box'[p][i] = r BY <1>4, <2>5, <3>2
      <4>2. CASE r = "inferring" /\ s = "running"
        BY <1>1, <2>5, <4>1, <4>2 DEF BoxOf
      <4>3. CASE r \in {"done", "failed", "cancelled"} /\ Outcome(p, i, r)
        <5>1. r = "cancelled" \/ (r = "failed" /\ ~RecordErrors) => error'[p] # "none"
          BY <4>3, OutcomeType
        <5>2. QED BY <1>2, <2>5, <4>1, <4>3, <5>1 DEF BoxOf
      <4>4. QED BY <3>2, <4>2, <4>3 DEF CropStep
    <3>3. QED BY <3>1, <3>2
  <2>6. QED BY <2>4, <2>5
<1>8. ASSUME NEW q \in Page, NEW j \in 1 .. MaxBoxes PROVE WaitOf(q, j)'
  <2>1. WaitOf(q, j) /\ <<q, j>> \in Crop BY DEF CropInv, Crop
  <2>2. Stopped(q) => Stopped(q)' BY <1>2, <1>3 DEF Stopped
  <2>3. Holds(q, j, {"admit"})' <=> Holds(q, j, {"admit"}) BY <1>2 DEF Holds
  <2>4. stage'[<<q, j>>] \in {"waiting", "withdrawn"} => stage'[<<q, j>>] = stage[<<q, j>>]
    BY <1>1, <2>1
  <2>5. QED BY <2>1, <2>2, <2>3, <2>4 DEF WaitOf
<1>9. ASSUME NEW q \in Page PROVE PendOf(q)'
  <2>1. PICK c \in Crop : c = <<p, i>> /\ c[1] = p BY <1>1
  <2>2. Cardinality(InPool(q)') = Cardinality(InPool(q))
           + Bit(p = q /\ s \in PoolStages) - Bit(p = q /\ stage[c] \in PoolStages)
    BY <1>1, <2>1, CropMoved
  <2>3. Submitting(q)' = Submitting(q) BY <1>2 DEF Submitting
  <2>4. /\ PendOf(q) /\ Cardinality(InPool(q)) \in Nat /\ Cardinality(Submitting(q)) \in Nat
        /\ Cardinality(InPool(q)) = 0 <=> InPool(q) = {}
    BY PendCounts DEF PendInv
  <2>5. stage[c] \in PoolStages /\ ((s \in PoolStages) <=> (s # "done"))
    BY <1>1, <2>1 DEF CropStep, PoolStages
  <2>6. CASE q = p
    <3>1. pending'[p] = pending[p] - Bit(s = "done") BY DEF CropStep, TypeInv
    <3>2. Cardinality(InPool(p)') = Cardinality(InPool(p)) - Bit(s = "done")
      BY <2>2, <2>4, <2>5, <2>6 DEF Bit
    <3>3. pc[p] \notin {"new", "returned"}
      <4>1. c \in InPool(p) BY <2>1, <2>5 DEF InPool
      <4>2. Cardinality(InPool(p)) # 0 BY <2>4, <2>6, <4>1
      <4>3. QED BY <2>4, <2>6, <4>2 DEF PendOf
    <3>4. Bit(s = "done") \in Nat BY DEF Bit
    <3>5. pending'[p] = Cardinality(InPool(p)') + Cardinality(Submitting(p))
      BY <2>4, <2>6, <3>1, <3>2, <3>4 DEF PendOf
    <3>6. QED BY <1>2, <2>3, <2>6, <3>3, <3>5 DEF PendOf
  <2>7. CASE q # p
    <3>1. pending'[q] = pending[q] BY <2>7 DEF CropStep, TypeInv
    <3>2. Cardinality(InPool(q)') = Cardinality(InPool(q)) BY <2>2, <2>4, <2>7 DEF Bit
    <3>3. QED BY <1>2, <2>3, <2>4, <3>1, <3>2 DEF PendOf
  <2>8. QED BY <2>6, <2>7
<1>10. ASSUME NEW q \in Page PROVE ReasonOf(q)'
  <2>1. ReasonOf(q) /\ Blamers(q)' = Blamers(q) BY <1>2, AtKept DEF ReasonInv
  <2>2. Excused(q)' <=> Excused(q) BY <1>2 DEF Excused
  <2>3. ReportOf(q)'
    <3>1. CASE q # p BY <1>2, <1>4, <2>1, <3>1 DEF ReasonOf, ReportOf
    <3>2. CASE q = p
      <4>1. CASE box' = box BY <1>2, <2>1, <4>1 DEF ReasonOf, ReportOf
      <4>2. CASE box' # box
        <5>1. box[p][i] \in {"recognizing", "inferring"} BY <4>2 DEF CropStep
        <5>2. result[p] = "ok" => i \notin 1 .. boxes[p]
          BY <2>1, <3>2, <5>1 DEF ReasonOf, ReportOf
        <5>3. QED BY <1>2, <1>4, <2>1, <3>2, <5>2 DEF ReasonOf, ReportOf
      <4>3. QED BY <4>1, <4>2
    <3>3. QED BY <3>1, <3>2
  <2>4. stop'[q] => error'[q] # "none" \/ thrown'[q] \/ Blamers(q)' # {}
    BY <1>2, <1>3, <2>1 DEF ReasonOf
  <2>5. error'[q] = "cancelled" => Excused(q)' BY <1>3, <2>1, <2>2 DEF ReasonOf
  <2>6. QED BY <1>2, <2>1, <2>3, <2>4, <2>5 DEF ReasonOf
<1>11. QueuedOnce' BY DEF CropStep
<1>12. QED BY <1>2, <1>5, <1>6, <1>7, <1>8, <1>9, <1>10, <1>11 DEF BoxInv, CropInv, PendInv, ReasonInv

\* The crop a thread works on.
LEMMA CropFacts ==
  ASSUME TypeInv, NEW v \in RecWorker, crop[v] # NoCrop
  PROVE  \E p \in Page : \E i \in Nat : /\ crop[v] = <<p, i>> /\ <<p, i>> \in Crop
                                        /\ crop[v][1] = p /\ crop[v][2] = i
<1>1. crop[v] \in Crop BY DEF TypeInv
<1>2. PICK p \in Page, i \in 1 .. MaxBoxes : crop[v] = <<p, i>> BY <1>1 DEF Crop
<1>3. i \in Nat BY Constants
<1>4. QED BY <1>1, <1>2, <1>3

LEMMA TakeCropStep ==
  ASSUME IInv, NEW v \in RecWorker, TakeCrop(v)
  PROVE  IInv'
<1> USE DEF IInv
<1>1. /\ tasks # <<>> /\ tasks' = Tail(tasks)
      /\ stage' = [stage EXCEPT ![Head(tasks)] = "running"]
      /\ crop' = [crop EXCEPT ![v] = Head(tasks)]
      /\ UNCHANGED <<agentVars, queue, frameVars, control, stopping>>
  BY DEF TakeCrop, Pool!Take, Pool!At
<1>2. Head(tasks) \in Crop BY <1>1, FirstPosition DEF TypeInv
<1>3. PICK p \in Page, i \in 1 .. MaxBoxes : Head(tasks) = <<p, i>> BY <1>2 DEF Crop
<1>4. i \in Nat /\ <<p, i>> \in Crop BY <1>2, <1>3, Constants
<1>5. stage' = [stage EXCEPT ![<<p, i>>] = "running"] BY <1>1, <1>3
<1>6. QueuedOnce' /\ tasks' \in Seq(Crop) /\ stage[<<p, i>>] = "queued"
  BY <1>1, <1>3, <1>4, <1>5, QueuedTail DEF CropInv
<1>7. crop' \in [RecWorker -> Crop \cup {NoCrop}] BY <1>1, <1>2 DEF TypeInv
<1>8. pending' = [pending EXCEPT ![p] = @ - Bit("running" = "done")]
  <2>1. pending' = pending BY <1>1 DEF frameVars
  <2>2. QED BY <2>1, NoBit
<1>9. CropStep(p, i, "running", "inferring")
  BY <1>1, <1>4, <1>5, <1>6, <1>7, <1>8 DEF CropStep, frameVars, endVars, control
<1>10. QED BY <1>4, <1>9, CropStepKeeps

LEMMA InferCropStep ==
  ASSUME IInv, NEW v \in RecWorker, InferCrop(v)
  PROVE  IInv'
<1> USE DEF IInv
<1>1. PICK p \in Page, i \in Nat : /\ crop[v] = <<p, i>> /\ <<p, i>> \in Crop
                                   /\ crop[v][1] = p /\ crop[v][2] = i
  BY CropFacts DEF InferCrop
<1>2. /\ stage[<<p, i>>] = "running" /\ box[p][i] = "recognizing"
      /\ IF Stopped(p)
         THEN Outcome(p, i, "cancelled") /\ Pool!Work(v, "cancelled")
         ELSE /\ box' = [box EXCEPT ![p][i] = "inferring"]
              /\ UNCHANGED <<stop, error, poolVars>>
      /\ UNCHANGED <<agentVars, queue, restOfFrame, pending, control>>
  BY <1>1 DEF InferCrop
<1>3. /\ pending' = [pending EXCEPT ![p] = @ - Bit("running" = "done")]
      /\ pending' = [pending EXCEPT ![p] = @ - Bit("released" = "done")]
  <2>1. pending' = pending BY <1>2
  <2>2. QED BY <2>1, NoBit
<1>4. CASE Stopped(p)
  <2>1. /\ Outcome(p, i, "cancelled") /\ box' = [box EXCEPT ![p][i] = "cancelled"]
        /\ stage' = [stage EXCEPT ![<<p, i>>] = "released"]
        /\ UNCHANGED <<tasks, crop, stopping>>
    BY <1>1, <1>2, <1>4 DEF Outcome, Pool!Work, Pool!At
  <2>2. QueuedOnce'
    <3>1. \A c \in Crop : stage[c] = "queued" => stage'[c] = "queued"
      BY <1>1, <1>2, <2>1 DEF TypeInv
    <3>2. QED BY <2>1, <3>1, QueuedSame DEF CropInv
  <2>3. Excused(p) \/ error[p] # "none" BY <1>4, StoppedExcuse DEF ReasonInv
  <2>4. tasks' \in Seq(Crop) /\ crop' \in [RecWorker -> Crop \cup {NoCrop}] BY <2>1 DEF TypeInv
  <2>5. CropStep(p, i, "released", "cancelled")
    BY <1>1, <1>2, <1>3, <2>1, <2>2, <2>3, <2>4 DEF CropStep, restOfFrame, endVars, control
  <2>6. QED BY <2>5, CropStepKeeps
<1>5. CASE ~Stopped(p)
  <2>1. /\ box' = [box EXCEPT ![p][i] = "inferring"] /\ UNCHANGED <<stop, error>>
        /\ UNCHANGED <<stage, tasks, crop, stopping>>
    BY <1>2, <1>5 DEF poolVars
  <2>2. stage' = [stage EXCEPT ![<<p, i>>] = "running"] BY <1>2, <2>1 DEF TypeInv
  <2>3. QueuedOnce' BY <2>1, QueuedSame DEF CropInv
  <2>4. tasks' \in Seq(Crop) /\ crop' \in [RecWorker -> Crop \cup {NoCrop}] BY <2>1 DEF TypeInv
  <2>5. CropStep(p, i, "running", "inferring")
    BY <1>1, <1>2, <1>3, <2>1, <2>2, <2>3, <2>4 DEF CropStep, restOfFrame, endVars, control
  <2>6. QED BY <2>5, CropStepKeeps
<1>6. QED BY <1>4, <1>5

LEMMA AnswerCropStep ==
  ASSUME IInv, NEW v \in RecWorker, AnswerCrop(v)
  PROVE  IInv'
<1> USE DEF IInv
<1>1. PICK p \in Page, i \in Nat : /\ crop[v] = <<p, i>> /\ <<p, i>> \in Crop
                                   /\ crop[v][1] = p /\ crop[v][2] = i
  BY CropFacts DEF AnswerCrop
<1>2. /\ stage[<<p, i>>] = "running" /\ box[p][i] = "inferring"
      /\ UNCHANGED <<agentVars, queue, restOfFrame, pending, control>>
  BY <1>1 DEF AnswerCrop
<1>3. PICK r \in {"done", "failed", "cancelled"} :
        /\ r = "cancelled" => cancel[p]
        /\ Outcome(p, i, r) /\ Pool!Work(v, IF r = "done" THEN "ok" ELSE r)
  BY <1>1 DEF AnswerCrop, Answers
<1>4. pending' = [pending EXCEPT ![p] = @ - Bit("released" = "done")]
  <2>1. pending' = pending BY <1>2
  <2>2. QED BY <2>1, NoBit
<1>5. /\ box' = [box EXCEPT ![p][i] = r]
      /\ stage' = [stage EXCEPT ![<<p, i>>] = "released"]
      /\ UNCHANGED <<tasks, crop, stopping>>
  BY <1>1, <1>3 DEF Outcome, Pool!Work, Pool!At
<1>6. QueuedOnce'
  <2>1. \A c \in Crop : stage[c] = "queued" => stage'[c] = "queued"
    BY <1>1, <1>2, <1>5 DEF TypeInv
  <2>2. QED BY <1>5, <2>1, QueuedSame DEF CropInv
<1>7. r = "cancelled" => Excused(p) BY <1>3 DEF Excused
<1>8. tasks' \in Seq(Crop) /\ crop' \in [RecWorker -> Crop \cup {NoCrop}] BY <1>5 DEF TypeInv
<1>9. CropStep(p, i, "released", r)
  BY <1>1, <1>2, <1>3, <1>4, <1>5, <1>6, <1>7, <1>8 DEF CropStep, restOfFrame, endVars, control
<1>10. QED BY <1>9, CropStepKeeps

LEMMA LeaveCropStep ==
  ASSUME IInv, NEW v \in RecWorker, CreditCrop(v) \/ FinishCrop(v)
  PROVE  IInv'
<1> USE DEF IInv
<1>1. PICK p \in Page, i \in Nat : /\ crop[v] = <<p, i>> /\ <<p, i>> \in Crop
                                   /\ crop[v][1] = p /\ crop[v][2] = i
  BY CropFacts DEF CreditCrop, FinishCrop, Pool!Credit, Pool!Finished
<1>2. PICK s \in {"credited", "done"} :
        /\ s = "credited" => stage[<<p, i>>] = "released"
        /\ s = "done" => stage[<<p, i>>] = "credited"
        /\ stage' = [stage EXCEPT ![<<p, i>>] = s]
        /\ UNCHANGED <<agentVars, queue, stop, error, box, restOfFrame, control, tasks, stopping>>
        /\ crop' = crop \/ crop' = [crop EXCEPT ![v] = NoCrop]
        /\ s = "credited" => pending' = pending
        /\ s = "done" => pending' = [pending EXCEPT ![p] = @ - 1]
  <2>1. CASE CreditCrop(v)
    <3>1. /\ stage[<<p, i>>] = "released" /\ stage' = [stage EXCEPT ![<<p, i>>] = "credited"]
          /\ UNCHANGED <<agentVars, queue, frameVars, control, tasks, crop, stopping>>
      BY <1>1, <2>1 DEF CreditCrop, Pool!Credit, Pool!At, Pool!workerVars
    <3>2. QED BY <3>1 DEF frameVars, restOfFrame, endVars
  <2>2. CASE FinishCrop(v)
    <3>1. /\ stage[<<p, i>>] = "credited" /\ stage' = [stage EXCEPT ![<<p, i>>] = "done"]
          /\ crop' = [crop EXCEPT ![v] = NoCrop]
          /\ pending' = [pending EXCEPT ![p] = @ - 1]
          /\ UNCHANGED <<agentVars, queue, stop, error, box, restOfFrame, control, tasks, stopping>>
      BY <1>1, <2>2 DEF FinishCrop, Pool!Finished, Pool!At
    <3>2. QED BY <3>1
  <2>3. QED BY <2>1, <2>2
<1>3. pending' = [pending EXCEPT ![p] = @ - Bit(s = "done")]
  <2>1. CASE s = "done"
    <3>1. Bit(s = "done") = 1 BY <2>1 DEF Bit
    <3>2. QED BY <1>2, <2>1, <3>1
  <2>2. CASE s # "done"
    <3>1. pending' = pending BY <1>2, <2>2
    <3>2. QED BY <2>2, <3>1, NoBit
  <2>3. QED BY <2>1, <2>2
<1>4. QueuedOnce'
  <2>1. \A c \in Crop : stage[c] = "queued" => stage'[c] = "queued"
    BY <1>1, <1>2 DEF TypeInv
  <2>2. QED BY <1>2, <2>1, QueuedSame DEF CropInv
<1>5. tasks' \in Seq(Crop) /\ crop' \in [RecWorker -> Crop \cup {NoCrop}] BY <1>2 DEF TypeInv
<1>6. CropStep(p, i, s, "done")
  BY <1>1, <1>2, <1>3, <1>4, <1>5 DEF CropStep, restOfFrame, endVars, control
<1>7. QED BY <1>6, CropStepKeeps

-----------------------------------------------------------------------------
(* The surroundings.                                                       *)

\* A step that gives no page another reason to stop.
LEMMA ReasonKeeps ==
  ASSUME ReasonInv, UNCHANGED <<box, boxes, mode, result>>,
         \A p \in Page :
           /\ (thrown[p] => thrown'[p]) /\ (cancel[p] => cancel'[p])
           /\ (error[p] # "none" => error'[p] # "none")
           /\ (error'[p] = "cancelled" => error[p] = "cancelled")
           /\ (pc[p] = "returned" => pc'[p] = "returned")
           /\ (stop'[p] => stop[p] \/ thrown'[p] \/ Blamers(p)' # {})
           /\ (Blamers(p) # {} => Blamers(p)' # {} \/ error'[p] # "none")
           /\ (thrown'[p] => thrown[p] \/ CanRefuse)
           /\ (Blamers(p)' # {} => Blamers(p) # {} \/ CanRefuse)
  PROVE  ReasonInv'
<1>1. RecordErrors' = RecordErrors /\ CanRefuse' = CanRefuse /\ OwnThreads' = OwnThreads
  BY CountKept
<1>2. ASSUME NEW p \in Page PROVE ReasonOf(p)'
  <2>1. ReasonOf(p) BY DEF ReasonInv
  <2>2. Excused(p) => Excused(p)' BY <1>1 DEF Excused
  <2>3. ReportOf(p)' BY <1>1, <2>1 DEF ReasonOf, ReportOf
  <2>4. stop'[p] => error'[p] # "none" \/ thrown'[p] \/ Blamers(p)' # {} BY <2>1 DEF ReasonOf
  <2>5. thrown'[p] \/ Blamers(p)' # {} => CanRefuse BY <2>1 DEF ReasonOf
  <2>6. error'[p] = "cancelled" => Excused(p)' BY <2>1, <2>2 DEF ReasonOf
  <2>7. result'[p] # "none" => pc'[p] = "returned" BY <2>1 DEF ReasonOf
  <2>8. QED BY <1>1, <2>3, <2>4, <2>5, <2>6, <2>7 DEF ReasonOf
<1>3. QED BY <1>2 DEF ReasonInv

\* Cancellation, the end of the pools, and steps that change nothing.
LEMMA SurroundingStep ==
  ASSUME IInv,
         \/ \E p \in Page : Cancel(p)
         \/ StopBoxPool \/ StopRecognition \/ UNCHANGED vars
         \/ \E v \in RecWorker : RecWorkerExits(v)
  PROVE  IInv'
<1> USE DEF IInv
<1>1. /\ UNCHANGED <<agentVars, queue, frameVars, mode, boxes, stage, tasks, crop>>
      /\ cancel' \in [Page -> BOOLEAN] /\ \A p \in Page : cancel[p] => cancel'[p]
      /\ stopping' = stopping \/ \A a \in Agent : pc[a] \in {"returned", "exited"}
  <2>1. CASE \E p \in Page : Cancel(p)
    <3>1. PICK p \in Page : cancel' = [cancel EXCEPT ![p] = TRUE]
      BY <2>1 DEF Cancel
    <3>2. cancel' \in [Page -> BOOLEAN] /\ cancel'[p] = TRUE
          /\ \A q \in Page \ {p} : cancel'[q] = cancel[q]
      BY <3>1, Zenon DEF TypeInv
    <3>3. QED BY <2>1, <3>2 DEF Cancel, poolVars
  <2>2. CASE StopBoxPool BY <2>2 DEF StopBoxPool, control, poolVars, TypeInv
  <2>3. CASE StopRecognition
    BY <2>3 DEF StopRecognition, control, Pool!Stop, Pool!workerVars, TypeInv
  <2>4. CASE UNCHANGED vars BY <2>4 DEF vars, control, poolVars, TypeInv
  <2>5. CASE \E v \in RecWorker : RecWorkerExits(v)
    BY <2>5 DEF RecWorkerExits, Pool!WorkerExits, control, TypeInv
  <2>6. QED BY <2>1, <2>2, <2>3, <2>4, <2>5
<1>2. UNCHANGED <<pc, onPage, index, queue, next, stop, error, outstanding, launched, pending, box,
                  thrown, result, mode, boxes, stage, tasks, crop>>
  BY <1>1 DEF agentVars, frameVars, endVars
<1>3. TypeInv' BY <1>1, <1>2 DEF TypeInv
<1>4. \A p : Blamers(p)' = Blamers(p) BY <1>2, AtKept
<1>5. ReasonInv' BY <1>1, <1>2, <1>4, ReasonKeeps
<1>6. PlaceInv' /\ TaskInv' /\ ProgressInv'
  <2>1. /\ OwnThreads' = OwnThreads /\ \A p : WorkerCount(p)' = WorkerCount(p)
        /\ \A p : /\ Tasks(p)' = Tasks(p) /\ Seekers(p)' = Seekers(p)
                  /\ Successors(p)' = Successors(p) /\ Insiders(p)' = Insiders(p)
                  /\ Queued(p)' = Queued(p)
    BY <1>2, AtKept, CountKept DEF Queued
  <2>2. PlaceInv' BY <1>1, <1>2, <2>1 DEF PlaceInv
  <2>3. ASSUME NEW p \in Page PROVE TasksOf(p)'
    <3>1. TasksOf(p) BY DEF TaskInv
    <3>2. QED BY <1>2, <2>1, <3>1 DEF TasksOf, Clean, Pushing
  <2>4. ASSUME NEW p \in Page PROVE Progress(p)'
    <3>1. Progress(p) /\ (Stopped(p) => Stopped(p)') BY <1>1, <1>2 DEF ProgressInv, Stopped
    <3>2. QED BY <1>2, <2>1, <3>1 DEF Progress
  <2>5. QED BY <2>2, <2>3, <2>4 DEF TaskInv, ProgressInv
<1>7. HoldInv' /\ BoxInv' /\ CropInv' /\ PendInv'
  <2>1. \A p \in Page : /\ Stopped(p) => Stopped(p)'
                        /\ pc'[p] \in {"new", "returned"} => pending[p] = 0
    BY <1>1, <1>2 DEF Stopped, PendInv, PendOf
  <2>2. QED BY <1>2, <2>1, ControlKeeps
<1>8. QED BY <1>3, <1>5, <1>6, <1>7

-----------------------------------------------------------------------------
(* The steps of a BOX worker between two boxes of page p.                  *)

WorkerOnly(w, p) ==
  /\ pc[w] \notin Holding \cup {"exited"} /\ pc'[w] \notin Holding
  /\ pc[w] \notin Idle => onPage[w] = p
  /\ pc'[w] \notin Idle => onPage'[w] = p
  /\ \A v \in BoxWorker \ {w} : pc'[v] = pc[v] /\ onPage'[v] = onPage[v] /\ index'[v] = index[v]
  /\ \A q \in Page : /\ onPage'[q] = onPage[q] /\ index'[q] = index[q]
                     /\ pc'[q] = pc[q] \/ (pc[q] = "asleep" /\ pc'[q] = "check")
                     /\ (stop[q] => stop'[q]) /\ (error[q] # "none" => error'[q] # "none")
  /\ \A q \in Page \ {p} : /\ Cardinality(Queued(q)') = Cardinality(Queued(q))
                           /\ outstanding'[q] = outstanding[q] /\ launched'[q] = launched[q]
  /\ UNCHANGED <<next, box, thrown, result, boxes, cancel, mode, pending, stage, tasks, crop,
                 stopping>>

\* d is what the page's share of the queue gains, l the threads it has started.
WorkerLedger(w, p, d, l) ==
  /\ Cardinality(Queued(p)') = Cardinality(Queued(p)) + d
  /\ d + Bit(pc'[w] \in Claimers) - Bit(pc[w] \in Claimers) <= l
  /\ ~OwnThreads =>
       outstanding'[p] = outstanding[p] + d + Bit(pc'[w] \in Counted) - Bit(pc[w] \in Counted)
                           + Bit(pc'[w] = "resubmit") - Bit(pc[w] = "resubmit")
  /\ launched'[p] = launched[p] + l
  /\ l > 0 => pc[p] = "spawn" /\ launched[p] < WorkerCount(p)
  /\ pc[p] \in Alone => d = 0 /\ pc'[w] \notin Inside
  /\ \/ next[p] >= boxes[p] \/ stop'[p] \/ cancel[p]
     \/ pc'[w] \in Claimers \/ Cardinality(Queued(p)') > 0
     \/ pc[w] \notin Claimers /\ d = 0 /\ l = 0

LEMMA WorkerKeepsTasks ==
  ASSUME IInv, TypeInv', NEW w \in BoxWorker, NEW p \in Page, NEW d \in Int, NEW l \in {0, 1},
         WorkerOnly(w, p), WorkerLedger(w, p, d, l)
  PROVE  TaskInv' /\ ProgressInv'
<1> USE DEF IInv
<1>1. queue \in Seq(Page) /\ queue' \in Seq(Page) BY DEF TypeInv
<1>2. \A q \in Page :
        /\ Cardinality(Tasks(q)') = Cardinality(Tasks(q))
             + Bit(q = p /\ pc'[w] \in Counted) - Bit(q = p /\ pc[w] \in Counted)
        /\ Cardinality(Seekers(q)') = Cardinality(Seekers(q))
             + Bit(q = p /\ pc'[w] \in Claimers) - Bit(q = p /\ pc[w] \in Claimers)
        /\ Cardinality(Successors(q)') = Cardinality(Successors(q))
             + Bit(q = p /\ pc'[w] = "resubmit") - Bit(q = p /\ pc[w] = "resubmit")
        /\ Seekers(q)' # {} <=> (q = p /\ pc'[w] \in Claimers) \/ Seekers(q) \ {w} # {}
        /\ Insiders(q)' = {} <=> ~(q = p /\ pc'[w] \in Inside) /\ Insiders(q) \subseteq {w}
        /\ w \in Seekers(q) <=> q = p /\ pc[w] \in Claimers
  <2>1. /\ pc[w] \in Inside => onPage[w] = p
        /\ pc'[w] \in Inside => onPage'[w] = p
    BY DEF WorkerOnly, Inside, Counted, Claimers, WorkPlaces, Idle
  <2>2. \A x : /\ (x \in Claimers => x \in Counted) /\ (x \in Counted => x \in Inside)
               /\ (x = "resubmit" => x \in Claimers)
    BY DEF Inside, Counted, Claimers
  <2>3. \A q \in Page :
          /\ (onPage'[w] = q /\ pc'[w] \in Counted) <=> (q = p /\ pc'[w] \in Counted)
          /\ (onPage[w] = q /\ pc[w] \in Counted) <=> (q = p /\ pc[w] \in Counted)
          /\ (onPage'[w] = q /\ pc'[w] \in Claimers) <=> (q = p /\ pc'[w] \in Claimers)
          /\ (onPage[w] = q /\ pc[w] \in Claimers) <=> (q = p /\ pc[w] \in Claimers)
          /\ (onPage'[w] = q /\ pc'[w] = "resubmit") <=> (q = p /\ pc'[w] = "resubmit")
          /\ (onPage[w] = q /\ pc[w] = "resubmit") <=> (q = p /\ pc[w] = "resubmit")
          /\ (onPage'[w] = q /\ pc'[w] \in Inside) <=> (q = p /\ pc'[w] \in Inside)
    BY <2>1, <2>2
  <2>4. \A v \in BoxWorker \ {w} : pc'[v] = pc[v] /\ onPage'[v] = onPage[v] BY DEF WorkerOnly
  <2>5. \A q :
    /\ Cardinality(Tasks(q)') = Cardinality(Tasks(q))
         + Bit(onPage'[w] = q /\ pc'[w] \in Counted) - Bit(onPage[w] = q /\ pc[w] \in Counted)
    /\ Cardinality(Seekers(q)') = Cardinality(Seekers(q))
         + Bit(onPage'[w] = q /\ pc'[w] \in Claimers) - Bit(onPage[w] = q /\ pc[w] \in Claimers)
    /\ Cardinality(Successors(q)') = Cardinality(Successors(q))
         + Bit(onPage'[w] = q /\ pc'[w] = "resubmit") - Bit(onPage[w] = q /\ pc[w] = "resubmit")
    /\ Seekers(q)' # {} <=> (onPage'[w] = q /\ pc'[w] \in Claimers) \/ Seekers(q) \ {w} # {}
    /\ Insiders(q)' = {} <=> ~(onPage'[w] = q /\ pc'[w] \in Inside) /\ Insiders(q) \subseteq {w}
    /\ w \in Seekers(q) <=> onPage[w] = q /\ pc[w] \in Claimers
    BY <1>1, <2>4, WorkerMoved
  <2>6. QED BY <2>3, <2>5 DEF Bit
<1>3. /\ OwnThreads' = OwnThreads /\ \A q \in Page : WorkerCount(q)' = WorkerCount(q)
      /\ boxes' = boxes /\ thrown' = thrown /\ next' = next /\ cancel' = cancel
  BY CountKept DEF WorkerOnly
<1>4. \A q \in Page : {Cardinality(Queued(q)), Cardinality(Tasks(q)), Cardinality(Seekers(q)),
                       Cardinality(Successors(q)), Cardinality(Queued(q)')} \subseteq Nat
                      /\ (Cardinality(Queued(q)) = 0 <=> Queued(q) = {})
                      /\ (Cardinality(Queued(q)') = 0 <=> Queued(q)' = {})
  BY <1>1, Counts, QueuedPositions, PositionsFinite
<1>5. ASSUME NEW q \in Page
      PROVE  /\ TasksOf(q) /\ Progress(q) /\ (Stopped(q) => Stopped(q)')
             /\ pc'[q] = pc[q] \/ (pc[q] = "asleep" /\ pc'[q] = "check")
             /\ launched[q] \in Nat /\ outstanding[q] \in Int /\ WorkerCount(q) \in Nat
             /\ boxes[q] \in Nat /\ next[q] \in Nat
             /\ Pushing(q)' = Pushing(q) /\ Pushing(q) \in Nat
             /\ pc'[q] \in Alone => pc[q] = pc'[q]
  <2>1. pc'[q] = pc[q] \/ (pc[q] = "asleep" /\ pc'[q] = "check") BY DEF WorkerOnly
  <2>2. Stopped(q) => Stopped(q)' BY <1>3 DEF Stopped, WorkerOnly
  <2>3. Pushing(q)' = Pushing(q) /\ Pushing(q) \in Nat BY <2>1 DEF Pushing
  <2>4. pc'[q] \in Alone => pc[q] = pc'[q] BY <2>1 DEF Alone, WorkPlaces
  <2>5. QED BY <2>1, <2>2, <2>3, <2>4, Workers DEF TaskInv, ProgressInv, TypeInv
<1>6. ASSUME NEW q \in Page, q # p PROVE TasksOf(q)' /\ Progress(q)'
  <2>1. /\ Cardinality(Tasks(q)') = Cardinality(Tasks(q))
        /\ Cardinality(Seekers(q)') = Cardinality(Seekers(q))
        /\ Cardinality(Successors(q)') = Cardinality(Successors(q))
        /\ Cardinality(Queued(q)') = Cardinality(Queued(q))
        /\ Seekers(q)' # {} <=> Seekers(q) # {}
        /\ Insiders(q) = {} => Insiders(q)' = {}
        /\ Queued(q)' = {} <=> Queued(q) = {}
        /\ outstanding'[q] = outstanding[q] /\ launched'[q] = launched[q]
    BY <1>2, <1>4, <1>6 DEF Bit, WorkerOnly
  <2>2. TasksOf(q)'
    <3>1. pc'[q] \in Alone => Clean(q)' BY <1>5, <2>1 DEF TasksOf, Clean
    <3>2. QED BY <1>3, <1>5, <2>1, <3>1 DEF TasksOf
  <2>3. Progress(q)' BY <1>3, <1>5, <2>1 DEF Progress, WorkerOnly
  <2>4. QED BY <2>2, <2>3
<1>7. TasksOf(p)'
  <2>1. ~OwnThreads => outstanding'[p] = Cardinality(Queued(p)') + Cardinality(Tasks(p)')
                          + Cardinality(Successors(p)') + Pushing(p)'
    <3>1. SUFFICES ASSUME ~OwnThreads
                   PROVE  outstanding'[p] = Cardinality(Queued(p)') + Cardinality(Tasks(p)')
                            + Cardinality(Successors(p)') + Pushing(p)'
      OBVIOUS
    <3>2. outstanding[p] = Cardinality(Queued(p)) + Cardinality(Tasks(p))
                          + Cardinality(Successors(p)) + Pushing(p)
      BY <1>5, <3>1 DEF TasksOf
    <3>3. QED BY <1>2, <1>4, <1>5, <3>1, <3>2 DEF Bit, WorkerLedger
  <2>2. /\ Cardinality(Queued(p)') + Cardinality(Seekers(p)') <= launched'[p]
        /\ launched'[p] <= WorkerCount(p)
    <3>1. /\ Cardinality(Queued(p)) + Cardinality(Seekers(p)) <= launched[p]
          /\ launched[p] <= WorkerCount(p)
      BY <1>5 DEF TasksOf
    <3>2. /\ launched'[p] = launched[p] + l /\ (l > 0 => launched[p] < WorkerCount(p))
          /\ Cardinality(Queued(p)') = Cardinality(Queued(p)) + d
          /\ d + Bit(pc'[w] \in Claimers) - Bit(pc[w] \in Claimers) <= l
      BY DEF WorkerLedger
    <3>3. Cardinality(Seekers(p)') = Cardinality(Seekers(p))
             + Bit(pc'[w] \in Claimers) - Bit(pc[w] \in Claimers)
      BY <1>2 DEF Bit
    <3>4. {Bit(pc'[w] \in Claimers), Bit(pc[w] \in Claimers)} \subseteq Int BY DEF Bit
    <3>5. QED BY <1>4, <1>5, <3>1, <3>2, <3>3, <3>4
  <2>3. pc'[p] = "push" => launched'[p] < WorkerCount(p)
    <3>1. l > 0 \/ l = 0 OBVIOUS
    <3>2. QED BY <1>5, <3>1 DEF WorkerLedger, TasksOf
  <2>4. pc'[p] \in {"launch", "push", "spawn"} => WorkerCount(p) > 1 BY <1>5 DEF TasksOf
  <2>5. pc'[p] \in Alone => Clean(p)'
    <3> SUFFICES ASSUME pc'[p] \in Alone PROVE Clean(p)' OBVIOUS
    <3>1. pc[p] \in Alone /\ Clean(p) BY <1>5 DEF TasksOf
    <3>2. Cardinality(Queued(p)') = Cardinality(Queued(p)) + 0 /\ pc'[w] \notin Inside
      BY <3>1 DEF WorkerLedger
    <3>3. Queued(p)' = {}
      <4>1. Queued(p) = {} BY <3>1 DEF Clean
      <4>2. Cardinality(Queued(p)) = 0 BY <1>4, <4>1
      <4>3. Cardinality(Queued(p)') = 0 BY <3>2, <4>2
      <4>4. QED BY <1>4, <4>3
    <3>4. Insiders(p)' = {} BY <1>2, <3>1, <3>2 DEF Clean
    <3>5. QED BY <3>3, <3>4 DEF Clean
  <2>6. QED BY <1>3, <2>1, <2>2, <2>3, <2>4, <2>5 DEF TasksOf
<1>8. Progress(p)'
  <2>1. launched'[p] \in Nat /\ launched'[p] >= launched[p] BY <1>5 DEF WorkerLedger
  <2>2. launched'[p] > 0 /\ next[p] < boxes[p] /\ ~Stopped(p)' => Queued(p)' # {} \/ Seekers(p)' # {}
    <3> SUFFICES ASSUME launched'[p] > 0, next[p] < boxes[p], ~Stopped(p)'
                 PROVE  Queued(p)' # {} \/ Seekers(p)' # {}
      OBVIOUS
    <3>1. CASE pc'[w] \in Claimers BY <1>2, <3>1
    <3>2. CASE Cardinality(Queued(p)') > 0 BY <1>4, <3>2
    <3>3. CASE pc[w] \notin Claimers /\ d = 0 /\ l = 0
      <4>1. launched[p] > 0 /\ Cardinality(Queued(p)') = Cardinality(Queued(p))
        BY <1>4, <1>5, <3>3 DEF WorkerLedger
      <4>2. Queued(p) # {} \/ Seekers(p) # {} BY <1>5, <4>1 DEF Progress
      <4>3. Seekers(p) \ {w} = Seekers(p) BY <1>2, <3>3
      <4>4. QED BY <1>2, <1>4, <4>1, <4>2, <4>3
    <3>4. ~stop'[p] /\ ~cancel[p] /\ ~(next[p] >= boxes[p]) BY <1>3, <1>5 DEF Stopped
    <3>5. QED BY <3>1, <3>2, <3>3, <3>4 DEF WorkerLedger
  <2>3. QED BY <1>3, <1>5, <2>1, <2>2 DEF Progress, WorkerOnly
<1>9. QED BY <1>6, <1>7, <1>8 DEF TaskInv, ProgressInv

LEMMA WorkerKeeps ==
  ASSUME IInv, TypeInv', ReasonInv', NEW w \in BoxWorker, NEW p \in Page,
         NEW d \in Int, NEW l \in {0, 1}, WorkerOnly(w, p), WorkerLedger(w, p, d, l),
         OwnThreads => queue' = <<>> /\ pc'[w] \notin {"again", "resubmit", "blame", "count", "notify"},
         ~OwnThreads => pc'[w] # "leave"
  PROVE  IInv'
<1> USE DEF IInv
<1>1. /\ \A q \in Page : q \in Agent /\ q \notin BoxWorker
      /\ \A v \in BoxWorker : v \in Agent
      /\ \A a \in Agent : a \in Page \/ a \in BoxWorker
  BY Constants DEF Agent
<1>2. OwnThreads' = OwnThreads BY CountKept DEF WorkerOnly
<1>3. PlaceInv'
  <2>1. ~stopping'
    <3>1. pc[w] # "exited" /\ stopping' = stopping BY DEF WorkerOnly
    <3>2. pc[w] # "returned" BY DEF TypeInv, WorkerPlaces, WorkPlaces, Idle
    <3>3. QED BY <1>1, <3>1, <3>2 DEF PlaceInv
  <2>2. \A q \in Page : onPage'[q] = q BY DEF PlaceInv, WorkerOnly
  <2>3. \A v \in BoxWorker : pc'[v] \notin Idle => onPage'[v] \in Page BY DEF PlaceInv, WorkerOnly
  <2>4. OwnThreads => \A q \in Page : pc'[q] \notin {"launch", "push", "abort", "check", "asleep"}
    BY DEF PlaceInv, WorkerOnly
  <2>5. OwnThreads => \A v \in BoxWorker : pc'[v] \notin {"again", "resubmit", "blame", "count", "notify"}
    BY DEF PlaceInv, WorkerOnly
  <2>6. ~OwnThreads => /\ \A q \in Page : pc'[q] \notin {"spawn", "join"}
                       /\ \A v \in BoxWorker : pc'[v] # "leave"
    BY DEF PlaceInv, WorkerOnly
  <2>7. QED BY <1>2, <2>1, <2>2, <2>3, <2>4, <2>5, <2>6 DEF PlaceInv
<1>4. TaskInv' /\ ProgressInv' BY WorkerKeepsTasks
<1>5. HoldInv' /\ BoxInv' /\ CropInv' /\ PendInv'
  <2>1. \A a \in Agent : pc'[a] \in Holding \/ pc[a] \in Holding =>
           pc'[a] = pc[a] /\ onPage'[a] = onPage[a] /\ index'[a] = index[a]
    BY <1>1 DEF WorkerOnly, Holding
  <2>2. \A q \in Page : /\ error[q] # "none" => error'[q] # "none"
                        /\ Stopped(q) => Stopped(q)'
                        /\ pc'[q] \in {"new", "returned"} => pending[q] = 0
    BY DEF WorkerOnly, Stopped, PendInv, PendOf
  <2>3. UNCHANGED <<box, next, stage, tasks, crop, pending, boxes, mode>> BY DEF WorkerOnly
  <2>4. QED BY <2>1, <2>2, <2>3, ControlKeeps
<1>6. QED BY <1>3, <1>4, <1>5

\* What a worker between two boxes may assume.
LEMMA WorkerFacts ==
  ASSUME IInv, NEW w \in BoxWorker
  PROVE  /\ w \in Agent /\ w \notin Page /\ \A q \in Page : q \in Agent /\ q \notin BoxWorker
         /\ pc[w] \notin Idle => onPage[w] \in Page
         /\ \A p \in Page : onPage[w] = p /\ pc[w] \in Inside => pc[p] \notin Alone
         /\ queue \in Seq(Page) /\ \A q \in Page : q # NoPage
<1>1. ASSUME NEW p \in Page, onPage[w] = p, pc[w] \in Inside PROVE pc[p] \notin Alone
  <2>1. w \in Insiders(p) BY <1>1 DEF Insiders, At
  <2>2. QED BY <2>1 DEF IInv, TaskInv, TasksOf, Clean
<1>2. QED BY <1>1, Constants DEF IInv, Agent, TypeInv, PlaceInv

LEMMA TakeTaskStep ==
  ASSUME IInv, NEW w \in BoxWorker, TakeTask(w)
  PROVE  IInv'
<1> USE DEF IInv
<1>1. /\ pc[w] = "idle" /\ queue # <<>> /\ queue' = Tail(queue)
      /\ pc' = [pc EXCEPT ![w] = "begin"]
      /\ onPage' = [onPage EXCEPT ![w] = Head(queue)] /\ index' = [index EXCEPT ![w] = 0]
      /\ UNCHANGED <<next, stop, error, outstanding, launched, pending, box, thrown, result,
                     cancel, mode, boxes, stage, tasks, crop, stopping>>
  BY DEF TakeTask, Goto, Hold, frameVars, endVars, control, poolVars
<1>2. PICK p \in Page : p = Head(queue)
  BY <1>1, FirstPosition DEF TypeInv
<1>3. w \in Agent /\ w \notin Page /\ \A q \in Page : q \in Agent /\ q \notin BoxWorker BY WorkerFacts
<1>4. /\ \A a \in Agent : pc'[a] = IF a = w THEN "begin" ELSE pc[a]
      /\ \A a \in Agent : onPage'[a] = IF a = w THEN p ELSE onPage[a]
      /\ \A a \in Agent : index'[a] = IF a = w THEN 0 ELSE index[a]
  BY <1>1, <1>2 DEF TypeInv
<1>5. TypeInv'
  <2>1. queue' \in Seq(Page) BY <1>1, FirstPosition DEF TypeInv
  <2>2. pc' \in [Agent -> PagePlaces \cup WorkerPlaces] /\ onPage' \in [Agent -> Page \cup {NoPage}]
        /\ index' \in [Agent -> Nat]
    BY <1>1, <1>2 DEF TypeInv, WorkerPlaces, WorkPlaces
  <2>3. \A v \in BoxWorker : pc'[v] \in WorkerPlaces
    BY <1>4 DEF TypeInv, Agent, WorkerPlaces, WorkPlaces
  <2>4. \A q \in Page : pc'[q] \in PagePlaces BY <1>3, <1>4 DEF TypeInv
  <2>5. QED BY <1>1, <2>1, <2>2, <2>3, <2>4 DEF TypeInv
<1>6. /\ Cardinality(Queued(p)') = Cardinality(Queued(p)) - 1
      /\ \A q \in Page \ {p} : Cardinality(Queued(q)') = Cardinality(Queued(q))
      /\ Queued(p) # {}
  <2>1. \A q : Cardinality(Positions(queue', q)) =
                 Cardinality(Positions(queue, q)) - (IF q = p THEN 1 ELSE 0)
    BY <1>1, <1>2, PositionsTail DEF TypeInv
  <2>2. \A q : Cardinality(Positions(queue, q)) \in Nat BY PositionsFinite DEF TypeInv
  <2>3. Queued(p) # {} BY <1>1, <1>2, FirstPosition, QueuedPositions DEF TypeInv
  <2>4. QED BY <2>1, <2>2, <2>3, QueuedPositions
<1>7. WorkerOnly(w, p)
  BY <1>1, <1>3, <1>4, <1>6 DEF WorkerOnly, Holding, Idle, Agent
<1>8. WorkerLedger(w, p, -1, 0)
  <2>1. Clean(p) => FALSE BY <1>6 DEF Clean
  <2>2. pc[p] \notin Alone BY <2>1 DEF TaskInv, TasksOf
  <2>3. /\ Bit(pc'[w] \in Claimers) = 1 /\ Bit(pc[w] \in Claimers) = 0
        /\ Bit(pc'[w] \in Counted) = 1 /\ Bit(pc[w] \in Counted) = 0
        /\ Bit(pc'[w] = "resubmit") = 0 /\ Bit(pc[w] = "resubmit") = 0 /\ pc'[w] \in Claimers
    BY <1>1, <1>3, <1>4 DEF Bit, Counted, Claimers, WorkPlaces
  <2>4. Cardinality(Queued(p)) \in Nat /\ outstanding[p] \in Int /\ launched[p] \in Nat
    BY Counts DEF TypeInv
  <2>5. outstanding'[p] = outstanding[p] /\ launched'[p] = launched[p] BY <1>1
  <2>6. QED BY <1>6, <2>2, <2>3, <2>4, <2>5 DEF WorkerLedger
<1>9. \A q : Blamers(q)' = Blamers(q)
  <2>1. \A v \in BoxWorker : /\ (v # w => pc'[v] = pc[v] /\ onPage'[v] = onPage[v])
                             /\ pc[w] # "blame" /\ pc'[w] # "blame"
    BY <1>1, <1>3, <1>4 DEF Agent
  <2>2. QED BY <2>1 DEF Blamers, At
<1>10. ReasonInv' BY <1>1, <1>3, <1>4, <1>9, ReasonKeeps
<1>11. OwnThreads => queue' = <<>> BY <1>1 DEF PlaceInv
<1>12. pc'[w] = "begin" BY <1>3, <1>4
<1>13. QED BY <1>5, <1>7, <1>8, <1>10, <1>11, <1>12, WorkerKeeps

\* A worker goes on to x, with its page or without one.
WorkerGoes(w, x) ==
  /\ pc' = [pc EXCEPT ![w] = x]
  /\ \/ UNCHANGED <<onPage, index>>
     \/ onPage' = [onPage EXCEPT ![w] = NoPage] /\ index' = [index EXCEPT ![w] = 0] /\ x = "idle"
  /\ UNCHANGED <<next, launched, pending, box, thrown, result, cancel, mode, boxes, stage, tasks,
                 crop, stopping>>

WorkerMay(w, x, p) ==
  /\ WorkerGoes(w, x) /\ p = onPage[w] /\ p \in Page
  /\ pc[w] \notin Holding \cup Idle /\ x \notin Holding /\ x \in WorkerPlaces
  /\ queue' \in Seq(Page) /\ outstanding' \in [Page -> Int] /\ stop' \in [Page -> BOOLEAN]
  /\ error' \in [Page -> {"none", "failed", "cancelled"}]
  /\ \A q \in Page : (stop[q] => stop'[q]) /\ (error[q] # "none" => error'[q] # "none")
  /\ \A q \in Page \ {p} : Cardinality(Queued(q)') = Cardinality(Queued(q))
  /\ \A q \in Page \ {p} : outstanding'[q] = outstanding[q]

LEMMA WorkerGoesOn ==
  ASSUME IInv, NEW w \in BoxWorker, NEW x, NEW p, WorkerMay(w, x, p)
  PROVE  /\ TypeInv' /\ WorkerOnly(w, p)
         /\ \A q \in Page : pc'[q] = pc[q]
         /\ pc'[w] = x /\ (x # "idle" => onPage'[w] = p)
         /\ \A q \in Page : Blamers(q)' # {} <=> (x = "blame" /\ q = p) \/ Blamers(q) \ {w} # {}
<1> USE DEF IInv
<1> p \in Page /\ x \in WorkerPlaces BY DEF WorkerMay
<1>1. w \in Agent /\ w \notin Page /\ \A q \in Page : q \in Agent /\ q \notin BoxWorker BY WorkerFacts
<1>2. /\ \A a \in Agent : pc'[a] = IF a = w THEN x ELSE pc[a]
      /\ \A a \in Agent : a # w => onPage'[a] = onPage[a] /\ index'[a] = index[a]
      /\ x # "idle" => onPage'[w] = p
      /\ onPage' \in [Agent -> Page \cup {NoPage}] /\ index' \in [Agent -> Nat]
  <2>1. /\ pc' = [pc EXCEPT ![w] = x] /\ onPage[w] = p
        /\ onPage \in [Agent -> Page \cup {NoPage}] /\ index \in [Agent -> Nat]
    BY DEF TypeInv, WorkerGoes, WorkerMay
  <2>2. \A a \in Agent : pc'[a] = IF a = w THEN x ELSE pc[a] BY <2>1 DEF TypeInv
  <2>3. CASE UNCHANGED <<onPage, index>> BY <2>1, <2>2, <2>3
  <2>4. CASE onPage' = [onPage EXCEPT ![w] = NoPage] /\ index' = [index EXCEPT ![w] = 0] /\ x = "idle"
    BY <2>1, <2>2, <2>4
  <2>5. QED BY <2>3, <2>4 DEF WorkerGoes, WorkerMay
<1>3. /\ \A q \in Page : pc'[q] = pc[q] /\ onPage'[q] = onPage[q] /\ index'[q] = index[q]
      /\ \A v \in BoxWorker \ {w} : pc'[v] = pc[v] /\ onPage'[v] = onPage[v] /\ index'[v] = index[v]
      /\ pc'[w] = x
  BY <1>1, <1>2 DEF Agent
<1>4. TypeInv'
  <2>1. pc' \in [Agent -> PagePlaces \cup WorkerPlaces]
    BY DEF TypeInv, WorkerGoes, WorkerMay
  <2>2. \A v \in BoxWorker : pc'[v] \in WorkerPlaces BY <1>3 DEF TypeInv
  <2>3. \A q \in Page : pc'[q] \in PagePlaces BY <1>3 DEF TypeInv
  <2>4. QED BY <1>2, <2>1, <2>2, <2>3 DEF TypeInv, WorkerGoes, WorkerMay
<1>5. WorkerOnly(w, p)
  <2>1. x \in Idle \/ onPage'[w] = p
    BY <1>2 DEF Idle
  <2>2. QED BY <1>3, <2>1 DEF WorkerOnly, WorkerGoes, WorkerMay, Idle
<1>6. ASSUME NEW q \in Page
      PROVE  Blamers(q)' # {} <=> (x = "blame" /\ q = p) \/ Blamers(q) \ {w} # {}
  <2>1. Blamers(q)' # {} <=> (onPage'[w] = q /\ pc'[w] = "blame") \/ Blamers(q) \ {w} # {}
    BY <1>3, WorkerMoved DEF TypeInv
  <2>2. QED BY <1>2, <1>3, <2>1
<1>7. QED BY <1>2, <1>3, <1>4, <1>5, <1>6

LEMMA AgainStep ==
  ASSUME IInv, NEW w \in BoxWorker, Again(w)
  PROVE  IInv'
<1> USE DEF IInv
<1>1. pc[w] = "again" /\ onPage[w] \in Page /\ w \in Agent
  BY WorkerFacts DEF Again, Idle
<1>2. PICK p \in Page : p = onPage[w] BY <1>1
<1>3. PICK x \in {"resubmit", "count"} :
        /\ WorkerGoes(w, x) /\ UNCHANGED <<queue, stop, error>>
        /\ outstanding' = [outstanding EXCEPT ![p] = @ + Bit(x = "resubmit")]
        /\ x = "count" => Stopped(p) \/ ~(next[p] < boxes[p])
  <2>1. CASE ~Stopped(p) /\ next[p] < boxes[p]
    <3>1. /\ outstanding' = [outstanding EXCEPT ![p] = @ + 1]
          /\ pc' = [pc EXCEPT ![w] = "resubmit"]
      BY <1>2, <2>1 DEF Again, Goto
    <3>2. Bit("resubmit" = "resubmit") = 1 BY DEF Bit
    <3>3. QED BY <3>1, <3>2 DEF Again, WorkerGoes, endVars, control, poolVars
  <2>2. CASE Stopped(p) \/ ~(next[p] < boxes[p])
    <3>1. outstanding' = outstanding /\ pc' = [pc EXCEPT ![w] = "count"]
      BY <1>2, <2>2 DEF Again, Goto
    <3>2. outstanding' = [outstanding EXCEPT ![p] = @ + Bit("count" = "resubmit")]
      BY <3>1 DEF Bit, TypeInv
    <3>3. QED BY <2>2, <3>1, <3>2 DEF Again, WorkerGoes, endVars, control, poolVars
  <2>3. QED BY <2>1, <2>2
<1>4. /\ \A q : Queued(q)' = Queued(q)
      /\ outstanding' \in [Page -> Int] /\ outstanding'[p] = outstanding[p] + Bit(x = "resubmit")
      /\ \A q \in Page \ {p} : outstanding'[q] = outstanding[q]
      /\ pc[w] \notin Holding \cup Idle /\ x \notin Holding /\ x \in WorkerPlaces
  BY <1>1, <1>3 DEF Queued, TypeInv, Bit, Holding, Idle, WorkerPlaces
<1>5. /\ TypeInv' /\ WorkerOnly(w, p)
      /\ \A q \in Page : pc'[q] = pc[q]
      /\ pc'[w] = x
      /\ \A q \in Page : Blamers(q)' # {} <=> (x = "blame" /\ q = p) \/ Blamers(q) \ {w} # {}
  <2>1. /\ queue' \in Seq(Page) /\ stop' \in [Page -> BOOLEAN]
        /\ error' \in [Page -> {"none", "failed", "cancelled"}]
        /\ \A q \in Page : (stop[q] => stop'[q]) /\ (error[q] # "none" => error'[q] # "none")
        /\ \A q \in Page \ {p} : Cardinality(Queued(q)') = Cardinality(Queued(q))
    BY <1>3, <1>4 DEF TypeInv
  <2>2. WorkerGoes(w, x) BY <1>3
  <2>3. WorkerMay(w, x, p) BY <1>2, <1>4, <2>1, <2>2 DEF WorkerMay
  <2>4. QED BY <2>3, WorkerGoesOn
<1>6. \A q : Blamers(q) \ {w} = Blamers(q) BY <1>1 DEF Blamers, At
<1>7. ReasonInv' BY <1>3, <1>5, <1>6, ReasonKeeps DEF WorkerOnly
<1>8. WorkerLedger(w, p, 0, 0)
  <2>1. pc[p] \notin Alone BY <1>1, <1>2, WorkerFacts DEF Inside, Counted, Claimers
  <2>2. /\ Bit(pc[w] \in Claimers) = 1 /\ Bit(pc[w] \in Counted) = 1 /\ Bit(pc[w] = "resubmit") = 0
        /\ Bit(pc'[w] \in Claimers) = Bit(x = "resubmit") /\ Bit(pc'[w] \in Counted) = 1
        /\ Bit(pc'[w] = "resubmit") = Bit(x = "resubmit") /\ Bit(x = "resubmit") \in {0, 1}
        /\ x = "resubmit" => pc'[w] \in Claimers
    BY <1>1, <1>3, <1>5 DEF Bit, Claimers, Counted, WorkPlaces
  <2>3. /\ Cardinality(Queued(p)') = Cardinality(Queued(p)) /\ Cardinality(Queued(p)) \in Nat
        /\ launched' = launched /\ launched[p] \in Nat /\ outstanding[p] \in Int
        /\ next[p] \in Nat /\ boxes[p] \in Nat
    BY <1>3, <1>4, Counts, Workers DEF WorkerGoes, TypeInv
  <2>4. \/ next[p] >= boxes[p] \/ stop'[p] \/ cancel[p] \/ pc'[w] \in Claimers
    BY <1>3, <2>2, <2>3 DEF Stopped
  <2>5. QED BY <1>4, <2>1, <2>2, <2>3, <2>4 DEF WorkerLedger
<1>9. ~OwnThreads BY <1>1 DEF PlaceInv
<1>10. pc'[w] # "leave" BY <1>5
<1>11. QED BY <1>5, <1>7, <1>8, <1>9, <1>10, WorkerKeeps

LEMMA ResubmitStep ==
  ASSUME IInv, NEW w \in BoxWorker, Resubmit(w)
  PROVE  IInv'
<1> USE DEF IInv
<1>1. pc[w] = "resubmit" /\ onPage[w] \in Page /\ w \in Agent
  BY WorkerFacts DEF Resubmit, Idle
<1>2. PICK p \in Page : p = onPage[w] BY <1>1
<1>3. /\ WorkerGoes(w, "count") /\ UNCHANGED <<stop, error, outstanding>> /\ queue' = Append(queue, p)
  BY <1>2 DEF Resubmit, WorkerGoes, Goto, frameVars, endVars, control, poolVars
<1>4. /\ Cardinality(Queued(p)') = Cardinality(Queued(p)) + 1 /\ Cardinality(Queued(p)) \in Nat
      /\ \A q \in Page \ {p} : Cardinality(Queued(q)') = Cardinality(Queued(q))
  <2>1. \A q : Cardinality(Positions(queue', q)) =
                 Cardinality(Positions(queue, q)) + (IF q = p THEN 1 ELSE 0)
    BY <1>3, PositionsAppend DEF TypeInv
  <2>2. \A q : Cardinality(Positions(queue, q)) \in Nat BY PositionsFinite DEF TypeInv
  <2>3. QED BY <2>1, <2>2, QueuedPositions
<1>5. /\ TypeInv' /\ WorkerOnly(w, p)
      /\ \A q \in Page : pc'[q] = pc[q]
      /\ pc'[w] = "count"
      /\ \A q \in Page : Blamers(q)' # {} <=> ("count" = "blame" /\ q = p) \/ Blamers(q) \ {w} # {}
  <2>1. /\ queue' \in Seq(Page) /\ stop' \in [Page -> BOOLEAN] /\ outstanding' \in [Page -> Int]
        /\ error' \in [Page -> {"none", "failed", "cancelled"}]
        /\ \A q \in Page : (stop[q] => stop'[q]) /\ (error[q] # "none" => error'[q] # "none")
        /\ \A q \in Page \ {p} : outstanding'[q] = outstanding[q]
    BY <1>3, AppendProperties DEF TypeInv
  <2>2. pc[w] \notin Holding \cup Idle /\ "count" \notin Holding /\ "count" \in WorkerPlaces
    BY <1>1 DEF Holding, Idle, WorkerPlaces
  <2>3. WorkerMay(w, "count", p) BY <1>2, <1>3, <1>4, <2>1, <2>2 DEF WorkerMay
  <2>4. QED BY <2>3, WorkerGoesOn
<1>6. \A q : Blamers(q) \ {w} = Blamers(q) BY <1>1 DEF Blamers, At
<1>7. ReasonInv' BY <1>3, <1>5, <1>6, ReasonKeeps DEF WorkerOnly
<1>8. WorkerLedger(w, p, 1, 0)
  <2>1. pc[p] \notin Alone BY <1>1, <1>2, WorkerFacts DEF Inside, Counted, Claimers
  <2>2. /\ Bit(pc[w] \in Claimers) = 1 /\ Bit(pc[w] \in Counted) = 1 /\ Bit(pc[w] = "resubmit") = 1
        /\ Bit(pc'[w] \in Claimers) = 0 /\ Bit(pc'[w] \in Counted) = 1
        /\ Bit(pc'[w] = "resubmit") = 0
    BY <1>1, <1>5 DEF Bit, Claimers, Counted, WorkPlaces
  <2>3. /\ launched' = launched /\ launched[p] \in Nat /\ outstanding[p] \in Int
    BY <1>3 DEF WorkerGoes, TypeInv
  <2>4. Cardinality(Queued(p)') > 0 BY <1>4
  <2>5. outstanding'[p] = outstanding[p] BY <1>3
  <2>6. QED BY <1>4, <2>1, <2>2, <2>3, <2>4, <2>5 DEF WorkerLedger
<1>9. ~OwnThreads BY <1>1 DEF PlaceInv
<1>10. pc'[w] # "leave" BY <1>5
<1>11. QED BY <1>5, <1>7, <1>8, <1>9, <1>10, WorkerKeeps

LEMMA ResubmitFailsStep ==
  ASSUME IInv, NEW w \in BoxWorker, ResubmitFails(w)
  PROVE  IInv'
<1> USE DEF IInv
<1>1. pc[w] = "resubmit" /\ onPage[w] \in Page /\ w \in Agent /\ CanRefuse
  BY WorkerFacts DEF ResubmitFails, Idle
<1>2. PICK p \in Page : p = onPage[w] BY <1>1
<1>3. /\ WorkerGoes(w, "blame") /\ UNCHANGED <<error, queue>>
      /\ outstanding' = [outstanding EXCEPT ![p] = @ - 1] /\ stop' = [stop EXCEPT ![p] = TRUE]
  BY <1>2 DEF ResubmitFails, WorkerGoes, Goto, endVars, control, poolVars
<1>4. stop' \in [Page -> BOOLEAN] /\ stop'[p] = TRUE /\ \A q \in Page \ {p} : stop'[q] = stop[q]
  BY <1>3, Zenon DEF TypeInv
<1>5. /\ outstanding' \in [Page -> Int] /\ outstanding'[p] = outstanding[p] - 1
      /\ \A q \in Page \ {p} : outstanding'[q] = outstanding[q]
      /\ \A q : Queued(q)' = Queued(q)
  BY <1>3 DEF TypeInv, Queued
<1>6. /\ TypeInv' /\ WorkerOnly(w, p)
      /\ \A q \in Page : pc'[q] = pc[q]
      /\ pc'[w] = "blame"
      /\ \A q \in Page : Blamers(q)' # {} <=> ("blame" = "blame" /\ q = p) \/ Blamers(q) \ {w} # {}
  <2>1. /\ queue' \in Seq(Page)
        /\ error' \in [Page -> {"none", "failed", "cancelled"}]
        /\ \A q \in Page : (stop[q] => stop'[q]) /\ (error[q] # "none" => error'[q] # "none")
        /\ \A q \in Page \ {p} : Cardinality(Queued(q)') = Cardinality(Queued(q))
    BY <1>3, <1>4, <1>5 DEF TypeInv
  <2>2. pc[w] \notin Holding \cup Idle /\ "blame" \notin Holding /\ "blame" \in WorkerPlaces
    BY <1>1 DEF Holding, Idle, WorkerPlaces
  <2>3. WorkerMay(w, "blame", p) BY <1>2, <1>3, <1>4, <1>5, <2>1, <2>2 DEF WorkerMay
  <2>4. QED BY <2>3, WorkerGoesOn
<1>7. \A q : Blamers(q) \ {w} = Blamers(q) BY <1>1 DEF Blamers, At
<1>8. ReasonInv'
  <2>1. \A q \in Page : /\ stop'[q] => stop[q] \/ Blamers(q)' # {}
                        /\ Blamers(q) # {} => Blamers(q)' # {}
    BY <1>4, <1>6, <1>7
  <2>2. UNCHANGED <<box, boxes, mode, result, thrown, cancel, error>> BY <1>3, <1>6 DEF WorkerOnly
  <2>3. QED BY <1>1, <1>6, <2>1, <2>2, ReasonKeeps DEF TypeInv
<1>9. WorkerLedger(w, p, 0, 0)
  <2>1. pc[p] \notin Alone BY <1>1, <1>2, WorkerFacts DEF Inside, Counted, Claimers
  <2>2. /\ Bit(pc[w] \in Claimers) = 1 /\ Bit(pc[w] \in Counted) = 1 /\ Bit(pc[w] = "resubmit") = 1
        /\ Bit(pc'[w] \in Claimers) = 0 /\ Bit(pc'[w] \in Counted) = 1
        /\ Bit(pc'[w] = "resubmit") = 0
    BY <1>1, <1>6 DEF Bit, Claimers, Counted, WorkPlaces
  <2>3. /\ launched' = launched /\ launched[p] \in Nat /\ outstanding[p] \in Int
        /\ Cardinality(Queued(p)') = Cardinality(Queued(p)) /\ Cardinality(Queued(p)) \in Nat
    BY <1>3, <1>5, Counts DEF WorkerGoes, TypeInv
  <2>4. stop'[p] BY <1>4
  <2>5. QED BY <1>5, <2>1, <2>2, <2>3, <2>4 DEF WorkerLedger
<1>10. ~OwnThreads BY <1>1 DEF PlaceInv
<1>11. pc'[w] # "leave" BY <1>6
<1>12. QED BY <1>6, <1>8, <1>9, <1>10, <1>11, WorkerKeeps

LEMMA BlameStep ==
  ASSUME IInv, NEW w \in BoxWorker, Blame(w)
  PROVE  IInv'
<1> USE DEF IInv
<1>1. pc[w] = "blame" /\ onPage[w] \in Page /\ w \in Agent
  BY WorkerFacts DEF Blame, Idle
<1>2. PICK p \in Page : p = onPage[w] BY <1>1
<1>3. /\ WorkerGoes(w, "count") /\ UNCHANGED <<stop, queue, outstanding>>
      /\ error' = [error EXCEPT ![p] = IF @ = "none" THEN "failed" ELSE @]
  BY <1>2 DEF Blame, WorkerGoes, Goto, endVars, control, poolVars
<1>4. /\ error' \in [Page -> {"none", "failed", "cancelled"}]
      /\ error'[p] = IF error[p] = "none" THEN "failed" ELSE error[p]
      /\ \A q \in Page \ {p} : error'[q] = error[q]
      /\ \A q : Queued(q)' = Queued(q)
  BY <1>3 DEF TypeInv, Queued
<1>5. /\ TypeInv' /\ WorkerOnly(w, p)
      /\ \A q \in Page : pc'[q] = pc[q]
      /\ pc'[w] = "count"
      /\ \A q \in Page : Blamers(q)' # {} <=> ("count" = "blame" /\ q = p) \/ Blamers(q) \ {w} # {}
  <2>1. /\ queue' \in Seq(Page) /\ stop' \in [Page -> BOOLEAN] /\ outstanding' \in [Page -> Int]
        /\ \A q \in Page : (stop[q] => stop'[q]) /\ (error[q] # "none" => error'[q] # "none")
        /\ \A q \in Page \ {p} : /\ Cardinality(Queued(q)') = Cardinality(Queued(q))
                                 /\ outstanding'[q] = outstanding[q]
    BY <1>3, <1>4 DEF TypeInv
  <2>2. pc[w] \notin Holding \cup Idle /\ "count" \notin Holding /\ "count" \in WorkerPlaces
    BY <1>1 DEF Holding, Idle, WorkerPlaces
  <2>3. WorkerMay(w, "count", p) BY <1>2, <1>3, <1>4, <2>1, <2>2 DEF WorkerMay
  <2>4. QED BY <2>3, WorkerGoesOn
<1>6. ReasonInv'
  <2>1. \A q \in Page \ {p} : Blamers(q) \ {w} = Blamers(q) BY <1>2 DEF Blamers, At
  <2>2. \A q \in Page : /\ (error[q] # "none" => error'[q] # "none")
                        /\ (error'[q] = "cancelled" => error[q] = "cancelled")
                        /\ (Blamers(q) # {} => Blamers(q)' # {} \/ error'[q] # "none")
                        /\ (Blamers(q)' # {} => Blamers(q) # {})
    BY <1>4, <1>5, <2>1
  <2>3. UNCHANGED <<box, boxes, mode, result, thrown, cancel, stop>> BY <1>3, <1>5 DEF WorkerOnly
  <2>4. QED BY <1>5, <2>2, <2>3, ReasonKeeps
<1>7. WorkerLedger(w, p, 0, 0)
  <2>1. pc[p] \notin Alone BY <1>1, <1>2, WorkerFacts DEF Inside, Counted, Claimers
  <2>2. /\ Bit(pc[w] \in Claimers) = 0 /\ Bit(pc[w] \in Counted) = 1 /\ Bit(pc[w] = "resubmit") = 0
        /\ Bit(pc'[w] \in Claimers) = 0 /\ Bit(pc'[w] \in Counted) = 1
        /\ Bit(pc'[w] = "resubmit") = 0 /\ pc[w] \notin Claimers
    BY <1>1, <1>5 DEF Bit, Claimers, Counted, WorkPlaces
  <2>3. /\ launched' = launched /\ launched[p] \in Nat /\ outstanding[p] \in Int
        /\ Cardinality(Queued(p)') = Cardinality(Queued(p)) /\ Cardinality(Queued(p)) \in Nat
        /\ outstanding' = outstanding
    BY <1>3, <1>4, Counts DEF WorkerGoes, TypeInv
  <2>4. QED BY <2>1, <2>2, <2>3 DEF WorkerLedger
<1>8. ~OwnThreads BY <1>1 DEF PlaceInv
<1>9. pc'[w] # "leave" BY <1>5
<1>10. QED BY <1>5, <1>6, <1>7, <1>8, <1>9, WorkerKeeps

LEMMA LastLookStep ==
  ASSUME IInv, NEW w \in BoxWorker, Count(w) \/ ThreadEnds(w)
  PROVE  IInv'
<1> USE DEF IInv
<1>1. pc[w] \in {"count", "leave"} /\ onPage[w] \in Page /\ w \in Agent
  BY WorkerFacts DEF Count, ThreadEnds, Idle
<1>2. PICK p \in Page : p = onPage[w] BY <1>1
<1>3. PICK x \in {"notify", "idle"} :
        /\ WorkerGoes(w, x) /\ UNCHANGED <<queue, stop, error>>
        /\ outstanding' = [outstanding EXCEPT ![p] = @ - Bit(pc[w] = "count")]
        /\ (pc[w] = "leave" => x = "idle")
  <2>1. CASE Count(w)
    <3>1. outstanding' = [outstanding EXCEPT ![p] = @ - 1] /\ pc[w] = "count" BY <1>2, <2>1 DEF Count
    <3>2. Bit(pc[w] = "count") = 1 BY <3>1 DEF Bit
    <3>3. UNCHANGED <<queue, stop, error, next, launched, pending, box, thrown, result, cancel, mode,
                      boxes, stage, tasks, crop, stopping>>
      BY <2>1 DEF Count, endVars, control, poolVars
    <3>4. CASE outstanding[p] = 1
      <4>1. pc' = [pc EXCEPT ![w] = "notify"] /\ UNCHANGED <<onPage, index>>
        BY <1>2, <2>1, <3>4 DEF Count, Goto
      <4>2. WorkerGoes(w, "notify") BY <3>3, <4>1 DEF WorkerGoes
      <4>3. QED BY <3>1, <3>2, <3>3, <4>2
    <3>5. CASE outstanding[p] # 1
      <4>1. pc' = [pc EXCEPT ![w] = "idle"] /\ onPage' = [onPage EXCEPT ![w] = NoPage]
            /\ index' = [index EXCEPT ![w] = 0]
        BY <1>2, <2>1, <3>5 DEF Count, Goto, Hold
      <4>2. WorkerGoes(w, "idle") BY <3>3, <4>1 DEF WorkerGoes
      <4>3. QED BY <3>1, <3>2, <3>3, <4>2
    <3>6. QED BY <3>4, <3>5
  <2>2. CASE ThreadEnds(w)
    <3>1. /\ pc[w] = "leave" /\ pc' = [pc EXCEPT ![w] = "idle"]
          /\ onPage' = [onPage EXCEPT ![w] = NoPage] /\ index' = [index EXCEPT ![w] = 0]
          /\ outstanding' = outstanding
          /\ UNCHANGED <<queue, stop, error, next, launched, pending, box, thrown, result, cancel,
                         mode, boxes, stage, tasks, crop, stopping>>
      BY <2>2 DEF ThreadEnds, Goto, Hold, frameVars, endVars, control, poolVars
    <3>2. WorkerGoes(w, "idle") BY <3>1 DEF WorkerGoes
    <3>3. outstanding' = [outstanding EXCEPT ![p] = @ - Bit(pc[w] = "count")]
      BY <3>1 DEF Bit, TypeInv
    <3>4. QED BY <3>1, <3>2, <3>3
  <2>3. QED BY <2>1, <2>2
<1>4. /\ \A q : Queued(q)' = Queued(q)
      /\ outstanding' \in [Page -> Int] /\ outstanding'[p] = outstanding[p] - Bit(pc[w] = "count")
      /\ \A q \in Page \ {p} : outstanding'[q] = outstanding[q]
  BY <1>3 DEF Queued, TypeInv, Bit
<1>5. /\ TypeInv' /\ WorkerOnly(w, p)
      /\ \A q \in Page : pc'[q] = pc[q]
      /\ pc'[w] = x
      /\ \A q \in Page : Blamers(q)' # {} <=> (x = "blame" /\ q = p) \/ Blamers(q) \ {w} # {}
  <2>1. /\ queue' \in Seq(Page) /\ stop' \in [Page -> BOOLEAN]
        /\ error' \in [Page -> {"none", "failed", "cancelled"}]
        /\ \A q \in Page : (stop[q] => stop'[q]) /\ (error[q] # "none" => error'[q] # "none")
        /\ \A q \in Page \ {p} : Cardinality(Queued(q)') = Cardinality(Queued(q))
    BY <1>3, <1>4 DEF TypeInv
  <2>2. pc[w] \notin Holding \cup Idle /\ x \notin Holding /\ x \in WorkerPlaces /\ WorkerGoes(w, x)
    BY <1>1, <1>3 DEF Holding, Idle, WorkerPlaces
  <2>3. WorkerMay(w, x, p) BY <1>2, <1>4, <2>1, <2>2 DEF WorkerMay
  <2>4. QED BY <2>3, WorkerGoesOn
<1>6. \A q : Blamers(q) \ {w} = Blamers(q) BY <1>1 DEF Blamers, At
<1>7. ReasonInv' BY <1>3, <1>5, <1>6, ReasonKeeps DEF WorkerOnly
<1>8. WorkerLedger(w, p, 0, 0)
  <2>1. /\ Bit(pc[w] \in Claimers) = 0 /\ Bit(pc[w] \in Counted) = Bit(pc[w] = "count")
        /\ Bit(pc[w] = "resubmit") = 0 /\ Bit(pc[w] = "count") \in Int
        /\ Bit(pc'[w] \in Claimers) = 0 /\ Bit(pc'[w] \in Counted) = 0
        /\ Bit(pc'[w] = "resubmit") = 0 /\ pc[w] \notin Claimers /\ pc'[w] \notin Inside
    BY <1>1, <1>3, <1>5 DEF Bit, Inside, Claimers, Counted, WorkPlaces
  <2>2. /\ launched' = launched /\ launched[p] \in Nat /\ outstanding[p] \in Int
        /\ Cardinality(Queued(p)') = Cardinality(Queued(p)) /\ Cardinality(Queued(p)) \in Nat
    BY <1>3, <1>4, Counts DEF WorkerGoes, TypeInv
  <2>3. QED BY <1>4, <2>1, <2>2 DEF WorkerLedger
<1>9. OwnThreads => queue' = <<>> /\ x # "notify"
  <2>1. OwnThreads => queue = <<>> /\ pc[w] # "count" BY DEF PlaceInv
  <2>2. QED BY <1>1, <1>3, <2>1
<1>10. QED BY <1>3, <1>5, <1>7, <1>8, <1>9, WorkerKeeps

LEMMA NotifyStep ==
  ASSUME IInv, NEW w \in BoxWorker, Notify(w)
  PROVE  IInv'
<1> USE DEF IInv
<1>1. /\ pc[w] = "notify" /\ onPage[w] \in Page
      /\ w \in Agent /\ w \notin Page /\ \A q \in Page : q \in Agent /\ q \notin BoxWorker
  BY WorkerFacts DEF Notify, Idle
<1>2. PICK p \in Page : p = onPage[w] BY <1>1
<1>3. /\ pc' = [pc EXCEPT ![w] = "idle", ![p] = IF @ = "asleep" THEN "check" ELSE @]
      /\ onPage' = [onPage EXCEPT ![w] = NoPage] /\ index' = [index EXCEPT ![w] = 0]
      /\ UNCHANGED <<queue, next, stop, error, outstanding, launched, pending, box, thrown, result,
                     cancel, mode, boxes, stage, tasks, crop, stopping>>
  BY <1>2 DEF Notify, Hold, frameVars, endVars, control, poolVars
<1>4. /\ pc' \in [Agent -> PagePlaces \cup WorkerPlaces]
      /\ pc'[w] = "idle" /\ pc'[p] = (IF pc[p] = "asleep" THEN "check" ELSE pc[p])
      /\ \A a \in Agent : a # w /\ a # p => pc'[a] = pc[a]
  <2>1. p # w /\ p \in Agent BY <1>1
  <2>2. {"idle", "check"} \subseteq PagePlaces \cup WorkerPlaces
    BY DEF PagePlaces, WorkerPlaces, Idle
  <2>3. QED BY <1>1, <1>3, <2>1, <2>2 DEF TypeInv
<1>5. /\ onPage' \in [Agent -> Page \cup {NoPage}] /\ index' \in [Agent -> Nat]
      /\ \A a \in Agent : a # w => onPage'[a] = onPage[a] /\ index'[a] = index[a]
  BY <1>3 DEF TypeInv
<1>6. /\ \A q \in Page : /\ onPage'[q] = onPage[q] /\ index'[q] = index[q]
                         /\ pc'[q] = pc[q] \/ (pc[q] = "asleep" /\ pc'[q] = "check")
      /\ \A v \in BoxWorker \ {w} : pc'[v] = pc[v] /\ onPage'[v] = onPage[v] /\ index'[v] = index[v]
  BY <1>1, <1>4, <1>5 DEF Agent
<1>7. TypeInv'
  <2>1. \A v \in BoxWorker : pc'[v] \in WorkerPlaces
    BY <1>4, <1>6 DEF TypeInv, WorkerPlaces, Idle
  <2>2. \A q \in Page : pc'[q] \in PagePlaces BY <1>6 DEF TypeInv, PagePlaces
  <2>3. QED BY <1>3, <1>4, <1>5, <2>1, <2>2 DEF TypeInv
<1>8. \A q : Queued(q)' = Queued(q) BY <1>3 DEF Queued
<1>9. WorkerOnly(w, p)
  <2>1. pc[w] \notin Holding \cup {"exited"} /\ pc'[w] \notin Holding /\ pc'[w] \in Idle
    BY <1>1, <1>4 DEF Holding, Idle
  <2>2. \A q \in Page : (stop[q] => stop'[q]) /\ (error[q] # "none" => error'[q] # "none") BY <1>3
  <2>3. QED BY <1>2, <1>3, <1>6, <1>8, <2>1, <2>2 DEF WorkerOnly
<1>10. WorkerLedger(w, p, 0, 0)
  <2>1. /\ Bit(pc[w] \in Claimers) = 0 /\ Bit(pc[w] \in Counted) = 0 /\ Bit(pc[w] = "resubmit") = 0
        /\ Bit(pc'[w] \in Claimers) = 0 /\ Bit(pc'[w] \in Counted) = 0
        /\ Bit(pc'[w] = "resubmit") = 0 /\ pc[w] \notin Claimers /\ pc'[w] \notin Inside
    BY <1>1, <1>4 DEF Bit, Inside, Claimers, Counted, WorkPlaces
  <2>2. /\ launched' = launched /\ launched[p] \in Nat /\ outstanding[p] \in Int
        /\ Cardinality(Queued(p)') = Cardinality(Queued(p)) /\ Cardinality(Queued(p)) \in Nat
        /\ outstanding' = outstanding
    BY <1>3, <1>8, Counts DEF TypeInv
  <2>3. QED BY <2>1, <2>2 DEF WorkerLedger
<1>11. ReasonInv'
  <2>1. \A q : Blamers(q)' = Blamers(q)
    <3>1. \A v \in BoxWorker : /\ (v # w => pc'[v] = pc[v] /\ onPage'[v] = onPage[v])
                               /\ pc[w] # "blame" /\ pc'[w] # "blame"
      BY <1>1, <1>4, <1>6
    <3>2. QED BY <3>1 DEF Blamers, At
  <2>2. \A q \in Page : pc[q] = "returned" => pc'[q] = "returned" BY <1>6
  <2>3. QED BY <1>3, <2>1, <2>2, ReasonKeeps
<1>12. ~OwnThreads BY <1>1 DEF PlaceInv
<1>13. pc'[w] # "leave" BY <1>4
<1>14. QED BY <1>7, <1>9, <1>10, <1>11, <1>12, <1>13, WorkerKeeps

LEMMA BoxWorkerExitsStep ==
  ASSUME IInv, NEW w \in BoxWorker, BoxWorkerExits(w)
  PROVE  IInv'
<1> USE DEF IInv
<1>1. /\ pc[w] = "idle" /\ pc' = [pc EXCEPT ![w] = "exited"]
      /\ UNCHANGED <<onPage, index, queue, next, stop, error, outstanding, launched, pending, box,
                     thrown, result, cancel, mode, boxes, stage, tasks, crop, stopping>>
  BY DEF BoxWorkerExits, Goto, frameVars, endVars, control, poolVars
<1>2. w \in Agent /\ w \notin Page /\ \A q \in Page : q \in Agent /\ q \notin BoxWorker BY WorkerFacts
<1>3. \A a \in Agent : pc'[a] = IF a = w THEN "exited" ELSE pc[a] BY <1>1 DEF TypeInv
<1>4. \A v \in BoxWorker : v \in Agent BY DEF Agent
<1>5. /\ \A q \in Page : pc'[q] = pc[q]
      /\ \A v \in BoxWorker \ {w} : pc'[v] = pc[v]
      /\ pc'[w] = "exited"
  BY <1>2, <1>3, <1>4
<1>6. TypeInv'
  <2>1. pc' \in [Agent -> PagePlaces \cup WorkerPlaces]
    BY <1>1 DEF TypeInv, WorkerPlaces, Idle
  <2>2. \A v \in BoxWorker : pc'[v] \in WorkerPlaces BY <1>5 DEF TypeInv, WorkerPlaces, Idle
  <2>3. \A q \in Page : pc'[q] \in PagePlaces BY <1>5 DEF TypeInv
  <2>4. QED BY <1>1, <2>1, <2>2, <2>3 DEF TypeInv
<1>7. \A p : /\ Tasks(p)' = Tasks(p) /\ Seekers(p)' = Seekers(p)
             /\ Successors(p)' = Successors(p) /\ Insiders(p)' = Insiders(p)
             /\ Blamers(p)' = Blamers(p) /\ Queued(p)' = Queued(p)
  <2>1. \A p, S : "idle" \notin S /\ "exited" \notin S => At(p, S)' = At(p, S)
    BY <1>1, <1>5 DEF At
  <2>2. /\ {"idle", "exited"} \cap Inside = {} /\ {"idle", "exited"} \cap Counted = {}
        /\ {"idle", "exited"} \cap Claimers = {}
        /\ "idle" \notin {"resubmit", "blame"} /\ "exited" \notin {"resubmit", "blame"}
    BY DEF Inside, Counted, Claimers, WorkPlaces
  <2>3. \A p : Queued(p)' = Queued(p) BY <1>1 DEF Queued
  <2>4. \A p : Tasks(p)' = Tasks(p) BY <2>1, <2>2 DEF Tasks
  <2>5. \A p : Seekers(p)' = Seekers(p) BY <2>1, <2>2 DEF Seekers
  <2>6. \A p : Successors(p)' = Successors(p) BY <2>1, <2>2 DEF Successors
  <2>7. \A p : Insiders(p)' = Insiders(p) BY <2>1, <2>2 DEF Insiders
  <2>8. \A p : Blamers(p)' = Blamers(p) BY <2>1, <2>2 DEF Blamers
  <2>9. QED BY <2>3, <2>4, <2>5, <2>6, <2>7, <2>8
<1>8. /\ OwnThreads' = OwnThreads /\ \A p : WorkerCount(p)' = WorkerCount(p) BY <1>1, CountKept
<1>9. PlaceInv'
  <2>1. stopping' => FALSE BY <1>1, <1>2 DEF PlaceInv
  <2>2. \A v \in BoxWorker : pc'[v] \notin Idle => onPage'[v] \in Page
    BY <1>1, <1>5 DEF PlaceInv, Idle
  <2>3. QED BY <1>1, <1>5, <1>8, <2>1, <2>2 DEF PlaceInv
<1>10. ASSUME NEW p \in Page PROVE TasksOf(p)'
  <2>1. TasksOf(p) BY DEF TaskInv
  <2>2. QED BY <1>1, <1>5, <1>7, <1>8, <2>1 DEF TasksOf, Clean, Pushing
<1>11. ASSUME NEW p \in Page PROVE Progress(p)'
  <2>1. Progress(p) /\ (Stopped(p)' <=> Stopped(p)) BY <1>1 DEF ProgressInv, Stopped
  <2>2. QED BY <1>1, <1>5, <1>7, <2>1 DEF Progress
<1>12. ReasonInv' BY <1>1, <1>5, <1>7, ReasonKeeps
<1>13. HoldInv' /\ BoxInv' /\ CropInv' /\ PendInv'
  <2>1. \A a \in Agent : pc'[a] \in Holding \/ pc[a] \in Holding =>
           pc'[a] = pc[a] /\ onPage'[a] = onPage[a] /\ index'[a] = index[a]
    BY <1>1, <1>3 DEF Holding
  <2>2. \A q \in Page : /\ error[q] # "none" => error'[q] # "none"
                        /\ Stopped(q) => Stopped(q)'
                        /\ pc'[q] \in {"new", "returned"} => pending[q] = 0
    BY <1>1, <1>5 DEF Stopped, PendInv, PendOf
  <2>3. QED BY <1>1, <2>1, <2>2, ControlKeeps
<1>14. QED BY <1>6, <1>9, <1>10, <1>11, <1>12, <1>13 DEF TaskInv, ProgressInv

-----------------------------------------------------------------------------
(* The steps of the page's thread around its boxes.                        *)

\* It goes to x; e is what the queue gains.
PageOnly(p, x, e) ==
  /\ pc' = [pc EXCEPT ![p] = x] /\ x \in PagePlaces
  /\ pc[p] \notin Holding \cup {"returned"} /\ x \notin Holding \cup {"new"}
  /\ UNCHANGED <<onPage, index, next, box, boxes, cancel, mode, pending, stage, tasks, crop,
                 stopping>>
  /\ \A q \in Page : (stop[q] => stop'[q]) /\ (error[q] # "none" => error'[q] # "none")
                     /\ (thrown[q] => thrown'[q])
  /\ \A q \in Page \ {p} : /\ Cardinality(Queued(q)') = Cardinality(Queued(q))
                           /\ outstanding'[q] = outstanding[q] /\ launched'[q] = launched[q]
  /\ OwnThreads => queue' = <<>> /\ x \notin {"launch", "push", "abort", "check", "asleep"}
  /\ ~OwnThreads => x \notin {"spawn", "join"}

PageLedger(p, x, e) ==
  /\ Cardinality(Queued(p)') = Cardinality(Queued(p)) + e
  /\ ~OwnThreads =>
       outstanding'[p] = outstanding[p] + e + Bit(x = "push") - Bit(pc[p] = "push")
  /\ launched'[p] = launched[p] + e
  /\ e > 0 => launched[p] < WorkerCount(p)
  /\ x = "push" => launched'[p] < WorkerCount(p)
  /\ x \in {"launch", "push", "spawn"} => WorkerCount(p) > 1
  /\ x \in Alone => e = 0 /\ Clean(p)
  /\ x \in {"check", "asleep", "join"} => launched'[p] > 0 \/ stop'[p]
  /\ x = "drain" => next[p] >= boxes[p] \/ Stopped(p)
  /\ x = "abort" => thrown'[p]
  /\ x = "returned" => pending[p] = 0

LEMMA PageKeeps ==
  ASSUME IInv, TypeInv', ReasonInv', NEW p \in Page, NEW x, NEW e \in {0, 1},
         PageOnly(p, x, e), PageLedger(p, x, e)
  PROVE  IInv'
<1> USE DEF IInv
<1>1. /\ \A a \in Agent : pc'[a] = IF a = p THEN x ELSE pc[a]
      /\ \A q \in Page : q \in Agent /\ q \notin BoxWorker
      /\ \A v \in BoxWorker : v \in Agent
  BY Constants DEF PageOnly, TypeInv, Agent
<1>2. /\ \A q \in Page : pc'[q] = IF q = p THEN x ELSE pc[q]
      /\ \A v \in BoxWorker : pc'[v] = pc[v] /\ onPage'[v] = onPage[v]
  BY <1>1 DEF PageOnly
<1>3. \A q : /\ Tasks(q)' = Tasks(q) /\ Seekers(q)' = Seekers(q)
             /\ Successors(q)' = Successors(q) /\ Insiders(q)' = Insiders(q)
  BY <1>2, AtKept
<1>4. /\ OwnThreads' = OwnThreads /\ \A q \in Page : WorkerCount(q)' = WorkerCount(q)
      /\ UNCHANGED <<onPage, index, next, box, boxes, cancel, mode, pending, stage, tasks, crop,
                     stopping>>
  BY CountKept DEF PageOnly
<1>5. \A q \in Page : {Cardinality(Queued(q)), Cardinality(Tasks(q)), Cardinality(Seekers(q)),
                       Cardinality(Successors(q)), Cardinality(Queued(q)')} \subseteq Nat
                      /\ (Cardinality(Queued(q)) = 0 <=> Queued(q) = {})
                      /\ (Cardinality(Queued(q)') = 0 <=> Queued(q)' = {})
  <2>1. queue \in Seq(Page) /\ queue' \in Seq(Page) BY DEF TypeInv
  <2>2. QED BY <2>1, Counts, QueuedPositions, PositionsFinite
<1>6. ASSUME NEW q \in Page
      PROVE  /\ TasksOf(q) /\ Progress(q) /\ (Stopped(q) => Stopped(q)')
             /\ launched[q] \in Nat /\ outstanding[q] \in Int /\ WorkerCount(q) \in Nat
             /\ Pushing(q) = Bit(pc[q] = "push")
             /\ (stop[q] => stop'[q]) /\ (thrown[q] => thrown'[q])
  <2>1. Stopped(q) => Stopped(q)' BY <1>4 DEF Stopped, PageOnly
  <2>2. Pushing(q) = Bit(pc[q] = "push") BY DEF Pushing, Bit
  <2>3. QED BY <2>1, <2>2, Workers DEF TaskInv, ProgressInv, TypeInv, PageOnly
<1>7. PlaceInv'
  <2>1. ~stopping' BY <1>1 DEF PlaceInv, PageOnly, TypeInv, PagePlaces, WorkPlaces
  <2>2. \A q \in Page : onPage'[q] = q BY <1>4 DEF PlaceInv
  <2>3. \A v \in BoxWorker : pc'[v] \notin Idle => onPage'[v] \in Page BY <1>2 DEF PlaceInv
  <2>4. OwnThreads =>
          /\ queue' = <<>>
          /\ \A q \in Page : pc'[q] \notin {"launch", "push", "abort", "check", "asleep"}
          /\ \A v \in BoxWorker : pc'[v] \notin {"again", "resubmit", "blame", "count", "notify"}
    BY <1>2 DEF PlaceInv, PageOnly
  <2>5. ~OwnThreads => /\ \A q \in Page : pc'[q] \notin {"spawn", "join"}
                       /\ \A v \in BoxWorker : pc'[v] # "leave"
    BY <1>2 DEF PlaceInv, PageOnly
  <2>6. QED BY <1>4, <2>1, <2>2, <2>3, <2>4, <2>5 DEF PlaceInv
<1>8. ASSUME NEW q \in Page, q # p PROVE TasksOf(q)' /\ Progress(q)'
  <2>1. /\ Cardinality(Queued(q)') = Cardinality(Queued(q)) /\ pc'[q] = pc[q]
        /\ outstanding'[q] = outstanding[q] /\ launched'[q] = launched[q]
        /\ (Queued(q)' = {} <=> Queued(q) = {})
    BY <1>2, <1>5, <1>8 DEF PageOnly
  <2>2. TasksOf(q)' BY <1>3, <1>4, <1>6, <2>1 DEF TasksOf, Clean, Pushing
  <2>3. Progress(q)' BY <1>3, <1>4, <1>6, <2>1 DEF Progress
  <2>4. QED BY <2>2, <2>3
<1>9. TasksOf(p)'
  <2>1. pc'[p] = x /\ Pushing(p)' = Bit(x = "push") BY <1>2 DEF Pushing, Bit
  <2>2. ~OwnThreads => outstanding'[p] = Cardinality(Queued(p)') + Cardinality(Tasks(p))
                          + Cardinality(Successors(p)) + Bit(x = "push")
    <3>1. SUFFICES ASSUME ~OwnThreads
                   PROVE  outstanding'[p] = Cardinality(Queued(p)') + Cardinality(Tasks(p))
                            + Cardinality(Successors(p)) + Bit(x = "push")
      OBVIOUS
    <3>2. outstanding[p] = Cardinality(Queued(p)) + Cardinality(Tasks(p))
                          + Cardinality(Successors(p)) + Bit(pc[p] = "push")
      BY <1>6, <3>1 DEF TasksOf
    <3>3. outstanding'[p] = outstanding[p] + e + Bit(x = "push") - Bit(pc[p] = "push")
          /\ Cardinality(Queued(p)') = Cardinality(Queued(p)) + e
      BY <3>1 DEF PageLedger
    <3>4. Bit(x = "push") \in Nat /\ Bit(pc[p] = "push") \in Nat BY DEF Bit
    <3>5. QED BY <1>5, <3>2, <3>3, <3>4
  <2>3. /\ Cardinality(Queued(p)') + Cardinality(Seekers(p)) <= launched'[p]
        /\ launched'[p] <= WorkerCount(p)
    <3>1. /\ Cardinality(Queued(p)) + Cardinality(Seekers(p)) <= launched[p]
          /\ launched[p] <= WorkerCount(p)
      BY <1>6 DEF TasksOf
    <3>2. /\ Cardinality(Queued(p)') = Cardinality(Queued(p)) + e /\ launched'[p] = launched[p] + e
          /\ (e > 0 => launched[p] < WorkerCount(p))
      BY DEF PageLedger
    <3>3. QED BY <1>5, <1>6, <3>1, <3>2
  <2>4. x \in Alone => Clean(p)'
    <3> SUFFICES ASSUME x \in Alone PROVE Clean(p)' OBVIOUS
    <3>1. Clean(p) /\ Cardinality(Queued(p)') = Cardinality(Queued(p)) + 0 BY DEF PageLedger
    <3>2. Cardinality(Queued(p)) = 0 BY <1>5, <3>1 DEF Clean
    <3>3. Cardinality(Queued(p)') = 0 BY <3>1, <3>2
    <3>4. QED BY <1>3, <1>5, <3>1, <3>3 DEF Clean
  <2>5. /\ x = "push" => launched'[p] < WorkerCount(p)
        /\ x \in {"launch", "push", "spawn"} => WorkerCount(p) > 1
    BY DEF PageLedger
  <2>6. QED BY <1>3, <1>4, <2>1, <2>2, <2>3, <2>4, <2>5 DEF TasksOf
<1>10. Progress(p)'
  <2>1. launched'[p] > 0 /\ next[p] < boxes[p] /\ ~Stopped(p)' => Queued(p)' # {} \/ Seekers(p) # {}
    <3>1. CASE e = 1
      <4>1. Cardinality(Queued(p)') = Cardinality(Queued(p)) + 1 BY <3>1 DEF PageLedger
      <4>2. QED BY <1>5, <4>1
    <3>2. CASE e = 0
      <4>1. /\ Cardinality(Queued(p)') = Cardinality(Queued(p)) /\ launched'[p] = launched[p]
        BY <1>5, <1>6, <3>2 DEF PageLedger
      <4>2. QED BY <1>5, <1>6, <4>1 DEF Progress
    <3>3. QED BY <3>1, <3>2
  <2>2. /\ pc'[p] = x
        /\ x \in {"check", "asleep", "join"} => launched'[p] > 0 \/ stop'[p]
        /\ x = "drain" => next[p] >= boxes[p] \/ Stopped(p)'
        /\ x = "abort" => thrown'[p]
    BY <1>2, <1>6 DEF PageLedger
  <2>3. QED BY <1>3, <1>4, <2>1, <2>2 DEF Progress
<1>11. HoldInv' /\ BoxInv' /\ CropInv' /\ PendInv'
  <2>1. \A a \in Agent : pc'[a] \in Holding \/ pc[a] \in Holding =>
           pc'[a] = pc[a] /\ onPage'[a] = onPage[a] /\ index'[a] = index[a]
    BY <1>1, <1>4 DEF PageOnly
  <2>2. \A q \in Page : /\ error[q] # "none" => error'[q] # "none"
                        /\ Stopped(q) => Stopped(q)'
                        /\ pc'[q] \in {"new", "returned"} => pending[q] = 0
    <3> TAKE q \in Page
    <3>1. pc'[q] \in {"new", "returned"} => pending[q] = 0
      <4>1. CASE q = p BY <1>2, <4>1 DEF PageOnly, PageLedger
      <4>2. CASE q # p BY <1>2, <4>2 DEF PendInv, PendOf
      <4>3. QED BY <4>1, <4>2
    <3>2. QED BY <1>6, <3>1 DEF PageOnly
  <2>3. QED BY <1>4, <2>1, <2>2, ControlKeeps
<1>12. QED BY <1>7, <1>8, <1>9, <1>10, <1>11 DEF TaskInv, ProgressInv

\* The types after a step of the page's thread.
FrameTypes ==
  /\ queue \in Seq(Page) /\ launched \in [Page -> Nat] /\ outstanding \in [Page -> Int]
  /\ stop \in [Page -> BOOLEAN] /\ thrown \in [Page -> BOOLEAN]
  /\ error \in [Page -> {"none", "failed", "cancelled"}]
  /\ result \in [Page -> {"none", "ok", "failed", "cancelled"}]

LEMMA PageTypes ==
  ASSUME TypeInv, NEW p \in Page, NEW x, NEW e, PageOnly(p, x, e), FrameTypes'
  PROVE  /\ TypeInv'
         /\ \A q \in Page : pc'[q] = IF q = p THEN x ELSE pc[q]
         /\ \A q : Blamers(q)' = Blamers(q)
<1>1. /\ pc' = [pc EXCEPT ![p] = x] /\ x \in PagePlaces
      /\ UNCHANGED <<onPage, index, next, box, boxes, cancel, mode, pending, stage, tasks, crop>>
  BY DEF PageOnly
<1>2. /\ \A q \in Page : q \in Agent /\ q \notin BoxWorker
      /\ \A v \in BoxWorker : v \in Agent
  BY Constants DEF Agent
<1>3. \A a \in Agent : pc'[a] = IF a = p THEN x ELSE pc[a] BY <1>1 DEF TypeInv
<1>4. /\ pc' \in [Agent -> PagePlaces \cup WorkerPlaces]
      /\ \A q \in Page : pc'[q] \in PagePlaces
      /\ \A v \in BoxWorker : pc'[v] \in WorkerPlaces
  <2>1. pc' \in [Agent -> PagePlaces \cup WorkerPlaces] BY <1>1 DEF TypeInv
  <2>2. QED BY <1>1, <1>2, <1>3, <2>1 DEF TypeInv
<1>5. \A v \in BoxWorker : pc'[v] = pc[v] /\ onPage'[v] = onPage[v]
  BY <1>1, <1>2, <1>3
<1>6. QED BY <1>1, <1>2, <1>3, <1>4, <1>5, AtKept DEF TypeInv, FrameTypes

pageShared == <<onPage, index, next, box, boxes, cancel, mode, pending, stage, tasks, crop, stopping>>
queueShared == <<queue, stop, error, launched, thrown>>

LEMMA LayoutStep ==
  ASSUME IInv, NEW p \in Page, Layout(p)
  PROVE  IInv'
<1> USE DEF IInv
<1>1. PICK x \in {"begin", "spawn", "launch"} :
        /\ pc[p] = "new" /\ pc' = [pc EXCEPT ![p] = x]
        /\ UNCHANGED <<pageShared, queueShared, outstanding, result>>
        /\ x # "begin" => ~(WorkerCount(p) <= 1)
        /\ OwnThreads => x # "launch"
        /\ ~OwnThreads => x # "spawn"
  BY DEF Layout, Goto, pageShared, queueShared, frameVars, endVars, control, poolVars
<1>2. /\ UNCHANGED pageShared /\ UNCHANGED <<queue, stop, error, launched, thrown, outstanding, result>>
      /\ \A q : Queued(q)' = Queued(q)
  BY <1>1 DEF queueShared, Queued
<1>3. PageOnly(p, x, 0)
  <2>1. OwnThreads => queue' = <<>> BY <1>2 DEF PlaceInv
  <2>2. x \in PagePlaces /\ x \notin Holding \cup {"new"} /\ pc[p] \notin Holding \cup {"returned"}
    BY <1>1 DEF PagePlaces, WorkPlaces, Holding
  <2>3. QED BY <1>1, <1>2, <2>1, <2>2 DEF PageOnly, pageShared
<1>4. TypeInv' /\ (\A q \in Page : pc'[q] = IF q = p THEN x ELSE pc[q])
      /\ \A q : Blamers(q)' = Blamers(q)
  <2>1. FrameTypes' BY <1>2 DEF TypeInv, FrameTypes
  <2>2. QED BY <1>3, <2>1, PageTypes
<1>5. ReasonInv' BY <1>1, <1>2, <1>4, ReasonKeeps DEF pageShared
<1>6. PageLedger(p, x, 0)
  <2>1. Clean(p) BY <1>1 DEF TaskInv, TasksOf, Alone
  <2>2. /\ Cardinality(Queued(p)') = Cardinality(Queued(p)) /\ Cardinality(Queued(p)) \in Nat
        /\ launched[p] \in Nat /\ outstanding[p] \in Int /\ WorkerCount(p) \in Nat
    BY <1>2, Counts, Workers DEF TypeInv
  <2>3. Bit(x = "push") = 0 /\ Bit(pc[p] = "push") = 0 BY <1>1 DEF Bit
  <2>4. QED BY <1>1, <1>2, <2>1, <2>2, <2>3 DEF PageLedger
<1>7. QED BY <1>3, <1>4, <1>5, <1>6, PageKeeps

LEMMA LaunchStep ==
  ASSUME IInv, NEW p \in Page, Launch(p)
  PROVE  IInv'
<1> USE DEF IInv
<1>1. pc[p] = "launch" /\ UNCHANGED <<pageShared, queueShared, result>>
  BY DEF Launch, pageShared, queueShared, endVars, control, poolVars
<1>2. PICK x \in {"push", "check"} :
        /\ pc' = [pc EXCEPT ![p] = x]
        /\ outstanding' = [outstanding EXCEPT ![p] = @ + Bit(x = "push")]
        /\ x = "push" => launched[p] < WorkerCount(p)
        /\ x = "check" => ~(launched[p] < WorkerCount(p)) \/ stop[p]
  <2>1. CASE launched[p] < WorkerCount(p) /\ ~stop[p]
    <3>1. pc' = [pc EXCEPT ![p] = "push"] /\ outstanding' = [outstanding EXCEPT ![p] = @ + 1]
      BY <2>1 DEF Launch, Goto
    <3>2. Bit("push" = "push") = 1 BY DEF Bit
    <3>3. QED BY <2>1, <3>1, <3>2
  <2>2. CASE ~(launched[p] < WorkerCount(p) /\ ~stop[p])
    <3>1. pc' = [pc EXCEPT ![p] = "check"] /\ outstanding' = outstanding
      BY <2>2 DEF Launch, Goto
    <3>2. outstanding' = [outstanding EXCEPT ![p] = @ + Bit("check" = "push")]
      BY <3>1 DEF Bit, TypeInv
    <3>3. QED BY <2>2, <3>1, <3>2
  <2>3. QED BY <2>1, <2>2
<1>3. /\ UNCHANGED pageShared /\ UNCHANGED <<queue, stop, error, launched, thrown, result>>
      /\ \A q : Queued(q)' = Queued(q)
  BY <1>1 DEF queueShared, Queued
<1>4. /\ outstanding' \in [Page -> Int] /\ outstanding'[p] = outstanding[p] + Bit(x = "push")
      /\ \A q \in Page \ {p} : outstanding'[q] = outstanding[q]
  BY <1>2 DEF TypeInv, Bit
<1>5. ~OwnThreads BY <1>1 DEF PlaceInv
<1>6. PageOnly(p, x, 0)
  <2>1. x \in PagePlaces /\ x \notin Holding \cup {"new"} /\ pc[p] \notin Holding \cup {"returned"}
    BY <1>1 DEF PagePlaces, WorkPlaces, Holding
  <2>2. QED BY <1>2, <1>3, <1>4, <1>5, <2>1 DEF PageOnly, pageShared
<1>7. TypeInv' /\ (\A q \in Page : pc'[q] = IF q = p THEN x ELSE pc[q])
      /\ \A q : Blamers(q)' = Blamers(q)
  <2>1. FrameTypes' BY <1>3, <1>4 DEF TypeInv, FrameTypes
  <2>2. QED BY <1>6, <2>1, PageTypes
<1>8. ReasonInv' BY <1>1, <1>3, <1>7, ReasonKeeps DEF pageShared
<1>9. PageLedger(p, x, 0)
  <2>1. x \notin Alone /\ Bit(pc[p] = "push") = 0 BY <1>1 DEF Alone, WorkPlaces, Bit
  <2>2. WorkerCount(p) > 1 BY <1>1 DEF TaskInv, TasksOf
  <2>3. /\ Cardinality(Queued(p)') = Cardinality(Queued(p)) /\ Cardinality(Queued(p)) \in Nat
        /\ launched[p] \in Nat /\ outstanding[p] \in Int /\ WorkerCount(p) \in Nat
        /\ launched'[p] = launched[p]
    BY <1>3, Counts, Workers DEF TypeInv
  <2>4. x = "check" => launched'[p] > 0 \/ stop'[p] BY <1>2, <1>3, <2>2, <2>3
  <2>5. Bit(x = "push") \in Int BY DEF Bit
  <2>6. QED BY <1>2, <1>4, <2>1, <2>2, <2>3, <2>4, <2>5 DEF PageLedger
<1>10. QED BY <1>6, <1>7, <1>8, <1>9, PageKeeps

LEMMA PushStep ==
  ASSUME IInv, NEW p \in Page, Push(p)
  PROVE  IInv'
<1> USE DEF IInv
<1>1. /\ pc[p] = "push" /\ pc' = [pc EXCEPT ![p] = "launch"]
      /\ queue' = Append(queue, p) /\ launched' = [launched EXCEPT ![p] = @ + 1]
      /\ UNCHANGED pageShared /\ UNCHANGED <<stop, error, thrown, result, outstanding>>
  BY DEF Push, Goto, pageShared, endVars, control, poolVars
<1>2. /\ Cardinality(Queued(p)') = Cardinality(Queued(p)) + 1 /\ Cardinality(Queued(p)) \in Nat
      /\ \A q \in Page \ {p} : Cardinality(Queued(q)') = Cardinality(Queued(q))
  <2>1. \A q : Cardinality(Positions(queue', q)) =
                 Cardinality(Positions(queue, q)) + (IF q = p THEN 1 ELSE 0)
    BY <1>1, PositionsAppend DEF TypeInv
  <2>2. \A q : Cardinality(Positions(queue, q)) \in Nat BY PositionsFinite DEF TypeInv
  <2>3. QED BY <2>1, <2>2, QueuedPositions
<1>3. /\ launched' \in [Page -> Nat] /\ launched'[p] = launched[p] + 1
      /\ \A q \in Page \ {p} : launched'[q] = launched[q]
      /\ queue' \in Seq(Page)
  BY <1>1, AppendProperties DEF TypeInv
<1>4. ~OwnThreads BY <1>1 DEF PlaceInv
<1>5. PageOnly(p, "launch", 1)
  <2>1. "launch" \in PagePlaces /\ "launch" \notin Holding \cup {"new"}
        /\ pc[p] \notin Holding \cup {"returned"}
    BY <1>1 DEF PagePlaces, WorkPlaces, Holding
  <2>2. QED BY <1>1, <1>2, <1>3, <1>4, <2>1 DEF PageOnly, pageShared
<1>6. TypeInv' /\ (\A q \in Page : pc'[q] = IF q = p THEN "launch" ELSE pc[q])
      /\ \A q : Blamers(q)' = Blamers(q)
  <2>1. FrameTypes' BY <1>1, <1>3 DEF TypeInv, FrameTypes
  <2>2. QED BY <1>5, <2>1, PageTypes
<1>7. ReasonInv' BY <1>1, <1>6, ReasonKeeps DEF pageShared
<1>8. PageLedger(p, "launch", 1)
  <2>1. /\ "launch" \notin Alone /\ Bit(pc[p] = "push") = 1 /\ Bit("launch" = "push") = 0
    BY <1>1 DEF Alone, WorkPlaces, Bit
  <2>2. WorkerCount(p) > 1 /\ launched[p] < WorkerCount(p) BY <1>1 DEF TaskInv, TasksOf
  <2>3. outstanding[p] \in Int /\ outstanding'[p] = outstanding[p] BY <1>1 DEF TypeInv
  <2>4. QED BY <1>2, <1>3, <2>1, <2>2, <2>3 DEF PageLedger
<1>9. QED BY <1>5, <1>6, <1>7, <1>8, PageKeeps

\* A task could not be queued, or a thread not started.
LEMMA PushFailsStep ==
  ASSUME IInv, NEW p \in Page, PushFails(p)
  PROVE  IInv'
<1> USE DEF IInv
<1>1. /\ pc[p] = "push" /\ CanRefuse /\ pc' = [pc EXCEPT ![p] = "abort"]
      /\ outstanding' = [outstanding EXCEPT ![p] = @ - 1] /\ thrown' = [thrown EXCEPT ![p] = TRUE]
      /\ UNCHANGED pageShared /\ UNCHANGED <<stop, error, queue, launched, result>>
  BY DEF PushFails, Goto, pageShared, control, poolVars
<1>2. /\ thrown' \in [Page -> BOOLEAN] /\ thrown'[p] = TRUE
      /\ \A q \in Page \ {p} : thrown'[q] = thrown[q]
  BY <1>1, Zenon DEF TypeInv
<1>3. /\ outstanding' \in [Page -> Int] /\ outstanding'[p] = outstanding[p] - 1
      /\ \A q \in Page \ {p} : outstanding'[q] = outstanding[q]
      /\ \A q : Queued(q)' = Queued(q)
  BY <1>1 DEF TypeInv, Queued
<1>4. ~OwnThreads BY <1>1 DEF PlaceInv
<1>5. PageOnly(p, "abort", 0)
  <2>1. "abort" \in PagePlaces /\ "abort" \notin Holding \cup {"new"}
        /\ pc[p] \notin Holding \cup {"returned"}
    BY <1>1 DEF PagePlaces, WorkPlaces, Holding
  <2>2. \A q \in Page : thrown[q] => thrown'[q] BY <1>2
  <2>3. QED BY <1>1, <1>3, <1>4, <2>1, <2>2 DEF PageOnly, pageShared
<1>6. TypeInv' /\ (\A q \in Page : pc'[q] = IF q = p THEN "abort" ELSE pc[q])
      /\ \A q : Blamers(q)' = Blamers(q)
  <2>1. FrameTypes' BY <1>1, <1>2, <1>3 DEF TypeInv, FrameTypes
  <2>2. QED BY <1>5, <2>1, PageTypes
<1>7. ReasonInv'
  <2>1. UNCHANGED <<box, boxes, mode, result, cancel, stop, error>> BY <1>1 DEF pageShared
  <2>2. \A q \in Page : thrown[q] => thrown'[q] BY <1>2
  <2>3. QED BY <1>1, <1>6, <2>1, <2>2, ReasonKeeps
<1>8. PageLedger(p, "abort", 0)
  <2>1. "abort" \notin Alone /\ Bit(pc[p] = "push") = 1 /\ Bit("abort" = "push") = 0
    BY <1>1 DEF Alone, WorkPlaces, Bit
  <2>2. /\ Cardinality(Queued(p)') = Cardinality(Queued(p)) /\ Cardinality(Queued(p)) \in Nat
        /\ launched[p] \in Nat /\ outstanding[p] \in Int /\ launched'[p] = launched[p]
    BY <1>1, <1>3, Counts DEF TypeInv
  <2>3. QED BY <1>2, <1>3, <2>1, <2>2 DEF PageLedger
<1>9. QED BY <1>5, <1>6, <1>7, <1>8, PageKeeps

LEMMA StartFailsStep ==
  ASSUME IInv, NEW p \in Page, StartFails(p) \/ Abort(p)
  PROVE  IInv'
<1> USE DEF IInv
<1>1. PICK x \in {"check", "join"} :
        /\ pc[p] \in {"spawn", "abort"} /\ pc' = [pc EXCEPT ![p] = x]
        /\ (x = "join" <=> pc[p] = "spawn") /\ (pc[p] = "abort" => thrown' = thrown)
        /\ stop' = [stop EXCEPT ![p] = TRUE]
        /\ thrown' = thrown \/ (thrown' = [thrown EXCEPT ![p] = TRUE] /\ CanRefuse)
        /\ UNCHANGED pageShared /\ UNCHANGED <<error, queue, launched, result, outstanding>>
  <2>1. CASE StartFails(p)
    BY <2>1 DEF StartFails, Goto, pageShared, control, poolVars
  <2>2. CASE Abort(p)
    BY <2>2 DEF Abort, Goto, pageShared, endVars, control, poolVars
  <2>3. QED BY <2>1, <2>2
<1>2. /\ stop' \in [Page -> BOOLEAN] /\ stop'[p] = TRUE
      /\ \A q \in Page \ {p} : stop'[q] = stop[q]
  BY <1>1, Zenon DEF TypeInv
<1>3. thrown[p] \/ pc[p] = "spawn" BY <1>1 DEF ProgressInv, Progress
<1>4. /\ thrown' \in [Page -> BOOLEAN] /\ (pc[p] = "spawn" /\ thrown' # thrown => thrown'[p])
      /\ \A q \in Page : (thrown[q] => thrown'[q]) /\ (thrown'[q] => thrown[q] \/ CanRefuse)
  <2>1. CASE thrown' = thrown BY <2>1 DEF TypeInv
  <2>2. CASE thrown' = [thrown EXCEPT ![p] = TRUE] /\ CanRefuse
    <3>1. thrown' \in [Page -> BOOLEAN] /\ thrown'[p] = TRUE
          /\ \A q \in Page \ {p} : thrown'[q] = thrown[q]
      BY <2>2, Zenon DEF TypeInv
    <3>2. QED BY <2>2, <3>1
  <2>3. QED BY <1>1, <2>1, <2>2
<1>5. thrown'[p]
  <2>1. CASE Abort(p) BY <1>3, <1>4, <2>1 DEF Abort
  <2>2. CASE StartFails(p)
    <3>1. thrown' = [thrown EXCEPT ![p] = TRUE] BY <2>2 DEF StartFails
    <3>2. thrown'[p] = TRUE BY <3>1, Zenon DEF TypeInv
    <3>3. QED BY <3>2
  <2>3. QED BY <2>1, <2>2
<1>6. \A q : Queued(q)' = Queued(q) BY <1>1 DEF Queued
<1>7. PageOnly(p, x, 0)
  <2>1. x \in PagePlaces /\ x \notin Holding \cup {"new"}
        /\ pc[p] \notin Holding \cup {"returned"}
    BY <1>1 DEF PagePlaces, WorkPlaces, Holding
  <2>2. \A q \in Page : (stop[q] => stop'[q]) /\ (thrown[q] => thrown'[q]) BY <1>2, <1>4
  <2>3. /\ OwnThreads => queue' = <<>> /\ x # "check"
        /\ ~OwnThreads => x # "join"
    <3>1. /\ OwnThreads => queue = <<>> /\ pc[p] # "abort"
          /\ ~OwnThreads => pc[p] # "spawn"
      BY DEF PlaceInv
    <3>2. QED BY <1>1, <3>1
  <2>4. QED BY <1>1, <1>6, <2>1, <2>2, <2>3 DEF PageOnly, pageShared
<1>8. TypeInv' /\ (\A q \in Page : pc'[q] = IF q = p THEN x ELSE pc[q])
      /\ \A q : Blamers(q)' = Blamers(q)
  <2>1. FrameTypes' BY <1>1, <1>2, <1>4 DEF TypeInv, FrameTypes
  <2>2. QED BY <1>7, <2>1, PageTypes
<1>9. ReasonInv'
  <2>1. UNCHANGED <<box, boxes, mode, result, cancel, error>> BY <1>1 DEF pageShared
  <2>2. \A q \in Page : stop'[q] => stop[q] \/ thrown'[q] BY <1>2, <1>5
  <2>3. \A q \in Page : pc[q] = "returned" => pc'[q] = "returned" BY <1>1, <1>8
  <2>4. QED BY <1>4, <1>8, <2>1, <2>2, <2>3, ReasonKeeps
<1>10. PageLedger(p, x, 0)
  <2>1. x \notin Alone /\ Bit(pc[p] = "push") = 0 /\ Bit(x = "push") = 0
    BY <1>1 DEF Alone, WorkPlaces, Bit
  <2>2. /\ Cardinality(Queued(p)') = Cardinality(Queued(p)) /\ Cardinality(Queued(p)) \in Nat
        /\ launched[p] \in Nat /\ outstanding[p] \in Int /\ launched'[p] = launched[p]
        /\ outstanding'[p] = outstanding[p]
    BY <1>1, <1>6, Counts DEF TypeInv
  <2>3. QED BY <1>1, <1>2, <2>1, <2>2 DEF PageLedger
<1>11. QED BY <1>7, <1>8, <1>9, <1>10, PageKeeps

\* When the tasks are gone they have left no box behind, unless the page stopped.
LEMMA NoneLeft ==
  ASSUME IInv, NEW p \in Page, Clean(p), launched[p] > 0 \/ stop[p]
  PROVE  next[p] >= boxes[p] \/ Stopped(p)
<1> USE DEF IInv
<1>1. Progress(p) /\ next[p] \in Nat /\ boxes[p] \in Nat BY Workers DEF ProgressInv, TypeInv
<1>2. Seekers(p) = {} BY DEF Clean, Insiders, Seekers, At, Inside, Counted
<1>3. QED BY <1>1, <1>2 DEF Progress, Clean, Stopped

LEMMA WaitStep ==
  ASSUME IInv, NEW p \in Page, CheckDone(p) \/ SpuriousWakeup(p) \/ Join(p)
  PROVE  IInv'
<1> USE DEF IInv
<1>1. PICK x \in {"drain", "asleep", "check"} :
        /\ pc[p] \in {"check", "asleep", "spawn", "join"} /\ pc' = [pc EXCEPT ![p] = x]
        /\ UNCHANGED pageShared
        /\ UNCHANGED <<queue, stop, error, launched, thrown, outstanding, result>>
        /\ x # "drain" => pc[p] \in {"check", "asleep"}
        /\ x = "drain" => \/ pc[p] = "check" /\ outstanding[p] = 0
                          \/ /\ pc[p] = "join" \/ (pc[p] = "spawn" /\ launched[p] = WorkerCount(p))
                             /\ \A w \in BoxWorker : onPage[w] # p
  <2>1. CASE CheckDone(p)
    BY <2>1 DEF CheckDone, Goto, pageShared, frameVars, endVars, control, poolVars
  <2>2. CASE SpuriousWakeup(p)
    BY <2>2 DEF SpuriousWakeup, Goto, pageShared, frameVars, endVars, control, poolVars
  <2>3. CASE Join(p)
    BY <2>3 DEF Join, Goto, pageShared, frameVars, endVars, control, poolVars
  <2>4. QED BY <2>1, <2>2, <2>3
<1>2. \A q : Queued(q)' = Queued(q) BY <1>1 DEF Queued
<1>3. /\ TasksOf(p) /\ Progress(p) /\ launched[p] \in Nat /\ outstanding[p] \in Int
      /\ WorkerCount(p) \in Nat /\ Cardinality(Queued(p)) \in Nat
  BY Counts, Workers DEF TaskInv, ProgressInv, TypeInv
<1>4. x = "drain" => Clean(p) /\ (launched[p] > 0 \/ stop[p])
  <2> SUFFICES ASSUME x = "drain" PROVE Clean(p) /\ (launched[p] > 0 \/ stop[p]) OBVIOUS
  <2>1. CASE pc[p] = "check" /\ outstanding[p] = 0
    <3>1. ~OwnThreads BY <2>1 DEF PlaceInv
    <3>2. /\ Cardinality(Queued(p)) \in Nat /\ Cardinality(Tasks(p)) \in Nat
          /\ Cardinality(Successors(p)) \in Nat
          /\ Cardinality(Queued(p)) = 0 <=> Queued(p) = {}
          /\ Cardinality(Tasks(p)) = 0 <=> Tasks(p) = {}
      BY Counts DEF TypeInv
    <3>3. Pushing(p) = 0 BY <2>1 DEF Pushing
    <3>4. 0 = Cardinality(Queued(p)) + Cardinality(Tasks(p)) + Cardinality(Successors(p)) + 0
      BY <1>3, <2>1, <3>1, <3>3 DEF TasksOf
    <3>5. Queued(p) = {} /\ Tasks(p) = {}
      <4>1. \A a, b, c \in Nat : 0 = a + b + c + 0 => a = 0 /\ b = 0 OBVIOUS
      <4>2. Cardinality(Queued(p)) = 0 /\ Cardinality(Tasks(p)) = 0 BY <3>2, <3>4, <4>1
      <4>3. QED BY <3>2, <4>2
    <3>6. \A w \in BoxWorker : pc[w] # "leave" BY <3>1 DEF PlaceInv
    <3>7. Insiders(p) = {} BY <3>5, <3>6 DEF Tasks, Insiders, At, Inside
    <3>8. QED BY <1>3, <2>1, <3>5, <3>7 DEF Clean, Progress
  <2>2. CASE /\ pc[p] = "join" \/ (pc[p] = "spawn" /\ launched[p] = WorkerCount(p))
             /\ \A w \in BoxWorker : onPage[w] # p
    <3>1. queue = <<>> BY <2>2 DEF PlaceInv
    <3>2. Queued(p) = {} BY <3>1 DEF Queued
    <3>3. Insiders(p) = {} BY <2>2 DEF Insiders, At
    <3>4. launched[p] > 0 \/ stop[p] BY <1>3, <2>2 DEF TasksOf, Progress
    <3>5. QED BY <3>2, <3>3, <3>4 DEF Clean
  <2>3. QED BY <1>1, <2>1, <2>2
<1>5. PageOnly(p, x, 0)
  <2>1. x \in PagePlaces /\ x \notin Holding \cup {"new"}
        /\ pc[p] \notin Holding \cup {"returned"}
    BY <1>1 DEF PagePlaces, WorkPlaces, Holding
  <2>2. OwnThreads => queue' = <<>> /\ x = "drain" BY <1>1 DEF PlaceInv
  <2>3. QED BY <1>1, <1>2, <2>1, <2>2 DEF PageOnly, pageShared
<1>6. TypeInv' /\ (\A q \in Page : pc'[q] = IF q = p THEN x ELSE pc[q])
      /\ \A q : Blamers(q)' = Blamers(q)
  <2>1. FrameTypes' BY <1>1 DEF TypeInv, FrameTypes
  <2>2. QED BY <1>5, <2>1, PageTypes
<1>7. ReasonInv'
  <2>1. UNCHANGED <<box, boxes, mode, result, cancel, error, stop, thrown>> BY <1>1 DEF pageShared
  <2>2. \A q \in Page : pc[q] = "returned" => pc'[q] = "returned" BY <1>1, <1>6
  <2>3. QED BY <1>6, <2>1, <2>2, ReasonKeeps
<1>8. PageLedger(p, x, 0)
  <2>1. (x # "drain" => x \notin Alone) /\ Bit(pc[p] = "push") = 0 /\ Bit(x = "push") = 0
    BY <1>1 DEF Alone, WorkPlaces, Bit
  <2>2. x = "drain" => Clean(p) /\ (next[p] >= boxes[p] \/ Stopped(p)) BY <1>4, NoneLeft
  <2>3. x \in {"check", "asleep"} => launched[p] > 0 \/ stop[p] BY <1>1, <1>3 DEF Progress
  <2>4. QED BY <1>1, <1>2, <1>3, <2>1, <2>2, <2>3 DEF PageLedger
<1>9. QED BY <1>5, <1>6, <1>7, <1>8, PageKeeps

LEMMA StartThreadStep ==
  ASSUME IInv, NEW p \in Page, StartThread(p)
  PROVE  IInv'
<1> USE DEF IInv
<1>1. PICK w \in BoxWorker :
        /\ pc[w] = "idle" /\ pc' = [pc EXCEPT ![w] = "begin"]
        /\ onPage' = [onPage EXCEPT ![w] = p] /\ index' = [index EXCEPT ![w] = 0]
        /\ pc[p] = "spawn" /\ launched[p] < WorkerCount(p)
        /\ launched' = [launched EXCEPT ![p] = @ + 1]
        /\ UNCHANGED <<queue, next, stop, error, outstanding, pending, box, thrown, result,
                       cancel, mode, boxes, stage, tasks, crop, stopping>>
  BY DEF StartThread, Goto, Hold, endVars, control, poolVars
<1>2. w \in Agent /\ w \notin Page /\ \A q \in Page : q \in Agent /\ q \notin BoxWorker BY WorkerFacts
<1>3. /\ \A a \in Agent : pc'[a] = IF a = w THEN "begin" ELSE pc[a]
      /\ \A a \in Agent : onPage'[a] = IF a = w THEN p ELSE onPage[a]
      /\ \A a \in Agent : index'[a] = IF a = w THEN 0 ELSE index[a]
      /\ launched' \in [Page -> Nat] /\ launched'[p] = launched[p] + 1
      /\ \A q \in Page \ {p} : launched'[q] = launched[q]
      /\ \A q : Queued(q)' = Queued(q)
  BY <1>1 DEF TypeInv, Queued
<1>4. TypeInv'
  <2>1. pc' \in [Agent -> PagePlaces \cup WorkerPlaces] /\ onPage' \in [Agent -> Page \cup {NoPage}]
        /\ index' \in [Agent -> Nat]
    BY <1>1 DEF TypeInv, WorkerPlaces, WorkPlaces
  <2>2. \A v \in BoxWorker : pc'[v] \in WorkerPlaces
    BY <1>3 DEF TypeInv, Agent, WorkerPlaces, WorkPlaces
  <2>3. \A q \in Page : pc'[q] \in PagePlaces BY <1>2, <1>3 DEF TypeInv
  <2>4. QED BY <1>1, <1>3, <2>1, <2>2, <2>3 DEF TypeInv
<1>5. OwnThreads /\ queue = <<>> BY <1>1 DEF PlaceInv
<1>6. WorkerOnly(w, p)
  BY <1>1, <1>2, <1>3 DEF WorkerOnly, Holding, Idle, Agent
<1>7. WorkerLedger(w, p, 0, 1)
  <2>1. pc[p] \notin Alone BY <1>1 DEF Alone, WorkPlaces
  <2>2. Bit(pc'[w] \in Claimers) = 1 /\ Bit(pc[w] \in Claimers) = 0 /\ pc'[w] \in Claimers
    BY <1>1, <1>2, <1>3 DEF Bit, Claimers, WorkPlaces
  <2>3. Cardinality(Queued(p)) \in Nat /\ Cardinality(Queued(p)') = Cardinality(Queued(p))
    BY <1>3, Counts DEF TypeInv
  <2>4. QED BY <1>1, <1>3, <1>5, <2>1, <2>2, <2>3 DEF WorkerLedger
<1>8. \A q : Blamers(q)' = Blamers(q)
  <2>1. \A v \in BoxWorker : /\ (v # w => pc'[v] = pc[v] /\ onPage'[v] = onPage[v])
                             /\ pc[w] # "blame" /\ pc'[w] # "blame"
    BY <1>1, <1>2, <1>3 DEF Agent
  <2>2. QED BY <2>1 DEF Blamers, At
<1>9. ReasonInv' BY <1>1, <1>2, <1>3, <1>8, ReasonKeeps
<1>10. pc'[w] = "begin" /\ queue' = <<>> BY <1>1, <1>2, <1>3, <1>5
<1>11. QED BY <1>4, <1>5, <1>6, <1>7, <1>9, <1>10, WorkerKeeps

\* A page returns, before its layout is known or in the end, with a true report.
LEMMA ReturnKeeps ==
  ASSUME IInv, NEW p \in Page, NEW r \in {"ok", "failed", "cancelled"},
         pc[p] \in {"new", "drain"}, pending[p] = 0, pc' = [pc EXCEPT ![p] = "returned"],
         result' = [result EXCEPT ![p] = r],
         UNCHANGED pageShared, UNCHANGED <<queue, stop, error, launched, thrown, outstanding>>,
         r = "ok" => \A i \in 1 .. boxes[p] :
                       box[p][i] \in {"done"} \cup (IF RecordErrors THEN {"failed"} ELSE {}),
         r = "cancelled" => cancel[p] \/ (CanRefuse /\ ~OwnThreads)
  PROVE  IInv'
<1> USE DEF IInv
<1>1. \A q : Queued(q)' = Queued(q) BY DEF Queued
<1>2. PageOnly(p, "returned", 0)
  <2>1. "returned" \in PagePlaces /\ "returned" \notin Holding \cup {"new"}
        /\ pc[p] \notin Holding \cup {"returned"}
    BY DEF PagePlaces, WorkPlaces, Holding
  <2>2. OwnThreads => queue' = <<>> BY DEF PlaceInv
  <2>3. QED BY <1>1, <2>1, <2>2 DEF PageOnly, pageShared
<1>3. /\ result' \in [Page -> {"none", "ok", "failed", "cancelled"}] /\ result'[p] = r
      /\ \A q \in Page \ {p} : result'[q] = result[q]
  BY DEF TypeInv
<1>4. TypeInv' /\ (\A q \in Page : pc'[q] = IF q = p THEN "returned" ELSE pc[q])
      /\ \A q : Blamers(q)' = Blamers(q)
  <2>1. FrameTypes' BY <1>3 DEF TypeInv, FrameTypes
  <2>2. QED BY <1>2, <2>1, PageTypes
<1>5. UNCHANGED <<box, boxes, mode, cancel, error, stop, thrown>>
      /\ RecordErrors' = RecordErrors /\ CanRefuse' = CanRefuse /\ OwnThreads' = OwnThreads
  BY CountKept DEF pageShared
<1>6. ReasonInv'
  <2>1. ASSUME NEW q \in Page PROVE ReasonOf(q)'
    <3>1. ReasonOf(q) BY DEF ReasonInv
    <3>2. ReportOf(q)'
      <4>1. CASE q = p BY <1>3, <1>5, <4>1 DEF ReportOf
      <4>2. CASE q # p BY <1>3, <1>5, <3>1, <4>2 DEF ReasonOf, ReportOf
      <4>3. QED BY <4>1, <4>2
    <3>3. Excused(q)' <=> Excused(q) BY <1>5 DEF Excused
    <3>4. result'[q] # "none" => pc'[q] = "returned" BY <1>3, <1>4, <3>1 DEF ReasonOf
    <3>5. QED BY <1>4, <1>5, <3>1, <3>2, <3>3, <3>4 DEF ReasonOf
  <2>2. QED BY <2>1 DEF ReasonInv
<1>7. PageLedger(p, "returned", 0)
  <2>1. Bit(pc[p] = "push") = 0 /\ Bit("returned" = "push") = 0 BY DEF Bit
  <2>2. Clean(p) BY DEF TaskInv, TasksOf, Alone
  <2>3. /\ Cardinality(Queued(p)') = Cardinality(Queued(p)) /\ Cardinality(Queued(p)) \in Nat
        /\ launched[p] \in Nat /\ outstanding[p] \in Int
    BY <1>1, Counts DEF TypeInv
  <2>4. QED BY <2>1, <2>2, <2>3 DEF PageLedger
<1>8. QED BY <1>2, <1>4, <1>6, <1>7, PageKeeps

LEMMA LayoutFailsStep ==
  ASSUME IInv, NEW p \in Page, LayoutFails(p)
  PROVE  IInv'
<1> USE DEF IInv
<1>1. PICK r \in {"failed", "cancelled"} :
        result' = [result EXCEPT ![p] = r] /\ (r = "cancelled" => cancel[p])
  BY DEF LayoutFails
<1>2. /\ pc[p] = "new" /\ pc' = [pc EXCEPT ![p] = "returned"] /\ UNCHANGED pageShared
      /\ UNCHANGED <<queue, stop, error, launched, thrown, outstanding>>
  BY DEF LayoutFails, Goto, pageShared, control, poolVars
<1>3. pending[p] = 0 BY <1>2 DEF PendInv, PendOf
<1>4. QED BY <1>1, <1>2, <1>3, ReturnKeeps

\* What is left of a page without an error that nothing stopped: nothing.
LEMMA AllDone ==
  ASSUME IInv, NEW p \in Page, pc[p] = "drain", pending[p] = 0, error[p] = "none", ~thrown[p],
         ~cancel[p], NEW i \in 1 .. boxes[p]
  PROVE  box[p][i] \in {"done"} \cup (IF RecordErrors THEN {"failed"} ELSE {})
<1> USE DEF IInv
<1>1. Clean(p) BY DEF TaskInv, TasksOf, Alone
<1>2. ~Stopped(p)
  <2>1. Blamers(p) = {} BY <1>1 DEF Clean, Insiders, Blamers, At, Inside, Counted
  <2>2. QED BY <2>1 DEF ReasonInv, ReasonOf, Stopped
<1>3. i \in Nat /\ boxes[p] \in Nat /\ next[p] \in Nat /\ i <= boxes[p] BY Workers DEF TypeInv
<1>4. i <= next[p] BY <1>2, <1>3 DEF ProgressInv, Progress
<1>5. BoxOf(p, i) /\ box[p][i] \in BoxStates BY DEF BoxInv, TypeInv
<1>6. \A S \in SUBSET Holding : ~Holds(p, i, S)
  <2> TAKE S \in SUBSET Holding
  <2>1. SUFFICES ASSUME NEW a \in Agent, onPage[a] = p, pc[a] \in Holding PROVE FALSE BY DEF Holds
  <2>2. CASE a \in Page
    <3>1. a = p BY <2>1, <2>2 DEF PlaceInv
    <3>2. QED BY <2>1, <3>1 DEF Holding
  <2>3. CASE a \in BoxWorker
    <3>1. a \in Insiders(p)
      BY <2>1, <2>3 DEF Insiders, At, Inside, Counted, Claimers, WorkPlaces, Holding
    <3>2. QED BY <1>1, <3>1 DEF Clean
  <2>4. QED BY <2>2, <2>3 DEF Agent
<1>7. /\ ~Holds(p, i, {"box"}) /\ ~Holds(p, i, {"recognize", "admit"}) /\ ~Holds(p, i, {"infer"})
  <2>1. /\ {"box"} \in SUBSET Holding /\ {"recognize", "admit"} \in SUBSET Holding
        /\ {"infer"} \in SUBSET Holding
    BY DEF Holding
  <2>2. QED BY <1>6, <2>1
<1>8. stage[<<p, i>>] \notin {"queued", "running"}
  <2>1. InPool(p) = {}
    <3>1. /\ Cardinality(InPool(p)) \in Nat /\ Cardinality(Submitting(p)) \in Nat
          /\ Cardinality(InPool(p)) = 0 <=> InPool(p) = {}
      BY PendCounts
    <3>2. 0 = Cardinality(InPool(p)) + Cardinality(Submitting(p)) BY DEF PendInv, PendOf
    <3>3. QED BY <3>1, <3>2
  <2>2. <<p, i>> \in Crop /\ <<p, i>>[1] = p
    <3>1. boxes[p] <= MaxBoxes /\ MaxBoxes \in Nat BY Workers, Constants
    <3>2. i \in 1 .. MaxBoxes BY <1>3, <3>1
    <3>3. QED BY <3>2 DEF Crop
  <2>3. QED BY <2>1, <2>2 DEF InPool, PoolStages
<1>9. box[p][i] # "todo" BY <1>3, <1>4, <1>5 DEF BoxOf
<1>10. QED BY <1>5, <1>7, <1>8, <1>9 DEF BoxOf, BoxStates

LEMMA ReturnStep ==
  ASSUME IInv, NEW p \in Page, Return(p)
  PROVE  IInv'
<1> USE DEF IInv
<1>1. /\ pc[p] = "drain" /\ pending[p] = 0 /\ pc' = [pc EXCEPT ![p] = "returned"]
      /\ UNCHANGED pageShared /\ UNCHANGED <<queue, stop, error, launched, thrown, outstanding>>
  BY DEF Return, Drained, Goto, pageShared, control, poolVars
<1>2. PICK r \in Endings(p) : result' = [result EXCEPT ![p] = r] BY DEF Return
<1>3. error[p] \in {"none", "failed", "cancelled"} BY DEF TypeInv
<1>4. /\ r \in {"ok", "failed", "cancelled"}
      /\ r = "ok" => ~thrown[p] /\ ~cancel[p] /\ error[p] = "none"
      /\ r = "cancelled" => ~thrown[p] /\ (cancel[p] \/ error[p] = "cancelled")
  BY <1>2, <1>3 DEF Endings
<1>5. r = "cancelled" => cancel[p] \/ (CanRefuse /\ ~OwnThreads)
  BY <1>4 DEF ReasonInv, ReasonOf, Excused
<1>6. r = "ok" => \A i \in 1 .. boxes[p] :
                    box[p][i] \in {"done"} \cup (IF RecordErrors THEN {"failed"} ELSE {})
  BY <1>1, <1>4, AllDone
<1>7. QED BY <1>1, <1>2, <1>4, <1>5, <1>6, ReturnKeeps

-----------------------------------------------------------------------------
(* The invariant holds.                                                    *)

LEMMA Start == Init => IInv
<1> SUFFICES ASSUME Init PROVE IInv OBVIOUS
<1>1. /\ boxes \in [Page -> BoxCounts] /\ mode \in Modes
      /\ pc = [a \in Agent |-> IF a \in Page THEN "new" ELSE "idle"]
      /\ onPage = [a \in Agent |-> IF a \in Page THEN a ELSE NoPage]
      /\ index = [a \in Agent |-> 0] /\ queue = <<>> /\ next = [p \in Page |-> 0]
      /\ stop = [p \in Page |-> FALSE] /\ error = [p \in Page |-> "none"]
      /\ outstanding = [p \in Page |-> 0] /\ launched = [p \in Page |-> 0]
      /\ pending = [p \in Page |-> 0]
      /\ box = [p \in Page |-> [i \in 1 .. boxes[p] |-> "todo"]]
      /\ thrown = [p \in Page |-> FALSE] /\ result = [p \in Page |-> "none"]
      /\ cancel = [p \in Page |-> FALSE]
      /\ stage = [c \in Crop |-> "new"] /\ tasks = <<>> /\ stopping = FALSE
      /\ crop = [v \in RecWorker |-> NoCrop]
  BY DEF Init, Pool!Init
<1>2. /\ \A q \in Page : q \in Agent /\ q \notin BoxWorker
      /\ \A v \in BoxWorker : v \in Agent /\ v \notin Page
  BY Constants DEF Agent
<1>3. /\ \A p \in Page : pc[p] = "new" /\ onPage[p] = p
      /\ \A v \in BoxWorker : pc[v] = "idle" /\ onPage[v] = NoPage
  BY <1>1, <1>2
<1>4. TypeInv
  <2>1. /\ pc \in [Agent -> PagePlaces \cup WorkerPlaces]
        /\ \A p \in Page : pc[p] \in PagePlaces
        /\ \A w \in BoxWorker : pc[w] \in WorkerPlaces
    BY <1>1, <1>3 DEF PagePlaces, WorkerPlaces, Idle
  <2>2. onPage \in [Agent -> Page \cup {NoPage}] /\ index \in [Agent -> Nat] BY <1>1
  <2>3. /\ queue \in Seq(Page) /\ next \in [Page -> Nat] /\ launched \in [Page -> Nat]
        /\ outstanding \in [Page -> Int] /\ pending \in [Page -> Int]
        /\ error \in [Page -> {"none", "failed", "cancelled"}]
        /\ result \in [Page -> {"none", "ok", "failed", "cancelled"}]
    BY <1>1
  <2>4. /\ stop \in [Page -> BOOLEAN] /\ thrown \in [Page -> BOOLEAN]
        /\ cancel \in [Page -> BOOLEAN]
    BY <1>1, Zenon
  <2>5. DOMAIN box = Page /\ \A p \in Page : box[p] \in [1 .. boxes[p] -> BoxStates]
    BY <1>1 DEF BoxStates
  <2>6. stage \in [Crop -> Pool!Stages] /\ tasks \in Seq(Crop)
        /\ crop \in [RecWorker -> Crop \cup {NoCrop}]
    BY <1>1 DEF Pool!Stages
  <2>7. QED BY <1>1, <2>1, <2>2, <2>3, <2>4, <2>5, <2>6 DEF TypeInv
<1>5. PlaceInv BY <1>1, <1>3 DEF PlaceInv, Idle
<1>6. /\ \A p : Queued(p) = {}
      /\ \A p \in Page : Tasks(p) = {} /\ Seekers(p) = {} /\ Successors(p) = {} /\ Insiders(p) = {}
                         /\ Blamers(p) = {}
  <2>1. \A p \in Page : \A w \in BoxWorker : onPage[w] # p BY <1>3, Constants
  <2>2. \A p \in Page : \A S : At(p, S) = {} BY <2>1 DEF At
  <2>3. QED BY <1>1, <2>2 DEF Queued, Tasks, Seekers, Successors, Insiders, Blamers
<1>7. Cardinality({}) = 0 BY FS_EmptySet
<1>8. TaskInv
  <2>1. ASSUME NEW p \in Page PROVE TasksOf(p)
    <3>1. Pushing(p) = 0 /\ pc[p] \notin {"launch", "push", "spawn"} BY <1>3 DEF Pushing
    <3>2. outstanding[p] = 0 /\ launched[p] = 0 /\ WorkerCount(p) \in Nat BY <1>1, <1>4, Workers
    <3>3. QED BY <1>6, <1>7, <3>1, <3>2 DEF TasksOf, Clean
  <2>2. QED BY <2>1 DEF TaskInv
<1>9. ProgressInv
  <2>1. \A p \in Page : launched[p] = 0 /\ pc[p] = "new" BY <1>1, <1>3
  <2>2. QED BY <2>1 DEF ProgressInv, Progress
<1>10. \A a \in Agent : pc[a] \notin Holding BY <1>1 DEF Holding
<1>11. HoldInv BY <1>10 DEF HoldInv
<1>12. BoxInv
  <2>1. ASSUME NEW p \in Page, NEW i \in 1 .. boxes[p] PROVE BoxOf(p, i)
    <3>1. boxes[p] \in Nat BY <1>4, Workers
    <3>2. box[p][i] = "todo" /\ next[p] = 0 /\ i > 0 BY <1>1, <3>1
    <3>3. QED BY <3>2 DEF BoxOf
  <2>2. QED BY <2>1 DEF BoxInv
<1>13. CropInv
  <2>1. ASSUME NEW p \in Page, NEW i \in 1 .. MaxBoxes PROVE WaitOf(p, i)
    <3>1. <<p, i>> \in Crop BY DEF Crop
    <3>2. stage[<<p, i>>] = "new" BY <1>1, <3>1
    <3>3. QED BY <3>2 DEF WaitOf
  <2>2. QueuedOnce BY <1>1 DEF QueuedOnce
  <2>3. QED BY <2>1, <2>2 DEF CropInv
<1>14. PendInv
  <2>1. ASSUME NEW p \in Page PROVE PendOf(p)
    <3>1. InPool(p) = {} BY <1>1 DEF InPool, PoolStages
    <3>2. Submitting(p) = {} BY <1>10 DEF Submitting, Holding
    <3>3. QED BY <1>1, <1>7, <3>1, <3>2 DEF PendOf
  <2>2. QED BY <2>1 DEF PendInv
<1>15. ReasonInv
  <2>1. ASSUME NEW p \in Page PROVE ReasonOf(p)
    <3>1. ~stop[p] /\ ~thrown[p] /\ error[p] = "none" /\ result[p] = "none" BY <1>1
    <3>2. QED BY <1>6, <3>1 DEF ReasonOf, ReportOf
  <2>2. QED BY <2>1 DEF ReasonInv
<1>16. QED
  BY <1>4, <1>5, <1>8, <1>9, <1>11, <1>12, <1>13, <1>14, <1>15 DEF IInv

LEMMA Step == IInv /\ [Next]_vars => IInv'
<1> SUFFICES ASSUME IInv, [Next]_vars PROVE IInv' OBVIOUS
<1>1. ASSUME NEW w \in BoxWorker, BoxThread(w) PROVE IInv'
  <2>1. w \in Agent BY DEF Agent
  <2>2. QED
    BY <1>1, <2>1, TakeTaskStep, BoxThreadStep, AgainStep, ResubmitStep, ResubmitFailsStep,
       BlameStep, LastLookStep, NotifyStep, BoxWorkerExitsStep
    DEF BoxThread
<1>2. ASSUME NEW p \in Page, PageThread(p) \/ SpuriousWakeup(p) PROVE IInv'
  <2>1. p \in Agent BY DEF Agent
  <2>2. QED
    BY <1>2, <2>1, LayoutFailsStep, LayoutStep, BoxThreadStep, LaunchStep, PushStep, PushFailsStep,
       StartFailsStep, WaitStep, ReturnStep, StartThreadStep
    DEF PageThread
<1>3. ASSUME NEW v \in RecWorker, RecThread(v), ~RecWorkerExits(v) PROVE IInv'
  BY <1>3, TakeCropStep, InferCropStep, AnswerCropStep, LeaveCropStep DEF RecThread
<1>4. ASSUME \/ \E p \in Page : Cancel(p)
             \/ StopBoxPool \/ StopRecognition \/ Ended \/ UNCHANGED vars
             \/ \E v \in RecWorker : RecWorkerExits(v)
      PROVE  IInv'
  BY <1>4, SurroundingStep DEF Ended
<1>5. QED BY <1>1, <1>2, <1>3, <1>4 DEF Next

LEMMA Invariance == Spec => []IInv
  BY Start, Step, PTL DEF Spec

-----------------------------------------------------------------------------
(* What follows from it.                                                   *)

(* A page never has more than worker_count tasks queued or at work         *)
(* (pipeline.cpp:193-196), whatever order tasks and pages run in and       *)
(* whichever submissions fail.                                             *)
THEOREM TasksStayBounded == Spec => []TasksBounded
<1>1. IInv => TasksBounded
  <2> SUFFICES ASSUME IInv, NEW p \in Page
               PROVE  Cardinality(Queued(p)) + Cardinality(At(p, WorkPlaces \cup {"again", "resubmit"}))
                        <= WorkerCount(p)
    BY DEF TasksBounded
  <2>1. TasksOf(p) /\ launched[p] \in Nat /\ WorkerCount(p) \in Nat /\ queue \in Seq(Page)
    BY Workers DEF IInv, TaskInv, TypeInv
  <2>2. Cardinality(Queued(p)) \in Nat /\ Cardinality(Seekers(p)) \in Nat BY <2>1, Counts
  <2>3. Seekers(p) = At(p, WorkPlaces \cup {"again", "resubmit"}) BY DEF Seekers, Claimers
  <2>4. Cardinality(Queued(p)) + Cardinality(Seekers(p)) <= launched[p]
        /\ launched[p] <= WorkerCount(p)
    BY <2>1 DEF TasksOf
  <2>5. QED BY <2>1, <2>2, <2>3, <2>4
<1>2. QED BY <1>1, Invariance, PTL

(* While process_page's frame is gone, nothing of the page is left in the  *)
(* BOX queue or the recognition pool, and no thread is inside its task,    *)
(* except on the way out.                                                  *)
THEOREM FrameIsReleasedLast == Spec => []NothingOutlivesPage
<1>1. IInv => NothingOutlivesPage
  <2> SUFFICES ASSUME IInv, NEW p \in Page, pc[p] = "returned"
               PROVE  /\ Queued(p) = {} /\ Unfinished(p) = {}
                      /\ At(p, WorkPlaces \cup {"again", "resubmit", "blame", "count", "leave"}) = {}
    BY DEF NothingOutlivesPage
  <2> USE DEF IInv
  <2>1. Clean(p) BY DEF TaskInv, TasksOf, Alone
  <2>2. At(p, WorkPlaces \cup {"again", "resubmit", "blame", "count", "leave"}) = {}
    BY <2>1 DEF Clean, Insiders, At, Inside, Counted, Claimers
  <2>3. InPool(p) = {} /\ Submitting(p) = {}
    <3>1. /\ Cardinality(InPool(p)) \in Nat /\ Cardinality(Submitting(p)) \in Nat
          /\ Cardinality(InPool(p)) = 0 <=> InPool(p) = {}
          /\ Cardinality(Submitting(p)) = 0 <=> Submitting(p) = {}
      BY PendCounts
    <3>2. 0 = Cardinality(InPool(p)) + Cardinality(Submitting(p)) BY DEF PendInv, PendOf
    <3>3. \A a, b \in Nat : 0 = a + b => a = 0 /\ b = 0 OBVIOUS
    <3>4. Cardinality(InPool(p)) = 0 /\ Cardinality(Submitting(p)) = 0 BY <3>1, <3>2, <3>3
    <3>5. QED BY <3>1, <3>4
  <2>4. Unfinished(p) = {}
    <3> SUFFICES ASSUME NEW c \in Crop, c[1] = p, stage[c] \notin {"new", "done", "refused", "withdrawn"}
                 PROVE  FALSE
      BY DEF Unfinished
    <3>1. stage[c] \in Pool!Stages /\ stage[c] \notin PoolStages BY <2>3 DEF InPool, TypeInv
    <3>2. stage[c] = "waiting" BY <3>1 DEF Pool!Stages, PoolStages
    <3>3. PICK i \in 1 .. MaxBoxes : c = <<p, i>> BY DEF Crop
    <3>4. Holds(p, i, {"admit"}) BY <3>2, <3>3 DEF CropInv, WaitOf
    <3>5. QED BY <2>3, <3>4 DEF Holds, Submitting
  <2>5. QED BY <2>1, <2>2, <2>4 DEF Clean
<1>2. QED BY <1>1, Invariance, PTL

(* What process_page reports is what happened: without an error each box   *)
(* has its outcome, although tasks claim, stop and requeue concurrently,   *)
(* and a page nobody cancelled reports no cancellation, unless a task      *)
(* could not be queued.                                                    *)
THEOREM ReportsAreTrue == Spec => []PageReportIsTrue
<1>1. IInv => PageReportIsTrue
  BY DEF IInv, ReasonInv, ReasonOf, ReportOf, PageReportIsTrue
<1>2. QED BY <1>1, Invariance, PTL

-----------------------------------------------------------------------------
(* Who has a box that is at work.                                          *)

Has(a, p, i) == onPage[a] = p /\ index[a] = i /\ pc[a] \in Holding

\* Where the thread that has a box is, with the stage of its crop and the box's state.
Fits(place, s, b) ==
  \/ <<place, s, b>> \in {<<"box", "new", "working">>, <<"recognize", "new", "recognizing">>,
                          <<"infer", "new", "inferring">>}
  \/ place = "admit" /\ s \in {"waiting", "refused", "withdrawn"} /\ b = "recognizing"
Given(s, b) ==
  /\ s = "queued" => b = "recognizing"
  /\ s = "running" => b \in {"recognizing", "inferring"}

OwnOf(p, i) ==
  /\ \A a, b \in Agent : Has(a, p, i) /\ Has(b, p, i) => a = b
  /\ \A a \in Agent : Has(a, p, i) => i <= next[p] /\ Fits(pc[a], stage[<<p, i>>], box[p][i])
  /\ Given(stage[<<p, i>>], box[p][i])
  /\ stage[<<p, i>>] # "new" => i <= next[p]
OwnInv == \A p \in Page : \A i \in 1 .. boxes[p] : OwnOf(p, i)

\* A crop that was taken is with one worker.
Popped == {"running", "released", "credited"}
TakenOf(c) ==
  /\ \A u, v \in RecWorker : crop[u] = c /\ crop[v] = c => u = v
  /\ \A v \in RecWorker : crop[v] = c => stage[c] \in Popped
  /\ stage[c] = "running" => \E v \in RecWorker : crop[v] = c
TakenInv == \A c \in Crop : TakenOf(c)

OInv == IInv /\ OwnInv /\ TakenInv

LEMMA BoxIsCrop ==
  ASSUME TypeInv, NEW p \in Page, NEW i \in 1 .. boxes[p]
  PROVE  i \in 1 .. MaxBoxes /\ <<p, i>> \in Crop /\ boxes[p] \in Nat
<1>1. boxes[p] \in Nat /\ boxes[p] <= MaxBoxes /\ MaxBoxes \in Nat BY Constants DEF TypeInv
<1>2. QED BY <1>1 DEF Crop

\* A step of no thread inside a box, and of no crop.
Quiet ==
  /\ UNCHANGED <<box, stage, crop, boxes>>
  /\ \A p \in Page : next'[p] >= next[p] /\ next'[p] \in Nat
  /\ \A a \in Agent : pc'[a] \in Holding =>
       pc'[a] = pc[a] /\ onPage'[a] = onPage[a] /\ index'[a] = index[a]

LEMMA QuietKeeps ==
  ASSUME OInv, Quiet
  PROVE  OwnInv' /\ TakenInv'
<1>1. TakenInv' BY DEF OInv, TakenInv, TakenOf, Quiet
<1>2. OwnInv'
  <2> SUFFICES ASSUME NEW p \in Page, NEW i \in 1 .. boxes[p] PROVE OwnOf(p, i)'
    BY DEF OwnInv, Quiet
  <2>1. OwnOf(p, i) /\ next[p] \in Nat /\ next'[p] \in Nat /\ next'[p] >= next[p] /\ i \in Nat
    BY BoxIsCrop DEF OInv, OwnInv, Quiet, IInv, TypeInv
  <2>2. \A a \in Agent : Has(a, p, i)' => Has(a, p, i) /\ pc'[a] = pc[a] BY DEF Has, Quiet
  <2>3. stage' = stage /\ box' = box BY DEF Quiet
  <2>4. i <= next[p] => i <= next'[p] BY <2>1
  <2>5. QED BY <2>1, <2>2, <2>3, <2>4 DEF OwnOf
<1>3. QED BY <1>1, <1>2

\* A thread's step with box i of page p: where it goes, the stage of the crop, the box.
Moves(a, p, i, x, s, r) ==
  /\ \A b \in Agent : /\ onPage'[b] = onPage[b] /\ pc'[b] = (IF b = a THEN x ELSE pc[b])
                      /\ b # a => index'[b] = index[b]
  /\ onPage[a] = p /\ index'[a] = i
  /\ \A q \in Page : next'[q] >= next[q] /\ next'[q] \in Nat
  /\ i <= next'[p]
  /\ \A c \in Crop : stage'[c] = IF c = <<p, i>> THEN s ELSE stage[c]
  /\ \A q \in Page : \A j \in 1 .. boxes[q] :
       box'[q][j] = IF q = p /\ j = i THEN r ELSE box[q][j]
  /\ UNCHANGED <<boxes, crop>>

LEMMA MovesKeep ==
  ASSUME OInv, NEW a \in Agent, NEW p \in Page, NEW i \in 1 .. boxes[p], NEW x, NEW s, NEW r,
         Moves(a, p, i, x, s, r),
         \A b \in Agent \ {a} : ~Has(b, p, i),
         x \in Holding => Fits(x, s, r),
         Given(s, r), stage[<<p, i>>] \notin Popped, s \notin Popped
  PROVE  OwnInv' /\ TakenInv'
<1> USE DEF OInv
<1>1. <<p, i>> \in Crop /\ i \in Nat BY BoxIsCrop DEF IInv
<1>2. TakenInv'
  <2> SUFFICES ASSUME NEW c \in Crop PROVE TakenOf(c)' BY DEF TakenInv
  <2>1. TakenOf(c) /\ crop' = crop BY DEF TakenInv, Moves
  <2>2. CASE c = <<p, i>>
    <3>1. stage'[c] = s /\ stage'[c] # "running" BY <2>2 DEF Moves, Popped
    <3>2. \A v \in RecWorker : crop[v] # c BY <2>1, <2>2 DEF TakenOf
    <3>3. QED BY <2>1, <3>1, <3>2 DEF TakenOf
  <2>3. CASE c # <<p, i>> BY <2>1, <2>3 DEF TakenOf, Moves
  <2>4. QED BY <2>2, <2>3
<1>3. OwnInv'
  <2> SUFFICES ASSUME NEW q \in Page, NEW j \in 1 .. boxes[q] PROVE OwnOf(q, j)'
    BY DEF OwnInv, Moves
  <2>1. OwnOf(q, j) /\ j \in Nat /\ <<q, j>> \in Crop BY BoxIsCrop DEF OwnInv, IInv
  <2>2. next[q] \in Nat /\ next'[q] \in Nat /\ next'[q] >= next[q] BY DEF Moves, IInv, TypeInv
  <2>3. CASE q = p /\ j = i
    <3>1. stage'[<<q, j>>] = s /\ box'[q][j] = r /\ j <= next'[q] BY <1>1, <2>3 DEF Moves
    <3>2. \A b \in Agent : Has(b, q, j)' => b = a /\ x \in Holding /\ pc'[b] = x
      BY <2>3 DEF Moves, Has
    <3>3. QED BY <3>1, <3>2 DEF OwnOf
  <2>4. CASE ~(q = p /\ j = i)
    <3>1. <<q, j>> # <<p, i>> BY <2>4
    <3>2. stage'[<<q, j>>] = stage[<<q, j>>] /\ box'[q][j] = box[q][j] BY <2>1, <2>4, <3>1 DEF Moves
    <3>3. \A b \in Agent : Has(b, q, j)' => Has(b, q, j) /\ pc'[b] = pc[b]
      BY <2>4 DEF Moves, Has
    <3>4. j <= next[q] => j <= next'[q] BY <2>1, <2>2
    <3>5. QED BY <2>1, <3>2, <3>3, <3>4 DEF OwnOf
  <2>5. QED BY <2>3, <2>4
<1>4. QED BY <1>2, <1>3

\* Where a thread goes when it leaves a box.
LEMMA Leaving == \A a \in Agent : AfterBox(a) \notin Holding /\ NoMore(a) \notin Holding
  BY DEF AfterBox, NoMore, Holding

\* The thread that has a box, and nobody else.
LEMMA Holder ==
  ASSUME OInv, NEW a \in Agent, pc[a] \in Holding
  PROVE  /\ onPage[a] \in Page /\ index[a] \in 1 .. boxes[onPage[a]]
         /\ index[a] <= next[onPage[a]]
         /\ Fits(pc[a], stage[<<onPage[a], index[a]>>], box[onPage[a]][index[a]])
         /\ \A b \in Agent \ {a} : ~Has(b, onPage[a], index[a])
<1>1. onPage[a] \in Page /\ index[a] \in 1 .. boxes[onPage[a]] BY HoldFacts DEF OInv
<1>2. OwnOf(onPage[a], index[a]) BY <1>1 DEF OInv, OwnInv
<1>3. Has(a, onPage[a], index[a]) BY DEF Has
<1>4. QED BY <1>1, <1>2, <1>3 DEF OwnOf

\* The step of that thread, from what it does with its box.
LEMMA HolderMoves ==
  ASSUME OInv, NEW a \in Agent, pc[a] \in Holding, NEW x, NEW s, NEW r,
         Goto(a, x),
         \/ box' = [box EXCEPT ![onPage[a]][index[a]] = r]
         \/ box' = box /\ box[onPage[a]][index[a]] = r,
         stage' = [stage EXCEPT ![<<onPage[a], index[a]>>] = s],
         UNCHANGED <<onPage, index, next, boxes, crop>>
  PROVE  Moves(a, onPage[a], index[a], x, s, r)
<1> USE DEF OInv, IInv
<1>1. onPage[a] \in Page /\ index[a] \in 1 .. boxes[onPage[a]] /\ index[a] <= next[onPage[a]]
  BY Holder
<1>2. \A b \in Agent : pc'[b] = IF b = a THEN x ELSE pc[b] BY DEF Goto, TypeInv
<1>3. \A c \in Crop : stage'[c] = IF c = <<onPage[a], index[a]>> THEN s ELSE stage[c]
  BY DEF TypeInv
<1>4. \A q \in Page : \A j \in 1 .. boxes[q] :
        box'[q][j] = IF q = onPage[a] /\ j = index[a] THEN r ELSE box[q][j]
  <2>1. CASE box' = [box EXCEPT ![onPage[a]][index[a]] = r] BY <1>1, <2>1 DEF TypeInv
  <2>2. CASE box' = box /\ box[onPage[a]][index[a]] = r BY <2>2
  <2>3. QED BY <2>1, <2>2
<1>5. \A q \in Page : next'[q] >= next[q] /\ next'[q] \in Nat BY DEF TypeInv
<1>6. QED BY <1>1, <1>2, <1>3, <1>4, <1>5 DEF Moves

LEMMA HolderKeeps ==
  ASSUME OInv, NEW a \in Agent, pc[a] \in Holding, NEW x, NEW s, NEW r,
         Goto(a, x),
         \/ box' = [box EXCEPT ![onPage[a]][index[a]] = r]
         \/ box' = box /\ box[onPage[a]][index[a]] = r,
         stage' = [stage EXCEPT ![<<onPage[a], index[a]>>] = s],
         UNCHANGED <<onPage, index, next, boxes, crop>>,
         x \in Holding => Fits(x, s, r), Given(s, r), s \notin Popped
  PROVE  OwnInv' /\ TakenInv'
<1>1. Moves(a, onPage[a], index[a], x, s, r) BY HolderMoves
<1>2. /\ onPage[a] \in Page /\ index[a] \in 1 .. boxes[onPage[a]]
      /\ Fits(pc[a], stage[<<onPage[a], index[a]>>], box[onPage[a]][index[a]])
      /\ \A b \in Agent \ {a} : ~Has(b, onPage[a], index[a])
  BY Holder
<1>3. stage[<<onPage[a], index[a]>>] \notin Popped BY <1>2 DEF Fits, Popped
<1>4. QED BY <1>1, <1>2, <1>3, MovesKeep

LEMMA ClaimOwns ==
  ASSUME OInv, NEW a \in Agent, Claim(a)
  PROVE  OwnInv' /\ TakenInv'
<1> USE DEF OInv, IInv
<1> DEFINE p == onPage[a]
           i == next[p] + 1
<1>1. p \in Page
  <2>1. pc[a] \notin Idle BY DEF Claim, Idle
  <2>2. QED BY <2>1 DEF PlaceInv, Agent
<1>2. next[p] \in Nat /\ boxes[p] \in Nat BY <1>1, Constants DEF TypeInv
<1>3. \A q \in Page : next'[q] >= next[q] /\ next'[q] \in Nat BY <1>1 DEF Claim, TypeInv
<1>4. CASE next[p] < boxes[p]
  <2>1. i \in 1 .. boxes[p] BY <1>2, <1>4
  <2>2. OwnOf(p, i) /\ ~(i <= next[p]) BY <1>1, <1>2, <2>1 DEF OwnInv
  <2>3. stage[<<p, i>>] = "new" /\ \A b \in Agent : ~Has(b, p, i) BY <2>2 DEF OwnOf
  <2>4. Moves(a, p, i, "box", "new", "working")
    <3>1. /\ pc' = [pc EXCEPT ![a] = "box"] /\ onPage' = [onPage EXCEPT ![a] = p]
          /\ index' = [index EXCEPT ![a] = i]
          /\ box' = [box EXCEPT ![p][i] = "working"]
          /\ next' = [next EXCEPT ![p] = @ + 1] /\ UNCHANGED <<stage, crop, boxes>>
      BY <1>4 DEF Claim, Goto, Hold, poolVars, control
    <3>2. \A b \in Agent : /\ pc'[b] = IF b = a THEN "box" ELSE pc[b]
                           /\ onPage'[b] = onPage[b] /\ (b # a => index'[b] = index[b])
      BY <3>1 DEF TypeInv
    <3>3. index'[a] = i BY <3>1 DEF TypeInv
    <3>4. i <= next'[p] BY <1>1, <1>2, <3>1 DEF TypeInv
    <3>5. \A q \in Page : \A j \in 1 .. boxes[q] :
            box'[q][j] = IF q = p /\ j = i THEN "working" ELSE box[q][j]
      BY <1>1, <2>1, <3>1 DEF TypeInv
    <3>6. QED BY <1>3, <2>3, <3>1, <3>2, <3>3, <3>4, <3>5 DEF Moves
  <2>5. Fits("box", "new", "working") /\ Given("new", "working") BY DEF Fits, Given
  <2>6. QED BY <1>1, <2>1, <2>3, <2>4, <2>5, MovesKeep DEF Popped
<1>5. CASE ~(next[p] < boxes[p])
  <2>1. pc' = [pc EXCEPT ![a] = NoMore(a)] /\ UNCHANGED <<onPage, index, box, stage, crop, boxes>>
    BY <1>5 DEF Claim, Goto, poolVars, control
  <2>2. \A b \in Agent : pc'[b] \in Holding => pc'[b] = pc[b]
    BY <2>1, Leaving DEF TypeInv
  <2>3. Quiet BY <1>3, <2>1, <2>2 DEF Quiet
  <2>4. QED BY <2>3, QuietKeeps
<1>6. QED BY <1>4, <1>5

LEMMA SameStage ==
  ASSUME OInv, NEW a \in Agent, pc[a] \in Holding, stage' = stage
  PROVE  stage' = [stage EXCEPT ![<<onPage[a], index[a]>>] = stage[<<onPage[a], index[a]>>]]
  BY HoldFacts DEF OInv, IInv, TypeInv

\* A box ends in its thread.
LEMMA EndOwns ==
  ASSUME OInv, NEW a \in Agent, pc[a] \in Holding, NEW r \in {"done", "failed", "cancelled"},
         EndBox(a, r), UNCHANGED <<onPage, index, next, boxes, poolVars>>
  PROVE  OwnInv' /\ TakenInv'
<1>1. Fits(pc[a], stage[<<onPage[a], index[a]>>], box[onPage[a]][index[a]]) BY Holder
<1>2. /\ Goto(a, AfterBox(a)) /\ box' = [box EXCEPT ![onPage[a]][index[a]] = r]
      /\ UNCHANGED <<stage, crop>>
  BY DEF EndBox, Outcome, poolVars
<1>3. stage[<<onPage[a], index[a]>>] \in {"new", "waiting", "refused", "withdrawn"}
  BY <1>1 DEF Fits
<1>4. /\ stage[<<onPage[a], index[a]>>] \notin Popped
      /\ Given(stage[<<onPage[a], index[a]>>], r)
  BY <1>3 DEF Popped, Given
<1>5. AfterBox(a) \notin Holding BY Leaving
<1>6. stage' = [stage EXCEPT ![<<onPage[a], index[a]>>] = stage[<<onPage[a], index[a]>>]]
  BY <1>2, SameStage
<1>7. QED BY <1>2, <1>4, <1>5, <1>6, HolderKeeps

LEMMA BoxOwns ==
  ASSUME OInv, NEW a \in Agent, Box(a)
  PROVE  OwnInv' /\ TakenInv'
<1> USE DEF OInv
<1> DEFINE c == <<onPage[a], index[a]>>
<1>1. CASE Begin(a)
  <2>1. /\ \E x \in {"claim", NoMore(a)} : pc' = [pc EXCEPT ![a] = x]
        /\ UNCHANGED <<onPage, index, box, stage, crop, boxes, next>>
    BY <1>1 DEF Begin, Goto, frameVars, poolVars, control
  <2>2. \A b \in Agent : pc'[b] \in Holding => pc'[b] = pc[b]
    BY <2>1, Leaving DEF TypeInv, IInv, Holding
  <2>3. Quiet BY <2>1, <2>2 DEF Quiet, IInv, TypeInv
  <2>4. QED BY <2>3, QuietKeeps
<1>2. CASE Claim(a) BY <1>2, ClaimOwns
<1>3. CASE PrepareOnly(a)
  <2>1. pc[a] \in Holding /\ UNCHANGED <<onPage, index, next, boxes, poolVars>>
    BY <1>3 DEF PrepareOnly, Holding, restOfFrame, control
  <2>2. \E r \in {"done", "failed", "cancelled"} : EndBox(a, r) BY <1>3 DEF PrepareOnly
  <2>3. QED BY <2>1, <2>2, EndOwns
<1>4. CASE Prepare(a)
  <2>1. /\ pc[a] = "box" /\ pc[a] \in Holding
        /\ box' = [box EXCEPT ![onPage[a]][index[a]] = "recognizing"]
        /\ UNCHANGED <<onPage, index, next, boxes>>
    BY <1>4 DEF Prepare, Holding, restOfFrame, control
  <2>2. stage[c] = "new" BY <2>1, Holder DEF Fits
  <2>3. CASE Async
    <3>1. /\ Goto(a, "admit") /\ UNCHANGED crop
          /\ \E s \in {"refused", "waiting"} : stage' = [stage EXCEPT ![c] = s]
      BY <1>4, <2>3 DEF Prepare, Pool!Submit, Pool!At, Pool!workerVars
    <3>2. PICK s \in {"refused", "waiting"} : stage' = [stage EXCEPT ![c] = s] BY <3>1
    <3>3. Fits("admit", s, "recognizing") /\ Given(s, "recognizing") /\ s \notin Popped
      BY DEF Fits, Given, Popped
    <3>4. QED BY <2>1, <3>1, <3>2, <3>3, HolderKeeps
  <2>4. CASE ~Async
    <3>1. Goto(a, "recognize") /\ UNCHANGED <<stage, crop>> BY <1>4, <2>4 DEF Prepare, poolVars
    <3>2. stage' = [stage EXCEPT ![c] = "new"] BY <2>1, <2>2, <3>1, SameStage
    <3>3. Fits("recognize", "new", "recognizing") /\ Given("new", "recognizing") /\ "new" \notin Popped
      BY DEF Fits, Given, Popped
    <3>4. QED BY <2>1, <3>1, <3>2, <3>3, HolderKeeps
  <2>5. QED BY <2>3, <2>4
<1>5. CASE Infer(a)
  <2>1. pc[a] = "recognize" /\ pc[a] \in Holding /\ UNCHANGED <<onPage, index, next, boxes, poolVars>>
    BY <1>5 DEF Infer, Holding, restOfFrame, control
  <2>2. CASE EndBox(a, "cancelled") BY <2>1, <2>2, EndOwns
  <2>3. CASE ~EndBox(a, "cancelled")
    <3>1. Goto(a, "infer") /\ box' = [box EXCEPT ![onPage[a]][index[a]] = "inferring"]
      BY <1>5, <2>3 DEF Infer
    <3>2. stage[c] = "new" /\ stage' = stage /\ crop' = crop BY <2>1, Holder DEF Fits, poolVars
    <3>3. stage' = [stage EXCEPT ![c] = "new"] BY <2>1, <3>2, SameStage
    <3>4. Fits("infer", "new", "inferring") /\ Given("new", "inferring") /\ "new" \notin Popped
      BY DEF Fits, Given, Popped
    <3>5. QED BY <2>1, <3>1, <3>2, <3>3, <3>4, HolderKeeps
  <2>4. QED BY <2>2, <2>3
<1>6. CASE Answer(a)
  <2>1. pc[a] \in Holding /\ UNCHANGED <<onPage, index, next, boxes, poolVars>>
    BY <1>6 DEF Answer, Holding, restOfFrame, control
  <2>2. \E r \in {"done", "failed", "cancelled"} : EndBox(a, r) BY <1>6 DEF Answer, Answers
  <2>3. QED BY <2>1, <2>2, EndOwns
<1>7. CASE Admission(a)
  <2>1. /\ pc[a] = "admit" /\ pc[a] \in Holding
        /\ UNCHANGED <<onPage, index, next, boxes, box>>
    BY <1>7 DEF Admission, Holding, frameVars, control
  <2>2. /\ onPage[a] \in Page /\ index[a] \in 1 .. boxes[onPage[a]]
        /\ box[onPage[a]][index[a]] = "recognizing"
    BY <2>1, Holder DEF Fits
  <2>3. PICK x \in {"admit", AfterBox(a)}, s \in {"queued", "refused", "withdrawn"} :
          /\ Goto(a, x) /\ stage' = [stage EXCEPT ![c] = s] /\ crop' = crop
          /\ x = "admit" => s # "queued"
    <3>1. CASE Pool!Admit(c) /\ Goto(a, AfterBox(a))
      <4>1. stage' = [stage EXCEPT ![c] = "queued"] /\ crop' = crop
        BY <3>1 DEF Pool!Admit, Pool!At, Pool!workerVars
      <4>2. AfterBox(a) # "admit" BY DEF AfterBox
      <4>3. QED BY <3>1, <4>1, <4>2
    <3>2. CASE (Pool!TimeOut(c) \/ Pool!Withdraw(c)) /\ UNCHANGED pc
      <4>1. pc' = [pc EXCEPT ![a] = "admit"] BY <2>1, <3>2 DEF IInv, TypeInv
      <4>2. \E s \in {"refused", "withdrawn"} : stage' = [stage EXCEPT ![c] = s] /\ crop' = crop
        BY <3>2 DEF Pool!TimeOut, Pool!Withdraw, Pool!At, Pool!workerVars
      <4>3. QED BY <4>1, <4>2 DEF Goto
    <3>3. QED BY <1>7, <3>1, <3>2 DEF Admission
  <2>4. x \in Holding => Fits(x, s, "recognizing") BY <2>3, Leaving DEF Fits
  <2>5. Given(s, "recognizing") /\ s \notin Popped BY DEF Given, Popped
  <2>6. QED BY <2>1, <2>2, <2>3, <2>4, <2>5, HolderKeeps
<1>8. CASE Rejected(a)
  <2>1. pc[a] \in Holding /\ UNCHANGED <<onPage, index, next, boxes, poolVars>>
    BY <1>8 DEF Rejected, Holding, restOfFrame, control
  <2>2. \E r \in {"done", "failed", "cancelled"} : EndBox(a, r) BY <1>8 DEF Rejected
  <2>3. QED BY <2>1, <2>2, EndOwns
<1>9. QED BY <1>1, <1>2, <1>3, <1>4, <1>5, <1>6, <1>7, <1>8 DEF Box

\* A BOX worker, or a page's thread, outside its boxes.
LEMMA OutsideOwns ==
  ASSUME OInv,
         \/ \E w \in BoxWorker : BoxThread(w) /\ ~Box(w)
         \/ \E p \in Page : (PageThread(p) /\ ~Box(p)) \/ SpuriousWakeup(p) \/ Cancel(p)
         \/ StopBoxPool \/ StopRecognition \/ Ended \/ UNCHANGED vars
         \/ \E v \in RecWorker : RecWorkerExits(v)
  PROVE  OwnInv' /\ TakenInv'
<1> USE DEF OInv, IInv
<1>1. ASSUME NEW w \in BoxWorker, BoxThread(w), ~Box(w) PROVE Quiet
  <2>1. w \in Agent /\ \A p \in Page : p \in Agent /\ p # w BY Constants DEF Agent
  <2>2. UNCHANGED <<box, stage, crop, boxes, next>>
    BY <1>1 DEF BoxThread, TakeTask, Again, Resubmit, ResubmitFails, Blame, Count, Notify,
                BoxWorkerExits, ThreadEnds, frameVars, poolVars, control
  <2>3. /\ pc'[w] \notin Holding
        /\ \A b \in Agent : b # w => \/ pc'[b] = pc[b]
                                     \/ pc'[b] = "check"
        /\ \A b \in Agent : b # w => onPage'[b] = onPage[b] /\ index'[b] = index[b]
    <3>1. CASE Notify(w)
      <4>1. onPage[w] \in Page
        <5>1. pc[w] \notin Idle BY <3>1 DEF Notify, Idle
        <5>2. QED BY <5>1 DEF PlaceInv
      <4>2. QED BY <2>1, <3>1, <4>1 DEF Notify, Hold, TypeInv, Holding
    <3>2. CASE ~Notify(w)
      <4>1. /\ \/ \E x : pc' = [pc EXCEPT ![w] = x] /\ x \notin Holding
               \/ pc' = pc /\ pc[w] \notin Holding
            /\ (UNCHANGED <<onPage, index>>
                 \/ \E p, i : onPage' = [onPage EXCEPT ![w] = p] /\ index' = [index EXCEPT ![w] = i])
        BY <1>1, <3>2
        DEF BoxThread, TakeTask, Again, Resubmit, ResubmitFails, Blame, Count,
            BoxWorkerExits, ThreadEnds, Goto, Hold, Holding
      <4>2. QED BY <2>1, <4>1 DEF TypeInv
    <3>3. QED BY <3>1, <3>2
  <2>4. QED BY <2>2, <2>3 DEF Quiet, TypeInv, Holding
<1>2. ASSUME NEW p \in Page, (PageThread(p) /\ ~Box(p)) \/ SpuriousWakeup(p) \/ Cancel(p) PROVE Quiet
  <2>1. UNCHANGED <<box, stage, crop, boxes, next>>
    BY <1>2 DEF PageThread, LayoutFails, Layout, Launch, Push, PushFails, Abort, CheckDone, Return,
                StartThread, StartFails, Join, SpuriousWakeup, Cancel, frameVars, poolVars, control,
                agentVars
  <2>2. \A b \in Agent : pc'[b] \in Holding =>
          pc'[b] = pc[b] /\ onPage'[b] = onPage[b] /\ index'[b] = index[b]
    <3>1. CASE StartThread(p)
      <4>1. PICK w \in BoxWorker : Goto(w, "begin") /\ Hold(w, p, 0) BY <3>1 DEF StartThread
      <4>2. QED BY <4>1 DEF Goto, Hold, TypeInv, Holding
    <3>2. CASE ~StartThread(p)
      <4>1. /\ UNCHANGED <<onPage, index>>
            /\ \/ pc' = pc
               \/ \E x : pc' = [pc EXCEPT ![p] = x] /\ x \notin Holding
        BY <1>2, <3>2
        DEF PageThread, LayoutFails, Layout, Launch, Push, PushFails, Abort, CheckDone, Return,
            StartFails, Join, SpuriousWakeup, Cancel, agentVars, Goto, Holding
      <4>2. QED BY <4>1 DEF TypeInv
    <3>3. QED BY <3>1, <3>2
  <2>3. QED BY <2>1, <2>2 DEF Quiet, TypeInv
<1>3. ASSUME StopBoxPool \/ StopRecognition \/ Ended \/ UNCHANGED vars
             \/ \E v \in RecWorker : RecWorkerExits(v)
      PROVE  Quiet
  <2>1. UNCHANGED <<box, stage, crop, boxes, next, agentVars>>
    BY <1>3 DEF StopBoxPool, StopRecognition, Ended, RecWorkerExits, Pool!Stop, Pool!WorkerExits,
                Pool!workerVars, vars, frameVars, poolVars, control
  <2>2. QED BY <2>1 DEF Quiet, TypeInv, agentVars
<1>4. Quiet BY <1>1, <1>2, <1>3
<1>5. QED BY <1>4, QuietKeeps

\* A recognition worker's step with crop <<p, i>>: the stage of the crop, the box.
LEMMA CropOwns ==
  ASSUME OInv, NEW p \in Page, NEW i \in Nat, <<p, i>> \in Crop, NEW s, NEW r,
         stage[<<p, i>>] \in {"queued"} \cup Popped,
         stage' = [stage EXCEPT ![<<p, i>>] = s],
         \/ box' = [box EXCEPT ![p][i] = r]
         \/ box' = box /\ (i \in 1 .. boxes[p] => box[p][i] = r),
         s \notin {"new", "queued"}, Given(s, r),
         UNCHANGED <<agentVars, next, boxes>>
  PROVE  OwnInv'
<1> USE DEF OInv, IInv
<1> SUFFICES ASSUME NEW q \in Page, NEW j \in 1 .. boxes[q] PROVE OwnOf(q, j)'
  BY DEF OwnInv
<1>1. OwnOf(q, j) /\ j \in Nat /\ <<q, j>> \in Crop /\ next' = next BY BoxIsCrop DEF OwnInv
<1>2. \A b \in Agent : (Has(b, q, j)' <=> Has(b, q, j)) /\ pc'[b] = pc[b]
  BY DEF Has, agentVars
<1>3. CASE q = p /\ j = i
  <2>1. stage'[<<q, j>>] = s BY <1>1, <1>3 DEF TypeInv
  <2>2. box'[q][j] = r
    <3>1. CASE box' = [box EXCEPT ![p][i] = r] BY <1>3, <3>1 DEF TypeInv
    <3>2. CASE box' = box /\ (i \in 1 .. boxes[p] => box[p][i] = r) BY <1>3, <3>2
    <3>3. QED BY <3>1, <3>2
  <2>3. stage[<<q, j>>] \in {"queued"} \cup Popped BY <1>3
  <2>4. \A b \in Agent : ~Has(b, q, j) BY <1>1, <2>3 DEF OwnOf, Fits, Popped
  <2>5. j <= next[q] BY <1>1, <2>3 DEF OwnOf, Popped
  <2>6. QED BY <1>1, <1>2, <2>1, <2>2, <2>4, <2>5 DEF OwnOf
<1>4. CASE ~(q = p /\ j = i)
  <2>1. <<q, j>> # <<p, i>> BY <1>4
  <2>2. stage'[<<q, j>>] = stage[<<q, j>>] BY <1>1, <2>1 DEF TypeInv
  <2>3. box'[q][j] = box[q][j]
    <3>1. CASE box' = [box EXCEPT ![p][i] = r]
      <4>1. CASE q = p BY <1>4, <3>1, <4>1 DEF TypeInv
      <4>2. CASE q # p BY <3>1, <4>2 DEF TypeInv
      <4>3. QED BY <4>1, <4>2
    <3>2. QED BY <3>1
  <2>4. QED BY <1>1, <1>2, <2>2, <2>3 DEF OwnOf
<1>5. QED BY <1>3, <1>4

LEMMA CropKeepsTaken ==
  ASSUME OInv, NEW v \in RecWorker, NEW c \in Crop, NEW s, NEW d,
         stage' = [stage EXCEPT ![c] = s], crop' = [crop EXCEPT ![v] = d],
         \/ stage[c] = "queued" /\ s = "running" /\ crop[v] = NoCrop /\ d = c
         \/ crop[v] = c /\ (IF d = c THEN s \in Popped ELSE d = NoCrop /\ s = "done")
  PROVE  TakenInv'
<1> USE DEF OInv, IInv
<1> SUFFICES ASSUME NEW e \in Crop PROVE TakenOf(e)' BY DEF TakenInv
<1>1. TakenOf(e) /\ TakenOf(c) /\ NoCrop \notin Crop BY Constants DEF TakenInv
<1>2. \A u \in RecWorker : crop'[u] = IF u = v THEN d ELSE crop[u] BY DEF TypeInv
<1>3. \A f \in Crop : stage'[f] = IF f = c THEN s ELSE stage[f] BY DEF TypeInv
<1>4. CASE stage[c] = "queued" /\ s = "running" /\ crop[v] = NoCrop /\ d = c
  <2>1. \A u \in RecWorker : crop[u] # c BY <1>1, <1>4 DEF TakenOf, Popped
  <2>2. CASE e = c BY <1>2, <1>3, <1>4, <2>1, <2>2 DEF TakenOf, Popped
  <2>3. CASE e # c BY <1>1, <1>2, <1>3, <1>4, <2>3 DEF TakenOf
  <2>4. QED BY <2>2, <2>3
<1>5. CASE crop[v] = c /\ (IF d = c THEN s \in Popped ELSE d = NoCrop /\ s = "done")
  <2>1. \A u \in RecWorker : crop[u] = c => u = v BY <1>1, <1>5 DEF TakenOf
  <2>2. CASE e = c BY <1>1, <1>2, <1>3, <1>5, <2>1, <2>2 DEF TakenOf
  <2>3. CASE e # c BY <1>1, <1>2, <1>3, <1>5, <2>3 DEF TakenOf
  <2>4. QED BY <2>2, <2>3
<1>6. QED BY <1>4, <1>5

LEMMA RecOwns ==
  ASSUME OInv, NEW v \in RecWorker, RecThread(v), ~RecWorkerExits(v)
  PROVE  OwnInv' /\ TakenInv'
<1> USE DEF OInv, IInv
<1>1. CASE TakeCrop(v)
  <2>1. /\ tasks # <<>> /\ crop[v] = NoCrop
        /\ crop' = [crop EXCEPT ![v] = Head(tasks)]
        /\ stage' = [stage EXCEPT ![Head(tasks)] = "running"]
        /\ UNCHANGED <<agentVars, next, boxes, box>>
    BY <1>1 DEF TakeCrop, Pool!Take, Pool!At, frameVars, control
  <2>2. Head(tasks) \in Crop /\ stage[Head(tasks)] = "queued"
    <3>1. Len(tasks) > 0 /\ Head(tasks) = tasks[1] /\ Head(tasks) \in Crop /\ Len(tasks) \in Nat
      BY <2>1, LenProperties, HeadTailProperties DEF TypeInv
    <3>2. 1 \in 1 .. Len(tasks) BY <3>1
    <3>3. QED BY <3>1, <3>2 DEF CropInv, QueuedOnce
  <2>3. PICK p \in Page, i \in 1 .. MaxBoxes : Head(tasks) = <<p, i>> BY <2>2 DEF Crop
  <2>4. i \in Nat BY Constants
  <2>5. PICK r : r = IF i \in 1 .. boxes[p] THEN box[p][i] ELSE "recognizing" OBVIOUS
  <2>6. r = "recognizing"
    <3>1. i \in 1 .. boxes[p] => OwnOf(p, i) BY DEF OwnInv
    <3>2. QED BY <2>2, <2>3, <2>5, <3>1 DEF OwnOf, Given
  <2>7. OwnInv'
    <3>1. Given("running", "recognizing") BY DEF Given
    <3>2. i \in 1 .. boxes[p] => box[p][i] = "recognizing" BY <2>5, <2>6
    <3>3. QED BY <2>1, <2>2, <2>3, <2>4, <3>1, <3>2, CropOwns
  <2>8. TakenInv' BY <2>1, <2>2, CropKeepsTaken
  <2>9. QED BY <2>7, <2>8
<1>2. CASE InferCrop(v) \/ AnswerCrop(v)
  <2>1. crop[v] # NoCrop /\ stage[crop[v]] = "running"
    BY <1>2 DEF InferCrop, AnswerCrop
  <2>2. PICK p \in Page, i \in Nat : /\ crop[v] = <<p, i>> /\ <<p, i>> \in Crop
                                     /\ crop[v][1] = p /\ crop[v][2] = i
    BY <2>1, CropFacts
  <2>3. PICK s \in {"running", "released"}, r \in {"inferring", "done", "failed", "cancelled"} :
          /\ s = "running" => r = "inferring"
          /\ stage' = [stage EXCEPT ![<<p, i>>] = s] /\ box' = [box EXCEPT ![p][i] = r]
          /\ crop' = crop
          /\ UNCHANGED <<agentVars, next, boxes>>
    <3>1. UNCHANGED <<agentVars, next, boxes>>
      BY <1>2 DEF InferCrop, AnswerCrop, restOfFrame, control
    <3>2. CASE \E r, x : Outcome(p, i, r) /\ Pool!Work(v, x) /\ r \in {"done", "failed", "cancelled"}
      BY <2>2, <3>1, <3>2 DEF Outcome, Pool!Work, Pool!At
    <3>3. CASE box' = [box EXCEPT ![p][i] = "inferring"] /\ UNCHANGED poolVars
      <4>1. stage' = [stage EXCEPT ![<<p, i>>] = "running"] /\ crop' = crop
        BY <2>1, <2>2, <3>3 DEF poolVars, TypeInv
      <4>2. QED BY <3>1, <3>3, <4>1
    <3>4. QED BY <1>2, <2>2, <3>2, <3>3 DEF InferCrop, AnswerCrop, Answers
  <2>4. OwnInv'
    <3>1. Given(s, r) BY <2>3 DEF Given
    <3>2. stage[<<p, i>>] \in Popped BY <2>1, <2>2 DEF Popped
    <3>3. QED BY <2>2, <2>3, <3>1, <3>2, CropOwns
  <2>5. TakenInv'
    <3>1. crop' = [crop EXCEPT ![v] = <<p, i>>] BY <2>2, <2>3 DEF TypeInv
    <3>2. QED BY <2>2, <2>3, <3>1, CropKeepsTaken DEF Popped
  <2>6. QED BY <2>4, <2>5
<1>3. CASE CreditCrop(v) \/ FinishCrop(v)
  <2>1. crop[v] # NoCrop /\ stage[crop[v]] \in Popped
    BY <1>3 DEF CreditCrop, FinishCrop, Pool!Credit, Pool!Finished, Popped
  <2>2. PICK p \in Page, i \in Nat : /\ crop[v] = <<p, i>> /\ <<p, i>> \in Crop
                                     /\ crop[v][1] = p /\ crop[v][2] = i
    BY <2>1, CropFacts
  <2>3. PICK s \in {"credited", "done"} :
          /\ stage' = [stage EXCEPT ![<<p, i>>] = s]
          /\ s = "credited" => crop' = crop
          /\ s = "done" => crop' = [crop EXCEPT ![v] = NoCrop]
          /\ UNCHANGED <<agentVars, next, boxes, box>>
    <3>1. CASE CreditCrop(v)
      BY <2>2, <3>1 DEF CreditCrop, Pool!Credit, Pool!At, Pool!workerVars, frameVars, control
    <3>2. CASE FinishCrop(v)
      BY <2>2, <3>2 DEF FinishCrop, Pool!Finished, Pool!At, restOfFrame, control
    <3>3. QED BY <1>3, <3>1, <3>2
  <2>4. OwnInv'
    <3>1. PICK r : r = box[p][i] OBVIOUS
    <3>2. Given(s, r) BY DEF Given
    <3>3. s \notin {"new", "queued"} OBVIOUS
    <3>4. QED BY <2>1, <2>2, <2>3, <3>1, <3>2, <3>3, CropOwns
  <2>5. TakenInv'
    <3>1. CASE s = "credited"
      <4>1. crop' = [crop EXCEPT ![v] = <<p, i>>] BY <2>2, <2>3, <3>1 DEF TypeInv
      <4>2. QED BY <2>2, <2>3, <3>1, <4>1, CropKeepsTaken DEF Popped
    <3>2. CASE s = "done"
      <4>1. NoCrop # <<p, i>> BY <2>2, Constants
      <4>2. QED BY <2>2, <2>3, <3>2, <4>1, CropKeepsTaken
    <3>3. QED BY <3>1, <3>2
  <2>6. QED BY <2>4, <2>5
<1>4. QED BY <1>1, <1>2, <1>3 DEF RecThread

LEMMA OwnersStart == Init => OInv
<1> SUFFICES ASSUME Init PROVE OInv OBVIOUS
<1>1. IInv BY Start
<1>2. /\ \A a \in Agent : pc[a] \notin Holding
      /\ \A c \in Crop : stage[c] = "new"
      /\ \A v \in RecWorker : crop[v] = NoCrop
  BY DEF Init, Pool!Init, Holding
<1>3. OwnInv
  <2> SUFFICES ASSUME NEW p \in Page, NEW i \in 1 .. boxes[p] PROVE OwnOf(p, i) BY DEF OwnInv
  <2>1. stage[<<p, i>>] = "new" BY <1>1, <1>2, BoxIsCrop DEF IInv
  <2>2. QED BY <1>2, <2>1 DEF OwnOf, Has, Given
<1>4. TakenInv BY <1>2, Constants DEF TakenInv, TakenOf
<1>5. QED BY <1>1, <1>3, <1>4 DEF OInv

LEMMA OwnersStay == Spec => []OInv
<1>1. OInv /\ [Next]_vars => OInv'
  <2> SUFFICES ASSUME OInv, [Next]_vars PROVE OInv' OBVIOUS
  <2>1. IInv' BY Step DEF OInv
  <2>2. OwnInv' /\ TakenInv'
    <3>1. CASE \E a \in Agent : Box(a) BY <3>1, BoxOwns
    <3>2. CASE \E v \in RecWorker : RecThread(v) /\ ~RecWorkerExits(v) BY <3>2, RecOwns
    <3>3. CASE /\ ~\E a \in Agent : Box(a)
               /\ ~\E v \in RecWorker : RecThread(v) /\ ~RecWorkerExits(v)
      <4>1. /\ \A w \in BoxWorker : ~Box(w)
            /\ \A p \in Page : ~Box(p)
        BY <3>3 DEF Agent
      <4>2. QED BY <3>3, <4>1, OutsideOwns DEF Next
    <3>4. QED BY <3>1, <3>2, <3>3
  <2>3. QED BY <2>1, <2>2 DEF OInv
<1>2. QED BY <1>1, OwnersStart, PTL DEF Spec

LEMMA AtMostOne ==
  ASSUME NEW S, \A x, y \in S : x = y
  PROVE  Cardinality(S) = IF S = {} THEN 0 ELSE 1
<1>1. CASE S = {} BY <1>1, FS_EmptySet
<1>2. CASE S # {}
  <2>1. PICK x \in S : TRUE BY <1>2
  <2>2. S = {x} BY <2>1
  <2>3. Cardinality({x}) = 1 BY FS_Singleton
  <2>4. QED BY <1>2, <2>2, <2>3
<1>3. QED BY <1>1, <1>2

(* While a box is at work exactly one thread or queue has it, and nobody   *)
(* when it has an outcome or is not claimed: its region is written by one  *)
(* thread at a time, whichever pool that is of.  And the page waits for    *)
(* exactly its crops in the pool and its threads in submit().              *)
THEOREM OneOwnerPerBox == Spec => []CropsHandedOver
<1>1. OInv => CropsHandedOver
  <2> SUFFICES ASSUME OInv, NEW p \in Page
               PROVE
                 /\ pending[p] = Cardinality(InPool(p)) + Cardinality(Submitting(p))
                 /\ \A i \in 1 .. boxes[p] :
                      Cardinality(Preparing(<<p, i>>)) + Cardinality(Recognizing(<<p, i>>))
                          + (IF stage[<<p, i>>] = "queued" THEN 1 ELSE 0)
                        = IF box[p][i] \in {"working", "recognizing", "inferring"} THEN 1 ELSE 0
    BY DEF CropsHandedOver
  <2> USE DEF OInv, IInv
  <2>1. pending[p] = Cardinality(InPool(p)) + Cardinality(Submitting(p)) BY DEF PendInv, PendOf
  <2>2. ASSUME NEW i \in 1 .. boxes[p]
        PROVE  Cardinality(Preparing(<<p, i>>)) + Cardinality(Recognizing(<<p, i>>))
                   + (IF stage[<<p, i>>] = "queued" THEN 1 ELSE 0)
                 = IF box[p][i] \in {"working", "recognizing", "inferring"} THEN 1 ELSE 0
    <3>1. <<p, i>> \in Crop BY BoxIsCrop
    <3>2. OwnOf(p, i) /\ TakenOf(<<p, i>>) /\ BoxOf(p, i)
      BY <3>1 DEF OwnInv, TakenInv, BoxInv
    <3>3. \A a \in Agent : a \in Preparing(<<p, i>>) <=> Has(a, p, i)
      BY DEF Preparing, Has, Holding
    <3>4. Preparing(<<p, i>>) \subseteq Agent BY DEF Preparing
    <3>5. Cardinality(Preparing(<<p, i>>)) = IF Preparing(<<p, i>>) = {} THEN 0 ELSE 1
      <4>1. \A a, b \in Preparing(<<p, i>>) : a = b BY <3>2, <3>3, <3>4 DEF OwnOf
      <4>2. QED BY <4>1, AtMostOne
    <3>6. Cardinality(Recognizing(<<p, i>>)) = IF Recognizing(<<p, i>>) = {} THEN 0 ELSE 1
      <4>1. \A u, v \in Recognizing(<<p, i>>) : u = v BY <3>2 DEF Recognizing, TakenOf
      <4>2. QED BY <4>1, AtMostOne
    <3>7. Recognizing(<<p, i>>) # {} <=> stage[<<p, i>>] = "running"
      BY <3>2 DEF Recognizing, TakenOf
    <3>8. Preparing(<<p, i>>) # {} =>
            /\ stage[<<p, i>>] \notin {"queued", "running"}
            /\ box[p][i] \in {"working", "recognizing", "inferring"}
      BY <3>2, <3>3, <3>4 DEF OwnOf, Fits
    <3>9. /\ stage[<<p, i>>] \in {"queued", "running"} => box[p][i] \in {"recognizing", "inferring"}
          /\ box[p][i] \in {"working", "recognizing", "inferring"} =>
               Preparing(<<p, i>>) # {} \/ stage[<<p, i>>] \in {"queued", "running"}
      <4>1. /\ Holds(p, i, {"box"}) => Preparing(<<p, i>>) # {}
            /\ Holds(p, i, {"recognize", "admit"}) => Preparing(<<p, i>>) # {}
            /\ Holds(p, i, {"infer"}) => Preparing(<<p, i>>) # {}
        BY DEF Holds, Preparing
      <4>2. QED BY <3>2, <4>1 DEF OwnOf, Given, BoxOf
    <3>10. CASE Preparing(<<p, i>>) # {} BY <3>5, <3>6, <3>7, <3>8, <3>10
    <3>11. CASE Preparing(<<p, i>>) = {} BY <3>5, <3>6, <3>7, <3>9, <3>11
    <3>12. QED BY <3>10, <3>11
  <2>3. QED BY <2>1, <2>2
<1>2. QED BY <1>1, OwnersStay, PTL
=============================================================================

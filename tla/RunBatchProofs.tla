--------------------------- MODULE RunBatchProofs ---------------------------
(***************************************************************************)
(* Proofs about RunBatch: failures stay local and pages start in order, for *)
(* any documents, readers, page workers and bound of the queue.            *)
(***************************************************************************)
EXTENDS RunBatch, FiniteSetTheorems, FunctionTheorems, SequenceTheorems, TLAPS

-----------------------------------------------------------------------------
(* The inductive invariant.                                                *)

TypeInv ==
  /\ main \in {"starting", "aborting", "joining", "returned", "threw"}
  /\ nextDocument \in Nat \ {0}
  /\ reader \in [Reader -> {"absent", "claim", "reading", "failing", "leaving", "done"}]
  /\ doc \in [Reader -> Job \cup {NoJob}] /\ page \in [Reader -> Nat \ {0}]
  /\ ready \subseteq Pending /\ nextSequence \in Nat
  /\ worker \in [Worker -> {"absent", "look", "taken", "process", "failing", "done"}]
  /\ task \in [Worker -> Task \cup {NoTask}]
  /\ reason \in [Reader \cup Worker -> Reasons]
  /\ error \in [Job -> Reasons] /\ finished \in [Job -> SUBSET Nat]
  /\ readersRemaining \in Int /\ abort \in BOOLEAN

Positions == 1 .. Len(InputOrder)
Claimed(j) == \E k \in Positions : k < nextDocument /\ InputOrder[k] = j

\* A document is claimed once, by the reader that has it.
ClaimInv ==
  /\ \A r \in Reader :
       /\ doc[r] # NoJob <=> reader[r] \in {"reading", "failing"}
       /\ \A j \in Job : doc[r] = j => Claimed(j) /\ page[r] <= Pages[j] + 1
       /\ doc[r] = NoJob => page[r] = 1
       /\ reader[r] \in {"leaving", "done"} => nextDocument > Len(InputOrder)
  /\ \A r, s \in Reader : r # s /\ doc[r] = doc[s] => doc[r] = NoJob

Active == {r \in Reader : reader[r] # "done"}
Leavers == {r \in Reader : reader[r] \in {"leaving", "done"}}

\* The counters count the readers.
CountInv ==
  /\ readersRemaining = Cardinality(Active)
  /\ nextDocument <= Len(InputOrder) + 1 + Cardinality(Leavers)
  /\ IsFiniteSet(ready) /\ Cardinality(ready) <= MaxQueuedPages

\* A batch that is not aborted starts every thread and ends them when the
\* work is done.
MainInv ==
  /\ abort <=> main \in {"aborting", "threw"}
  /\ main \in {"joining", "returned"} =>
       /\ \A w \in Worker : worker[w] # "absent"
       /\ \A r \in Reader : reader[r] # "absent"
  /\ main = "returned" => \A w \in Worker : worker[w] \in {"absent", "done"}
  /\ \A w \in Worker : worker[w] = "done" /\ ~abort =>
       ready = {} /\ \A r \in Reader : reader[r] = "done"

\* A reader is cancelled because the batch ends or its document has failed.
ReasonInv ==
  /\ \A r \in Reader : reader[r] = "failing" =>
       reason[r] # "none" /\ (reason[r] = "cancelled" => abort \/ Failed(doc[r]))
  /\ \A w \in Worker : worker[w] = "failing" => reason[w] \notin {"none", "cancelled"}
  /\ \A j \in Job : error[j] = "cancelled" => abort

\* The pages the readers have delivered, and where they may be.
Delivered(j) ==
  {n \in 1 .. Pages[j] : Claimed(j) /\ \A r \in Reader : doc[r] = j => n < page[r]}
Present(j, n) ==
  \/ n \in finished[j]
  \/ \E w \in Worker : task[w] = [job |-> j, page |-> n]
  \/ \E p \in ready : p.job = j /\ p.page = n

\* Pages that were delivered are the only ones; those of a document that has
\* not failed are all there, those of one that has are dropped.
PageInv ==
  /\ \A w \in Worker : task[w] = NoTask <=> worker[w] \notin {"taken", "process", "failing"}
  /\ \A j \in Job :
       /\ \A p \in ready : p.job = j => p.page \in Delivered(j) /\ ~Failed(j)
       /\ \A w \in Worker : task[w].job = j => task[w].page \in Delivered(j)
       /\ finished[j] \subseteq Delivered(j)
       /\ Failed(j) => finished[j] = {}
       /\ ~Failed(j) => \A n \in Delivered(j) : Present(j, n)

\* Pages of a document are in the queue in the order of their numbers.
OrderInv ==
  /\ \A p \in ready : p.sequence < nextSequence
  /\ \A p, q \in ready : p.sequence = q.sequence => p = q
  /\ \A p, q \in ready : p.job = q.job /\ p.sequence < q.sequence => p.page < q.page
  /\ PagesStartInOrder

IInv == TypeInv /\ ClaimInv /\ CountInv /\ MainInv /\ ReasonInv /\ PageInv /\ OrderInv

-----------------------------------------------------------------------------
(* Facts about the constants and the definitions.                          *)

LEMMA Orders ==
  /\ Len(InputOrder) \in Nat /\ \A k \in Positions : InputOrder[k] \in Job
  /\ \A k, m \in Positions : InputOrder[k] = InputOrder[m] => k = m
  /\ \A j \in Job : \E k \in Positions : InputOrder[k] = j
<1>1. /\ InputOrder \in Seq(Job) /\ Len(InputOrder) = Cardinality(Job)
      /\ \A j \in Job : \E k \in DOMAIN InputOrder : InputOrder[k] = j
  BY BatchAssumption
<1>2. /\ Len(InputOrder) \in Nat /\ DOMAIN InputOrder = Positions
      /\ InputOrder \in [Positions -> Job]
  BY <1>1, LenProperties DEF Positions
<1>3. InputOrder \in Surjection(Positions, Job) BY <1>1, <1>2 DEF Surjection
<1>4. IsFiniteSet(Positions) /\ Cardinality(Positions) = Len(InputOrder)
  <2>1. \A n \in Int : IsFiniteSet(1 .. n) /\ Cardinality(1 .. n) = IF 1 > n THEN 0 ELSE n - 1 + 1
    BY FS_Interval
  <2>2. QED BY <1>2, <2>1 DEF Positions
<1>5. InputOrder \in Injection(Positions, Job)
  BY <1>1, <1>3, <1>4, FS_SurjSameCardinalityImpliesInj
<1>6. QED BY <1>1, <1>2, <1>5 DEF Injection, IsInjective

LEMMA Threads ==
  /\ \A S \in SUBSET Reader : IsFiniteSet(S) /\ Cardinality(S) \in Nat
  /\ Cardinality(Reader) \in Nat
  /\ \A S \in SUBSET Reader : Cardinality(S) <= Cardinality(Reader)
  /\ Reader \cap Worker = {} /\ Reader # {} /\ Worker # {} /\ NoJob \notin Job
  /\ \A j \in Job : Pages[j] \in Nat
  /\ MaxQueuedPages \in Nat \ {0}
  BY BatchAssumption, FS_Subset, FS_CardinalityType

LEMMA NoTaskApart ==
  /\ NoTask \notin Task
  /\ \A t \in Task : t.job \in Job /\ t.page \in Nat \ {0} /\ t = [job |-> t.job, page |-> t.page]
  /\ \A j \in Job : \A n \in Nat \ {0} : [job |-> j, page |-> n] \in Task
<1>1. NoTask \notin Task BY Threads DEF NoTask, Task
<1>2. QED BY <1>1 DEF Task

\* Who holds a page, and the page it holds.
LEMMA TaskType ==
  ASSUME TypeInv
  PROVE  /\ \A w \in Worker : task[w] # NoTask =>
              /\ task[w].job \in Job /\ task[w].page \in Nat \ {0}
              /\ task[w] = [job |-> task[w].job, page |-> task[w].page]
         /\ \A w \in Worker : task[w] = NoTask => task[w].job \notin Job
         /\ \A p \in ready : p.job \in Job /\ p.page \in Nat \ {0} /\ p.sequence \in Nat
         /\ \A r \in Reader : doc[r] # NoJob => doc[r] \in Job
  <1>1. \A w \in Worker : task[w] # NoTask => task[w] \in Task BY DEF TypeInv
  <1>2. \A w \in Worker : task[w] = NoTask => task[w].job \notin Job BY Threads DEF NoTask
  <1>3. QED BY <1>1, <1>2, NoTaskApart DEF TypeInv, Pending

LEMMA DeliveredKept ==
  ASSUME UNCHANGED <<nextDocument, doc, page>>
  PROVE  \A j \in Job : Delivered(j)' = Delivered(j)
  BY DEF Delivered, Claimed

LEMMA ClaimKept ==
  ASSUME ClaimInv, UNCHANGED <<nextDocument, doc, page>>,
         \A r \in Reader :
           /\ (reader'[r] \in {"reading", "failing"}) <=> (reader[r] \in {"reading", "failing"})
           /\ reader'[r] \in {"leaving", "done"} => nextDocument > Len(InputOrder)
  PROVE  ClaimInv'
<1>1. \A r \in Reader : doc'[r] = doc[r] /\ page'[r] = page[r] OBVIOUS
<1>2. \A j : Claimed(j)' <=> Claimed(j) BY DEF Claimed
<1>3. QED BY <1>1, <1>2 DEF ClaimInv

LEMMA CountKept ==
  ASSUME CountInv, UNCHANGED <<nextDocument, readersRemaining, ready>>,
         \A r \in Reader : /\ (reader'[r] = "done") <=> (reader[r] = "done")
                           /\ (reader'[r] = "leaving") <=> (reader[r] = "leaving")
  PROVE  CountInv'
<1>1. Active' = Active /\ Leavers' = Leavers BY DEF Active, Leavers
<1>2. QED BY <1>1 DEF CountInv

LEMMA PageKept ==
  ASSUME PageInv, TypeInv, UNCHANGED <<nextDocument, doc, page, ready, task, error, finished>>,
         \A w \in Worker : (worker'[w] \in {"taken", "process", "failing"})
                             <=> (worker[w] \in {"taken", "process", "failing"})
  PROVE  PageInv'
<1>1. \A j \in Job : /\ Delivered(j)' = Delivered(j) /\ (Failed(j)' <=> Failed(j))
                     /\ finished'[j] = finished[j]
                     /\ \A n \in Nat : Present(j, n)' <=> Present(j, n)
  BY DeliveredKept DEF Failed, Present
<1>2. \A w \in Worker : task'[w] = NoTask <=> worker'[w] \notin {"taken", "process", "failing"}
  BY DEF PageInv
<1>3. \A j \in Job : \A p \in ready' : p.job = j => p.page \in Delivered(j)' /\ ~Failed(j)'
  BY <1>1 DEF PageInv
<1>4. \A j \in Job : \A w \in Worker : task'[w].job = j => task'[w].page \in Delivered(j)'
  BY <1>1 DEF PageInv
<1>5. \A j \in Job : \A n \in Delivered(j) : n \in Nat BY Threads DEF Delivered
<1>6. \A j \in Job : /\ finished'[j] \subseteq Delivered(j)'
                     /\ Failed(j)' => finished'[j] = {}
                     /\ ~Failed(j)' => \A n \in Delivered(j)' : Present(j, n)'
  BY <1>1, <1>5 DEF PageInv
<1>7. QED BY <1>2, <1>3, <1>4, <1>6 DEF PageInv

LEMMA OrderKept ==
  ASSUME OrderInv, UNCHANGED <<ready, nextSequence, task, finished>>
  PROVE  OrderInv'
  BY DEF OrderInv, PagesStartInOrder

LEMMA ReasonKept ==
  ASSUME ReasonInv, UNCHANGED <<doc, reason, error, abort>>,
         \A r \in Reader : reader'[r] = "failing" => reader[r] = "failing",
         \A w \in Worker : worker'[w] = "failing" => worker[w] = "failing"
  PROVE  ReasonInv'
  BY DEF ReasonInv, Failed

-----------------------------------------------------------------------------
(* The steps of the calling thread.                                        *)

LEMMA StartThreads ==
  ASSUME IInv, (\E w \in Worker : StartWorker(w)) \/ (\E r \in Reader : StartReader(r))
  PROVE  IInv'
<1> USE DEF IInv
<1>1. /\ UNCHANGED <<main, nextDocument, readersRemaining, doc, page, task, reason, ready,
                     nextSequence, error, finished, abort>>
      /\ main = "starting"
  BY DEF StartWorker, StartReader, readerVars, workerVars, queueVars
<1>2. /\ \A w \in Worker : \/ worker'[w] = worker[w]
                           \/ (worker[w] = "absent" /\ worker'[w] = "look")
      /\ worker' \in [Worker -> {"absent", "look", "taken", "process", "failing", "done"}]
  BY DEF StartWorker, StartReader, TypeInv, workerVars
<1>3. /\ \A r \in Reader : \/ reader'[r] = reader[r]
                           \/ (reader[r] = "absent" /\ reader'[r] = "claim")
      /\ reader' \in [Reader -> {"absent", "claim", "reading", "failing", "leaving", "done"}]
  BY DEF StartWorker, StartReader, TypeInv, readerVars
<1>4. TypeInv' BY <1>1, <1>2, <1>3 DEF TypeInv
<1>5. ClaimInv'
  <2>1. \A r \in Reader :
           /\ (reader'[r] \in {"reading", "failing"}) <=> (reader[r] \in {"reading", "failing"})
           /\ reader'[r] \in {"leaving", "done"} => nextDocument > Len(InputOrder)
    BY <1>3 DEF ClaimInv
  <2>2. QED BY <1>1, <2>1, ClaimKept
<1>6. CountInv'
  <2>1. \A r \in Reader : /\ (reader'[r] = "done") <=> (reader[r] = "done")
                          /\ (reader'[r] = "leaving") <=> (reader[r] = "leaving")
    BY <1>3
  <2>2. QED BY <1>1, <2>1, CountKept
<1>7. MainInv' BY <1>1, <1>2, <1>3 DEF MainInv
<1>8. ReasonInv' BY <1>1, <1>2, <1>3, ReasonKept
<1>9. PageInv'
  <2>1. \A w \in Worker : (worker'[w] \in {"taken", "process", "failing"})
                            <=> (worker[w] \in {"taken", "process", "failing"})
    BY <1>2
  <2>2. QED BY <1>1, <2>1, PageKept
<1>10. OrderInv' BY <1>1, OrderKept
<1>11. QED BY <1>4, <1>5, <1>6, <1>7, <1>8, <1>9, <1>10

LEMMA MainSteps ==
  ASSUME IInv, StartFails \/ Started \/ Joined \/ UNCHANGED vars
  PROVE  IInv'
<1> USE DEF IInv
<1>1. UNCHANGED <<nextDocument, readersRemaining, reader, doc, page, worker, task, reason, ready,
                  nextSequence, error, finished>>
  BY DEF StartFails, Started, Joined, vars, readerVars, workerVars, queueVars
<1>2. main' \in {"starting", "aborting", "joining", "returned", "threw"}
  BY DEF StartFails, Started, Joined, vars, TypeInv
<1>3. abort' \in BOOLEAN /\ (abort => abort')
  BY Zenon DEF StartFails, Started, Joined, vars, TypeInv
<1>4. TypeInv' BY <1>1, <1>2, <1>3 DEF TypeInv
<1>5. ClaimInv' BY <1>1 DEF ClaimInv, Claimed
<1>6. CountInv' BY <1>1 DEF CountInv, Active, Leavers
<1>7. MainInv'
  <2>1. CASE StartFails BY <1>1, <2>1 DEF StartFails, MainInv
  <2>2. CASE Started BY <1>1, <2>2 DEF Started, MainInv
  <2>3. CASE Joined
    <3>1. /\ main \in {"joining", "aborting"} /\ abort' = abort
          /\ \A w \in Worker : worker[w] \in {"absent", "done"}
          /\ main' = IF main = "joining" THEN "returned" ELSE "threw"
      BY <2>3 DEF Joined
    <3>2. QED BY <1>1, <3>1 DEF MainInv
  <2>4. CASE UNCHANGED vars BY <1>1, <2>4 DEF vars, MainInv
  <2>5. QED BY <2>1, <2>2, <2>3, <2>4
<1>8. ReasonInv' BY <1>1, <1>3 DEF ReasonInv, Failed
<1>9. PageInv' BY <1>1, PageKept
<1>10. OrderInv' BY <1>1, OrderKept
<1>11. QED BY <1>4, <1>5, <1>6, <1>7, <1>8, <1>9, <1>10
-----------------------------------------------------------------------------
(* The steps of the readers.                                               *)

\* A reader at work keeps the batch from ending, so its steps leave MainInv alone.
LEMMA MainKeptByReader ==
  ASSUME MainInv, NEW r \in Reader, reader[r] \notin {"absent", "done"},
         reader'[r] # "absent", \A s \in Reader \ {r} : reader'[s] = reader[s],
         UNCHANGED <<main, worker, abort>>
  PROVE  MainInv'
<1>1. \A w \in Worker : ~(worker[w] = "done" /\ ~abort) BY DEF MainInv
<1>2. QED BY <1>1 DEF MainInv

LEMMA GiveUpStep ==
  ASSUME IInv, NEW r \in Reader, ReadFails(r) \/ DeliveryCancelled(r)
  PROVE  IInv'
<1> USE DEF IInv
<1>1. PICK why \in {"reader", "cancelled"} :
        /\ reason' = [reason EXCEPT ![r] = why]
        /\ why = "cancelled" => abort \/ Failed(doc[r])
  BY DEF ReadFails, DeliveryCancelled
<1>2. /\ reader[r] = "reading" /\ reader' = [reader EXCEPT ![r] = "failing"]
      /\ UNCHANGED <<main, nextDocument, doc, page, readersRemaining, worker, task, ready,
                     nextSequence, error, finished, abort>>
  BY DEF ReadFails, DeliveryCancelled, workerVars, queueVars
<1>3. /\ reader'[r] = "failing" /\ \A s \in Reader \ {r} : reader'[s] = reader[s]
      /\ reason'[r] = why /\ \A t \in (Reader \cup Worker) \ {r} : reason'[t] = reason[t]
  BY <1>1, <1>2 DEF TypeInv
<1>4. TypeInv' BY <1>1, <1>2 DEF TypeInv, Reasons
<1>5. ClaimInv'
  <2>1. \A s \in Reader :
           /\ (reader'[s] \in {"reading", "failing"}) <=> (reader[s] \in {"reading", "failing"})
           /\ reader'[s] \in {"leaving", "done"} => nextDocument > Len(InputOrder)
    BY <1>2, <1>3 DEF ClaimInv
  <2>2. QED BY <1>2, <2>1, ClaimKept
<1>6. CountInv'
  <2>1. \A s \in Reader : /\ (reader'[s] = "done") <=> (reader[s] = "done")
                          /\ (reader'[s] = "leaving") <=> (reader[s] = "leaving")
    BY <1>2, <1>3
  <2>2. QED BY <1>2, <2>1, CountKept
<1>7. MainInv' BY <1>2, <1>3, MainKeptByReader
<1>8. ReasonInv'
  <2>1. \A s \in Reader \ {r} : reason'[s] = reason[s] BY <1>3
  <2>2. \A w \in Worker : reason'[w] = reason[w] BY <1>3, Threads
  <2>3. \A j \in Job : error'[j] = error[j] BY <1>2
  <2>4. \A s \in Reader : doc'[s] = doc[s] BY <1>2
  <2>5. reason'[r] # "none" /\ (reason'[r] = "cancelled" => abort' \/ Failed(doc[r])')
    BY <1>1, <1>2, <1>3 DEF Failed
  <2>6. \A s \in Reader \ {r} : reader'[s] = "failing" =>
          reason'[s] # "none" /\ (reason'[s] = "cancelled" => abort' \/ Failed(doc[s])')
    BY <1>2, <1>3, <2>1 DEF Failed, ReasonInv
  <2>7. \A w \in Worker : worker'[w] = "failing" => reason'[w] \notin {"none", "cancelled"}
    BY <1>2, <2>2 DEF ReasonInv
  <2>8. QED BY <1>2, <2>5, <2>6, <2>7 DEF ReasonInv
<1>9. PageInv' BY <1>2, PageKept
<1>10. OrderInv' BY <1>2, OrderKept
<1>11. QED BY <1>4, <1>5, <1>6, <1>7, <1>8, <1>9, <1>10

LEMMA LeaveStep ==
  ASSUME IInv, NEW r \in Reader, ReaderLeaves(r)
  PROVE  IInv'
<1> USE DEF IInv
<1>1. /\ reader[r] = "leaving" /\ reader' = [reader EXCEPT ![r] = "done"]
      /\ readersRemaining' = readersRemaining - 1
      /\ UNCHANGED <<main, nextDocument, doc, page, worker, task, reason, ready,
                     nextSequence, error, finished, abort>>
  BY DEF ReaderLeaves, workerVars, queueVars
<1>2. reader'[r] = "done" /\ \A s \in Reader \ {r} : reader'[s] = reader[s]
  BY <1>1 DEF TypeInv
<1>3. TypeInv' BY <1>1 DEF TypeInv
<1>4. ClaimInv'
  <2>1. \A s \in Reader :
           /\ (reader'[s] \in {"reading", "failing"}) <=> (reader[s] \in {"reading", "failing"})
           /\ reader'[s] \in {"leaving", "done"} => nextDocument > Len(InputOrder)
    BY <1>1, <1>2 DEF ClaimInv
  <2>2. QED BY <1>1, <2>1, ClaimKept
<1>5. CountInv'
  <2>1. Active' = Active \ {r} /\ r \in Active /\ Leavers' = Leavers
    BY <1>1, <1>2 DEF Active, Leavers
  <2>2. IsFiniteSet(Active) /\ Cardinality(Active) \in Nat BY Threads DEF Active
  <2>3. Cardinality(Active') = Cardinality(Active) - 1 BY <2>1, <2>2, FS_RemoveElement
  <2>4. QED BY <1>1, <2>1, <2>3 DEF CountInv
<1>6. MainInv' BY <1>1, <1>2, MainKeptByReader
<1>7. ReasonInv' BY <1>1, <1>2, ReasonKept
<1>8. PageInv' BY <1>1, PageKept
<1>9. OrderInv' BY <1>1, OrderKept
<1>10. QED BY <1>3, <1>4, <1>5, <1>6, <1>7, <1>8, <1>9

\* What stays when a reader moves from one document to the next.
LEMMA BetweenDocuments ==
  ASSUME IInv, NEW r \in Reader, NEW x \in {"claim", "reading", "leaving"},
         reader[r] \in {"claim", "reading", "failing"}, reader' = [reader EXCEPT ![r] = x],
         \A s \in Reader \ {r} : doc'[s] = doc[s] /\ page'[s] = page[s],
         UNCHANGED <<main, worker, abort>>
  PROVE  /\ reader'[r] = x /\ \A s \in Reader \ {r} : reader'[s] = reader[s]
         /\ MainInv' /\ Active' = Active
         /\ Leavers' = IF x = "leaving" THEN Leavers \cup {r} ELSE Leavers
         /\ r \notin Leavers
<1> USE DEF IInv
<1>1. reader'[r] = x /\ \A s \in Reader \ {r} : reader'[s] = reader[s] BY DEF TypeInv
<1>2. MainInv' BY <1>1, MainKeptByReader
<1>3. Active' = Active BY <1>1 DEF Active
<1>4. Leavers' = IF x = "leaving" THEN Leavers \cup {r} ELSE Leavers
  <2>1. CASE x = "leaving" BY <1>1, <2>1 DEF Leavers
  <2>2. CASE x # "leaving" BY <1>1, <2>2 DEF Leavers
  <2>3. QED BY <2>1, <2>2
<1>5. QED BY <1>1, <1>2, <1>3, <1>4 DEF Leavers

LEMMA NoMoreDocuments ==
  ASSUME IInv, NEW r \in Reader, Claim(r), nextDocument > Len(InputOrder)
  PROVE  IInv'
<1> USE DEF IInv
<1>0. Len(InputOrder) \in Nat /\ nextDocument \in Nat BY Orders DEF TypeInv
<1>1. /\ reader[r] = "claim" /\ reader' = [reader EXCEPT ![r] = "leaving"]
      /\ nextDocument' = nextDocument + 1
      /\ UNCHANGED <<main, doc, page, readersRemaining, worker, task, reason, ready,
                     nextSequence, error, finished, abort>>
  BY <1>0 DEF Claim, workerVars, queueVars
<1>2. /\ reader'[r] = "leaving" /\ \A s \in Reader \ {r} : reader'[s] = reader[s]
      /\ MainInv' /\ Active' = Active /\ Leavers' = Leavers \cup {r} /\ r \notin Leavers
  BY <1>1, BetweenDocuments
<1>3. \A j \in Job : Claimed(j)' <=> Claimed(j) BY <1>0, <1>1 DEF Claimed, Positions
<1>4. \A j \in Job : Delivered(j)' = Delivered(j) BY <1>1, <1>3 DEF Delivered
<1>5. TypeInv' BY <1>0, <1>1 DEF TypeInv
<1>6. ClaimInv'
  <2>1. nextDocument' > Len(InputOrder) BY <1>0, <1>1
  <2>2. QED BY <1>1, <1>2, <1>3, <2>1 DEF ClaimInv
<1>7. CountInv'
  <2>1. IsFiniteSet(Leavers) /\ Cardinality(Leavers) \in Nat BY Threads DEF Leavers
  <2>2. Cardinality(Leavers') = Cardinality(Leavers) + 1 BY <1>2, <2>1, FS_AddElement
  <2>3. QED BY <1>0, <1>1, <1>2, <2>1, <2>2 DEF CountInv
<1>8. ReasonInv' BY <1>1, <1>2, ReasonKept
<1>9. PageInv'
  <2>1. \A j \in Job : /\ (Failed(j)' <=> Failed(j)) /\ finished'[j] = finished[j]
                       /\ \A n \in Nat : Present(j, n)' <=> Present(j, n)
    BY <1>1 DEF Failed, Present
  <2>2. \A j \in Job : \A n \in Delivered(j) : n \in Nat BY Threads DEF Delivered
  <2>3. QED BY <1>1, <1>4, <2>1, <2>2 DEF PageInv
<1>10. OrderInv' BY <1>1, OrderKept
<1>11. QED BY <1>2, <1>5, <1>6, <1>7, <1>8, <1>9, <1>10

\* A document that nobody has claimed has delivered nothing.
LEMMA ClaimStep ==
  ASSUME IInv, NEW r \in Reader, Claim(r), nextDocument <= Len(InputOrder)
  PROVE  IInv'
<1> USE DEF IInv
<1>a. /\ Len(InputOrder) \in Nat /\ nextDocument \in Nat \ {0} /\ nextDocument \in Positions
      /\ InputOrder[nextDocument] \in Job
  BY Orders DEF TypeInv, Positions
<1>b. PICK c \in Job : c = InputOrder[nextDocument] BY <1>a
<1>0. /\ Len(InputOrder) \in Nat /\ nextDocument \in Nat \ {0} /\ nextDocument \in Positions
      /\ c \in Job /\ c # NoJob /\ InputOrder[nextDocument] = c
  BY <1>a, <1>b, Threads
<1>1. /\ reader[r] = "claim" /\ reader' = [reader EXCEPT ![r] = "reading"]
      /\ nextDocument' = nextDocument + 1 /\ doc' = [doc EXCEPT ![r] = c]
      /\ UNCHANGED <<main, page, readersRemaining, worker, task, reason, ready,
                     nextSequence, error, finished, abort>>
  BY <1>0 DEF Claim, workerVars, queueVars
<1>2. /\ doc'[r] = c /\ \A s \in Reader \ {r} : doc'[s] = doc[s] /\ page'[s] = page[s]
      /\ doc[r] = NoJob /\ page'[r] = 1
  BY <1>1 DEF TypeInv, ClaimInv
<1>3. /\ reader'[r] = "reading" /\ \A s \in Reader \ {r} : reader'[s] = reader[s]
      /\ MainInv' /\ Active' = Active /\ Leavers' = Leavers
  BY <1>1, <1>2, BetweenDocuments
<1>4. ~Claimed(c) BY <1>0, Orders DEF Claimed
<1>5. \A j \in Job : Claimed(j)' <=> Claimed(j) \/ j = c
  <2>1. \A k \in Positions : k < nextDocument + 1 <=> k < nextDocument \/ k = nextDocument
    BY <1>0 DEF Positions
  <2>2. QED BY <1>0, <1>1, <2>1 DEF Claimed
<1>6. \A s \in Reader : doc[s] # c BY <1>0, <1>4 DEF ClaimInv
<1>7. \A j \in Job : Delivered(j)' = Delivered(j)
  <2>1. Delivered(c) = {} BY <1>4 DEF Delivered
  <2>2. Delivered(c)' = {}
    <3>1. \A n \in 1 .. Pages[c] : ~(n < page'[r]) BY <1>0, <1>2, Threads
    <3>2. QED BY <1>2, <3>1 DEF Delivered
  <2>3. ASSUME NEW j \in Job, j # c PROVE Delivered(j)' = Delivered(j)
    <3>1. \A n : (\A s \in Reader : doc'[s] = j => n < page'[s])
                   <=> (\A s \in Reader : doc[s] = j => n < page[s])
      BY <1>2, <2>3, TaskType, Threads
    <3>2. QED BY <1>5, <2>3, <3>1 DEF Delivered
  <2>4. QED BY <2>1, <2>2, <2>3
<1>8. TypeInv' BY <1>0, <1>1 DEF TypeInv
<1>9. ClaimInv'
  <2>1. \A s \in Reader : /\ doc'[s] # NoJob <=> reader'[s] \in {"reading", "failing"}
                          /\ doc'[s] = NoJob => page'[s] = 1
    BY <1>0, <1>2, <1>3 DEF ClaimInv
  <2>2. ASSUME NEW s \in Reader, NEW j \in Job, doc'[s] = j
        PROVE  Claimed(j)' /\ page'[s] <= Pages[j] + 1
    <3>1. CASE s = r
      <4>1. Pages[j] \in Nat BY Threads
      <4>2. QED BY <1>2, <1>5, <2>2, <3>1, <4>1
    <3>2. CASE s # r BY <1>2, <1>5, <2>2, <3>2 DEF ClaimInv
    <3>3. QED BY <3>1, <3>2
  <2>3. \A s \in Reader : reader'[s] \in {"leaving", "done"} => nextDocument' > Len(InputOrder)
    BY <1>0, <1>1, <1>3 DEF ClaimInv
  <2>4. \A s, t \in Reader : s # t /\ doc'[s] = doc'[t] => doc'[s] = NoJob
    BY <1>2, <1>6 DEF ClaimInv
  <2>5. QED BY <2>1, <2>2, <2>3, <2>4 DEF ClaimInv
<1>10. CountInv'
  <2>1. Cardinality(Leavers) \in Nat BY Threads DEF Leavers
  <2>2. nextDocument + 1 <= Len(InputOrder) + 1 + Cardinality(Leavers) BY <1>0, <2>1, Threads
  <2>3. QED BY <1>1, <1>3, <2>2 DEF CountInv
<1>11. ReasonInv'
  <2>1. \A s \in Reader : reader'[s] = "failing" => s # r /\ reader[s] = "failing" BY <1>3
  <2>2. \A s \in Reader : reader'[s] = "failing" =>
          reason'[s] # "none" /\ (reason'[s] = "cancelled" => abort' \/ Failed(doc[s])')
    BY <1>1, <1>2, <2>1 DEF ReasonInv, Failed
  <2>3. QED BY <1>1, <2>2 DEF ReasonInv
<1>12. PageInv'
  <2>1. \A j \in Job : /\ (Failed(j)' <=> Failed(j)) /\ finished'[j] = finished[j]
                       /\ \A n \in Nat : Present(j, n)' <=> Present(j, n)
    BY <1>1 DEF Failed, Present
  <2>2. \A j \in Job : \A n \in Delivered(j) : n \in Nat BY Threads DEF Delivered
  <2>3. QED BY <1>1, <1>7, <2>1, <2>2 DEF PageInv
<1>13. OrderInv' BY <1>1, OrderKept
<1>14. QED BY <1>3, <1>8, <1>9, <1>10, <1>11, <1>12, <1>13

\* A reader that ends a document, read or failed, delivers no more of it.
LEMMA LetGo ==
  ASSUME IInv, NEW r \in Reader, NEW j \in Job, doc[r] = j,
         reader' = [reader EXCEPT ![r] = "claim"],
         doc' = [doc EXCEPT ![r] = NoJob], page' = [page EXCEPT ![r] = 1],
         UNCHANGED <<main, nextDocument, readersRemaining, worker, abort>>
  PROVE  /\ reader'[r] = "claim" /\ \A s \in Reader \ {r} : reader'[s] = reader[s]
         /\ doc'[r] = NoJob /\ \A s \in Reader \ {r} : doc'[s] = doc[s] /\ page'[s] = page[s]
         /\ doc' \in [Reader -> Job \cup {NoJob}] /\ page' \in [Reader -> Nat \ {0}]
         /\ ClaimInv' /\ MainInv' /\ Active' = Active /\ Leavers' = Leavers
         /\ \A i \in Job \ {j} : Delivered(i)' = Delivered(i)
         /\ Delivered(j) \subseteq Delivered(j)'
         /\ page[r] > Pages[j] => Delivered(j)' = Delivered(j)
<1> USE DEF IInv
<1>1. doc[r] # NoJob /\ reader[r] \in {"reading", "failing"} BY Threads DEF ClaimInv
<1>2. /\ doc'[r] = NoJob /\ \A s \in Reader \ {r} : doc'[s] = doc[s] /\ page'[s] = page[s]
      /\ doc' \in [Reader -> Job \cup {NoJob}] /\ page' \in [Reader -> Nat \ {0}]
      /\ page'[r] = 1
  BY DEF TypeInv
<1>3. /\ reader'[r] = "claim" /\ \A s \in Reader \ {r} : reader'[s] = reader[s]
      /\ MainInv' /\ Active' = Active /\ Leavers' = Leavers
  BY <1>1, <1>2, BetweenDocuments
<1>4. \A i : Claimed(i)' <=> Claimed(i) BY DEF Claimed
<1>5. ClaimInv'
  <2>1. \A s \in Reader : /\ doc'[s] # NoJob <=> reader'[s] \in {"reading", "failing"}
                          /\ doc'[s] = NoJob => page'[s] = 1
                          /\ reader'[s] \in {"leaving", "done"} => nextDocument' > Len(InputOrder)
    BY <1>2, <1>3 DEF ClaimInv
  <2>2. \A s \in Reader : \A i \in Job : doc'[s] = i => Claimed(i)' /\ page'[s] <= Pages[i] + 1
    BY <1>2, <1>4, Threads DEF ClaimInv
  <2>3. \A s, t \in Reader : s # t /\ doc'[s] = doc'[t] => doc'[s] = NoJob
    BY <1>2 DEF ClaimInv
  <2>4. QED BY <2>1, <2>2, <2>3 DEF ClaimInv
<1>6. ASSUME NEW i \in Job \ {j} PROVE Delivered(i)' = Delivered(i)
  <2>1. i # NoJob BY Threads
  <2>2. \A n : (\A s \in Reader : doc'[s] = i => n < page'[s])
                 <=> (\A s \in Reader : doc[s] = i => n < page[s])
    BY <1>2, <1>6, <2>1
  <2>3. QED BY <1>4, <2>2 DEF Delivered
<1>7. \A s \in Reader : doc'[s] # j BY <1>1, <1>2 DEF ClaimInv
<1>8. Delivered(j) \subseteq Delivered(j)' BY <1>4, <1>7 DEF Delivered
<1>9. ASSUME page[r] > Pages[j] PROVE Delivered(j)' = Delivered(j)
  <2>1. Pages[j] \in Nat /\ page[r] \in Nat BY Threads DEF TypeInv
  <2>2. \A n \in 1 .. Pages[j] : n < page[r] BY <1>9, <2>1
  <2>3. \A s \in Reader : doc[s] = j => s = r BY <1>1 DEF ClaimInv
  <2>4. \A n \in 1 .. Pages[j] : (\A s \in Reader : doc[s] = j => n < page[s]) BY <2>2, <2>3
  <2>5. QED BY <1>4, <1>7, <2>4 DEF Delivered
<1>10. QED BY <1>2, <1>3, <1>5, <1>6, <1>8, <1>9

LEMMA ReadEndsStep ==
  ASSUME IInv, NEW r \in Reader, ReadEnds(r)
  PROVE  IInv'
<1> USE DEF IInv
<1>1. /\ reader[r] = "reading" /\ reader' = [reader EXCEPT ![r] = "claim"]
      /\ doc' = [doc EXCEPT ![r] = NoJob] /\ page' = [page EXCEPT ![r] = 1]
      /\ page[r] > Pages[doc[r]]
      /\ UNCHANGED <<main, nextDocument, readersRemaining, worker, task, reason, ready,
                     nextSequence, error, finished, abort>>
  BY DEF ReadEnds, workerVars, queueVars
<1>2. PICK j \in Job : doc[r] = j BY <1>1, TaskType DEF ClaimInv
<1>3. /\ reader'[r] = "claim" /\ \A s \in Reader \ {r} : reader'[s] = reader[s]
      /\ \A s \in Reader \ {r} : doc'[s] = doc[s]
      /\ doc' \in [Reader -> Job \cup {NoJob}] /\ page' \in [Reader -> Nat \ {0}]
      /\ ClaimInv' /\ MainInv' /\ Active' = Active /\ Leavers' = Leavers
      /\ \A i \in Job : Delivered(i)' = Delivered(i)
  BY <1>1, <1>2, LetGo
<1>4. TypeInv' BY <1>1, <1>3 DEF TypeInv
<1>5. CountInv' BY <1>1, <1>3 DEF CountInv
<1>6. ReasonInv'
  <2>1. \A s \in Reader : reader'[s] = "failing" => s # r /\ reader[s] = "failing" BY <1>3
  <2>2. \A s \in Reader : reader'[s] = "failing" =>
          reason'[s] # "none" /\ (reason'[s] = "cancelled" => abort' \/ Failed(doc[s])')
    BY <1>1, <1>3, <2>1 DEF ReasonInv, Failed
  <2>3. QED BY <1>1, <2>2 DEF ReasonInv
<1>7. PageInv'
  <2>1. \A i \in Job : /\ (Failed(i)' <=> Failed(i)) /\ finished'[i] = finished[i]
                       /\ \A n \in Nat : Present(i, n)' <=> Present(i, n)
    BY <1>1 DEF Failed, Present
  <2>2. \A i \in Job : \A n \in Delivered(i) : n \in Nat BY Threads DEF Delivered
  <2>3. QED BY <1>1, <1>3, <2>1, <2>2 DEF PageInv
<1>8. OrderInv' BY <1>1, OrderKept
<1>9. QED BY <1>3, <1>4, <1>5, <1>6, <1>7, <1>8

\* The next page joins the queue behind the document's others.
LEMMA DeliverStep ==
  ASSUME IInv, NEW r \in Reader, Deliver(r)
  PROVE  IInv'
<1> USE DEF IInv
<1>1. reader[r] = "reading" /\ doc[r] # NoJob BY DEF Deliver, ClaimInv
<1>2. PICK j \in Job, m \in Nat \ {0}, q \in Nat : j = doc[r] /\ m = page[r] /\ q = nextSequence
  BY <1>1, TaskType DEF TypeInv
<1> DEFINE new == [job |-> j, page |-> m, sequence |-> q]
<1>3. /\ m <= Pages[j] /\ ~abort /\ ~Failed(j)
      /\ Cardinality(ready) < MaxQueuedPages /\ ready' = ready \cup {new}
      /\ nextSequence' = q + 1 /\ page' = [page EXCEPT ![r] = m + 1]
      /\ UNCHANGED <<main, nextDocument, reader, doc, readersRemaining, worker, task, reason,
                     error, finished, abort>>
  BY <1>2 DEF Deliver, workerVars
<1>4. page'[r] = m + 1 /\ \A s \in Reader \ {r} : page'[s] = page[s] BY <1>3 DEF TypeInv
<1>5. new \in Pending /\ new.job = j /\ new.page = m /\ new.sequence = q BY DEF Pending
<1> HIDE DEF new
<1>6. Pages[j] \in Nat /\ MaxQueuedPages \in Nat BY Threads
<1>7. \A s \in Reader \ {r} : doc[s] # j BY <1>1, <1>2 DEF ClaimInv
<1>8. \A i : Claimed(i)' <=> Claimed(i) BY <1>3 DEF Claimed
<1>9. Claimed(j) BY <1>2 DEF ClaimInv
<1>10. /\ \A i \in Job \ {j} : Delivered(i)' = Delivered(i)
       /\ Delivered(j)' = Delivered(j) \cup {m} /\ \A n \in Delivered(j) : n < m
  <2>1. \A i \in Job \ {j} : \A n : (\A s \in Reader : doc'[s] = i => n < page'[s])
                                      <=> (\A s \in Reader : doc[s] = i => n < page[s])
    BY <1>2, <1>3, <1>4
  <2>2. \A i \in Job \ {j} : Delivered(i)' = Delivered(i) BY <1>8, <2>1 DEF Delivered
  <2>3. \A n \in 1 .. Pages[j] : (\A s \in Reader : doc[s] = j => n < page[s]) <=> n < m
    BY <1>2, <1>7
  <2>4. \A n \in 1 .. Pages[j] : (\A s \in Reader : doc'[s] = j => n < page'[s]) <=> n < m + 1
    BY <1>2, <1>3, <1>4, <1>7
  <2>5. \A n \in 1 .. Pages[j] : n \in Delivered(j) <=> n < m BY <1>9, <2>3 DEF Delivered
  <2>6. \A n \in 1 .. Pages[j] : n \in Delivered(j)' <=> n < m + 1 BY <1>8, <1>9, <2>4 DEF Delivered
  <2>7. Delivered(j) \subseteq 1 .. Pages[j] /\ Delivered(j)' \subseteq 1 .. Pages[j]
    BY DEF Delivered
  <2>8. m \in 1 .. Pages[j] BY <1>3, <1>6
  <2>9. \A n \in 1 .. Pages[j] : n < m + 1 <=> n < m \/ n = m BY <2>8, <1>6
  <2>10. Delivered(j)' = Delivered(j) \cup {m} BY <2>5, <2>6, <2>7, <2>8, <2>9
  <2>11. QED BY <2>2, <2>5, <2>7, <2>10
<1>11. TypeInv'
  <2>1. page' \in [Reader -> Nat \ {0}] BY <1>3 DEF TypeInv
  <2>2. ready' \subseteq Pending BY <1>3, <1>5 DEF TypeInv
  <2>3. nextSequence' \in Nat BY <1>3
  <2>4. QED BY <1>3, <2>1, <2>2, <2>3 DEF TypeInv
<1>12. ClaimInv'
  <2>1. \A s \in Reader : \A i \in Job : doc'[s] = i => Claimed(i)' /\ page'[s] <= Pages[i] + 1
    BY <1>2, <1>3, <1>4, <1>6, <1>8 DEF ClaimInv
  <2>2. \A s \in Reader : doc'[s] = NoJob => page'[s] = 1 BY <1>1, <1>3, <1>4 DEF ClaimInv
  <2>3. QED BY <1>3, <2>1, <2>2 DEF ClaimInv
<1>13. CountInv'
  <2>1. IsFiniteSet(ready) /\ Cardinality(ready) \in Nat BY FS_CardinalityType DEF CountInv
  <2>2. IsFiniteSet(ready') /\ Cardinality(ready') <= Cardinality(ready) + 1
    <3>1. /\ IsFiniteSet(ready \cup {new})
          /\ Cardinality(ready \cup {new})
               = IF new \in ready THEN Cardinality(ready) ELSE Cardinality(ready) + 1
      BY <2>1, FS_AddElement
    <3>2. QED BY <1>3, <2>1, <3>1
  <2>3. Cardinality(ready') \in Nat BY <2>2, FS_CardinalityType
  <2>4. Cardinality(ready') <= MaxQueuedPages BY <1>3, <1>6, <2>1, <2>2, <2>3
  <2>5. Active' = Active /\ Leavers' = Leavers BY <1>3 DEF Active, Leavers
  <2>6. QED BY <1>3, <2>2, <2>4, <2>5 DEF CountInv
<1>14. MainInv' BY <1>1, <1>3, MainKeptByReader
<1>15. ReasonInv' BY <1>3, ReasonKept
<1>16. PageInv'
  <2>1. \A i \in Job : (Failed(i)' <=> Failed(i)) BY <1>3 DEF Failed
  <2>2. \A i \in Job : Delivered(i) \subseteq Delivered(i)' BY <1>10
  <2>3. \A i \in Job : \A p \in ready' : p.job = i => p.page \in Delivered(i)' /\ ~Failed(i)'
    BY <1>3, <1>5, <1>10, <2>1, <2>2 DEF PageInv
  <2>4. \A i \in Job : \A w \in Worker : task'[w].job = i => task'[w].page \in Delivered(i)'
    BY <1>3, <2>2 DEF PageInv
  <2>5. \A i \in Job : finished'[i] \subseteq Delivered(i)' /\ (Failed(i)' => finished'[i] = {})
    BY <1>3, <2>1, <2>2 DEF PageInv
  <2>6. \A i \in Job : \A n : Present(i, n) => Present(i, n)' BY <1>3 DEF Present
  <2>7. Present(j, m)' BY <1>3, <1>5 DEF Present
  <2>8. \A i \in Job : ~Failed(i)' => \A n \in Delivered(i)' : Present(i, n)'
    BY <1>10, <2>1, <2>6, <2>7 DEF PageInv
  <2>9. QED BY <1>3, <2>3, <2>4, <2>5, <2>8 DEF PageInv
<1>17. OrderInv'
  <2>1. \A p \in ready : p.sequence < q BY <1>2 DEF OrderInv
  <2>2. \A p \in ready : p.sequence \in Nat /\ p.page \in Nat BY TaskType
  <2>3. \A p \in ready' : p.sequence < nextSequence' BY <1>3, <1>5, <2>1, <2>2
  <2>4. \A p \in ready : p.sequence # q BY <2>1, <2>2
  <2>5. \A p, o \in ready' : p.sequence = o.sequence => p = o
    BY <1>3, <1>5, <2>4 DEF OrderInv
  <2>6. \A p \in ready : p.job = j => p.page < m BY <1>10 DEF PageInv
  <2>7. \A p \in ready : ~(q < p.sequence) BY <2>1, <2>2
  <2>8. \A p, o \in ready' : p.job = o.job /\ p.sequence < o.sequence => p.page < o.page
    BY <1>3, <1>5, <2>6, <2>7 DEF OrderInv
  <2>9. \A p \in ready' : /\ \A w \in Worker : task'[w].job = p.job => task'[w].page < p.page
                          /\ \A n \in finished'[p.job] : n < p.page
    <3>1. \A w \in Worker : task[w].job = j => task[w].page < m BY <1>10 DEF PageInv
    <3>2. \A n \in finished[j] : n < m BY <1>10 DEF PageInv
    <3>3. QED BY <1>3, <1>5, <3>1, <3>2 DEF OrderInv, PagesStartInOrder
  <2>10. PagesStartInOrder' BY <1>3, <2>9 DEF OrderInv, PagesStartInOrder
  <2>11. QED BY <2>3, <2>5, <2>8, <2>10 DEF OrderInv
<1>18. QED BY <1>11, <1>12, <1>13, <1>14, <1>15, <1>16, <1>17

-----------------------------------------------------------------------------
(* fail().                                                                 *)

\* A document that fails leaves the queue and the finished pages; what is at
\* work and what the others have stays.
LEMMA FailEffect ==
  ASSUME IInv, NEW j \in Job, NEW why \in Reasons \ {"none"}, Fail(j, why),
         why = "cancelled" => abort \/ Failed(j)
  PROVE  /\ error' \in [Job -> Reasons] /\ finished' \in [Job -> SUBSET Nat]
         /\ ready' \subseteq Pending /\ ready' \subseteq ready /\ nextSequence' = nextSequence
         /\ Failed(j)' /\ \A i \in Job : Failed(i) => Failed(i)'
         /\ \A i \in Job \ {j} : Failed(i)' <=> Failed(i)
         /\ \A i \in Job : error'[i] = "cancelled" => abort
         /\ finished'[j] = {} /\ \A i \in Job \ {j} : finished'[i] = finished[i]
         /\ \A p \in ready' : p.job # j
         /\ \A p \in ready : p.job # j => p \in ready'
         /\ IsFiniteSet(ready') /\ Cardinality(ready') <= MaxQueuedPages
<1> USE DEF IInv
<1>1. /\ error' = [error EXCEPT ![j] = IF Failed(j) THEN @ ELSE why]
      /\ ready' = {p \in ready : p.job # j}
      /\ finished' = [finished EXCEPT ![j] = {}] /\ nextSequence' = nextSequence
  BY DEF Fail
<1>2. /\ error'[j] = IF Failed(j) THEN error[j] ELSE why
      /\ \A i \in Job \ {j} : error'[i] = error[i]
      /\ error' \in [Job -> Reasons]
  BY <1>1 DEF TypeInv
<1>3. /\ finished' \in [Job -> SUBSET Nat]
      /\ finished'[j] = {} /\ \A i \in Job \ {j} : finished'[i] = finished[i]
  BY <1>1 DEF TypeInv
<1>4. Failed(j)' /\ \A i \in Job : Failed(i) => Failed(i)' BY <1>2 DEF Failed
<1>5. \A i \in Job \ {j} : Failed(i)' <=> Failed(i) BY <1>2 DEF Failed
<1>6. \A i \in Job : error'[i] = "cancelled" => abort BY <1>2 DEF ReasonInv
<1>7. /\ ready' \subseteq ready /\ ready' \subseteq Pending /\ \A p \in ready' : p.job # j
      /\ \A p \in ready : p.job # j => p \in ready'
  BY <1>1 DEF TypeInv
<1>8. IsFiniteSet(ready') /\ Cardinality(ready') <= MaxQueuedPages
  <2>1. /\ IsFiniteSet(ready) /\ Cardinality(ready) \in Nat /\ Cardinality(ready) <= MaxQueuedPages
        /\ MaxQueuedPages \in Nat
    BY FS_CardinalityType, Threads DEF CountInv
  <2>2. IsFiniteSet(ready') /\ Cardinality(ready') <= Cardinality(ready)
    BY <1>7, <2>1, FS_Subset
  <2>3. Cardinality(ready') \in Nat BY <2>2, FS_CardinalityType
  <2>4. QED BY <2>1, <2>2, <2>3
<1>9. QED BY <1>1, <1>2, <1>3, <1>4, <1>5, <1>6, <1>7, <1>8

\* The invariants about pages, when fewer are queued, finished and at work.
LEMMA FewerOrdered ==
  ASSUME TypeInv, OrderInv, ready' \subseteq ready, nextSequence' = nextSequence,
         \A j \in Job : finished'[j] \subseteq finished[j],
         \A w \in Worker : task'[w] = task[w] \/ task'[w] = NoTask
  PROVE  OrderInv'
<1>1. \A w \in Worker : \A j \in Job : task'[w].job = j => task'[w] = task[w] /\ task[w] # NoTask
  BY Threads DEF NoTask
<1>2. ASSUME NEW p \in ready'
      PROVE  /\ \A w \in Worker : task'[w].job = p.job => task'[w].page < p.page
             /\ \A n \in finished'[p.job] : n < p.page
  <2>1. p \in ready /\ p.job \in Job BY TaskType
  <2>2. QED BY <1>1, <2>1 DEF OrderInv, PagesStartInOrder
<1>3. ASSUME NEW w \in Worker, task'[w] # NoTask
      PROVE  /\ task'[w].page \notin finished'[task'[w].job]
             /\ \A v \in Worker \ {w} : task'[v] # task'[w]
  <2>1. task'[w] = task[w] /\ task[w] # NoTask /\ task[w].job \in Job BY <1>3, TaskType
  <2>2. task[w].page \notin finished[task[w].job] /\ \A v \in Worker \ {w} : task[v] # task[w]
    BY <2>1 DEF OrderInv, PagesStartInOrder
  <2>3. QED BY <1>3, <2>1, <2>2
<1>4. PagesStartInOrder' BY <1>2, <1>3 DEF PagesStartInOrder
<1>5. \A p \in ready' : p.sequence < nextSequence' BY DEF OrderInv
<1>6. \A p, q \in ready' : p.sequence = q.sequence => p = q BY DEF OrderInv
<1>7. \A p, q \in ready' : p.job = q.job /\ p.sequence < q.sequence => p.page < q.page
  BY DEF OrderInv
<1>8. QED BY <1>4, <1>5, <1>6, <1>7 DEF OrderInv

LEMMA FailPages ==
  ASSUME IInv, NEW j \in Job, NEW why \in Reasons \ {"none"}, Fail(j, why),
         why = "cancelled" => abort \/ Failed(j),
         \A i \in Job \ {j} : Delivered(i)' = Delivered(i),
         Delivered(j) \subseteq Delivered(j)',
         \A w \in Worker : task'[w] = task[w] \/ (task'[w] = NoTask /\ task[w].job = j),
         \A w \in Worker : task'[w] = NoTask <=> worker'[w] \notin {"taken", "process", "failing"}
  PROVE  PageInv' /\ OrderInv'
<1> USE DEF IInv
<1>1. /\ ready' \subseteq ready /\ nextSequence' = nextSequence
      /\ Failed(j)' /\ \A i \in Job \ {j} : Failed(i)' <=> Failed(i)
      /\ finished'[j] = {} /\ \A i \in Job \ {j} : finished'[i] = finished[i]
      /\ \A p \in ready' : p.job # j
      /\ \A p \in ready : p.job # j => p \in ready'
  BY FailEffect
<1>2. \A i \in Job : finished'[i] \subseteq finished[i] BY <1>1
<1>3. OrderInv' BY <1>1, <1>2, FewerOrdered
<1>4. \A i \in Job : \A p \in ready' : p.job = i => p.page \in Delivered(i)' /\ ~Failed(i)'
  BY <1>1 DEF PageInv
<1>5. \A i \in Job : \A w \in Worker : task'[w].job = i => task'[w].page \in Delivered(i)'
  <2>1. NoTask.job \notin Job BY Threads DEF NoTask
  <2>2. QED BY <2>1 DEF PageInv
<1>6. \A i \in Job : finished'[i] \subseteq Delivered(i)' /\ (Failed(i)' => finished'[i] = {})
  BY <1>1 DEF PageInv
<1>7. ASSUME NEW i \in Job, ~Failed(i)', NEW n \in Delivered(i)' PROVE Present(i, n)'
  <2>1. i # j /\ ~Failed(i) /\ n \in Delivered(i) BY <1>1, <1>7
  <2>2. Present(i, n) BY <2>1 DEF PageInv
  <2>3. CASE n \in finished[i] BY <1>1, <2>1, <2>3 DEF Present
  <2>4. ASSUME NEW w \in Worker, task[w] = [job |-> i, page |-> n] PROVE Present(i, n)'
    <3>1. task[w].job = i BY <2>4
    <3>2. task'[w] = task[w] BY <2>1, <3>1
    <3>3. QED BY <2>4, <3>2 DEF Present
  <2>5. ASSUME NEW p \in ready, p.job = i, p.page = n PROVE Present(i, n)'
    <3>1. p \in ready' BY <1>1, <2>1, <2>5
    <3>2. QED BY <2>5, <3>1 DEF Present
  <2>6. QED BY <2>2, <2>3, <2>4, <2>5 DEF Present
<1>8. PageInv' BY <1>4, <1>5, <1>6, <1>7 DEF PageInv
<1>9. QED BY <1>3, <1>8

LEMMA ReportReaderStep ==
  ASSUME IInv, NEW r \in Reader, ReportReader(r)
  PROVE  IInv'
<1> USE DEF IInv
<1>1. /\ reader[r] = "failing" /\ reader' = [reader EXCEPT ![r] = "claim"]
      /\ doc' = [doc EXCEPT ![r] = NoJob] /\ page' = [page EXCEPT ![r] = 1]
      /\ reason' = [reason EXCEPT ![r] = "none"] /\ Fail(doc[r], reason[r])
      /\ UNCHANGED <<main, nextDocument, readersRemaining, worker, task, abort>>
  BY DEF ReportReader, workerVars
<1>2. PICK j \in Job : doc[r] = j BY <1>1, TaskType DEF ClaimInv
<1>3. reason[r] \in Reasons \ {"none"} /\ (reason[r] = "cancelled" => abort \/ Failed(j))
  BY <1>1, <1>2 DEF ReasonInv, TypeInv, Failed
<1>4. PICK why \in Reasons \ {"none"} : reason[r] = why BY <1>3
<1>5. Fail(j, why) /\ (why = "cancelled" => abort \/ Failed(j))
  <2>1. Fail(j, why) BY <1>1, <1>2, <1>4 DEF Fail, Failed
  <2>2. QED BY <1>3, <1>4, <2>1
<1>6. /\ reader'[r] = "claim" /\ \A s \in Reader \ {r} : reader'[s] = reader[s]
      /\ \A s \in Reader \ {r} : doc'[s] = doc[s]
      /\ doc' \in [Reader -> Job \cup {NoJob}] /\ page' \in [Reader -> Nat \ {0}]
      /\ ClaimInv' /\ MainInv' /\ Active' = Active /\ Leavers' = Leavers
      /\ \A i \in Job \ {j} : Delivered(i)' = Delivered(i)
      /\ Delivered(j) \subseteq Delivered(j)'
  BY <1>1, <1>2, LetGo
<1>7. /\ error' \in [Job -> Reasons] /\ finished' \in [Job -> SUBSET Nat]
      /\ ready' \subseteq Pending /\ nextSequence' = nextSequence
      /\ \A i \in Job : Failed(i) => Failed(i)'
      /\ \A i \in Job : error'[i] = "cancelled" => abort
      /\ IsFiniteSet(ready') /\ Cardinality(ready') <= MaxQueuedPages
  BY <1>5, FailEffect
<1>8. TypeInv'
  <2>1. reason' \in [Reader \cup Worker -> Reasons] BY <1>1 DEF TypeInv, Reasons
  <2>2. reader' \in [Reader -> {"absent", "claim", "reading", "failing", "leaving", "done"}]
    BY <1>1 DEF TypeInv
  <2>3. QED BY <1>1, <1>6, <1>7, <2>1, <2>2 DEF TypeInv
<1>9. CountInv' BY <1>1, <1>6, <1>7 DEF CountInv
<1>10. ReasonInv'
  <2>1. \A t \in (Reader \cup Worker) \ {r} : reason'[t] = reason[t] BY <1>1 DEF TypeInv
  <2>2. \A w \in Worker : reason'[w] = reason[w] BY <2>1, Threads
  <2>3. ASSUME NEW s \in Reader, reader'[s] = "failing"
        PROVE  reason'[s] # "none" /\ (reason'[s] = "cancelled" => abort' \/ Failed(doc[s])')
    <3>1. s # r /\ reader[s] = "failing" /\ reason'[s] = reason[s] /\ doc'[s] = doc[s]
      BY <1>6, <2>1, <2>3
    <3>2. doc[s] \in Job BY <3>1, TaskType DEF ClaimInv
    <3>3. error[doc[s]] # "none" => error'[doc[s]] # "none" BY <1>7, <3>2 DEF Failed
    <3>4. reason[s] # "none" /\ (reason[s] = "cancelled" => abort \/ error[doc[s]] # "none")
      BY <3>1 DEF ReasonInv, Failed
    <3>5. QED BY <1>1, <3>1, <3>3, <3>4 DEF Failed
  <2>4. \A w \in Worker : worker'[w] = "failing" => reason'[w] \notin {"none", "cancelled"}
    BY <1>1, <2>2 DEF ReasonInv
  <2>5. QED BY <1>1, <1>7, <2>3, <2>4 DEF ReasonInv
<1>11. PageInv' /\ OrderInv'
  <2>1. \A w \in Worker : task'[w] = task[w] BY <1>1
  <2>2. \A w \in Worker : task'[w] = NoTask <=> worker'[w] \notin {"taken", "process", "failing"}
    BY <1>1 DEF PageInv
  <2>3. QED BY <1>5, <1>6, <2>1, <2>2, FailPages
<1>12. QED BY <1>6, <1>8, <1>9, <1>10, <1>11

-----------------------------------------------------------------------------
(* The steps of the page workers.                                          *)

\* A page worker's step leaves the readers alone.
LEMMA WorkerKept ==
  ASSUME IInv, UNCHANGED <<nextDocument, reader, doc, page, readersRemaining>>
  PROVE  /\ ClaimInv' /\ Active' = Active /\ Leavers' = Leavers
         /\ \A j \in Job : Delivered(j)' = Delivered(j)
<1> USE DEF IInv
<1>1. ClaimInv' BY DEF ClaimInv, Claimed
<1>2. \A j \in Job : Delivered(j)' = Delivered(j) BY DeliveredKept
<1>3. Active' = Active /\ Leavers' = Leavers BY DEF Active, Leavers
<1>4. QED BY <1>1, <1>2, <1>3

LEMMA MainKeptByWorker ==
  ASSUME MainInv, NEW w \in Worker, worker[w] \notin {"absent", "done"},
         worker'[w] \notin {"absent", "done"},
         \A v \in Worker \ {w} : worker'[v] = worker[v],
         ready' \subseteq ready, UNCHANGED <<main, reader, abort>>
  PROVE  MainInv'
<1>1. main # "returned" BY DEF MainInv
<1>2. \A v \in Worker : worker'[v] = "done" => worker[v] = "done" OBVIOUS
<1>3. \A v \in Worker : worker[v] # "absent" => worker'[v] # "absent" OBVIOUS
<1>4. QED BY <1>1, <1>2, <1>3 DEF MainInv

LEMMA ReportWorkerStep ==
  ASSUME IInv, NEW w \in Worker, ReportWorker(w)
  PROVE  IInv'
<1> USE DEF IInv
<1>1. /\ worker[w] = "failing" /\ worker' = [worker EXCEPT ![w] = "look"]
      /\ task' = [task EXCEPT ![w] = NoTask]
      /\ reason' = [reason EXCEPT ![w] = "none"] /\ Fail(task[w].job, reason[w])
      /\ UNCHANGED <<main, nextDocument, reader, doc, page, readersRemaining, abort>>
  BY DEF ReportWorker, readerVars
<1>2. PICK j \in Job : task[w].job = j
  <2>1. task[w] # NoTask BY <1>1 DEF PageInv
  <2>2. QED BY <2>1, TaskType
<1>3. PICK why \in Reasons \ {"none"} : reason[w] = why /\ why # "cancelled"
  BY <1>1 DEF ReasonInv, TypeInv
<1>4. Fail(j, why) BY <1>1, <1>2, <1>3 DEF Fail, Failed
<1>5. /\ worker'[w] = "look" /\ \A v \in Worker \ {w} : worker'[v] = worker[v]
      /\ task'[w] = NoTask /\ \A v \in Worker \ {w} : task'[v] = task[v]
      /\ \A t \in (Reader \cup Worker) \ {w} : reason'[t] = reason[t]
  BY <1>1 DEF TypeInv
<1>6. /\ ClaimInv' /\ Active' = Active /\ Leavers' = Leavers
      /\ \A i \in Job : Delivered(i)' = Delivered(i)
  BY <1>1, WorkerKept
<1>7. /\ error' \in [Job -> Reasons] /\ finished' \in [Job -> SUBSET Nat]
      /\ ready' \subseteq Pending /\ ready' \subseteq ready /\ nextSequence' = nextSequence
      /\ \A i \in Job : Failed(i) => Failed(i)'
      /\ \A i \in Job : error'[i] = "cancelled" => abort
      /\ IsFiniteSet(ready') /\ Cardinality(ready') <= MaxQueuedPages
  BY <1>3, <1>4, FailEffect
<1>8. TypeInv'
  <2>1. reason' \in [Reader \cup Worker -> Reasons] BY <1>1 DEF TypeInv, Reasons
  <2>2. task' \in [Worker -> Task \cup {NoTask}] BY <1>1 DEF TypeInv
  <2>3. worker' \in [Worker -> {"absent", "look", "taken", "process", "failing", "done"}]
    BY <1>1 DEF TypeInv
  <2>4. QED BY <1>1, <1>7, <2>1, <2>2, <2>3 DEF TypeInv
<1>9. CountInv' BY <1>1, <1>6, <1>7 DEF CountInv
<1>10. MainInv' BY <1>1, <1>5, <1>7, MainKeptByWorker
<1>11. ReasonInv'
  <2>1. \A s \in Reader : reason'[s] = reason[s] BY <1>5, Threads
  <2>2. ASSUME NEW s \in Reader, reader'[s] = "failing"
        PROVE  reason'[s] # "none" /\ (reason'[s] = "cancelled" => abort' \/ Failed(doc[s])')
    <3>1. reader[s] = "failing" /\ reason'[s] = reason[s] /\ doc'[s] = doc[s] BY <1>1, <2>1, <2>2
    <3>2. doc[s] \in Job BY <3>1, TaskType DEF ClaimInv
    <3>3. error[doc[s]] # "none" => error'[doc[s]] # "none" BY <1>7, <3>2 DEF Failed
    <3>4. reason[s] # "none" /\ (reason[s] = "cancelled" => abort \/ error[doc[s]] # "none")
      BY <3>1 DEF ReasonInv, Failed
    <3>5. QED BY <1>1, <3>1, <3>3, <3>4 DEF Failed
  <2>3. \A v \in Worker : worker'[v] = "failing" => reason'[v] \notin {"none", "cancelled"}
    BY <1>5 DEF ReasonInv
  <2>4. QED BY <1>1, <1>7, <2>2, <2>3 DEF ReasonInv
<1>12. PageInv' /\ OrderInv'
  <2>1. \A v \in Worker : task'[v] = task[v] \/ (task'[v] = NoTask /\ task[v].job = j)
    BY <1>2, <1>5
  <2>2. \A v \in Worker : task'[v] = NoTask <=> worker'[v] \notin {"taken", "process", "failing"}
    BY <1>5 DEF PageInv
  <2>3. QED BY <1>3, <1>4, <1>6, <2>1, <2>2, FailPages
<1>13. QED BY <1>6, <1>8, <1>9, <1>10, <1>11, <1>12

LEMMA WorkerLeavesStep ==
  ASSUME IInv, NEW w \in Worker, WorkerLeaves(w)
  PROVE  IInv'
<1> USE DEF IInv
<1>1. /\ worker[w] = "look" /\ worker' = [worker EXCEPT ![w] = "done"]
      /\ abort \/ (ready = {} /\ readersRemaining = 0)
      /\ UNCHANGED <<main, nextDocument, reader, doc, page, readersRemaining, task, reason, ready,
                     nextSequence, error, finished, abort>>
  BY DEF WorkerLeaves, readerVars, queueVars
<1>2. worker'[w] = "done" /\ \A v \in Worker \ {w} : worker'[v] = worker[v]
  BY <1>1 DEF TypeInv
<1>3. /\ ClaimInv' /\ Active' = Active /\ Leavers' = Leavers BY <1>1, WorkerKept
<1>4. TypeInv' BY <1>1 DEF TypeInv
<1>5. CountInv' BY <1>1, <1>3 DEF CountInv
<1>6. MainInv'
  <2>1. ~abort => ready = {} /\ \A r \in Reader : reader[r] = "done"
    <3>1. IsFiniteSet(Active) BY Threads DEF Active
    <3>2. ~abort => Active = {} BY <1>1, <3>1, FS_EmptySet DEF CountInv
    <3>3. QED BY <1>1, <3>2 DEF Active
  <2>2. \A v \in Worker : worker'[v] = "done" /\ ~abort => v = w \/ worker[v] = "done" BY <1>2
  <2>3. \A v \in Worker : worker'[v] = "done" /\ ~abort' =>
          ready' = {} /\ \A r \in Reader : reader'[r] = "done"
    BY <1>1, <2>1, <2>2 DEF MainInv
  <2>4. main = "returned" => \A v \in Worker : worker'[v] \in {"absent", "done"}
    BY <1>2 DEF MainInv
  <2>5. main \in {"joining", "returned"} =>
          /\ \A v \in Worker : worker'[v] # "absent"
          /\ \A r \in Reader : reader[r] # "absent"
    BY <1>2 DEF MainInv
  <2>6. QED BY <1>1, <2>3, <2>4, <2>5 DEF MainInv
<1>7. ReasonInv' BY <1>1, <1>2, ReasonKept
<1>8. PageInv'
  <2>1. \A v \in Worker : (worker'[v] \in {"taken", "process", "failing"})
                            <=> (worker[v] \in {"taken", "process", "failing"})
    BY <1>1, <1>2
  <2>2. QED BY <1>1, <2>1, PageKept
<1>9. OrderInv' BY <1>1, OrderKept
<1>10. QED BY <1>3, <1>4, <1>5, <1>6, <1>7, <1>8, <1>9

\* A page of a document that has not failed goes on, another is dropped.
LEMMA KeepTaskStep ==
  ASSUME IInv, NEW w \in Worker, PageFails(w) \/ (CheckTask(w) /\ ~Failed(task[w].job))
  PROVE  IInv'
<1> USE DEF IInv
<1>1. PICK x \in {"process", "failing"} :
        /\ worker[w] \in {"taken", "process"} /\ worker' = [worker EXCEPT ![w] = x]
        /\ x = "failing" => reason' = [reason EXCEPT ![w] = "page"]
        /\ x = "process" => reason' = reason
  BY DEF PageFails, CheckTask
<1>2. UNCHANGED <<main, nextDocument, reader, doc, page, readersRemaining, task, ready,
                  nextSequence, error, finished, abort>>
  BY DEF PageFails, CheckTask, readerVars, queueVars
<1>3. worker'[w] = x /\ \A v \in Worker \ {w} : worker'[v] = worker[v]
  BY <1>1 DEF TypeInv
<1>4. /\ reason' \in [Reader \cup Worker -> Reasons]
      /\ x = "failing" => reason'[w] = "page"
      /\ \A t \in (Reader \cup Worker) \ {w} : reason'[t] = reason[t]
  BY <1>1 DEF TypeInv, Reasons
<1>5. TypeInv'
  <2>1. worker' \in [Worker -> {"absent", "look", "taken", "process", "failing", "done"}]
    BY <1>1 DEF TypeInv
  <2>2. QED BY <1>2, <1>4, <2>1 DEF TypeInv
<1>6. /\ ClaimInv' /\ Active' = Active /\ Leavers' = Leavers BY <1>2, WorkerKept
<1>7. CountInv' BY <1>2, <1>6 DEF CountInv
<1>8. MainInv' BY <1>1, <1>2, <1>3, MainKeptByWorker
<1>9. ReasonInv'
  <2>1. \A s \in Reader : reason'[s] = reason[s] BY <1>4, Threads
  <2>2. \A s \in Reader : reader'[s] = "failing" =>
          reason'[s] # "none" /\ (reason'[s] = "cancelled" => abort' \/ Failed(doc[s])')
    BY <1>2, <2>1 DEF ReasonInv, Failed
  <2>3. \A v \in Worker : worker'[v] = "failing" => reason'[v] \notin {"none", "cancelled"}
    BY <1>3, <1>4 DEF ReasonInv
  <2>4. QED BY <1>2, <2>2, <2>3 DEF ReasonInv
<1>10. PageInv'
  <2>1. \A v \in Worker : (worker'[v] \in {"taken", "process", "failing"})
                            <=> (worker[v] \in {"taken", "process", "failing"})
    BY <1>1, <1>3
  <2>2. QED BY <1>2, <2>1, PageKept
<1>11. OrderInv' BY <1>2, OrderKept
<1>12. QED BY <1>5, <1>6, <1>7, <1>8, <1>9, <1>10, <1>11

\* The worker is done with its page, which is finished unless its document
\* has failed.
LEMMA DropTaskStep ==
  ASSUME IInv, NEW w \in Worker, PageDone(w) \/ (CheckTask(w) /\ Failed(task[w].job))
  PROVE  IInv'
<1> USE DEF IInv
<1>1. /\ worker[w] \in {"taken", "process"} /\ worker' = [worker EXCEPT ![w] = "look"]
      /\ task' = [task EXCEPT ![w] = NoTask]
      /\ UNCHANGED <<main, nextDocument, reader, doc, page, readersRemaining, reason, ready,
                     nextSequence, error, abort>>
  BY DEF PageDone, CheckTask, readerVars, queueVars
<1>2. PICK j \in Job, m \in Nat \ {0} : task[w] = [job |-> j, page |-> m]
  <2>1. task[w] # NoTask BY <1>1 DEF PageInv
  <2>2. QED BY <2>1, TaskType
<1>3. task[w].job = j /\ task[w].page = m /\ task[w] # NoTask BY <1>2, Threads DEF NoTask
<1>4. finished' = IF Failed(j) THEN finished ELSE [finished EXCEPT ![j] = @ \cup {m}]
  BY <1>3 DEF PageDone, CheckTask, queueVars, Failed
<1>5. /\ \A i \in Job \ {j} : finished'[i] = finished[i]
      /\ finished'[j] = IF Failed(j) THEN {} ELSE finished[j] \cup {m}
      /\ finished' \in [Job -> SUBSET Nat]
  <2>1. CASE Failed(j) BY <1>4, <2>1 DEF TypeInv, PageInv
  <2>2. CASE ~Failed(j) BY <1>4, <2>2 DEF TypeInv
  <2>3. QED BY <2>1, <2>2
<1>6. /\ worker'[w] = "look" /\ \A v \in Worker \ {w} : worker'[v] = worker[v]
      /\ task'[w] = NoTask /\ \A v \in Worker \ {w} : task'[v] = task[v]
  BY <1>1 DEF TypeInv
<1>7. /\ ClaimInv' /\ Active' = Active /\ Leavers' = Leavers
      /\ \A i \in Job : Delivered(i)' = Delivered(i)
  BY <1>1, WorkerKept
<1>8. m \in Delivered(j) BY <1>3 DEF PageInv
<1>9. TypeInv'
  <2>1. worker' \in [Worker -> {"absent", "look", "taken", "process", "failing", "done"}]
    BY <1>1 DEF TypeInv
  <2>2. task' \in [Worker -> Task \cup {NoTask}] BY <1>1 DEF TypeInv
  <2>3. QED BY <1>1, <1>5, <2>1, <2>2 DEF TypeInv
<1>10. CountInv' BY <1>1, <1>7 DEF CountInv
<1>11. MainInv' BY <1>1, <1>6, MainKeptByWorker
<1>12. ReasonInv'
  <2>1. \A v \in Worker : worker'[v] = "failing" => worker[v] = "failing" BY <1>6
  <2>2. QED BY <1>1, <2>1, ReasonKept
<1>13. PageInv'
  <2>1. \A i \in Job : Failed(i)' <=> Failed(i) BY <1>1 DEF Failed
  <2>2. \A v \in Worker : task'[v] = NoTask <=> worker'[v] \notin {"taken", "process", "failing"}
    BY <1>6 DEF PageInv
  <2>3. \A i \in Job : \A p \in ready' : p.job = i => p.page \in Delivered(i)' /\ ~Failed(i)'
    BY <1>1, <1>7, <2>1 DEF PageInv
  <2>4. \A i \in Job : \A v \in Worker : task'[v].job = i => task'[v].page \in Delivered(i)'
    <3>1. NoTask.job \notin Job BY Threads DEF NoTask
    <3>2. QED BY <1>6, <1>7, <3>1 DEF PageInv
  <2>5. \A i \in Job : finished'[i] \subseteq Delivered(i)' /\ (Failed(i)' => finished'[i] = {})
    BY <1>5, <1>7, <1>8, <2>1 DEF PageInv
  <2>6. ASSUME NEW i \in Job, ~Failed(i)', NEW n \in Delivered(i)' PROVE Present(i, n)'
    <3>1. ~Failed(i) /\ n \in Delivered(i) BY <1>7, <2>1, <2>6
    <3>2. Present(i, n) BY <3>1 DEF PageInv
    <3>3. CASE n \in finished[i]
      <4>1. n \in finished'[i] BY <1>5, <3>1, <3>3
      <4>2. QED BY <4>1 DEF Present
    <3>4. ASSUME NEW v \in Worker, task[v] = [job |-> i, page |-> n] PROVE Present(i, n)'
      <4>1. CASE v = w
        <5>1. i = j /\ n = m BY <1>3, <3>4, <4>1
        <5>2. n \in finished'[i] BY <1>5, <3>1, <5>1
        <5>3. QED BY <5>2 DEF Present
      <4>2. CASE v # w BY <1>6, <3>4, <4>2 DEF Present
      <4>3. QED BY <4>1, <4>2
    <3>5. CASE \E p \in ready : p.job = i /\ p.page = n BY <1>1, <3>5 DEF Present
    <3>6. QED BY <3>2, <3>3, <3>4, <3>5 DEF Present
  <2>7. QED BY <2>2, <2>3, <2>4, <2>5, <2>6 DEF PageInv
<1>14. OrderInv'
  <2>1. ASSUME NEW p \in ready
        PROVE  /\ \A v \in Worker : task'[v].job = p.job => task'[v].page < p.page
               /\ \A n \in finished'[p.job] : n < p.page
    <3>1. p.job \in Job /\ NoTask.job \notin Job BY TaskType, Threads DEF NoTask
    <3>2. \A v \in Worker : task[v].job = p.job => task[v].page < p.page
      BY DEF OrderInv, PagesStartInOrder
    <3>3. \A n \in finished[p.job] : n < p.page BY DEF OrderInv, PagesStartInOrder
    <3>4. p.job = j => m < p.page BY <1>3, <3>2
    <3>5. \A n \in finished'[p.job] : n \in finished[p.job] \/ (p.job = j /\ n = m)
      BY <1>5, <3>1
    <3>6. QED BY <1>6, <3>1, <3>2, <3>3, <3>4, <3>5
  <2>2. ASSUME NEW v \in Worker, task'[v] # NoTask
        PROVE  /\ task'[v].page \notin finished'[task'[v].job]
               /\ \A u \in Worker \ {v} : task'[u] # task'[v]
    <3>1. v # w /\ task'[v] = task[v] /\ task[v] # NoTask BY <1>6, <2>2
    <3>2. /\ task[v].job \in Job /\ task[v] = [job |-> task[v].job, page |-> task[v].page]
      BY <3>1, TaskType
    <3>3. /\ task[v].page \notin finished[task[v].job] /\ task[w] # task[v]
          /\ \A u \in Worker \ {v} : task[u] # task[v]
      BY <3>1 DEF OrderInv, PagesStartInOrder
    <3>4. ~(task[v].job = j /\ task[v].page = m) BY <1>2, <3>2, <3>3
    <3>5. task[v].page \notin finished'[task[v].job] BY <1>5, <3>2, <3>3, <3>4
    <3>6. \A u \in Worker \ {v} : task'[u] # task[v] BY <1>6, <3>1, <3>3
    <3>7. QED BY <3>1, <3>5, <3>6
  <2>3. PagesStartInOrder' BY <1>1, <2>1, <2>2 DEF PagesStartInOrder
  <2>4. QED BY <1>1, <2>3 DEF OrderInv
<1>15. QED BY <1>7, <1>9, <1>10, <1>11, <1>12, <1>13, <1>14

\* The page taken comes before its document's others in the queue.
LEMMA TakePageStep ==
  ASSUME IInv, NEW w \in Worker, TakePage(w)
  PROVE  IInv'
<1> USE DEF IInv
<1>1. PICK p \in ready : /\ Chosen(p) /\ ready' = ready \ {p}
                         /\ task' = [task EXCEPT ![w] = [job |-> p.job, page |-> p.page]]
  BY DEF TakePage
<1>2. /\ worker[w] = "look" /\ ~abort /\ worker' = [worker EXCEPT ![w] = "taken"]
      /\ UNCHANGED <<main, nextDocument, reader, doc, page, readersRemaining, reason,
                     nextSequence, error, finished, abort>>
  BY DEF TakePage, readerVars
<1>3. PICK j \in Job, m \in Nat \ {0} : p.job = j /\ p.page = m BY <1>1, TaskType
<1> DEFINE new == [job |-> j, page |-> m]
<1>4. new.job = j /\ new.page = m /\ new \in Task /\ new # NoTask BY NoTaskApart
<1>5. /\ worker'[w] = "taken" /\ \A v \in Worker \ {w} : worker'[v] = worker[v]
      /\ task'[w] = new /\ \A v \in Worker \ {w} : task'[v] = task[v]
      /\ task' = [task EXCEPT ![w] = new]
  BY <1>1, <1>2, <1>3 DEF TypeInv
<1>6. new = [job |-> j, page |-> m] OBVIOUS
<1> HIDE DEF new
<1>7. /\ ClaimInv' /\ Active' = Active /\ Leavers' = Leavers
      /\ \A i \in Job : Delivered(i)' = Delivered(i)
  BY <1>2, WorkerKept
<1>8. m \in Delivered(j) /\ ~Failed(j) BY <1>3 DEF PageInv
<1>9. ready' \subseteq ready BY <1>1
<1>10. TypeInv'
  <2>1. worker' \in [Worker -> {"absent", "look", "taken", "process", "failing", "done"}]
    BY <1>2 DEF TypeInv
  <2>2. task' \in [Worker -> Task \cup {NoTask}] BY <1>4, <1>5 DEF TypeInv
  <2>3. ready' \subseteq Pending BY <1>9 DEF TypeInv
  <2>4. QED BY <1>2, <2>1, <2>2, <2>3 DEF TypeInv
<1>11. CountInv'
  <2>1. /\ IsFiniteSet(ready) /\ Cardinality(ready) \in Nat /\ Cardinality(ready) <= MaxQueuedPages
        /\ MaxQueuedPages \in Nat
    BY FS_CardinalityType, Threads DEF CountInv
  <2>2. IsFiniteSet(ready') /\ Cardinality(ready') <= Cardinality(ready)
    BY <1>9, <2>1, FS_Subset
  <2>3. Cardinality(ready') \in Nat BY <2>2, FS_CardinalityType
  <2>4. Cardinality(ready') <= MaxQueuedPages BY <2>1, <2>2, <2>3
  <2>5. QED BY <1>2, <1>7, <2>2, <2>4 DEF CountInv
<1>12. MainInv' BY <1>2, <1>5, <1>9, MainKeptByWorker
<1>13. ReasonInv'
  <2>1. \A v \in Worker : worker'[v] = "failing" => worker[v] = "failing" BY <1>5
  <2>2. QED BY <1>2, <2>1, ReasonKept
<1>14. PageInv'
  <2>1. \A i \in Job : (Failed(i)' <=> Failed(i)) /\ finished'[i] = finished[i]
    BY <1>2 DEF Failed
  <2>2. \A v \in Worker : task'[v] = NoTask <=> worker'[v] \notin {"taken", "process", "failing"}
    BY <1>4, <1>5 DEF PageInv
  <2>3. \A i \in Job : \A q \in ready' : q.job = i => q.page \in Delivered(i)' /\ ~Failed(i)'
    BY <1>7, <1>9, <2>1 DEF PageInv
  <2>4. \A i \in Job : \A v \in Worker : task'[v].job = i => task'[v].page \in Delivered(i)'
    BY <1>4, <1>5, <1>7, <1>8 DEF PageInv
  <2>5. \A i \in Job : finished'[i] \subseteq Delivered(i)' /\ (Failed(i)' => finished'[i] = {})
    BY <1>7, <2>1 DEF PageInv
  <2>6. ASSUME NEW i \in Job, ~Failed(i)', NEW n \in Delivered(i)' PROVE Present(i, n)'
    <3>1. Present(i, n) BY <1>7, <2>1, <2>6 DEF PageInv
    <3>2. CASE n \in finished[i] BY <2>1, <3>2 DEF Present
    <3>3. ASSUME NEW v \in Worker, task[v] = [job |-> i, page |-> n] PROVE Present(i, n)'
      <4>1. task[v] # NoTask
        <5>1. task[v].job = i BY <3>3
        <5>2. QED BY <5>1, Threads DEF NoTask
      <4>2. task[w] = NoTask BY <1>2 DEF PageInv
      <4>3. task'[v] = task[v] BY <1>5, <4>1, <4>2
      <4>4. QED BY <3>3, <4>3 DEF Present
    <3>4. ASSUME NEW q \in ready, q.job = i, q.page = n PROVE Present(i, n)'
      <4>1. CASE q = p
        <5>1. task'[w] = [job |-> i, page |-> n] BY <1>3, <1>5, <1>6, <3>4, <4>1
        <5>2. QED BY <5>1 DEF Present
      <4>2. CASE q # p
        <5>1. q \in ready' BY <1>1, <4>2
        <5>2. QED BY <3>4, <5>1 DEF Present
      <4>3. QED BY <4>1, <4>2
    <3>5. QED BY <3>1, <3>2, <3>3, <3>4 DEF Present
  <2>7. QED BY <2>2, <2>3, <2>4, <2>5, <2>6 DEF PageInv
<1>15. OrderInv'
  <2>1. ASSUME NEW q \in ready', q.job = j PROVE m < q.page
    <3>1. q \in ready /\ q # p BY <1>1, <2>1
    <3>2. q.sequence \in Nat /\ p.sequence \in Nat BY <3>1, TaskType
    <3>3. Priority[q.job] = Priority[p.job] /\ Priority[p.job] \in Int
      BY <1>3, <2>1, BatchAssumption
    <3>4. q.sequence >= p.sequence BY <1>1, <3>1, <3>3 DEF Chosen
    <3>5. q.sequence # p.sequence BY <3>1 DEF OrderInv
    <3>6. p.sequence < q.sequence BY <3>2, <3>4, <3>5
    <3>7. QED BY <1>3, <2>1, <3>1, <3>6 DEF OrderInv
  <2>2. \A q \in ready' : /\ \A v \in Worker : task'[v].job = q.job => task'[v].page < q.page
                          /\ \A n \in finished'[q.job] : n < q.page
    BY <1>2, <1>4, <1>5, <1>9, <2>1 DEF OrderInv, PagesStartInOrder
  <2>3. ASSUME NEW v \in Worker, task'[v] # NoTask
        PROVE  /\ task'[v].page \notin finished'[task'[v].job]
               /\ \A u \in Worker \ {v} : task'[u] # task'[v]
    <3>1. m \notin finished[j]
      <4>1. \A n \in finished[j] : n < m BY <1>3 DEF OrderInv, PagesStartInOrder
      <4>2. QED BY <4>1
    <3>2. \A u \in Worker \ {w} : task[u] # new
      <4>1. \A u \in Worker : task[u].job = j => task[u].page < m
        BY <1>3 DEF OrderInv, PagesStartInOrder
      <4>2. QED BY <1>4, <4>1
    <3>3. CASE v = w BY <1>2, <1>4, <1>5, <3>1, <3>2, <3>3
    <3>4. CASE v # w
      <4>1. task'[v] = task[v] /\ task[v] # NoTask BY <1>5, <2>3, <3>4
      <4>2. task[v].page \notin finished[task[v].job] /\ \A u \in Worker \ {v} : task[u] # task[v]
        BY <4>1 DEF OrderInv, PagesStartInOrder
      <4>3. QED BY <1>2, <1>5, <3>2, <3>4, <4>1, <4>2
    <3>5. QED BY <3>3, <3>4
  <2>4. PagesStartInOrder' BY <2>2, <2>3 DEF PagesStartInOrder
  <2>5. QED BY <1>2, <1>9, <2>4 DEF OrderInv
<1>16. QED BY <1>7, <1>10, <1>11, <1>12, <1>13, <1>14, <1>15

-----------------------------------------------------------------------------
(* The theorems.                                                           *)

LEMMA InitInv ==
  ASSUME Init
  PROVE  IInv
<1>1. TypeInv
  <2>1. ready \subseteq Pending /\ nextSequence \in Nat /\ nextDocument \in Nat \ {0}
    BY DEF Init
  <2>2. readersRemaining \in Int BY Threads DEF Init
  <2>3. abort \in BOOLEAN BY Zenon DEF Init
  <2>4. page \in [Reader -> Nat \ {0}] /\ doc \in [Reader -> Job \cup {NoJob}] BY DEF Init
  <2>5. finished \in [Job -> SUBSET Nat] BY DEF Init
  <2>6. reason \in [Reader \cup Worker -> Reasons] /\ error \in [Job -> Reasons]
    BY DEF Init, Reasons
  <2>7. /\ main \in {"starting", "aborting", "joining", "returned", "threw"}
        /\ reader \in [Reader -> {"absent", "claim", "reading", "failing", "leaving", "done"}]
        /\ worker \in [Worker -> {"absent", "look", "taken", "process", "failing", "done"}]
        /\ task \in [Worker -> Task \cup {NoTask}]
    BY DEF Init
  <2>8. QED BY <2>1, <2>2, <2>3, <2>4, <2>5, <2>6, <2>7 DEF TypeInv
<1>2. ClaimInv BY Threads DEF Init, ClaimInv
<1>3. CountInv
  <2>1. Active = Reader /\ Leavers = {} BY DEF Init, Active, Leavers
  <2>2. QED BY <2>1, Orders, Threads, FS_EmptySet DEF Init, CountInv
<1>4. MainInv BY DEF Init, MainInv
<1>5. ReasonInv BY DEF Init, ReasonInv
<1>6. PageInv
  <2>1. \A j \in Job : Delivered(j) = {}
    <3>1. \A j \in Job : ~Claimed(j) BY DEF Init, Claimed, Positions
    <3>2. QED BY <3>1 DEF Delivered
  <2>2. \A w \in Worker : task[w] = NoTask /\ worker[w] = "absent" BY DEF Init
  <2>3. NoTask.job \notin Job BY Threads DEF NoTask
  <2>4. ready = {} /\ \A j \in Job : finished[j] = {} BY DEF Init
  <2>5. QED BY <2>1, <2>2, <2>3, <2>4 DEF PageInv
<1>7. OrderInv BY DEF Init, OrderInv, PagesStartInOrder
<1>8. QED BY <1>1, <1>2, <1>3, <1>4, <1>5, <1>6, <1>7 DEF IInv

LEMMA Invariance == Spec => []IInv
<1>1. Init => IInv BY InitInv
<1>2. IInv /\ [Next]_vars => IInv'
  <2> SUFFICES ASSUME IInv, [Next]_vars PROVE IInv' OBVIOUS
  <2>1. CASE (\E w \in Worker : StartWorker(w)) \/ (\E r \in Reader : StartReader(r))
    BY <2>1, StartThreads
  <2>2. CASE StartFails \/ Started \/ Joined \/ UNCHANGED vars BY <2>2, MainSteps
  <2>3. ASSUME NEW r \in Reader, ReaderStep(r) \/ ReadFails(r) PROVE IInv'
    <3>1. CASE Claim(r)
      <4>1. nextDocument <= Len(InputOrder) \/ nextDocument > Len(InputOrder)
        BY Orders DEF IInv, TypeInv
      <4>2. QED BY <3>1, <4>1, ClaimStep, NoMoreDocuments
    <3>2. CASE Deliver(r) BY <3>2, DeliverStep
    <3>3. CASE DeliveryCancelled(r) \/ ReadFails(r) BY <3>3, GiveUpStep
    <3>4. CASE ReadEnds(r) BY <3>4, ReadEndsStep
    <3>5. CASE ReportReader(r) BY <3>5, ReportReaderStep
    <3>6. CASE ReaderLeaves(r) BY <3>6, LeaveStep
    <3>7. QED BY <2>3, <3>1, <3>2, <3>3, <3>4, <3>5, <3>6 DEF ReaderStep
  <2>4. ASSUME NEW w \in Worker, WorkerStep(w) \/ PageFails(w) PROVE IInv'
    <3>1. CASE TakePage(w) BY <3>1, TakePageStep
    <3>2. CASE WorkerLeaves(w) BY <3>2, WorkerLeavesStep
    <3>3. CASE CheckTask(w) BY <3>3, KeepTaskStep, DropTaskStep
    <3>4. CASE PageDone(w) BY <3>4, DropTaskStep
    <3>5. CASE ReportWorker(w) BY <3>5, ReportWorkerStep
    <3>6. CASE PageFails(w) BY <3>6, KeepTaskStep
    <3>7. QED BY <2>4, <3>1, <3>2, <3>3, <3>4, <3>5, <3>6 DEF WorkerStep
  <2>5. QED BY <2>1, <2>2, <2>3, <2>4 DEF Next, MainStep
<1>3. QED BY <1>1, <1>2, PTL DEF Spec

LEMMA InvTypes ==
  ASSUME IInv
  PROVE  TypeOK
<1> USE DEF IInv
<1>1. readersRemaining \in 0 .. Cardinality(Reader)
  <2>1. Cardinality(Active) \in Nat /\ Cardinality(Active) <= Cardinality(Reader)
    BY Threads DEF Active
  <2>2. QED BY <2>1, Threads DEF CountInv
<1>2. nextDocument \in 1 .. Len(InputOrder) + Cardinality(Reader) + 1
  <2>1. Cardinality(Leavers) \in Nat /\ Cardinality(Leavers) <= Cardinality(Reader)
    BY Threads DEF Leavers
  <2>2. nextDocument \in Nat \ {0} BY DEF TypeInv
  <2>3. QED BY <2>1, <2>2, Orders, Threads DEF CountInv
<1>3. page \in [Reader -> Nat] BY DEF TypeInv
<1>4. QED BY <1>1, <1>2, <1>3 DEF TypeInv, CountInv, TypeOK

(* The variables of run_batch keep their types, and at most                *)
(* max_queued_pages images wait, for any documents and threads.            *)
THEOREM QueueStaysBounded == Spec => []TypeOK
<1>1. IInv => TypeOK BY InvTypes
<1>2. QED BY <1>1, Invariance, PTL

\* When run_batch() returns, every page was delivered and none is left.
LEMMA ReturnedComplete ==
  ASSUME IInv, main = "returned", NEW j \in Job, ~Failed(j)
  PROVE  finished[j] = 1 .. Pages[j]
<1> USE DEF IInv
<1>1. ~abort BY DEF MainInv
<1>2. PICK w \in Worker : TRUE BY Threads
<1>3. worker[w] = "done" BY DEF MainInv
<1>4. ready = {} /\ \A r \in Reader : reader[r] = "done" BY <1>1, <1>3 DEF MainInv
<1>5. PICK r \in Reader : TRUE BY Threads
<1>6. nextDocument > Len(InputOrder) BY <1>4, <1>5 DEF ClaimInv
<1>7. Claimed(j)
  <2>1. PICK k \in Positions : InputOrder[k] = j BY Orders
  <2>2. k < nextDocument BY <1>6, <2>1, Orders DEF Positions, TypeInv
  <2>3. QED BY <2>1, <2>2 DEF Claimed
<1>8. \A s \in Reader : doc[s] # j BY <1>4, Threads DEF ClaimInv
<1>9. Delivered(j) = 1 .. Pages[j] BY <1>7, <1>8 DEF Delivered
<1>10. \A v \in Worker : \A n : task[v] # [job |-> j, page |-> n]
  <2>1. \A v \in Worker : worker[v] = "done" \/ worker[v] = "absent" BY DEF MainInv
  <2>2. \A v \in Worker : task[v] = NoTask BY <2>1 DEF PageInv
  <2>3. QED BY <2>2, Threads DEF NoTask
<1>11. ASSUME NEW n \in Delivered(j) PROVE n \in finished[j]
  <2>1. Present(j, n) BY DEF PageInv
  <2>2. QED BY <1>4, <1>10, <2>1 DEF Present
<1>12. QED BY <1>9, <1>11 DEF PageInv

LEMMA InvLocal ==
  ASSUME IInv
  PROVE  FailuresStayLocal
<1> USE DEF IInv
<1>1. ASSUME NEW j \in Job, main = "returned"
      PROVE  (Failed(j) \/ finished[j] = 1 .. Pages[j]) /\ error[j] # "cancelled"
  <2>1. ~abort BY <1>1 DEF MainInv
  <2>2. error[j] # "cancelled" BY <2>1 DEF ReasonInv
  <2>3. Failed(j) \/ finished[j] = 1 .. Pages[j] BY <1>1, ReturnedComplete
  <2>4. QED BY <2>2, <2>3
<1>2. \A j \in Job : Failed(j) => finished[j] = {} /\ \A p \in ready : p.job # j
  BY DEF PageInv
<1>3. QED BY <1>1, <1>2 DEF FailuresStayLocal

(* A document that fails keeps nothing in memory from then on and is       *)
(* reported with its own error, never with the cancellation of its reader  *)
(* that follows, and when run_batch returns every other document has all   *)
(* its pages, for any documents, threads and bound of the queue.           *)
THEOREM OtherDocumentsComplete == Spec => []FailuresStayLocal
<1>1. IInv => FailuresStayLocal BY InvLocal
<1>2. QED BY <1>1, Invariance, PTL

(* The pages of a document are started in order and each once, whichever   *)
(* readers and workers handle it, so "duplicate page number"               *)
(* (batch.cpp:151) is never thrown.                                        *)
THEOREM PagesInOrder == Spec => []PagesStartInOrder
<1>1. IInv => PagesStartInOrder BY DEF IInv, OrderInv
<1>2. QED BY <1>1, Invariance, PTL
=============================================================================

------------------------------- MODULE RunBatch -------------------------------
(***************************************************************************)
(* Pipeline::run_batch (src/batch.cpp): a batch of documents given at      *)
(* once.  Readers claim documents by priority and put their pages into a   *)
(* bounded queue; page workers take the ready page of highest priority; a  *)
(* document that fails is dropped while the others go on.                  *)
(*                                                                         *)
(* One action is one critical section of `mutex', or a step outside it.    *)
(* process_page is one step here: BoxPage looks into it.  A page is an     *)
(* image, so the queue's bound is the batch's bound on memory.             *)
(*                                                                         *)
(* An operator Buggy... is its neighbour with a plausible mistake, and is  *)
(* not used (see README.md).                                               *)
(***************************************************************************)
EXTENDS Integers, FiniteSets, Sequences

CONSTANTS
  Job, NoJob,
  Pages,                   \* how many pages each document has
  Priority,                \* BatchJob::priority
  InputOrder,              \* the jobs by descending priority: input_order
  Reader, Worker,          \* reader_count and page_workers threads
  MaxQueuedPages           \* max_queued_pages

ASSUME BatchAssumption ==
  /\ IsFiniteSet(Job) /\ NoJob \notin Job
  /\ Pages \in [Job -> Nat] /\ Priority \in [Job -> Int]
  /\ InputOrder \in Seq(Job) /\ Len(InputOrder) = Cardinality(Job)
  /\ \A j \in Job : \E k \in DOMAIN InputOrder : InputOrder[k] = j
  /\ \A k, m \in DOMAIN InputOrder :
       k < m => Priority[InputOrder[k]] >= Priority[InputOrder[m]]
  /\ IsFiniteSet(Reader) /\ Reader # {} /\ Cardinality(Reader) <= Cardinality(Job)
  /\ IsFiniteSet(Worker) /\ Worker # {} /\ Reader \cap Worker = {}
  /\ MaxQueuedPages \in Nat \ {0}

VARIABLES
  main,                    \* where run_batch() is
  nextDocument,            \* next_document
  reader, doc, page,       \* where each reader is: its document and next page
  ready, nextSequence,     \* ready, next_sequence
  worker, task,            \* where each page worker is, and its page
  reason,                  \* the exception a thread is about to report
  error, finished,         \* per document
  readersRemaining,        \* readers_remaining
  abort

queueVars == <<ready, nextSequence, error, finished>>
readerVars == <<nextDocument, reader, doc, page, readersRemaining>>
workerVars == <<worker, task>>
vars == <<main, readerVars, workerVars, reason, queueVars, abort>>

NoTask == [job |-> NoJob, page |-> 0]

Init ==
  /\ main = "starting" /\ abort = FALSE
  /\ nextDocument = 1 /\ readersRemaining = Cardinality(Reader)
  /\ reader = [r \in Reader |-> "absent"]
  /\ doc = [r \in Reader |-> NoJob] /\ page = [r \in Reader |-> 1]
  /\ ready = {} /\ nextSequence = 0
  /\ worker = [w \in Worker |-> "absent"] /\ task = [w \in Worker |-> NoTask]
  /\ reason = [t \in Reader \cup Worker |-> "none"]
  /\ error = [j \in Job |-> "none"] /\ finished = [j \in Job |-> {}]

Failed(j) == error[j] # "none"

-----------------------------------------------------------------------------
(* The calling thread.                                                     *)

StartWorker(w) ==
  /\ main = "starting" /\ worker[w] = "absent"
  /\ worker' = [worker EXCEPT ![w] = "look"]
  /\ UNCHANGED <<main, readerVars, task, reason, queueVars, abort>>

StartReader(r) ==
  /\ main = "starting" /\ reader[r] = "absent"
  /\ \A w \in Worker : worker[w] # "absent"
  /\ reader' = [reader EXCEPT ![r] = "claim"]
  /\ UNCHANGED <<main, nextDocument, doc, page, readersRemaining, workerVars,
                 reason, queueVars, abort>>

\* No more threads: those that run are told to stop.
StartFails ==
  /\ main = "starting"
  /\ \/ \E w \in Worker : worker[w] = "absent"
     \/ \E r \in Reader : reader[r] = "absent"
  /\ abort' = TRUE
  /\ main' = "aborting"
  /\ UNCHANGED <<readerVars, workerVars, reason, queueVars>>

Started ==
  /\ main = "starting"
  /\ \A w \in Worker : worker[w] # "absent"
  /\ \A r \in Reader : reader[r] # "absent"
  /\ main' = "joining"
  /\ UNCHANGED <<readerVars, workerVars, reason, queueVars, abort>>

\* Every thread has ended: the results are assembled, or the exception goes on.
Joined ==
  /\ main \in {"joining", "aborting"}
  /\ \A w \in Worker : worker[w] \in {"absent", "done"}
  /\ \A r \in Reader : reader[r] \in {"absent", "done"}
  /\ main' = IF main = "joining" THEN "returned" ELSE "threw"
  /\ UNCHANGED <<readerVars, workerVars, reason, queueVars, abort>>

-----------------------------------------------------------------------------
(* fail(): the first reason stays, and the document's pages are dropped.   *)

Fail(j, why) ==
  /\ error' = [error EXCEPT ![j] = IF Failed(j) THEN @ ELSE why]
  /\ ready' = {p \in ready : p.job # j}
  /\ finished' = [finished EXCEPT ![j] = {}]
  /\ UNCHANGED nextSequence

ReportReader(r) ==
  /\ reader[r] = "failing"
  /\ Fail(doc[r], reason[r])
  /\ reader' = [reader EXCEPT ![r] = "claim"]
  /\ doc' = [doc EXCEPT ![r] = NoJob] /\ page' = [page EXCEPT ![r] = 1]
  /\ reason' = [reason EXCEPT ![r] = "none"]
  /\ UNCHANGED <<main, nextDocument, readersRemaining, workerVars, abort>>

ReportWorker(w) ==
  /\ worker[w] = "failing"
  /\ Fail(task[w].job, reason[w])
  /\ worker' = [worker EXCEPT ![w] = "look"]
  /\ task' = [task EXCEPT ![w] = NoTask]
  /\ reason' = [reason EXCEPT ![w] = "none"]
  /\ UNCHANGED <<main, readerVars, abort>>

-----------------------------------------------------------------------------
(* reader                                                                  *)

Claim(r) ==
  /\ reader[r] = "claim"
  /\ nextDocument' = nextDocument + 1
  /\ IF nextDocument <= Len(InputOrder)
     THEN /\ doc' = [doc EXCEPT ![r] = InputOrder[nextDocument]]
          /\ reader' = [reader EXCEPT ![r] = "reading"]
     ELSE reader' = [reader EXCEPT ![r] = "leaving"] /\ UNCHANGED doc
  /\ UNCHANGED <<main, page, readersRemaining, workerVars, reason, queueVars, abort>>

\* The output directory is not empty, or read_document() throws.
ReadFails(r) ==
  /\ reader[r] = "reading"
  /\ reader' = [reader EXCEPT ![r] = "failing"]
  /\ reason' = [reason EXCEPT ![r] = "reader"]
  /\ UNCHANGED <<main, nextDocument, doc, page, readersRemaining, workerVars,
                 queueVars, abort>>

\* The next page waits for room.
Deliver(r) ==
  /\ reader[r] = "reading" /\ page[r] <= Pages[doc[r]]
  /\ ~abort /\ ~Failed(doc[r])
  /\ Cardinality(ready) < MaxQueuedPages
  /\ ready' = ready \cup {[job |-> doc[r], page |-> page[r], sequence |-> nextSequence]}
  /\ nextSequence' = nextSequence + 1
  /\ page' = [page EXCEPT ![r] = @ + 1]
  /\ UNCHANGED <<main, nextDocument, reader, doc, readersRemaining, workerVars,
                 reason, error, finished, abort>>

\* The document failed elsewhere meanwhile, or everything ends.
DeliveryCancelled(r) ==
  /\ reader[r] = "reading" /\ page[r] <= Pages[doc[r]]
  /\ abort \/ Failed(doc[r])
  /\ reader' = [reader EXCEPT ![r] = "failing"]
  /\ reason' = [reason EXCEPT ![r] = "cancelled"]
  /\ UNCHANGED <<main, nextDocument, doc, page, readersRemaining, workerVars,
                 queueVars, abort>>

ReadEnds(r) ==
  /\ reader[r] = "reading" /\ page[r] > Pages[doc[r]]
  /\ reader' = [reader EXCEPT ![r] = "claim"]
  /\ doc' = [doc EXCEPT ![r] = NoJob] /\ page' = [page EXCEPT ![r] = 1]
  /\ UNCHANGED <<main, nextDocument, readersRemaining, workerVars, reason,
                 queueVars, abort>>

ReaderLeaves(r) ==
  /\ reader[r] = "leaving"
  /\ readersRemaining' = readersRemaining - 1
  /\ reader' = [reader EXCEPT ![r] = "done"]
  /\ UNCHANGED <<main, nextDocument, doc, page, workerVars, reason, queueVars, abort>>

-----------------------------------------------------------------------------
(* page_worker                                                             *)

\* Highest priority first, then first come.
BuggyChosen(p) ==
  \A q \in ready : Priority[q.job] <= Priority[p.job]
Chosen(p) ==
  \A q \in ready :
    \/ Priority[q.job] < Priority[p.job]
    \/ Priority[q.job] = Priority[p.job] /\ q.sequence >= p.sequence

TakePage(w) ==
  /\ worker[w] = "look" /\ ~abort
  /\ \E p \in ready :
       /\ Chosen(p)
       /\ task' = [task EXCEPT ![w] = [job |-> p.job, page |-> p.page]]
       /\ ready' = ready \ {p}
  /\ worker' = [worker EXCEPT ![w] = "taken"]
  /\ UNCHANGED <<main, readerVars, reason, nextSequence, error, finished, abort>>

BuggyWorkerStays(w) ==
  /\ worker[w] = "look"
  /\ ready = {} /\ readersRemaining = 0
  /\ worker' = [worker EXCEPT ![w] = "done"]
  /\ UNCHANGED <<main, readerVars, task, reason, queueVars, abort>>
WorkerLeaves(w) ==
  /\ worker[w] = "look"
  /\ abort \/ (ready = {} /\ readersRemaining = 0)
  /\ worker' = [worker EXCEPT ![w] = "done"]
  /\ UNCHANGED <<main, readerVars, task, reason, queueVars, abort>>

\* The document may have failed since the page was taken.
CheckTask(w) ==
  /\ worker[w] = "taken"
  /\ IF Failed(task[w].job)
     THEN /\ worker' = [worker EXCEPT ![w] = "look"]
          /\ task' = [task EXCEPT ![w] = NoTask]
     ELSE worker' = [worker EXCEPT ![w] = "process"] /\ UNCHANGED task
  /\ UNCHANGED <<main, readerVars, reason, queueVars, abort>>

\* process_page() returns a page, which counts unless its document has failed.
BuggyPageDone(w) ==
  /\ worker[w] = "process"
  /\ finished' = [finished EXCEPT ![task[w].job] = @ \cup {task[w].page}]
  /\ worker' = [worker EXCEPT ![w] = "look"]
  /\ task' = [task EXCEPT ![w] = NoTask]
  /\ UNCHANGED <<main, readerVars, reason, ready, nextSequence, error, abort>>
PageDone(w) ==
  /\ worker[w] = "process"
  /\ finished' = IF Failed(task[w].job) THEN finished
                 ELSE [finished EXCEPT ![task[w].job] = @ \cup {task[w].page}]
  /\ worker' = [worker EXCEPT ![w] = "look"]
  /\ task' = [task EXCEPT ![w] = NoTask]
  /\ UNCHANGED <<main, readerVars, reason, ready, nextSequence, error, abort>>

PageFails(w) ==
  /\ worker[w] = "process"
  /\ worker' = [worker EXCEPT ![w] = "failing"]
  /\ reason' = [reason EXCEPT ![w] = "page"]
  /\ UNCHANGED <<main, readerVars, task, queueVars, abort>>

-----------------------------------------------------------------------------

MainStep == (\E w \in Worker : StartWorker(w)) \/ (\E r \in Reader : StartReader(r))
              \/ Started \/ Joined
ReaderStep(r) ==
  \/ Claim(r) \/ Deliver(r) \/ DeliveryCancelled(r) \/ ReadEnds(r)
  \/ ReportReader(r) \/ ReaderLeaves(r)
WorkerStep(w) ==
  TakePage(w) \/ WorkerLeaves(w) \/ CheckTask(w) \/ PageDone(w) \/ ReportWorker(w)

Next ==
  \/ MainStep \/ StartFails
  \/ \E r \in Reader : ReaderStep(r) \/ ReadFails(r)
  \/ \E w \in Worker : WorkerStep(w) \/ PageFails(w)

Spec == Init /\ [][Next]_vars

(* Threads run, pages are read and processed in finite time, and a thread   *)
(* that waits on `changed' is notified by each change of what it waits for. *)
Fairness ==
  /\ WF_vars(MainStep)
  /\ \A r \in Reader : WF_vars(ReaderStep(r))
  /\ \A w \in Worker : WF_vars(WorkerStep(w))
FairSpec == Spec /\ Fairness

-----------------------------------------------------------------------------
Task == [job : Job, page : Nat \ {0}]
Pending == [job : Job, page : Nat \ {0}, sequence : Nat]
Reasons == {"none", "reader", "page", "cancelled"}

(* Types of the variables; the queue keeps its bound.                      *)
TypeOK ==
  /\ main \in {"starting", "aborting", "joining", "returned", "threw"}
  /\ nextDocument \in 1 .. Len(InputOrder) + Cardinality(Reader) + 1
  /\ reader \in [Reader -> {"absent", "claim", "reading", "failing", "leaving", "done"}]
  /\ doc \in [Reader -> Job \cup {NoJob}] /\ page \in [Reader -> Nat]
  /\ ready \subseteq Pending /\ Cardinality(ready) <= MaxQueuedPages
  /\ nextSequence \in Nat
  /\ worker \in [Worker -> {"absent", "look", "taken", "process", "failing", "done"}]
  /\ task \in [Worker -> Task \cup {NoTask}]
  /\ reason \in [Reader \cup Worker -> Reasons]
  /\ error \in [Job -> Reasons] /\ finished \in [Job -> SUBSET Nat]
  /\ readersRemaining \in 0 .. Cardinality(Reader) /\ abort \in BOOLEAN

(* "document-level failure; other jobs continue" (core.hpp:133): a batch   *)
(* that returns has every page of each document that did not fail, and the *)
(* error of each that did is why it failed, not the cancellation of its    *)
(* reader that follows from it.  From its failure on a document keeps no   *)
(* page in memory, neither queued nor finished, whatever its reader and    *)
(* its pages at work still do.                                             *)
FailuresStayLocal ==
  \A j \in Job :
    /\ main = "returned" =>
         /\ Failed(j) \/ finished[j] = 1 .. Pages[j]
         /\ error[j] # "cancelled"
    /\ Failed(j) =>
         finished[j] = {} /\ \A p \in ready : p.job # j

(* "FIFO for equal priority" (batch.cpp:126): a document's pages are       *)
(* started in order, whichever reader and workers handle them, and each    *)
(* once: "duplicate page number" (batch.cpp:151) is never thrown.          *)
PagesStartInOrder ==
  /\ \A p \in ready :
       /\ \A w \in Worker : task[w].job = p.job => task[w].page < p.page
       /\ \A n \in finished[p.job] : n < p.page
  /\ \A w \in Worker : task[w] # NoTask =>
       /\ task[w].page \notin finished[task[w].job]
       /\ \A v \in Worker \ {w} : task[v] # task[w]

(* run_batch() ends, with results or the exception: readers waiting for    *)
(* room and workers waiting for pages never wait for each other, whichever *)
(* document fails and whichever thread cannot be created.                  *)
BatchEnds == <>(main \in {"returned", "threw"})
=============================================================================

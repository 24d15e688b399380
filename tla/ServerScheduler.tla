--------------------------- MODULE ServerScheduler ---------------------------
(***************************************************************************)
(* The job scheduler of the OmniOCR REST server (src/server.cpp).  HTTP    *)
(* connections reserve, upload, submit, cancel and delete jobs; document   *)
(* readers turn a job into pages; page workers recognise pages; whichever  *)
(* of them completes a job also finalizes it; one cleanup thread removes   *)
(* the output of cancelled jobs.  Everything under mutex_ is one action;   *)
(* what runs between two critical sections is where a thread's pc rests.   *)
(*                                                                         *)
(* A job identifier stands for one POST request, the Job object that       *)
(* request creates, and the directory jobs/<id>: new_id never repeats one. *)
(*                                                                         *)
(* An operator Buggy... is what its neighbour would be with a plausible    *)
(* mistake in the code.  Nothing uses it: put in the neighbour's place, it *)
(* shows that a property below can fail (see README.md).                   *)
(***************************************************************************)
EXTENDS Integers, FiniteSets, Sequences

CONSTANTS
  Id,                      \* job identifiers that can be drawn
  Readers,                 \* document reader threads (document_workers)
  PageWorkers,             \* page worker threads (page_workers)
  Cleaner,                 \* the one cleanup thread
  NoJob,                   \* what an idle thread holds
  Priority,                \* priority the client gives each job
  MaxPages,                \* bound of the model: pages of one document
  PageBytes,               \* sizes a rendered page can have
  Chunks,                  \* sizes of the pieces an upload arrives in
  MaxUploadBytes, MaxInflightUploadBytes,
  MaxJobs, MaxActiveJobs,
  MaxQueuedPages, MaxQueuedPageBytes

(* Ranges the option parser enforces (server.cpp:944-971), threads that    *)
(* differ from each other, and a sentinel that is not a job.               *)
ASSUME SchedulerAssumption ==
  /\ IsFiniteSet(Id) /\ NoJob \notin Id
  /\ Priority \in [Id -> Int]
  /\ MaxPages \in Nat \ {0}
  /\ PageBytes \subseteq Nat \ {0} /\ Chunks \subseteq Nat \ {0}
  /\ {MaxUploadBytes, MaxInflightUploadBytes, MaxJobs, MaxActiveJobs,
      MaxQueuedPages, MaxQueuedPageBytes} \subseteq Nat \ {0}
  /\ IsFiniteSet(Readers) /\ IsFiniteSet(PageWorkers)
  /\ Readers \cap PageWorkers = {} /\ Cleaner \notin Readers \cup PageWorkers

VARIABLES
  \* what the connections and the admission control hold
  request,          \* [Id -> state of the POST request that owns the id]
  reservations,     \* reservations_
  uploadBytes,      \* Request::bytes of an upload, then Job::upload_bytes
  activeJobs, inflightUploadBytes,
  admitted, succeeded, failed, cancelled,
  registered,       \* the keys of jobs_
  deleting,         \* Job::deleting
  \* the fields of Job
  state, readerRunning, finalizerRunning, cleanupQueued, readerDone,
  pagesRunning, outstanding, pagesQueued,
  collected,        \* Job::pages, as the set of page numbers
  document,         \* the pages of the Document finalize_locked moved out
  \* the queues
  waiting,          \* waiting_
  arrival,          \* Job::sequence
  pages,            \* pages_, as a set: Pending::sequence orders it
  queuedPageBytes, reservedPageBytes, reservedPages,
  cleanupQueue, sequence,
  \* threads and shutdown
  pc, held,         \* where each thread is, and the job it works on
  page,             \* the page number a reader or a page worker is at
  bytes,            \* the size of the page a reader is trying to queue
  shutdown, cleanupShutdown,
  \* the file system below data_dir/jobs
  staged,           \* ids whose directory exists
  outputs,          \* ids whose output directory holds files
  cleanupFailed     \* ids whose output, or staged upload, could not be removed

httpVars == <<request, reservations, uploadBytes, registered, deleting>>
counters == <<activeJobs, inflightUploadBytes, admitted, succeeded, failed, cancelled>>
runVars == <<readerRunning, finalizerRunning, pagesRunning>>
cleanupVars == <<cleanupQueued, cleanupQueue>>
resultVars == <<collected, document>>
docVars == <<readerDone, outstanding, pagesQueued>>
queueVars == <<pages, queuedPageBytes>>
reserveVars == <<reservedPages, reservedPageBytes>>
waitVars == <<waiting, arrival>>
threadVars == <<pc, held, page, bytes>>
stopVars == <<shutdown, cleanupShutdown>>
fileVars == <<staged, outputs, cleanupFailed>>
jobVars == <<state, runVars, cleanupVars, resultVars, docVars>>
schedVars == <<queueVars, reserveVars, waitVars, sequence>>
vars == <<httpVars, counters, jobVars, schedVars, threadVars, stopVars, fileVars>>

Terminal == {"succeeded", "failed", "cancelled"}
Live == {"queued", "reading", "processing", "finalizing", "cancelling"}
Thread == Readers \cup PageWorkers
AllThreads == Thread \cup {Cleaner}
PageNumber == 1 .. MaxPages

\* A queued page: Pending.
Pending == [job : Id, number : PageNumber, sequence : Nat, bytes : PageBytes]

\* std::priority_queue and page_worker's max_element order by priority, then
\* by arrival.
Before(i, m, j, n) ==
  \/ Priority[i] > Priority[j]
  \/ Priority[i] = Priority[j] /\ m < n

\* The job's cancellation flag: fail_locked and cancel set it with the state,
\* and nothing clears it.
CancelFlag(j) == state[j] \in {"failed", "cancelling", "cancelled"}

Goto(t, label) == pc' = [pc EXCEPT ![t] = label]
\* The thread's loop comes round: its locals are gone.
Release(t) ==
  /\ Goto(t, "idle")
  /\ held' = [held EXCEPT ![t] = NoJob]
  /\ page' = [page EXCEPT ![t] = 0]
  /\ bytes' = [bytes EXCEPT ![t] = 0]

Init ==
  /\ request = [j \in Id |-> "none"]
  /\ reservations = {} /\ registered = {} /\ deleting = {}
  /\ uploadBytes = [j \in Id |-> 0]
  /\ activeJobs = 0 /\ inflightUploadBytes = 0
  /\ admitted = 0 /\ succeeded = 0 /\ failed = 0 /\ cancelled = 0
  /\ state = [j \in Id |-> "none"]
  /\ readerRunning = [j \in Id |-> FALSE]
  /\ finalizerRunning = [j \in Id |-> FALSE]
  /\ pagesRunning = [j \in Id |-> 0]
  /\ cleanupQueued = [j \in Id |-> FALSE] /\ cleanupQueue = <<>>
  /\ collected = [j \in Id |-> {}] /\ document = [j \in Id |-> {}]
  /\ readerDone = [j \in Id |-> FALSE]
  /\ outstanding = [j \in Id |-> 0] /\ pagesQueued = [j \in Id |-> 0]
  /\ pages = {} /\ queuedPageBytes = 0
  /\ reservedPages = 0 /\ reservedPageBytes = 0
  /\ waiting = {} /\ arrival = [j \in Id |-> 0] /\ sequence = 0
  /\ pc = [t \in AllThreads |-> "idle"] /\ held = [t \in AllThreads |-> NoJob]
  /\ page = [t \in AllThreads |-> 0] /\ bytes = [t \in AllThreads |-> 0]
  /\ shutdown = FALSE /\ cleanupShutdown = FALSE
  /\ staged = {} /\ outputs = {} /\ cleanupFailed = {}

-----------------------------------------------------------------------------
(* Pieces of the critical sections that several handlers share.            *)

\* The bytes of a set of queued pages: one pair per page and byte of it.
ByteSet(S) == {x \in S \X (1 .. MaxQueuedPageBytes) : x[2] <= x[1].bytes}
Bytes(S) == Cardinality(ByteSet(S))

PagesOf(j) == {p \in pages : p.job = j}

\* Over, or about to be: nothing may change such a job's outcome.
BuggySettled(j) == state[j] \in {"succeeded", "cancelled", "cancelling"}
Settled(j) == state[j] \in Terminal \cup {"cancelling"}

\* discard_pages_locked
BuggyDiscardPages(j) == UNCHANGED queueVars
DiscardPages(j) ==
  /\ pages' = pages \ PagesOf(j)
  /\ queuedPageBytes' = queuedPageBytes - Bytes(PagesOf(j))

\* The job gives back its active slot and the bytes it uploaded.
ReturnQuota(j) ==
  /\ activeJobs' = activeJobs - 1
  /\ inflightUploadBytes' = inflightUploadBytes - uploadBytes[j]

\* fail_locked, which does nothing to a job that is over or being cancelled.
FailLocked(j) ==
  IF Settled(j)
  THEN UNCHANGED <<state, counters, resultVars, queueVars>>
  ELSE /\ state' = [state EXCEPT ![j] = "failed"]
       /\ failed' = failed + 1
       /\ ReturnQuota(j)
       /\ collected' = [collected EXCEPT ![j] = {}]
       /\ DiscardPages(j)
       /\ UNCHANGED <<admitted, succeeded, cancelled, document>>

\* No reader, page worker or finalizer is left once this handler is done.
BuggyNobodyRuns(j) == ~readerRunning'[j] /\ pagesRunning'[j] = 0
BuggyNobodyRunsLate(j) ==
  readerDone[j] /\ pagesRunning'[j] = 0 /\ ~finalizerRunning'[j]
NobodyRuns(j) ==
  ~readerRunning'[j] /\ pagesRunning'[j] = 0 /\ ~finalizerRunning'[j]

\* finish_cancel_locked, called after the handler has updated the job's state
\* and running work: it reads their new values.  (It also clears the job's
\* pages, which cancel() has already done.)
FinishCancelLocked(j) ==
  IF state'[j] = "cancelling" /\ NobodyRuns(j) /\ ~cleanupQueued[j]
  THEN /\ cleanupQueued' = [cleanupQueued EXCEPT ![j] = TRUE]
       /\ cleanupQueue' = Append(cleanupQueue, j)
  ELSE UNCHANGED cleanupVars

\* finalize_locked, by a thread t that has just updated reader_done,
\* outstanding and the collected pages: t goes on to write the result when
\* the document is complete and is free otherwise.
BuggyMayFinalizeEarly(j) == readerDone'[j] /\ ~Settled(j) /\ state[j] # "finalizing"
BuggyMayFinalizeUnread(j) ==
  outstanding'[j] = 0 /\ ~Settled(j) /\ state[j] # "finalizing"
MayFinalize(j) ==
  readerDone'[j] /\ outstanding'[j] = 0 /\ ~Settled(j) /\ state[j] # "finalizing"

FinalizeLocked(t, j, found) ==
  CASE MayFinalize(j) /\ found # {} ->
         /\ state' = [state EXCEPT ![j] = "finalizing"]
         /\ finalizerRunning' = [finalizerRunning EXCEPT ![j] = TRUE]
         /\ document' = [document EXCEPT ![j] = found]
         /\ collected' = [collected EXCEPT ![j] = {}]
         /\ Goto(t, "finalize")
         /\ UNCHANGED <<held, page, bytes, counters, queueVars>>
    [] MayFinalize(j) /\ found = {} ->
         /\ FailLocked(j)
         /\ Release(t)
         /\ UNCHANGED finalizerRunning
    [] OTHER ->
         /\ collected' = [collected EXCEPT ![j] = found]
         /\ Release(t)
         /\ UNCHANGED <<state, finalizerRunning, document, counters,
                        queueVars>>

-----------------------------------------------------------------------------
(* Connections: Http::handle and Http::completed.                          *)

\* The limits on jobs, which count the requests still uploading.
BuggyAdmits == admitted < MaxJobs /\ activeJobs < MaxActiveJobs
Admits ==
  /\ admitted + Cardinality(reservations) < MaxJobs
  /\ activeJobs + Cardinality(reservations) < MaxActiveJobs

\* First call of a POST: reserve(); an upload also gets its directory here.
Reserve(j) ==
  /\ ~shutdown /\ request[j] = "none" /\ Admits
  /\ reservations' = reservations \cup {j}
  /\ request' = [request EXCEPT ![j] = "receiving"]
  /\ \/ staged' = staged \cup {j}
     \/ UNCHANGED staged
  /\ UNCHANGED <<uploadBytes, registered, deleting, counters, jobVars,
                 schedVars, threadVars, stopVars, outputs, cleanupFailed>>

\* A piece of an upload's body: charge_upload, unless the upload outgrows its
\* own limit or what the server still accepts.  Writing it to disk may fail.
Receive(j, n) ==
  /\ request[j] = "receiving" /\ j \in staged
  /\ IF n <= MaxUploadBytes - uploadBytes[j] /\ n <= MaxInflightUploadBytes - inflightUploadBytes
     THEN /\ inflightUploadBytes' = inflightUploadBytes + n
          /\ uploadBytes' = [uploadBytes EXCEPT ![j] = @ + n]
          /\ request' \in {request, [request EXCEPT ![j] = "rejected"]}
     ELSE /\ request' = [request EXCEPT ![j] = "rejected"]
          /\ UNCHANGED <<inflightUploadBytes, uploadBytes>>
  /\ UNCHANGED <<reservations, registered, deleting, activeJobs, admitted,
                 succeeded, failed, cancelled, jobVars, schedVars, threadVars,
                 stopVars, fileVars>>

\* Last call of a POST that was not rejected: submit().  A path job gets its
\* directory now; an upload must not be empty.
Submit(j) ==
  /\ request[j] = "receiving" /\ j \in reservations
  /\ j \in staged => uploadBytes[j] > 0
  /\ request' = [request EXCEPT ![j] = "submitted"]
  /\ reservations' = reservations \ {j}
  /\ registered' = registered \cup {j}
  /\ staged' = staged \cup {j}
  /\ state' = [state EXCEPT ![j] = "queued"]
  /\ arrival' = [arrival EXCEPT ![j] = sequence] /\ sequence' = sequence + 1
  /\ waiting' = waiting \cup {j}
  /\ activeJobs' = activeJobs + 1 /\ admitted' = admitted + 1
  /\ UNCHANGED <<uploadBytes, deleting, inflightUploadBytes, succeeded, failed,
                 cancelled, runVars, cleanupVars, resultVars, docVars,
                 queueVars, reserveVars, threadVars, stopVars, outputs,
                 cleanupFailed>>

\* The connection of a POST that was not submitted ends (an error response, a
\* client that went away): completed() removes what was staged and calls
\* release_reservation.  An error of the removal is ignored, and the directory
\* stays; that of a path job is there if submit() has failed.
Disconnect(j) ==
  /\ request[j] \in {"receiving", "rejected"}
  /\ request' = [request EXCEPT ![j] = "closed"]
  /\ \/ staged' = staged \ {j} /\ UNCHANGED cleanupFailed
     \/ staged' = staged \cup {j} /\ cleanupFailed' = cleanupFailed \cup {j}
  /\ IF j \in reservations
     THEN /\ reservations' = reservations \ {j}
          /\ inflightUploadBytes' = inflightUploadBytes - uploadBytes[j]
     ELSE UNCHANGED <<reservations, inflightUploadBytes>>
  /\ UNCHANGED <<uploadBytes, registered, deleting, activeJobs, admitted,
                 succeeded, failed, cancelled, jobVars, schedVars, threadVars,
                 stopVars, outputs>>

\* POST .../cancel of a job that is neither over nor being cancelled.
Cancel(j) ==
  /\ ~shutdown /\ j \in registered \ deleting
  /\ ~Settled(j)
  /\ state' = [state EXCEPT ![j] = "cancelling"]
  /\ collected' = [collected EXCEPT ![j] = {}]
  /\ DiscardPages(j)
  /\ waiting' = waiting \ {j}
  /\ UNCHANGED runVars
  /\ FinishCancelLocked(j)
  /\ UNCHANGED <<httpVars, counters, document, docVars, reserveVars, arrival,
                 sequence, threadVars, stopVars, fileVars>>

\* DELETE: the check under the lock, ...
BuggyRemovable(j) == state[j] \in Terminal
Removable(j) ==
  /\ state[j] \in Terminal
  /\ ~readerRunning[j] /\ pagesRunning[j] = 0 /\ ~finalizerRunning[j]

RemoveBegin(j) ==
  /\ ~shutdown /\ j \in registered \ deleting
  /\ Removable(j)
  /\ deleting' = deleting \cup {j}
  /\ UNCHANGED <<request, reservations, uploadBytes, registered, counters,
                 jobVars, schedVars, threadVars, stopVars, fileVars>>

\* ... then the removal of the directory outside the lock, which may fail
\* and leave the job to a later DELETE, ...
RemoveFails(j) ==
  /\ j \in deleting /\ j \in staged
  /\ deleting' = deleting \ {j}
  /\ outputs' \in {outputs, outputs \ {j}}
  /\ UNCHANGED <<request, reservations, uploadBytes, registered, counters,
                 jobVars, schedVars, threadVars, stopVars, staged,
                 cleanupFailed>>

\* ... or succeed, before the job leaves jobs_.
RemoveFiles(j) ==
  /\ j \in deleting /\ j \in staged
  /\ staged' = staged \ {j} /\ outputs' = outputs \ {j}
  /\ UNCHANGED <<httpVars, counters, jobVars, schedVars, threadVars, stopVars,
                 cleanupFailed>>

RemoveEnd(j) ==
  /\ j \in deleting /\ j \notin staged
  /\ registered' = registered \ {j} /\ deleting' = deleting \ {j}
  /\ UNCHANGED <<request, reservations, uploadBytes, counters, jobVars,
                 schedVars, threadVars, stopVars, fileVars>>

-----------------------------------------------------------------------------
(* Document readers.                                                       *)

\* reader() takes the first waiting job; one that is no longer queued is
\* dropped.
TakeDocument(r) ==
  /\ pc[r] = "idle" /\ ~shutdown
  /\ \E j \in waiting :
       /\ \A k \in waiting \ {j} : Before(j, arrival[j], k, arrival[k])
       /\ waiting' = waiting \ {j}
       /\ IF state[j] = "queued"
          THEN /\ state' = [state EXCEPT ![j] = "reading"]
               /\ readerRunning' = [readerRunning EXCEPT ![j] = TRUE]
               /\ held' = [held EXCEPT ![r] = j]
               /\ Goto(r, "read")
          ELSE UNCHANGED <<state, readerRunning, held, pc>>
  /\ UNCHANGED <<httpVars, counters, finalizerRunning, pagesRunning,
                 cleanupVars, resultVars, docVars, queueVars, reserveVars,
                 arrival, sequence, page, bytes, stopVars, fileVars>>

\* read_document renders the next page and calls the reader back with it; the
\* callback starts with throw_if_cancelled() and the check of the page's size.
RenderPage(r, n) ==
  /\ pc[r] = "read" /\ ~CancelFlag(held[r])
  /\ page[r] < MaxPages
  /\ n <= MaxQueuedPageBytes
  /\ page' = [page EXCEPT ![r] = @ + 1]
  /\ bytes' = [bytes EXCEPT ![r] = n]
  /\ Goto(r, "admit")
  /\ UNCHANGED <<httpVars, counters, jobVars, schedVars, held, stopVars,
                 fileVars>>

\* What the reader must not go on reading for.
BuggyAbandoned(j) == state[j] \in {"failed", "cancelling"}
Abandoned(j) == shutdown \/ state[j] \in {"failed", "cancelling"}

\* Room for one more page, next to those queued and those being copied.
Room(n) ==
  /\ Cardinality(pages) + reservedPages < MaxQueuedPages
  /\ n <= MaxQueuedPageBytes - queuedPageBytes - reservedPageBytes

\* The wait for room in the queue ends with a reservation: a place and the
\* page's bytes.
ReservePage(r) ==
  /\ pc[r] = "admit" /\ ~Abandoned(held[r])
  /\ Room(bytes[r])
  /\ reservedPages' = reservedPages + 1
  /\ reservedPageBytes' = reservedPageBytes + bytes[r]
  /\ Goto(r, "copy")
  /\ UNCHANGED <<httpVars, counters, jobVars, queueVars, waitVars, sequence,
                 held, page, bytes, stopVars, fileVars>>

\* The reservation ends, whether the page was copied or not.
BuggyReturnPlace(r) == reservedPages' = reservedPages - 1 /\ UNCHANGED reservedPageBytes
ReturnPlace(r) ==
  /\ reservedPages' = reservedPages - 1
  /\ reservedPageBytes' = reservedPageBytes - bytes[r]

\* The image was copied without the lock; under it, the reservation becomes a
\* queued page, unless the job was abandoned meanwhile or the copy failed.
QueuePage(r) ==
  /\ pc[r] = "copy"
  /\ ReturnPlace(r)
  /\ bytes' = [bytes EXCEPT ![r] = 0]
  /\ \/ /\ ~Abandoned(held[r])
        /\ pages' = pages \cup {[job |-> held[r], number |-> page[r],
                                 sequence |-> sequence, bytes |-> bytes[r]]}
        /\ sequence' = sequence + 1
        /\ queuedPageBytes' = queuedPageBytes + bytes[r]
        /\ outstanding' = [outstanding EXCEPT ![held[r]] = @ + 1]
        /\ pagesQueued' = [pagesQueued EXCEPT ![held[r]] = @ + 1]
        /\ state' = [state EXCEPT ![held[r]] = "processing"]
        /\ Goto(r, "read")
     \/ /\ Goto(r, "caught")
        /\ UNCHANGED <<queueVars, sequence, outstanding, pagesQueued, state>>
  /\ UNCHANGED <<httpVars, counters, runVars, cleanupVars, resultVars,
                 readerDone, waitVars, held, page, stopVars, fileVars>>

\* The handlers at the end of reader(), after an exception: the document could
\* not be read, a page is larger than the queue, the cancellation was seen, or
\* the wait or the copy was abandoned.
ReaderFails(r) ==
  /\ \/ pc[r] \in {"read", "caught"}
     \/ pc[r] = "admit" /\ Abandoned(held[r])
  /\ readerRunning' = [readerRunning EXCEPT ![held[r]] = FALSE]
  /\ UNCHANGED <<finalizerRunning, pagesRunning>>
  /\ FailLocked(held[r])
  /\ FinishCancelLocked(held[r])
  /\ Release(r)
  /\ UNCHANGED <<httpVars, docVars, reserveVars, waitVars, sequence, stopVars,
                 fileVars>>

\* read_document returned: every page of the document, at least one, was queued.
EndOfDocument(r) ==
  /\ pc[r] = "read" /\ page[r] > 0
  /\ LET j == held[r] IN
       /\ readerDone' = [readerDone EXCEPT ![j] = TRUE]
       /\ readerRunning' = [readerRunning EXCEPT ![j] = FALSE]
       /\ UNCHANGED <<outstanding, pagesQueued, pagesRunning>>
       /\ FinalizeLocked(r, j, collected[j])
       /\ FinishCancelLocked(j)
  /\ UNCHANGED <<httpVars, reserveVars, waitVars, sequence, stopVars,
                 fileVars>>

-----------------------------------------------------------------------------
(* Page workers.                                                           *)

\* page_worker() takes the queued page that comes first ...
TakePage(w) ==
  /\ pc[w] = "idle" /\ ~shutdown
  /\ \E p \in pages :
       /\ \A q \in pages \ {p} : Before(p.job, p.sequence, q.job, q.sequence)
       /\ pages' = pages \ {p}
       /\ queuedPageBytes' = queuedPageBytes - p.bytes
       /\ held' = [held EXCEPT ![w] = p.job]
       /\ page' = [page EXCEPT ![w] = p.number]
  /\ Goto(w, "taken")
  /\ UNCHANGED <<httpVars, counters, jobVars, reserveVars, waitVars, sequence,
                 bytes, stopVars, fileVars>>

\* ... and, in a second critical section, either drops it, when its job ended
\* in between, or counts it as running.
StartPage(w) ==
  /\ pc[w] = "taken"
  /\ IF Settled(held[w])
     THEN Release(w) /\ UNCHANGED pagesRunning
     ELSE /\ pagesRunning' = [pagesRunning EXCEPT ![held[w]] = @ + 1]
          /\ Goto(w, "process")
          /\ UNCHANGED <<held, page, bytes>>
  /\ UNCHANGED <<httpVars, counters, state, readerRunning, finalizerRunning,
                 cleanupVars, resultVars, docVars, schedVars, stopVars,
                 fileVars>>

\* process_page may store crops below the job's output at any time.
WriteAsset(w) ==
  /\ pc[w] = "process"
  /\ outputs' = outputs \cup {held[w]} /\ staged' = staged \cup {held[w]}
  /\ outputs' # outputs
  /\ UNCHANGED <<httpVars, counters, jobVars, schedVars, threadVars, stopVars,
                 cleanupFailed>>

\* process_page returned the page.
PageDone(w) ==
  /\ pc[w] = "process"
  /\ LET j == held[w] IN
       /\ pagesRunning' = [pagesRunning EXCEPT ![j] = @ - 1]
       /\ UNCHANGED <<readerRunning, readerDone, pagesQueued>>
       /\ IF ~Settled(j)
          THEN /\ outstanding' = [outstanding EXCEPT ![j] = @ - 1]
               /\ FinalizeLocked(w, j, collected[j] \cup {page[w]})
          ELSE /\ Release(w)
               /\ UNCHANGED <<outstanding, finalizerRunning, state, resultVars,
                              counters, queueVars>>
       /\ FinishCancelLocked(j)
  /\ UNCHANGED <<httpVars, reserveVars, waitVars, sequence, stopVars,
                 fileVars>>

\* process_page threw, a cancellation or a failure of the page.
PageFails(w) ==
  /\ pc[w] = "process"
  /\ pagesRunning' = [pagesRunning EXCEPT ![held[w]] = @ - 1]
  /\ UNCHANGED <<readerRunning, finalizerRunning>>
  /\ FailLocked(held[w])
  /\ FinishCancelLocked(held[w])
  /\ Release(w)
  /\ UNCHANGED <<httpVars, docVars, reserveVars, waitVars, sequence, stopVars,
                 fileVars>> 

-----------------------------------------------------------------------------
(* finalize(), in the thread that completed the document.                  *)

\* postprocess_document and write_outputs.
WriteResult(t) ==
  /\ pc[t] = "finalize"
  /\ outputs' = outputs \cup {held[t]} /\ staged' = staged \cup {held[t]}
  /\ Goto(t, "publish")
  /\ UNCHANGED <<httpVars, counters, jobVars, schedVars, held, page, bytes,
                 stopVars, cleanupFailed>>

Publish(t) ==
  /\ pc[t] = "publish"
  /\ LET j == held[t] IN
       /\ finalizerRunning' = [finalizerRunning EXCEPT ![j] = FALSE]
       /\ UNCHANGED <<readerRunning, pagesRunning>>
       /\ IF state[j] = "finalizing"
          THEN /\ state' = [state EXCEPT ![j] = "succeeded"]
               /\ succeeded' = succeeded + 1
               /\ ReturnQuota(j)
               /\ UNCHANGED <<cleanupVars, admitted, failed, cancelled>>
          ELSE /\ UNCHANGED <<state, counters>>
               /\ FinishCancelLocked(j)
  /\ Release(t)
  /\ UNCHANGED <<httpVars, resultVars, docVars, schedVars, stopVars, fileVars>>

\* Either step of writing the result threw.
FinalizeFails(t) ==
  /\ pc[t] = "finalize"
  /\ finalizerRunning' = [finalizerRunning EXCEPT ![held[t]] = FALSE]
  /\ UNCHANGED <<readerRunning, pagesRunning>>
  /\ FailLocked(held[t])
  /\ FinishCancelLocked(held[t])
  /\ Release(t)
  /\ outputs' \in {outputs, outputs \cup {held[t]}}
  /\ staged' = staged \cup {held[t]}
  /\ UNCHANGED <<httpVars, docVars, reserveVars, waitVars, sequence, stopVars,
                 cleanupFailed>>

-----------------------------------------------------------------------------
(* The cleanup thread.                                                     *)

TakeCleanup ==
  /\ pc[Cleaner] = "idle" /\ cleanupQueue # <<>>
  /\ held' = [held EXCEPT ![Cleaner] = Head(cleanupQueue)]
  /\ cleanupQueue' = Tail(cleanupQueue)
  /\ Goto(Cleaner, "clean")
  /\ UNCHANGED <<httpVars, counters, state, runVars, cleanupQueued, resultVars,
                 docVars, schedVars, page, bytes, stopVars, fileVars>>

\* remove_all(output), whose error is only recorded, then the new state.
Cleanup ==
  /\ pc[Cleaner] = "clean"
  /\ LET j == held[Cleaner] IN
       /\ \/ outputs' = outputs \ {j} /\ UNCHANGED cleanupFailed
          \/ /\ j \in outputs
             /\ cleanupFailed' = cleanupFailed \cup {j} /\ UNCHANGED outputs
       /\ state' = [state EXCEPT ![j] = "cancelled"]
       /\ cancelled' = cancelled + 1
       /\ ReturnQuota(j)
  /\ Release(Cleaner)
  /\ UNCHANGED <<httpVars, admitted, succeeded, failed, runVars, cleanupVars,
                 resultVars, docVars, schedVars, stopVars, staged>>

-----------------------------------------------------------------------------
(* Shutdown: main() stops the HTTP daemon, which completes every request,  *)
(* and then destroys the scheduler.                                        *)

Stop(t) == /\ Goto(t, "exited")
           /\ UNCHANGED <<httpVars, counters, jobVars, schedVars, held, page,
                          bytes, fileVars>>

BeginShutdown ==
  /\ ~shutdown
  /\ \A j \in Id : request[j] \notin {"receiving", "rejected"}
  /\ deleting = {}
  /\ shutdown' = TRUE
  /\ UNCHANGED <<httpVars, counters, jobVars, schedVars, threadVars,
                 cleanupShutdown, fileVars>>

ThreadExits(t) ==
  /\ shutdown /\ pc[t] = "idle"
  /\ Stop(t)
  /\ UNCHANGED stopVars

\* The destructor has joined the readers and the page workers.
BeginCleanupShutdown ==
  /\ shutdown /\ ~cleanupShutdown
  /\ \A t \in Thread : pc[t] = "exited"
  /\ cleanupShutdown' = TRUE
  /\ UNCHANGED <<httpVars, counters, jobVars, schedVars, threadVars, shutdown,
                 fileVars>>

BuggyCleanerExits ==
  /\ cleanupShutdown /\ pc[Cleaner] = "idle"
  /\ Stop(Cleaner)
  /\ UNCHANGED stopVars
CleanerExits ==
  /\ cleanupShutdown /\ pc[Cleaner] = "idle" /\ cleanupQueue = <<>>
  /\ Stop(Cleaner)
  /\ UNCHANGED stopVars

\* The process has ended.
Ended ==
  /\ \A t \in AllThreads : pc[t] = "exited"
  /\ UNCHANGED vars

-----------------------------------------------------------------------------

Connection(j) ==
  \/ Reserve(j) \/ Submit(j) \/ Disconnect(j)
  \/ \E n \in Chunks : Receive(j, n)
  \/ Cancel(j)
  \/ RemoveBegin(j) \/ RemoveFails(j) \/ RemoveFiles(j) \/ RemoveEnd(j)

Finalizer(t) == WriteResult(t) \/ Publish(t) \/ FinalizeFails(t)

Reader(r) ==
  \/ TakeDocument(r) \/ (\E n \in PageBytes : RenderPage(r, n))
  \/ ReservePage(r) \/ QueuePage(r) \/ ReaderFails(r) \/ EndOfDocument(r)
  \/ Finalizer(r) \/ ThreadExits(r)

PageWorker(w) ==
  \/ TakePage(w) \/ StartPage(w) \/ WriteAsset(w) \/ PageDone(w) \/ PageFails(w)
  \/ Finalizer(w) \/ ThreadExits(w)

CleanupThread == TakeCleanup \/ Cleanup \/ CleanerExits

Next ==
  \/ \E j \in Id : Connection(j)
  \/ \E r \in Readers : Reader(r)
  \/ \E w \in PageWorkers : PageWorker(w)
  \/ CleanupThread
  \/ BeginShutdown \/ BeginCleanupShutdown \/ Ended

Spec == Init /\ [][Next]_vars

(* Threads run and their work ends: conversions have timeouts, backends      *)
(* answer or time out.  Clients are free to do nothing.                      *)
Fairness ==
  /\ \A r \in Readers : WF_vars(Reader(r))
  /\ \A w \in PageWorkers : WF_vars(PageWorker(w))
  /\ WF_vars(CleanupThread)
  /\ WF_vars(BeginCleanupShutdown)

FairSpec == Spec /\ Fairness

-----------------------------------------------------------------------------
(* Types.                                                                  *)

JobTypes ==
  /\ state \in [Id -> Live \cup Terminal \cup {"none"}]
  /\ readerRunning \in [Id -> BOOLEAN] /\ finalizerRunning \in [Id -> BOOLEAN]
  /\ cleanupQueued \in [Id -> BOOLEAN] /\ readerDone \in [Id -> BOOLEAN]
  /\ pagesRunning \in [Id -> Nat] /\ outstanding \in [Id -> Nat]
  /\ pagesQueued \in [Id -> Nat]
  /\ collected \in [Id -> SUBSET PageNumber]
  /\ document \in [Id -> SUBSET PageNumber]

AdmissionTypes ==
  /\ request \in [Id -> {"none", "receiving", "rejected", "submitted", "closed"}]
  /\ reservations \subseteq Id /\ registered \subseteq Id /\ deleting \subseteq Id
  /\ uploadBytes \in [Id -> Nat]
  /\ {activeJobs, inflightUploadBytes, admitted, succeeded, failed, cancelled} \subseteq Nat
  /\ staged \subseteq Id /\ outputs \subseteq Id /\ cleanupFailed \subseteq Id

QueueTypes ==
  /\ pages \subseteq Pending /\ waiting \subseteq Id
  /\ arrival \in [Id -> Nat] /\ sequence \in Nat
  /\ {queuedPageBytes, reservedPages, reservedPageBytes} \subseteq Nat
  /\ cleanupQueue \in Seq(Id)

ThreadTypes ==
  /\ pc \in [AllThreads -> {"idle", "read", "admit", "copy", "caught", "taken",
                            "process", "finalize", "publish", "clean", "exited"}]
  /\ held \in [AllThreads -> Id \cup {NoJob}]
  /\ page \in [AllThreads -> 0 .. MaxPages]
  /\ bytes \in [AllThreads -> PageBytes \cup {0}]
  /\ shutdown \in BOOLEAN /\ cleanupShutdown \in BOOLEAN

(* Every variable has the type its C++ field or local has.                 *)
TypeOK == JobTypes /\ AdmissionTypes /\ QueueTypes /\ ThreadTypes

-----------------------------------------------------------------------------
(* Safety.                                                                 *)

Reading(r, j) == held[r] = j /\ pc[r] \in {"read", "admit", "copy", "caught"}
Processing(w, j) == held[w] = j /\ pc[w] = "process"
Finalizing(t, j) == held[t] = j /\ pc[t] \in {"finalize", "publish"}
Working(t, j) == Reading(t, j) \/ Processing(t, j) \/ Finalizing(t, j)

\* What counts against max_active_jobs and max_inflight_upload_bytes.
ActiveSet == {j \in Id : state[j] \in Live}
Owing == reservations \cup ActiveSet
UploadedSet == {x \in Owing \X (1 .. MaxInflightUploadBytes) : x[2] <= uploadBytes[x[1]]}

\* What counts against max_queued_pages and its bytes while it is being copied.
Copiers == {r \in Readers : pc[r] = "copy"}
CopiedSet == {x \in Copiers \X (1 .. MaxQueuedPageBytes) : x[2] <= bytes[x[1]]}

(* A job is only reported cancelled, and its output is only removed, when  *)
(* no reader, page worker or finalizer works on it any more (server.md:115 *)
(* promises this of the status `cancelled'; the code relies on the flags   *)
(* reader_running, pages_running and finalizer_running).                   *)
CancelledIsQuiet ==
  \A j \in Id :
    \/ state[j] = "cancelled"
    \/ pc[Cleaner] = "clean" /\ held[Cleaner] = j
    => \A t \in Thread : ~Working(t, j)

(* A job being cancelled never hangs: some thread still works on it and    *)
(* will call finish_cancel_locked, or it is on its way through the cleanup *)
(* thread, exactly once.                                                   *)
CancellingMakesProgress ==
  \A j \in Id :
    /\ state[j] = "cancelling" =>
         \/ \E t \in Thread : Working(t, j)
         \/ \E i \in DOMAIN cleanupQueue : cleanupQueue[i] = j
         \/ pc[Cleaner] = "clean" /\ held[Cleaner] = j
    /\ \A i, k \in DOMAIN cleanupQueue : cleanupQueue[i] = cleanupQueue[k] => i = k

(* Nothing of a cancelled or deleted job comes back on disk: the output of *)
(* a cancelled job is gone unless its removal failed, a deleted job leaves *)
(* no directory behind although workers may still hold it, and of a        *)
(* request that was not submitted there is at most the upload, if its      *)
(* removal failed.                                                         *)
NoResurrectedFiles ==
  \A j \in Id :
    /\ state[j] = "cancelled" /\ j \in outputs => j \in cleanupFailed
    /\ request[j] = "submitted" /\ j \notin registered => j \notin staged \cup outputs
    /\ request[j] = "closed" => j \notin outputs /\ (j \in staged => j \in cleanupFailed)

(* The result is written once, by one thread, when nobody reads or         *)
(* recognises the document any more, and no page of it is left anywhere.   *)
FinalizesAlone ==
  \A t \in Thread, j \in Id : Finalizing(t, j) =>
    /\ \A u \in Thread \ {t} : ~Working(u, j)
    /\ PagesOf(j) = {}
    /\ state[j] \in {"finalizing", "cancelling"}

(* A job that succeeds has every page its reader rendered in its result,   *)
(* although pages are recognised in any order and by any worker.           *)
SucceededComplete ==
  \A j \in Id : state[j] = "succeeded" =>
    document[j] = 1 .. pagesQueued[j] /\ document[j] # {}
  
(* The counters of /v1/metrics add up (server.md:117), and active_jobs is  *)
(* the number of jobs that have not ended: no path of failure, success and *)
(* cancellation returns a slot twice or forgets it.                        *)
AdmissionLedger ==
  /\ admitted = succeeded + failed + cancelled + activeJobs
  /\ activeJobs = Cardinality(ActiveSet)

(* max_active_jobs and max_jobs bound what is admitted, reservations of    *)
(* requests still uploading included.                                      *)
AdmissionBounded ==
  /\ activeJobs + Cardinality(reservations) <= MaxActiveJobs
  /\ admitted + Cardinality(reservations) <= MaxJobs

(* inflight_upload_bytes is what the reservations and the live jobs have   *)
(* uploaded, whichever way they end, and stays below its limit.            *)
UploadLedger ==
  /\ inflightUploadBytes = Cardinality(UploadedSet)
  /\ inflightUploadBytes <= MaxInflightUploadBytes

(* The page queue holds what its two byte counters and reserved_pages_ say,*)
(* and both limits cover queued pages and pages being copied.              *)
QueueLedger ==
  /\ queuedPageBytes = Bytes(pages)
  /\ reservedPages = Cardinality(Copiers)
  /\ Cardinality(pages) + reservedPages <= MaxQueuedPages
  /\ queuedPageBytes + reservedPageBytes <= MaxQueuedPageBytes

(* reserved_page_bytes_ is what the pages being copied take, however a     *)
(* copy ends.                                                              *)
ReservationLedger == reservedPageBytes = Cardinality(CopiedSet)

(* Whatever is taken of the quotas of uploads, of the page queue and of    *)
(* its reservations is given back, once, on each of the many ways a        *)
(* request, a job and a page can go.                                       *)
QuotasBalance == UploadLedger /\ QueueLedger /\ ReservationLedger

(* Only a job that can still use it occupies the page queue: failure and   *)
(* cancellation give the places back to other documents at once, and a     *)
(* queued page is accounted for by its job.                                *)
QueuedPagesAreWanted ==
  \A j \in Id :
    /\ PagesOf(j) # {} => state[j] = "processing"
    /\ state[j] \in {"queued", "reading", "processing"} =>
         outstanding[j] = Cardinality(PagesOf(j))
                        + Cardinality({w \in PageWorkers :
                                         held[w] = j /\ pc[w] \in {"taken", "process"}})

(* What server.md:74 says of max_active_jobs: it covers the jobs that are  *)
(* queued, being converted, recognised or written, and reserved requests.  *)
ActiveLimitCoversRunningWork ==
  Cardinality(reservations \cup ActiveSet
              \cup {j \in Id : \E t \in Thread : Working(t, j)}) <= MaxActiveJobs

(* The scheduler does for every job what the REST interface promises: the  *)
(* status changes as JobLifecycle says, no thread starts on a job that has *)
(* ended, one thread finalizes, and cancelled and deleted jobs are left    *)
(* alone.                                                                  *)
Lifecycle == INSTANCE JobLifecycle WITH
  status <- [j \in Id |-> IF request[j] = "submitted" /\ j \notin registered
                         THEN "deleted" ELSE state[j]],
  work <- [j \in Id |-> Cardinality({t \in Thread : Working(t, j)})]

ImplementsLifecycle == Lifecycle!Spec

-----------------------------------------------------------------------------
(* Liveness.                                                               *)

(* Every accepted job ends, unless the server is stopped; a cancellation   *)
(* completes even when it is stopped meanwhile.                            *)
EveryJobEnds ==
  \A j \in Id :
    /\ state[j] = "queued" ~> (state[j] \in Terminal \/ shutdown)
    /\ state[j] = "cancelling" ~> state[j] = "cancelled"

(* The destructor returns: every thread is joined.                         *)
ShutdownCompletes == shutdown ~> \A t \in AllThreads : pc[t] = "exited"

=============================================================================

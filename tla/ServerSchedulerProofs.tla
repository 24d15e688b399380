------------------------ MODULE ServerSchedulerProofs ------------------------
(***************************************************************************)
(* Proofs about ServerScheduler, for any number of jobs, threads, pages    *)
(* and any limits.                                                         *)
(***************************************************************************)
EXTENDS ServerScheduler, FiniteSetTheorems, FunctionTheorems, TLAPS

-----------------------------------------------------------------------------
(* The inductive invariant, in parts: first the types, group by group.     *)
(* Counters are only integers here; that none of them ever drops below     *)
(* zero is a consequence of the ledgers further down.                      *)

JobT ==
  /\ state \in [Id -> Live \cup Terminal \cup {"none"}]
  /\ readerRunning \in [Id -> BOOLEAN] /\ finalizerRunning \in [Id -> BOOLEAN]
  /\ cleanupQueued \in [Id -> BOOLEAN] /\ readerDone \in [Id -> BOOLEAN]
  /\ pagesRunning \in [Id -> Int] /\ outstanding \in [Id -> Int]

QueueT ==
  /\ pages \subseteq Pending /\ waiting \subseteq Id
  /\ sequence \in Nat /\ cleanupQueue \in Seq(Id)

CountT ==
  /\ activeJobs \in Int
  /\ admitted \in Int /\ succeeded \in Int /\ failed \in Int /\ cancelled \in Int

HttpT ==
  /\ request \in [Id -> {"none", "receiving", "rejected", "submitted", "closed"}]
  /\ reservations \subseteq Id

\* A thread is at a place of its own kind, and holds a job while it is busy.
\* A reader past its first callback is at a page.
ThreadT ==
  /\ pc \in [AllThreads -> {"idle", "read", "admit", "copy", "caught", "taken",
                            "process", "finalize", "publish", "clean", "exited"}]
  /\ held \in [AllThreads -> Id \cup {NoJob}]
  /\ page \in [AllThreads -> 0 .. MaxPages]
  /\ bytes \in [AllThreads -> PageBytes \cup {0}]
  /\ \A r \in Readers :
       /\ pc[r] \in {"idle", "read", "admit", "copy", "caught", "finalize", "publish", "exited"}
       /\ pc[r] \in {"admit", "copy"} => page[r] \in PageNumber /\ bytes[r] \in PageBytes
  /\ \A w \in PageWorkers :
       /\ pc[w] \in {"idle", "taken", "process", "finalize", "publish", "exited"}
       /\ pc[w] \in {"taken", "process"} => page[w] \in PageNumber
  /\ pc[Cleaner] \in {"idle", "clean", "exited"}
  /\ \A t \in AllThreads : held[t] = NoJob <=> pc[t] \in {"idle", "exited"}

TypeInv == JobT /\ QueueT /\ CountT /\ HttpT /\ ThreadT

LEMMA TypesInit == Init => TypeInv
  BY SchedulerAssumption DEF Init, TypeInv, JobT, QueueT, CountT, HttpT, ThreadT,
     Live, Thread, AllThreads

LEMMA Kinds ==
  /\ \A r \in Readers : r \in Thread /\ r \in AllThreads /\ r # Cleaner /\ r \notin PageWorkers
  /\ \A w \in PageWorkers : w \in Thread /\ w \in AllThreads /\ w # Cleaner /\ w \notin Readers
  /\ Cleaner \in AllThreads /\ Cleaner \notin Thread
  /\ \A t \in Thread : t \in Readers \/ t \in PageWorkers
  /\ \A j \in Id : j # NoJob
  BY SchedulerAssumption DEF Thread, AllThreads

(* The job a busy thread holds is a job.                                   *)
LEMMA Holds ==
  ASSUME ThreadT, NEW t \in AllThreads, pc[t] \notin {"idle", "exited"}
  PROVE  held[t] \in Id
  BY DEF ThreadT

-----------------------------------------------------------------------------
(* Threads.                                                                *)

LEMMA GotoT ==
  ASSUME ThreadT, NEW t \in Thread, NEW label,
         pc[t] \notin {"idle", "exited"},
         t \in Readers => label \in {"read", "copy", "caught", "finalize", "publish"},
         label = "copy" => pc[t] \in {"admit", "copy"},
         t \in PageWorkers => label \in {"process", "finalize", "publish"},
         label = "process" => pc[t] = "taken",
         Goto(t, label), UNCHANGED <<held, page, bytes>>
  PROVE  ThreadT'
<1> t \in AllThreads /\ t # Cleaner BY Kinds
<1>1. pc' \in [AllThreads -> {"idle", "read", "admit", "copy", "caught", "taken",
                            "process", "finalize", "publish", "clean", "exited"}]
  BY DEF Goto, ThreadT, Thread
<1>2. pc'[t] = label /\ \A u \in AllThreads \ {t} : pc'[u] = pc[u]
  BY DEF Goto, ThreadT
<1>3. QED BY <1>1, <1>2, Kinds DEF ThreadT

LEMMA ReleaseT ==
  ASSUME ThreadT, NEW t \in AllThreads, Release(t)
  PROVE  ThreadT'
<1>1. pc' \in [AllThreads -> {"idle", "read", "admit", "copy", "caught", "taken",
                            "process", "finalize", "publish", "clean", "exited"}]
  BY DEF Release, Goto, ThreadT
<1>2. /\ pc'[t] = "idle" /\ held'[t] = NoJob
      /\ \A u \in AllThreads \ {t} : /\ pc'[u] = pc[u] /\ held'[u] = held[u]
                                     /\ page'[u] = page[u] /\ bytes'[u] = bytes[u]
  BY DEF Release, Goto, ThreadT
<1>3. /\ held' \in [AllThreads -> Id \cup {NoJob}]
      /\ page' \in [AllThreads -> 0 .. MaxPages]
      /\ bytes' \in [AllThreads -> PageBytes \cup {0}]
  BY SchedulerAssumption DEF Release, ThreadT
<1>4. QED BY <1>1, <1>2, <1>3, Kinds DEF ThreadT

\* A thread of kind Readers or PageWorkers picks up a job.
LEMMA PickUpT ==
  ASSUME ThreadT, NEW t \in Thread, NEW j \in Id, NEW label, NEW n \in 0 .. MaxPages,
         t \in Readers => label = "read",
         t \in PageWorkers => label = "taken" /\ n \in PageNumber,
         Goto(t, label), held' = [held EXCEPT ![t] = j],
         page' = [page EXCEPT ![t] = n], UNCHANGED bytes
  PROVE  ThreadT'
<1> t \in AllThreads /\ t # Cleaner /\ j # NoJob BY Kinds
<1>1. pc' \in [AllThreads -> {"idle", "read", "admit", "copy", "caught", "taken",
                            "process", "finalize", "publish", "clean", "exited"}]
  BY Kinds DEF Goto, ThreadT
<1>2. /\ pc'[t] = label /\ held'[t] = j /\ page'[t] = n
      /\ \A u \in AllThreads \ {t} : /\ pc'[u] = pc[u] /\ held'[u] = held[u]
                                     /\ page'[u] = page[u]
  BY DEF Goto, ThreadT
<1>3. held' \in [AllThreads -> Id \cup {NoJob}] /\ page' \in [AllThreads -> 0 .. MaxPages]
  BY DEF ThreadT
<1>4. QED BY <1>1, <1>2, <1>3, Kinds, Zenon DEF ThreadT

LEMMA FinalizeT ==
  ASSUME ThreadT, NEW t \in Thread, NEW j, NEW found,
         pc[t] \notin {"idle", "exited"}, FinalizeLocked(t, j, found)
  PROVE  ThreadT'
<1> t \in AllThreads BY Kinds
<1>1. CASE MayFinalize(j) /\ found # {}
  <2>1. Goto(t, "finalize") /\ UNCHANGED <<held, page, bytes>> BY <1>1 DEF FinalizeLocked
  <2>2. QED BY <2>1, GotoT, Kinds
<1>2. CASE ~(MayFinalize(j) /\ found # {}) BY <1>2, ReleaseT DEF FinalizeLocked
<1>3. QED BY <1>1, <1>2

LEMMA FinalizerT ==
  ASSUME ThreadT, NEW t \in Thread, Finalizer(t)
  PROVE  ThreadT'
<1> t \in AllThreads BY Kinds
<1>1. CASE WriteResult(t) BY <1>1, GotoT, Kinds DEF WriteResult
<1>2. CASE Publish(t) BY <1>2, ReleaseT DEF Publish
<1>3. CASE FinalizeFails(t) BY <1>3, ReleaseT DEF FinalizeFails
<1>4. QED BY <1>1, <1>2, <1>3 DEF Finalizer

LEMMA StopT ==
  ASSUME ThreadT, NEW t \in AllThreads, pc[t] = "idle", Stop(t)
  PROVE  ThreadT'
<1>1. /\ pc' \in [AllThreads -> {"idle", "read", "admit", "copy", "caught", "taken",
                            "process", "finalize", "publish", "clean", "exited"}]
      /\ pc'[t] = "exited" /\ \A u \in AllThreads \ {t} : pc'[u] = pc[u]
      /\ UNCHANGED <<held, page, bytes>>
  BY DEF Stop, Goto, ThreadT
<1>2. QED BY <1>1, Kinds DEF ThreadT

LEMMA ReaderT ==
  ASSUME ThreadT, QueueT, NEW r \in Readers, Reader(r)
  PROVE  ThreadT'
<1> r \in Thread /\ r \in AllThreads /\ r \notin PageWorkers /\ r # Cleaner BY Kinds
<1>1. CASE TakeDocument(r)
  <2>1. CASE UNCHANGED threadVars BY <2>1 DEF threadVars, ThreadT
  <2>2. CASE ~UNCHANGED threadVars
    <3>1. PICK j \in waiting : Goto(r, "read") /\ held' = [held EXCEPT ![r] = j]
      BY <1>1, <2>2 DEF TakeDocument, threadVars
    <3>2. j \in Id /\ page[r] \in 0 .. MaxPages /\ page' = [page EXCEPT ![r] = page[r]]
      BY <1>1 DEF QueueT, ThreadT, TakeDocument
    <3>3. QED BY <1>1, <3>1, <3>2, PickUpT DEF TakeDocument
  <2>3. QED BY <2>1, <2>2
<1>2. ASSUME NEW n \in PageBytes, RenderPage(r, n) PROVE ThreadT'
  <2>1. /\ pc[r] = "read" /\ page[r] + 1 \in PageNumber
        /\ page' = [page EXCEPT ![r] = page[r] + 1] /\ bytes' = [bytes EXCEPT ![r] = n]
        /\ pc' = [pc EXCEPT ![r] = "admit"] /\ UNCHANGED held
    BY <1>2, SchedulerAssumption DEF RenderPage, ThreadT, PageNumber, Goto
  <2>2. /\ pc' \in [AllThreads -> {"idle", "read", "admit", "copy", "caught", "taken",
                            "process", "finalize", "publish", "clean", "exited"}]
        /\ page' \in [AllThreads -> 0 .. MaxPages]
        /\ bytes' \in [AllThreads -> PageBytes \cup {0}]
    BY <2>1 DEF ThreadT, PageNumber
  <2>3. /\ pc'[r] = "admit" /\ page'[r] \in PageNumber /\ bytes'[r] \in PageBytes
        /\ \A u \in AllThreads \ {r} : pc'[u] = pc[u] /\ page'[u] = page[u] /\ bytes'[u] = bytes[u]
    BY <2>1 DEF ThreadT
  <2>4. QED BY <2>1, <2>2, <2>3, Kinds, Zenon DEF ThreadT
<1>3. CASE ReservePage(r) BY <1>3, GotoT DEF ReservePage
<1>4. CASE QueuePage(r)
  <2>1. PICK label \in {"read", "caught"} :
           /\ pc[r] = "copy" /\ pc' = [pc EXCEPT ![r] = label]
           /\ bytes' = [bytes EXCEPT ![r] = 0] /\ UNCHANGED <<held, page>>
    BY <1>4 DEF QueuePage, Goto
  <2>2. /\ pc' \in [AllThreads -> {"idle", "read", "admit", "copy", "caught", "taken",
                            "process", "finalize", "publish", "clean", "exited"}]
        /\ bytes' \in [AllThreads -> PageBytes \cup {0}]
        /\ pc'[r] = label
        /\ \A u \in AllThreads \ {r} : pc'[u] = pc[u] /\ bytes'[u] = bytes[u]
    BY <2>1 DEF ThreadT
  <2>3. QED BY <2>1, <2>2, Kinds DEF ThreadT
<1>5. CASE ReaderFails(r) BY <1>5, ReleaseT DEF ReaderFails
<1>6. CASE EndOfDocument(r) BY <1>6, FinalizeT DEF EndOfDocument
<1>7. CASE Finalizer(r) BY <1>7, FinalizerT
<1>8. CASE ThreadExits(r) BY <1>8, StopT DEF ThreadExits
<1>9. QED BY <1>1, <1>2, <1>3, <1>4, <1>5, <1>6, <1>7, <1>8 DEF Reader

LEMMA PageWorkerT ==
  ASSUME ThreadT, QueueT, NEW w \in PageWorkers, PageWorker(w)
  PROVE  ThreadT'
<1> w \in Thread /\ w \in AllThreads /\ w \notin Readers /\ w # Cleaner BY Kinds
<1>1. CASE TakePage(w)
  <2>1. PICK p \in pages : /\ held' = [held EXCEPT ![w] = p.job]
                           /\ page' = [page EXCEPT ![w] = p.number]
    BY <1>1 DEF TakePage
  <2>2. p.job \in Id /\ p.number \in PageNumber /\ p.number \in 0 .. MaxPages
    BY SchedulerAssumption DEF QueueT, Pending, PageNumber
  <2>3. QED BY <1>1, <2>1, <2>2, PickUpT DEF TakePage
<1>2. CASE StartPage(w)
  <2>1. CASE Release(w) BY <2>1, ReleaseT
  <2>2. CASE ~Release(w) BY <1>2, <2>2, GotoT DEF StartPage
  <2>3. QED BY <2>1, <2>2
<1>3. CASE WriteAsset(w) BY <1>3 DEF WriteAsset, threadVars, ThreadT
<1>4. CASE PageDone(w) BY <1>4, FinalizeT, ReleaseT DEF PageDone
<1>5. CASE PageFails(w) BY <1>5, ReleaseT DEF PageFails
<1>6. CASE Finalizer(w) BY <1>6, FinalizerT
<1>7. CASE ThreadExits(w) BY <1>7, StopT DEF ThreadExits
<1>8. QED BY <1>1, <1>2, <1>3, <1>4, <1>5, <1>6, <1>7 DEF PageWorker

LEMMA CleanerT ==
  ASSUME ThreadT, QueueT, CleanupThread
  PROVE  ThreadT'
<1> Cleaner \in AllThreads BY Kinds
<1>1. CASE TakeCleanup
  <2>1. Head(cleanupQueue) \in Id BY <1>1 DEF QueueT, TakeCleanup
  <2>2. /\ pc' = [pc EXCEPT ![Cleaner] = "clean"] /\ UNCHANGED <<page, bytes>>
        /\ held' = [held EXCEPT ![Cleaner] = Head(cleanupQueue)]
    BY <1>1 DEF TakeCleanup, Goto
  <2>3. /\ pc' \in [AllThreads -> {"idle", "read", "admit", "copy", "caught", "taken",
                            "process", "finalize", "publish", "clean", "exited"}]
        /\ held' \in [AllThreads -> Id \cup {NoJob}]
        /\ pc'[Cleaner] = "clean" /\ held'[Cleaner] \in Id
        /\ \A u \in AllThreads \ {Cleaner} : pc'[u] = pc[u] /\ held'[u] = held[u]
    BY <2>1, <2>2 DEF ThreadT
  <2>4. QED BY <2>2, <2>3, Kinds DEF ThreadT
<1>2. CASE Cleanup BY <1>2, ReleaseT DEF Cleanup
<1>3. CASE CleanerExits BY <1>3, StopT DEF CleanerExits
<1>4. QED BY <1>1, <1>2, <1>3 DEF CleanupThread

LEMMA ThreadTStep == TypeInv /\ [Next]_vars => ThreadT'
<1> SUFFICES ASSUME TypeInv, [Next]_vars PROVE ThreadT' OBVIOUS
<1> USE DEF TypeInv
<1>1. ASSUME NEW j \in Id, Connection(j) PROVE ThreadT'
  <2>1. UNCHANGED threadVars
    BY <1>1 DEF Connection, Reserve, Submit, Disconnect, Receive, Cancel, RemoveBegin,
       RemoveFails, RemoveFiles, RemoveEnd
  <2>2. QED BY <2>1 DEF threadVars, ThreadT
<1>2. CASE BeginShutdown \/ BeginCleanupShutdown \/ Ended \/ UNCHANGED vars
  BY <1>2 DEF BeginShutdown, BeginCleanupShutdown, Ended, vars, threadVars, ThreadT
<1>3. QED BY <1>1, <1>2, ReaderT, PageWorkerT, CleanerT DEF Next

-----------------------------------------------------------------------------
(* The shared critical sections.                                           *)

LEMMA FailLockedT ==
  ASSUME TypeInv, NEW j \in Id, FailLocked(j)
  PROVE  /\ state' \in [Id -> Live \cup Terminal \cup {"none"}]
         /\ pages' \subseteq Pending /\ CountT'
<1>1. CASE Settled(j) BY <1>1 DEF FailLocked, TypeInv, JobT, QueueT, CountT, counters, queueVars
<1>2. CASE ~Settled(j)
  <2>1. state' \in [Id -> Live \cup Terminal \cup {"none"}]
    BY <1>2 DEF FailLocked, TypeInv, JobT, Terminal
  <2>2. CountT' BY <1>2 DEF FailLocked, TypeInv, CountT, ReturnQuota
  <2>3. pages' \subseteq Pending BY <1>2 DEF FailLocked, TypeInv, QueueT, DiscardPages
  <2>4. QED BY <2>1, <2>2, <2>3
<1>3. QED BY <1>1, <1>2

LEMMA FinishCancelT ==
  ASSUME TypeInv, NEW j \in Id, FinishCancelLocked(j)
  PROVE  cleanupQueued' \in [Id -> BOOLEAN] /\ cleanupQueue' \in Seq(Id)
<1>1. cleanupQueued \in [Id -> BOOLEAN] /\ cleanupQueue \in Seq(Id) BY DEF TypeInv, JobT, QueueT
<1>2. CASE UNCHANGED cleanupVars BY <1>1, <1>2 DEF cleanupVars
<1>3. CASE /\ cleanupQueued' = [cleanupQueued EXCEPT ![j] = TRUE]
           /\ cleanupQueue' = Append(cleanupQueue, j)
  BY <1>1, <1>3
<1>4. QED BY <1>2, <1>3 DEF FinishCancelLocked

LEMMA FinalizeLockedT ==
  ASSUME TypeInv, NEW t, NEW j \in Id, NEW found, FinalizeLocked(t, j, found)
  PROVE  /\ state' \in [Id -> Live \cup Terminal \cup {"none"}]
         /\ finalizerRunning' \in [Id -> BOOLEAN]
         /\ pages' \subseteq Pending /\ CountT'
<1>1. CASE MayFinalize(j) /\ found # {}
  BY <1>1 DEF FinalizeLocked, TypeInv, JobT, QueueT, CountT, Live, counters, queueVars
<1>2. CASE MayFinalize(j) /\ found = {}
  BY <1>2, FailLockedT DEF FinalizeLocked, TypeInv, JobT
<1>3. CASE ~MayFinalize(j)
  BY <1>3 DEF FinalizeLocked, TypeInv, JobT, QueueT, CountT, counters, queueVars
<1>4. QED BY <1>1, <1>2, <1>3

-----------------------------------------------------------------------------
(* The other types.                                                        *)

LEMMA ConnectionTypes ==
  ASSUME TypeInv, NEW j \in Id, Connection(j)
  PROVE  JobT' /\ QueueT' /\ CountT' /\ HttpT'
<1> USE DEF TypeInv
<1>1. CASE Submit(j)
  <2>1. JobT' BY <1>1 DEF Submit, JobT, Live, runVars, cleanupVars, docVars
  <2>2. QueueT' BY <1>1 DEF Submit, QueueT, cleanupVars, queueVars
  <2>3. CountT' BY <1>1 DEF Submit, CountT
  <2>4. HttpT' BY <1>1 DEF Submit, HttpT
  <2>5. QED BY <2>1, <2>2, <2>3, <2>4
<1>2. CASE Cancel(j)
  <2>1. cleanupQueued' \in [Id -> BOOLEAN] /\ cleanupQueue' \in Seq(Id)
    BY <1>2, FinishCancelT DEF Cancel
  <2>2. JobT' BY <1>2, <2>1 DEF Cancel, JobT, Live, runVars, docVars
  <2>3. QueueT' BY <1>2, <2>1 DEF Cancel, QueueT, DiscardPages
  <2>4. CountT' /\ HttpT' BY <1>2 DEF Cancel, CountT, HttpT, httpVars, counters
  <2>5. QED BY <2>2, <2>3, <2>4
<1>3. CASE ~(Submit(j) \/ Cancel(j))
  <2>1. UNCHANGED <<jobVars, schedVars, activeJobs, admitted, succeeded, failed, cancelled>>
    BY <1>3 DEF Connection, Reserve, Receive, Disconnect, RemoveBegin, RemoveFails, RemoveFiles,
       RemoveEnd, counters
  <2>2. JobT' BY <2>1 DEF JobT, jobVars, runVars, cleanupVars, docVars
  <2>3. QueueT' BY <2>1 DEF QueueT, jobVars, cleanupVars, schedVars, queueVars, waitVars
  <2>4. CountT' BY <2>1 DEF CountT
  <2>5. HttpT'
    <3>1. CASE Reserve(j) BY <3>1 DEF Reserve, HttpT
    <3>2. ASSUME NEW n \in Chunks, Receive(j, n) PROVE HttpT'
      BY <3>2 DEF Receive, HttpT
    <3>3. CASE Disconnect(j) BY <3>3 DEF Disconnect, HttpT
    <3>4. CASE RemoveBegin(j) \/ RemoveFails(j) \/ RemoveFiles(j) \/ RemoveEnd(j)
      BY <3>4 DEF RemoveBegin, RemoveFails, RemoveFiles, RemoveEnd, httpVars, HttpT
    <3>5. QED BY <1>3, <3>1, <3>2, <3>3, <3>4 DEF Connection
  <2>6. QED BY <2>2, <2>3, <2>4, <2>5
<1>4. QED BY <1>1, <1>2, <1>3

LEMMA FinalizerTypes ==
  ASSUME TypeInv, NEW t \in Thread, Finalizer(t)
  PROVE  JobT' /\ QueueT' /\ CountT'
<1> USE DEF TypeInv
<1> t \in AllThreads BY Kinds
<1> DEFINE j == held[t]
<1>0. j \in Id BY Holds DEF Finalizer, WriteResult, Publish, FinalizeFails
<1>1. CASE WriteResult(t)
  BY <1>1 DEF WriteResult, JobT, QueueT, CountT, counters, jobVars, runVars, cleanupVars, docVars,
     schedVars, queueVars, waitVars
<1>2. CASE Publish(t)
  <2>1. cleanupQueued' \in [Id -> BOOLEAN] /\ cleanupQueue' \in Seq(Id)
    <3>1. CASE UNCHANGED cleanupVars BY <3>1 DEF cleanupVars, JobT, QueueT
    <3>2. CASE FinishCancelLocked(j) BY <1>0, <3>2, FinishCancelT
    <3>3. QED BY <1>2, <3>1, <3>2 DEF Publish
  <2>2. JobT' BY <1>0, <1>2, <2>1 DEF Publish, JobT, Terminal, docVars
  <2>3. QueueT' BY <1>2, <2>1 DEF Publish, QueueT, schedVars, queueVars, waitVars
  <2>4. CountT' BY <1>2 DEF Publish, CountT, counters, ReturnQuota
  <2>5. QED BY <2>2, <2>3, <2>4
<1>3. CASE FinalizeFails(t)
  <2>1. FailLocked(j) /\ FinishCancelLocked(j) BY <1>3 DEF FinalizeFails
  <2>2. /\ state' \in [Id -> Live \cup Terminal \cup {"none"}]
        /\ pages' \subseteq Pending /\ CountT'
        /\ cleanupQueued' \in [Id -> BOOLEAN] /\ cleanupQueue' \in Seq(Id)
    BY <1>0, <2>1, FailLockedT, FinishCancelT
  <2>3. QED BY <1>3, <2>2 DEF FinalizeFails, JobT, QueueT, docVars, waitVars
<1>4. QED BY <1>1, <1>2, <1>3 DEF Finalizer

LEMMA ReaderTypes ==
  ASSUME TypeInv, NEW r \in Readers, Reader(r)
  PROVE  JobT' /\ QueueT' /\ CountT' /\ HttpT'
<1> USE DEF TypeInv
<1> r \in Thread /\ r \in AllThreads BY Kinds
<1> DEFINE j == held[r]
<1>0. HttpT'
  BY DEF HttpT, httpVars, Reader, Finalizer, TakeDocument, RenderPage, ReservePage, QueuePage,
     ReaderFails, EndOfDocument, WriteResult, Publish, FinalizeFails, ThreadExits, Stop
<1>1. CASE TakeDocument(r)
  <2>1. JobT' BY <1>1 DEF TakeDocument, JobT, QueueT, Live, cleanupVars, docVars
  <2>2. QED BY <1>1, <2>1, <1>0 DEF TakeDocument, QueueT, CountT, counters, cleanupVars, queueVars
<1>2. CASE (\E n \in PageBytes : RenderPage(r, n)) \/ ReservePage(r) \/ ThreadExits(r)
  <2>1. UNCHANGED <<counters, jobVars, pages, waiting, sequence, cleanupQueue>>
    BY <1>2 DEF RenderPage, ReservePage, ThreadExits, Stop, schedVars, queueVars, waitVars,
       jobVars, cleanupVars
  <2>2. QED BY <1>0, <2>1 DEF JobT, QueueT, CountT, counters, jobVars, runVars, cleanupVars, docVars
<1>3. CASE QueuePage(r)
  <2>1. pc[r] = "copy" BY <1>3 DEF QueuePage
  <2>2. j \in Id /\ page[r] \in PageNumber /\ bytes[r] \in PageBytes
    BY <2>1, Holds DEF ThreadT
  <2>3. JobT' BY <1>3, <2>2 DEF QueuePage, JobT, Live, runVars, cleanupVars
  <2>4. QueueT'
    <3>1. pages' \subseteq Pending
      BY <1>3, <2>2 DEF QueuePage, QueueT, Pending, queueVars
    <3>2. QED BY <1>3, <3>1 DEF QueuePage, QueueT, cleanupVars, waitVars
  <2>5. CountT' BY <1>3 DEF QueuePage, CountT, counters
  <2>6. QED BY <1>0, <2>3, <2>4, <2>5
<1>4. CASE ReaderFails(r)
  <2>1. j \in Id BY <1>4, Holds DEF ReaderFails
  <2>2. FailLocked(j) /\ FinishCancelLocked(j) BY <1>4 DEF ReaderFails
  <2>3. /\ state' \in [Id -> Live \cup Terminal \cup {"none"}]
        /\ pages' \subseteq Pending /\ CountT'
        /\ cleanupQueued' \in [Id -> BOOLEAN] /\ cleanupQueue' \in Seq(Id)
    BY <2>1, <2>2, FailLockedT, FinishCancelT
  <2>4. QED BY <1>0, <1>4, <2>3 DEF ReaderFails, JobT, QueueT, docVars, waitVars
<1>5. CASE EndOfDocument(r)
  <2>1. j \in Id BY <1>5, Holds DEF EndOfDocument
  <2>2. FinalizeLocked(r, j, collected[j]) /\ FinishCancelLocked(j) BY <1>5 DEF EndOfDocument
  <2>3. /\ state' \in [Id -> Live \cup Terminal \cup {"none"}]
        /\ finalizerRunning' \in [Id -> BOOLEAN]
        /\ pages' \subseteq Pending /\ CountT'
        /\ cleanupQueued' \in [Id -> BOOLEAN] /\ cleanupQueue' \in Seq(Id)
    BY <2>1, <2>2, FinalizeLockedT, FinishCancelT
  <2>4. QED BY <1>0, <1>5, <2>1, <2>3 DEF EndOfDocument, JobT, QueueT, waitVars
<1>6. CASE Finalizer(r) BY <1>0, <1>6, FinalizerTypes
<1>7. QED BY <1>1, <1>2, <1>3, <1>4, <1>5, <1>6 DEF Reader

LEMMA PageWorkerTypes ==
  ASSUME TypeInv, NEW w \in PageWorkers, PageWorker(w)
  PROVE  JobT' /\ QueueT' /\ CountT' /\ HttpT'
<1> USE DEF TypeInv
<1> w \in Thread /\ w \in AllThreads BY Kinds
<1> DEFINE j == held[w]
<1>0. HttpT'
  BY DEF HttpT, httpVars, PageWorker, Finalizer, TakePage, StartPage, WriteAsset, PageDone,
     PageFails, WriteResult, Publish, FinalizeFails, ThreadExits, Stop
<1>1. CASE TakePage(w)
  BY <1>0, <1>1 DEF TakePage, JobT, QueueT, CountT, counters, jobVars, runVars, cleanupVars,
     docVars, waitVars
<1>2. CASE StartPage(w)
  BY <1>0, <1>2 DEF StartPage, JobT, QueueT, CountT, counters, cleanupVars, docVars,
     schedVars, queueVars, waitVars
<1>3. CASE WriteAsset(w) \/ ThreadExits(w)
  <2>1. UNCHANGED <<counters, jobVars, schedVars>> BY <1>3 DEF WriteAsset, ThreadExits, Stop
  <2>2. QED
    BY <1>0, <2>1 DEF JobT, QueueT, CountT, counters, jobVars, runVars, cleanupVars, docVars,
       schedVars, queueVars, waitVars
<1>4. CASE PageDone(w)
  <2>1. j \in Id BY <1>4, Holds DEF PageDone
  <2>2. cleanupQueued' \in [Id -> BOOLEAN] /\ cleanupQueue' \in Seq(Id)
    BY <1>4, <2>1, FinishCancelT DEF PageDone
  <2>3. /\ state' \in [Id -> Live \cup Terminal \cup {"none"}]
        /\ finalizerRunning' \in [Id -> BOOLEAN]
        /\ pages' \subseteq Pending /\ CountT'
    <3>1. CASE Settled(j)
      BY <1>4, <3>1 DEF PageDone, JobT, QueueT, CountT, counters, queueVars
    <3>2. CASE ~Settled(j)
      <4>1. FinalizeLocked(w, j, collected[j] \cup {page[w]}) BY <1>4, <3>2 DEF PageDone
      <4>2. QED BY <2>1, <4>1, FinalizeLockedT
    <3>3. QED BY <3>1, <3>2
  <2>4. pagesRunning' \in [Id -> Int] /\ outstanding' \in [Id -> Int]
    BY <1>4, <2>1 DEF PageDone, JobT
  <2>5. JobT' BY <1>4, <2>2, <2>3, <2>4 DEF PageDone, JobT
  <2>6. QED BY <1>0, <1>4, <2>2, <2>3, <2>5 DEF PageDone, QueueT, waitVars
<1>5. CASE PageFails(w)
  <2>1. j \in Id BY <1>5, Holds DEF PageFails
  <2>2. FailLocked(j) /\ FinishCancelLocked(j) BY <1>5 DEF PageFails
  <2>3. /\ state' \in [Id -> Live \cup Terminal \cup {"none"}]
        /\ pages' \subseteq Pending /\ CountT'
        /\ cleanupQueued' \in [Id -> BOOLEAN] /\ cleanupQueue' \in Seq(Id)
    BY <2>1, <2>2, FailLockedT, FinishCancelT
  <2>4. pagesRunning' \in [Id -> Int] BY <1>5, <2>1 DEF PageFails, JobT
  <2>5. JobT' BY <1>5, <2>3, <2>4 DEF PageFails, JobT, docVars
  <2>6. QED BY <1>0, <1>5, <2>3, <2>5 DEF PageFails, QueueT, waitVars
<1>6. CASE Finalizer(w) BY <1>0, <1>6, FinalizerTypes
<1>7. QED BY <1>1, <1>2, <1>3, <1>4, <1>5, <1>6 DEF PageWorker

LEMMA CleanerTypes ==
  ASSUME TypeInv, CleanupThread
  PROVE  JobT' /\ QueueT' /\ CountT' /\ HttpT'
<1> USE DEF TypeInv
<1> Cleaner \in AllThreads BY Kinds
<1>1. CASE TakeCleanup
  BY <1>1 DEF TakeCleanup, JobT, QueueT, CountT, HttpT, counters, runVars, docVars, schedVars,
     queueVars, waitVars, httpVars
<1>2. CASE Cleanup
  <2>1. held[Cleaner] \in Id BY <1>2, Holds DEF Cleanup
  <2>2. JobT' BY <1>2, <2>1 DEF Cleanup, JobT, Terminal, runVars, cleanupVars, docVars
  <2>3. CountT' BY <1>2 DEF Cleanup, CountT, ReturnQuota
  <2>4. QED BY <1>2, <2>2, <2>3 DEF Cleanup, QueueT, HttpT, cleanupVars, schedVars, queueVars,
        waitVars, httpVars
<1>3. CASE CleanerExits
  BY <1>3 DEF CleanerExits, Stop, JobT, QueueT, CountT, HttpT, counters, jobVars, runVars,
     cleanupVars, docVars, schedVars, queueVars, waitVars, httpVars
<1>4. QED BY <1>1, <1>2, <1>3 DEF CleanupThread

LEMMA TypesStep == TypeInv /\ [Next]_vars => TypeInv'
<1> SUFFICES ASSUME TypeInv, [Next]_vars PROVE TypeInv' OBVIOUS
<1>1. ThreadT' BY ThreadTStep
<1>2. JobT' /\ QueueT' /\ CountT' /\ HttpT'
  <2>1. CASE BeginShutdown \/ BeginCleanupShutdown \/ Ended \/ UNCHANGED vars
    BY <2>1 DEF BeginShutdown, BeginCleanupShutdown, Ended, vars, TypeInv, JobT, QueueT, CountT,
       HttpT, counters, jobVars, runVars, cleanupVars, docVars, schedVars, queueVars, waitVars,
       httpVars
  <2>2. QED BY <2>1, ConnectionTypes, ReaderTypes, PageWorkerTypes, CleanerTypes DEF Next
<1>3. QED BY <1>1, <1>2 DEF TypeInv

(* Every field, queue, counter and thread stays in its type, and a thread  *)
(* holds a job exactly while it is busy, at a place of its own kind.       *)
THEOREM Types == Spec => []TypeInv
  BY TypesInit, TypesStep, PTL DEF Spec

-----------------------------------------------------------------------------
(* What ties a job's flags and counters to the threads that hold it.       *)

ReadersOf(j) == {r \in Readers : Reading(r, j)}
RunningPages(j) == {w \in PageWorkers : Processing(w, j)}
Carriers(j) == {w \in PageWorkers : held[w] = j /\ pc[w] \in {"taken", "process"}}
FinalizersOf(j) == {t \in Thread : Finalizing(t, j)}

\* reader_running is on exactly while one reader has the document.
ReaderPart(j) ==
  /\ readerRunning[j] <=> ReadersOf(j) # {}
  /\ \A r, s \in ReadersOf(j) : r = s
  /\ ReadersOf(j) # {} => ~readerDone[j]
  /\ ReadersOf(j) # {} => state[j] \in {"reading", "processing", "failed", "cancelling"}

\* Nothing has happened yet to a job that no reader took.
FreshPart(j) ==
  state[j] \in {"none", "queued"} =>
    /\ ~readerDone[j] /\ outstanding[j] = 0 /\ PagesOf(j) = {}
    /\ \A t \in AllThreads : held[t] # j

\* pages_running counts the workers that process pages of the job.
WorkerPart(j) ==
  /\ pagesRunning[j] = Cardinality(RunningPages(j))
  /\ RunningPages(j) # {} => state[j] \in {"processing", "failed", "cancelling"}
  /\ Carriers(j) # {} => state[j] \in {"processing", "failed", "cancelling", "cancelled"}

\* While the job is open, outstanding counts its queued and taken pages.
AccountPart(j) ==
  /\ state[j] \in {"reading", "processing"} =>
       outstanding[j] = Cardinality(PagesOf(j)) + Cardinality(Carriers(j))
  /\ PagesOf(j) # {} => state[j] = "processing"

\* finalizer_running is on exactly while one thread writes the result, and
\* then no other thread has anything of the job.
FinalPart(j) ==
  /\ finalizerRunning[j] <=> FinalizersOf(j) # {}
  /\ \A t \in FinalizersOf(j) :
       /\ readerDone[j] /\ PagesOf(j) = {}
       /\ state[j] \in {"finalizing", "cancelling"}
       /\ \A u \in Thread \ {t} : held[u] # j

JobInv(j) == ReaderPart(j) /\ FreshPart(j) /\ WorkerPart(j) /\ AccountPart(j) /\ FinalPart(j)
PagesInv == IsFiniteSet(pages) /\ \A p \in pages : p.sequence < sequence
RunInv == PagesInv /\ \A j \in Id : JobInv(j)

LEMMA FiniteSides ==
  ASSUME RunInv, NEW j \in Id
  PROVE  /\ IsFiniteSet(PagesOf(j)) /\ IsFiniteSet(Carriers(j)) /\ IsFiniteSet(RunningPages(j))
         /\ Cardinality(PagesOf(j)) \in Nat /\ Cardinality(Carriers(j)) \in Nat
         /\ Cardinality(RunningPages(j)) \in Nat
<1>1. IsFiniteSet(PagesOf(j))
  <2>1. PagesOf(j) \subseteq pages /\ IsFiniteSet(pages) BY DEF PagesOf, RunInv, PagesInv
  <2>2. QED BY <2>1, FS_Subset
<1>2. IsFiniteSet(Carriers(j)) /\ IsFiniteSet(RunningPages(j))
  <2>1. Carriers(j) \subseteq PageWorkers /\ RunningPages(j) \subseteq PageWorkers
    BY DEF Carriers, RunningPages
  <2>2. QED BY <2>1, SchedulerAssumption, FS_Subset
<1>3. QED BY <1>1, <1>2, FS_CardinalityType

\* A step that does nothing to a job, nor to a thread that holds it, keeps
\* what the invariant says of that job.
LEMMA JobFrame ==
  ASSUME NEW k \in Id, JobInv(k),
         state'[k] = state[k], readerRunning'[k] = readerRunning[k],
         finalizerRunning'[k] = finalizerRunning[k], pagesRunning'[k] = pagesRunning[k],
         readerDone'[k] = readerDone[k], outstanding'[k] = outstanding[k],
         PagesOf(k)' = PagesOf(k),
         \A u \in AllThreads : held'[u] = k <=> held[u] = k,
         \A u \in Readers : held[u] = k =>
           (pc'[u] \in {"read", "admit", "copy", "caught"} <=> pc[u] \in {"read", "admit", "copy", "caught"}),
         \A u \in PageWorkers : held[u] = k =>
           /\ pc'[u] = "process" <=> pc[u] = "process"
           /\ pc'[u] = "taken" <=> pc[u] = "taken",
         \A u \in Thread : held[u] = k =>
           (pc'[u] \in {"finalize", "publish"} <=> pc[u] \in {"finalize", "publish"})
  PROVE  JobInv(k)'
<1>1. ReadersOf(k)' = ReadersOf(k) BY Kinds DEF ReadersOf, Reading
<1>2. RunningPages(k)' = RunningPages(k) /\ Carriers(k)' = Carriers(k)
  BY Kinds DEF RunningPages, Processing, Carriers
<1>3. FinalizersOf(k)' = FinalizersOf(k) BY Kinds DEF FinalizersOf, Finalizing, AllThreads
<1>4. ReaderPart(k)' BY <1>1 DEF JobInv, ReaderPart
<1>5. FreshPart(k)' BY DEF JobInv, FreshPart
<1>6. WorkerPart(k)' BY <1>2 DEF JobInv, WorkerPart
<1>7. AccountPart(k)' BY <1>2 DEF JobInv, AccountPart
<1>8. FinalPart(k)' BY <1>3 DEF JobInv, FinalPart, AllThreads
<1>9. QED BY <1>4, <1>5, <1>6, <1>7, <1>8 DEF JobInv

LEMMA RunInit == Init => RunInv
<1> SUFFICES ASSUME Init PROVE RunInv OBVIOUS
<1>1. PagesInv BY FS_EmptySet DEF Init, PagesInv
<1>2. ASSUME NEW j \in Id PROVE JobInv(j)
  <2>1. /\ ReadersOf(j) = {} /\ RunningPages(j) = {} /\ Carriers(j) = {}
        /\ FinalizersOf(j) = {} /\ PagesOf(j) = {}
    BY Kinds DEF Init, ReadersOf, RunningPages, Carriers, FinalizersOf, PagesOf, Reading, Processing,
       Finalizing, AllThreads
  <2>2. \A t \in AllThreads : held[t] # j BY Kinds DEF Init
  <2>3. QED BY <2>1, <2>2, FS_EmptySet
    DEF Init, JobInv, ReaderPart, FreshPart, WorkerPart, AccountPart, FinalPart
<1>3. QED BY <1>1, <1>2 DEF RunInv

\* A thread that works for job j touches no other job.
LEMMA OtherJobs ==
  ASSUME RunInv, NEW t \in AllThreads, NEW j \in Id,
         held[t] \in {j, NoJob}, held'[t] \in {j, NoJob},
         \A u \in AllThreads \ {t} : pc'[u] = pc[u] /\ held'[u] = held[u],
         \A k \in Id \ {j} :
           /\ state'[k] = state[k] /\ readerRunning'[k] = readerRunning[k]
           /\ finalizerRunning'[k] = finalizerRunning[k] /\ pagesRunning'[k] = pagesRunning[k]
           /\ readerDone'[k] = readerDone[k] /\ outstanding'[k] = outstanding[k]
           /\ PagesOf(k)' = PagesOf(k)
  PROVE  \A k \in Id \ {j} : JobInv(k)'
<1> TAKE k \in Id \ {j}
<1>1. JobInv(k) BY DEF RunInv
<1>2. \A u \in AllThreads : held'[u] = k <=> held[u] = k BY Kinds
<1>3. \A u \in AllThreads : held[u] = k => pc'[u] = pc[u] BY Kinds
<1>4. QED BY <1>1, <1>2, <1>3, JobFrame, Kinds

LEMMA ReleaseEffect ==
  ASSUME ThreadT, NEW t \in AllThreads, Release(t)
  PROVE  /\ pc'[t] = "idle" /\ held'[t] = NoJob
         /\ \A u \in AllThreads \ {t} : pc'[u] = pc[u] /\ held'[u] = held[u]
  BY DEF Release, Goto, ThreadT

LEMMA GotoEffect ==
  ASSUME ThreadT, NEW t \in AllThreads, NEW label, Goto(t, label), UNCHANGED held
  PROVE  /\ pc'[t] = label /\ held'[t] = held[t]
         /\ \A u \in AllThreads \ {t} : pc'[u] = pc[u] /\ held'[u] = held[u]
  BY DEF Goto, ThreadT

LEMMA FailEffect ==
  ASSUME TypeInv, NEW j \in Id, FailLocked(j)
  PROVE  /\ Settled(j) => state'[j] = state[j] /\ PagesOf(j)' = PagesOf(j)
         /\ ~Settled(j) => state'[j] = "failed" /\ PagesOf(j)' = {}
         /\ \A k \in Id \ {j} : state'[k] = state[k] /\ PagesOf(k)' = PagesOf(k)
         /\ pages' \subseteq pages
<1>1. CASE Settled(j) BY <1>1 DEF FailLocked, PagesOf, queueVars
<1>2. CASE ~Settled(j)
  BY <1>2 DEF FailLocked, TypeInv, JobT, DiscardPages, PagesOf
<1>3. QED BY <1>1, <1>2

\* Threads that belong to a job after one of them, t, was released from it.
LEMMA Released ==
  ASSUME NEW t \in AllThreads, NEW j \in Id, held[t] = j,
         pc'[t] = "idle", held'[t] = NoJob,
         \A u \in AllThreads \ {t} : pc'[u] = pc[u] /\ held'[u] = held[u]
  PROVE  /\ ReadersOf(j)' = ReadersOf(j) \ {t}
         /\ RunningPages(j)' = RunningPages(j) \ {t}
         /\ Carriers(j)' = Carriers(j) \ {t}
         /\ FinalizersOf(j)' = FinalizersOf(j) \ {t}
         /\ \A u \in AllThreads : held'[u] = j => u # t /\ held[u] = j
  BY Kinds DEF ReadersOf, RunningPages, Carriers, FinalizersOf, Reading, Processing, Finalizing

LEMMA PagesKept ==
  ASSUME PagesInv, pages' \subseteq pages, UNCHANGED sequence
  PROVE  PagesInv'
  BY FS_Subset DEF PagesInv

LEMMA ReaderFailsRun ==
  ASSUME TypeInv, RunInv, NEW r \in Readers, ReaderFails(r)
  PROVE  RunInv'
<1> r \in AllThreads /\ r \in Thread /\ r \notin PageWorkers BY Kinds
<1>0. PICK j \in Id : held[r] = j BY Holds DEF ReaderFails, TypeInv
<1>1. j \in Id /\ held[r] = j /\ r \in ReadersOf(j)
  BY <1>0 DEF ReaderFails, TypeInv, ReadersOf, Reading
<1>2. FailLocked(j) /\ Release(r) /\ UNCHANGED <<finalizerRunning, pagesRunning, docVars, sequence>>
  BY <1>0 DEF ReaderFails
<1>3. /\ readerRunning'[j] = FALSE
      /\ \A k \in Id \ {j} : readerRunning'[k] = readerRunning[k]
  BY <1>1 DEF ReaderFails, TypeInv, JobT
<1>4. /\ pc'[r] = "idle" /\ held'[r] = NoJob
      /\ \A u \in AllThreads \ {r} : pc'[u] = pc[u] /\ held'[u] = held[u]
  BY <1>2, ReleaseEffect DEF TypeInv
<1>5. /\ Settled(j) => state'[j] = state[j] /\ PagesOf(j)' = PagesOf(j)
      /\ ~Settled(j) => state'[j] = "failed" /\ PagesOf(j)' = {}
      /\ \A k \in Id \ {j} : state'[k] = state[k] /\ PagesOf(k)' = PagesOf(k)
      /\ pages' \subseteq pages
  BY <1>1, <1>2, FailEffect
<1>6. PagesInv' BY <1>2, <1>5, PagesKept DEF RunInv
<1>7. \A k \in Id \ {j} : JobInv(k)' BY <1>1, <1>2, <1>3, <1>4, <1>5, OtherJobs DEF docVars
<1>8. JobInv(j)'
  <2> JobInv(j) BY <1>1 DEF RunInv
  <2>1. /\ ReadersOf(j)' = {}
        /\ RunningPages(j)' = RunningPages(j) /\ Carriers(j)' = Carriers(j)
        /\ FinalizersOf(j)' = FinalizersOf(j) /\ FinalizersOf(j) = {}
    <3>1. ReadersOf(j)' = ReadersOf(j) \ {r} /\ FinalizersOf(j)' = FinalizersOf(j) \ {r}
      BY <1>1, <1>4, Released
    <3>2. FinalizersOf(j) = {}
      BY <1>1 DEF JobInv, FinalPart, FinalizersOf, Finalizing, ReadersOf, Reading
    <3>3. ReadersOf(j) = {r} BY <1>1 DEF JobInv, ReaderPart
    <3>4. r \notin RunningPages(j) /\ r \notin Carriers(j) BY DEF RunningPages, Carriers
    <3>5. QED BY <1>1, <1>4, <3>1, <3>2, <3>3, <3>4, Released
  <2>2. state[j] \in {"reading", "processing", "failed", "cancelling"}
        /\ state'[j] \in {"failed", "cancelling"}
    BY <1>1, <1>5 DEF JobInv, ReaderPart, Settled, Terminal
  <2>3. ReaderPart(j)' BY <1>3, <2>1 DEF ReaderPart
  <2>4. FreshPart(j)' BY <2>2 DEF FreshPart
  <2>5. WorkerPart(j)' BY <1>2, <2>1, <2>2 DEF JobInv, WorkerPart
  <2>6. AccountPart(j)' BY <1>5, <2>2 DEF JobInv, AccountPart, Settled, Terminal
  <2>7. FinalPart(j)' BY <1>2, <2>1 DEF JobInv, FinalPart
  <2>8. QED BY <2>3, <2>4, <2>5, <2>6, <2>7 DEF JobInv
<1>9. QED BY <1>6, <1>7, <1>8 DEF RunInv

LEMMA FinalizeOthers ==
  ASSUME TypeInv, NEW t \in AllThreads, NEW j \in Id, held[t] = j, NEW found,
         FinalizeLocked(t, j, found)
  PROVE  /\ \A k \in Id \ {j} : /\ state'[k] = state[k] /\ PagesOf(k)' = PagesOf(k)
                                /\ finalizerRunning'[k] = finalizerRunning[k]
         /\ \A u \in AllThreads \ {t} : pc'[u] = pc[u] /\ held'[u] = held[u]
         /\ pages' \subseteq pages
         /\ held'[t] \in {j, NoJob}
<1>1. CASE MayFinalize(j) /\ found # {}
  <2>1. /\ pages' = pages /\ state' = [state EXCEPT ![j] = "finalizing"]
        /\ finalizerRunning' = [finalizerRunning EXCEPT ![j] = TRUE]
        /\ Goto(t, "finalize") /\ UNCHANGED held
    BY <1>1 DEF FinalizeLocked, queueVars
  <2>2. \A u \in AllThreads \ {t} : pc'[u] = pc[u] /\ held'[u] = held[u]
    BY <2>1, GotoEffect DEF TypeInv
  <2>3. QED BY <2>1, <2>2 DEF TypeInv, JobT, PagesOf
<1>2. CASE MayFinalize(j) /\ found = {}
  <2>1. FailLocked(j) /\ Release(t) /\ UNCHANGED finalizerRunning BY <1>2 DEF FinalizeLocked
  <2>2. QED BY <2>1, FailEffect, ReleaseEffect DEF TypeInv
<1>3. CASE ~MayFinalize(j)
  <2>1. Release(t) /\ UNCHANGED <<state, finalizerRunning, pages>>
    BY <1>3 DEF FinalizeLocked, queueVars
  <2>2. QED BY <2>1, ReleaseEffect DEF TypeInv, PagesOf
<1>4. QED BY <1>1, <1>2, <1>3

LEMMA FinalizeCases ==
  ASSUME TypeInv, NEW t \in AllThreads, NEW j \in Id, held[t] = j, NEW found,
         FinalizeLocked(t, j, found)
  PROVE  \/ /\ MayFinalize(j) /\ state'[j] = "finalizing" /\ finalizerRunning'[j] = TRUE
            /\ pc'[t] = "finalize" /\ held'[t] = j /\ PagesOf(j)' = PagesOf(j)
         \/ /\ MayFinalize(j) /\ state'[j] = "failed"
            /\ finalizerRunning'[j] = finalizerRunning[j]
            /\ pc'[t] = "idle" /\ held'[t] = NoJob /\ PagesOf(j)' = {}
         \/ /\ ~MayFinalize(j) /\ state'[j] = state[j]
            /\ finalizerRunning'[j] = finalizerRunning[j]
            /\ pc'[t] = "idle" /\ held'[t] = NoJob /\ PagesOf(j)' = PagesOf(j)
<1>1. CASE MayFinalize(j) /\ found # {}
  <2>1. /\ pages' = pages /\ state' = [state EXCEPT ![j] = "finalizing"]
        /\ finalizerRunning' = [finalizerRunning EXCEPT ![j] = TRUE]
        /\ Goto(t, "finalize") /\ UNCHANGED held
    BY <1>1 DEF FinalizeLocked, queueVars
  <2>2. pc'[t] = "finalize" /\ held'[t] = j BY <2>1, GotoEffect DEF TypeInv
  <2>3. PagesOf(j)' = PagesOf(j) BY <2>1 DEF PagesOf
  <2>4. QED BY <1>1, <2>1, <2>2, <2>3 DEF TypeInv, JobT
<1>2. CASE MayFinalize(j) /\ found = {}
  <2>1. FailLocked(j) /\ Release(t) /\ UNCHANGED finalizerRunning BY <1>2 DEF FinalizeLocked
  <2>2. ~Settled(j) BY <1>2 DEF MayFinalize
  <2>3. QED BY <1>2, <2>1, <2>2, FailEffect, ReleaseEffect DEF TypeInv
<1>3. CASE ~MayFinalize(j)
  <2>1. Release(t) /\ UNCHANGED <<state, finalizerRunning, pages>>
    BY <1>3 DEF FinalizeLocked, queueVars
  <2>2. QED BY <1>3, <2>1, ReleaseEffect DEF TypeInv, PagesOf
<1>4. QED BY <1>1, <1>2, <1>3

LEMMA NoFinalizer ==
  ASSUME NEW j \in Id, FinalPart(j), NEW t \in Thread, held[t] = j,
         pc[t] \notin {"finalize", "publish"}
  PROVE  FinalizersOf(j) = {}
<1> SUFFICES ASSUME NEW u \in FinalizersOf(j) PROVE FALSE OBVIOUS
<1>1. u # t BY DEF FinalizersOf, Finalizing
<1>2. QED BY <1>1 DEF FinalPart

LEMMA Uses ==
  ASSUME ThreadT, NEW j \in Id, NEW u \in Thread, held[u] = j
  PROVE  u \in ReadersOf(j) \cup Carriers(j) \cup FinalizersOf(j)
<1> u \in AllThreads BY DEF AllThreads
<1>0. pc[u] \notin {"idle", "exited"} BY Kinds DEF ThreadT
<1>1. CASE u \in Readers
  <2>1. pc[u] \in {"read", "admit", "copy", "caught", "finalize", "publish"}
    BY <1>0, <1>1 DEF ThreadT
  <2>2. QED BY <1>1, <2>1 DEF ReadersOf, Reading, FinalizersOf, Finalizing
<1>2. CASE u \in PageWorkers
  <2>1. pc[u] \in {"taken", "process", "finalize", "publish"} BY <1>0, <1>2 DEF ThreadT
  <2>2. QED BY <1>2, <2>1 DEF Carriers, FinalizersOf, Finalizing
<1>3. QED BY <1>1, <1>2, Kinds

LEMMA EndOfDocumentRun ==
  ASSUME TypeInv, RunInv, NEW r \in Readers, EndOfDocument(r)
  PROVE  RunInv'
<1> r \in AllThreads /\ r \in Thread /\ r \notin PageWorkers BY Kinds
<1>0. PICK j \in Id : held[r] = j BY Holds DEF EndOfDocument, TypeInv
<1>1. j \in Id /\ held[r] = j /\ r \in ReadersOf(j)
  BY <1>0 DEF EndOfDocument, TypeInv, ReadersOf, Reading
<1>2. /\ FinalizeLocked(r, j, collected[j])
      /\ UNCHANGED <<outstanding, pagesRunning, sequence>>
  BY <1>0 DEF EndOfDocument
<1>3. /\ readerRunning'[j] = FALSE /\ readerDone'[j] = TRUE
      /\ \A k \in Id \ {j} : readerRunning'[k] = readerRunning[k] /\ readerDone'[k] = readerDone[k]
  BY <1>1 DEF EndOfDocument, TypeInv, JobT
<1>4. /\ \A k \in Id \ {j} : /\ state'[k] = state[k] /\ PagesOf(k)' = PagesOf(k)
                             /\ finalizerRunning'[k] = finalizerRunning[k]
      /\ \A u \in AllThreads \ {r} : pc'[u] = pc[u] /\ held'[u] = held[u]
      /\ pages' \subseteq pages
      /\ held'[r] \in {j, NoJob}
  BY <1>1, <1>2, FinalizeOthers
<1>5. PagesInv' BY <1>2, <1>4, PagesKept DEF RunInv
<1>6. \A k \in Id \ {j} : JobInv(k)' BY <1>1, <1>2, <1>3, <1>4, OtherJobs
<1>7. JobInv(j)'
  <2> JobInv(j) BY <1>1 DEF RunInv
  <2>1. ReadersOf(j) = {r} /\ FinalizersOf(j) = {}
    <3>1. ReadersOf(j) = {r} BY <1>1 DEF JobInv, ReaderPart
    <3>2. pc[r] = "read" BY DEF EndOfDocument
    <3>3. QED BY <1>1, <3>1, <3>2, NoFinalizer DEF JobInv
  <2>2. r \notin RunningPages(j) /\ r \notin Carriers(j) BY DEF RunningPages, Carriers
  <2>3. state[j] \in {"reading", "processing", "failed", "cancelling"} /\ pc[r] = "read"
    BY <1>1 DEF JobInv, ReaderPart, EndOfDocument
  <2>4. CASE /\ MayFinalize(j) /\ state'[j] = "finalizing" /\ finalizerRunning'[j] = TRUE
             /\ pc'[r] = "finalize" /\ held'[r] = j /\ PagesOf(j)' = PagesOf(j)
    <3>1. Cardinality(PagesOf(j)) = 0 /\ Cardinality(Carriers(j)) = 0
      BY <1>2, <2>3, <2>4, FiniteSides DEF MayFinalize, Settled, Terminal, JobInv, AccountPart
    <3>2. PagesOf(j) = {} /\ Carriers(j) = {}
      BY <3>1, FiniteSides, FS_EmptySet
    <3>3. \A u \in Thread \ {r} : held[u] # j
      BY <1>1, <2>1, <3>2, Uses DEF TypeInv
    <3>4. /\ ReadersOf(j)' = {} /\ RunningPages(j)' = {} /\ Carriers(j)' = {}
          /\ FinalizersOf(j)' = {r} /\ \A u \in Thread \ {r} : held'[u] # j
      BY <1>4, <2>4, <3>3, Kinds DEF ReadersOf, Reading, RunningPages, Processing, Carriers,
         FinalizersOf, Finalizing
    <3>5. RunningPages(j) = {} BY <3>2 DEF RunningPages, Carriers, Processing
    <3>6. QED BY <1>2, <1>3, <2>4, <3>2, <3>4, <3>5
      DEF JobInv, ReaderPart, FreshPart, WorkerPart, AccountPart, FinalPart
  <2>5. ASSUME /\ \/ MayFinalize(j) /\ state'[j] = "failed" /\ PagesOf(j)' = {}
                  \/ state'[j] = state[j] /\ PagesOf(j)' = PagesOf(j)
               /\ finalizerRunning'[j] = finalizerRunning[j]
               /\ pc'[r] = "idle" /\ held'[r] = NoJob
        PROVE  JobInv(j)'
    <3>1. /\ ReadersOf(j)' = {} /\ FinalizersOf(j)' = {} /\ RunningPages(j)' = RunningPages(j)
          /\ Carriers(j)' = Carriers(j)
      <4>1. /\ ReadersOf(j)' = ReadersOf(j) \ {r} /\ FinalizersOf(j)' = FinalizersOf(j) \ {r}
            /\ RunningPages(j)' = RunningPages(j) \ {r} /\ Carriers(j)' = Carriers(j) \ {r}
        BY <1>1, <1>4, <2>5, Released
      <4>2. QED BY <2>1, <2>2, <4>1
    <3>2. state[j] = "reading" => Carriers(j) = {} /\ RunningPages(j) = {}
      BY DEF JobInv, WorkerPart
    <3>3. MayFinalize(j) => state[j] \notin {"failed", "cancelling"}
      BY DEF MayFinalize, Settled, Terminal
    <3>4. ReaderPart(j)' /\ FreshPart(j)' BY <1>3, <2>3, <2>5, <3>1 DEF ReaderPart, FreshPart
    <3>5. WorkerPart(j)' BY <1>2, <2>3, <2>5, <3>1, <3>3 DEF JobInv, WorkerPart
    <3>6. AccountPart(j)' BY <1>2, <2>3, <2>5, <3>1 DEF JobInv, AccountPart
    <3>7. FinalPart(j)' BY <2>1, <2>5, <3>1 DEF JobInv, FinalPart
    <3>8. QED BY <3>4, <3>5, <3>6, <3>7 DEF JobInv
  <2>6. PICK found : FinalizeLocked(r, j, found) BY <1>2
  <2>7. QED BY <1>1, <2>4, <2>5, <2>6, FinalizeCases
<1>8. QED BY <1>5, <1>6, <1>7 DEF RunInv

LEMMA PageFailsRun ==
  ASSUME TypeInv, RunInv, NEW w \in PageWorkers, PageFails(w)
  PROVE  RunInv'
<1> w \in AllThreads /\ w \in Thread /\ w \notin Readers BY Kinds
<1>0. PICK j \in Id : held[w] = j BY Holds DEF PageFails, TypeInv
<1>1. j \in Id /\ held[w] = j /\ w \in RunningPages(j) /\ w \in Carriers(j)
  BY <1>0 DEF PageFails, RunningPages, Processing, Carriers
<1>2. /\ FailLocked(j) /\ Release(w)
      /\ UNCHANGED <<readerRunning, finalizerRunning, docVars, sequence>>
  BY <1>0 DEF PageFails
<1>3. /\ pagesRunning'[j] = pagesRunning[j] - 1
      /\ \A k \in Id \ {j} : pagesRunning'[k] = pagesRunning[k]
  BY <1>1 DEF PageFails, TypeInv, JobT
<1>4. /\ pc'[w] = "idle" /\ held'[w] = NoJob
      /\ \A u \in AllThreads \ {w} : pc'[u] = pc[u] /\ held'[u] = held[u]
  BY <1>2, ReleaseEffect DEF TypeInv
<1>5. /\ Settled(j) => state'[j] = state[j] /\ PagesOf(j)' = PagesOf(j)
      /\ ~Settled(j) => state'[j] = "failed" /\ PagesOf(j)' = {}
      /\ \A k \in Id \ {j} : state'[k] = state[k] /\ PagesOf(k)' = PagesOf(k)
      /\ pages' \subseteq pages
  BY <1>1, <1>2, FailEffect
<1>6. PagesInv' BY <1>2, <1>5, PagesKept DEF RunInv
<1>7. \A k \in Id \ {j} : JobInv(k)' BY <1>1, <1>2, <1>3, <1>4, <1>5, OtherJobs DEF docVars
<1>8. JobInv(j)'
  <2> JobInv(j) BY <1>1 DEF RunInv
  <2>1. /\ ReadersOf(j)' = ReadersOf(j) \ {w} /\ FinalizersOf(j)' = FinalizersOf(j) \ {w}
        /\ RunningPages(j)' = RunningPages(j) \ {w} /\ Carriers(j)' = Carriers(j) \ {w}
    BY <1>1, <1>4, Released
  <2>2. w \notin ReadersOf(j) BY DEF ReadersOf
  <2>3. FinalizersOf(j) = {}
    <3>1. pc[w] = "process" BY DEF PageFails
    <3>2. QED BY <1>1, <3>1, NoFinalizer DEF JobInv
  <2>4. state[j] \in {"processing", "failed", "cancelling"} /\ state'[j] \in {"failed", "cancelling"}
    BY <1>1, <1>5 DEF JobInv, WorkerPart, Settled, Terminal
  <2>5. Cardinality(RunningPages(j) \ {w}) = Cardinality(RunningPages(j)) - 1
    BY <1>1, FiniteSides, FS_RemoveElement
  <2>6. ReaderPart(j)' BY <1>2, <2>1, <2>2, <2>4 DEF JobInv, ReaderPart, docVars
  <2>7. FreshPart(j)' BY <2>4 DEF FreshPart
  <2>8. WorkerPart(j)' BY <1>3, <2>1, <2>4, <2>5 DEF JobInv, WorkerPart
  <2>9. AccountPart(j)' BY <1>5, <2>4 DEF JobInv, AccountPart, Settled, Terminal
  <2>10. FinalPart(j)' BY <1>2, <2>1, <2>3 DEF JobInv, FinalPart
  <2>11. QED BY <2>6, <2>7, <2>8, <2>9, <2>10 DEF JobInv
<1>9. QED BY <1>6, <1>7, <1>8 DEF RunInv

LEMMA PageDoneRun ==
  ASSUME TypeInv, RunInv, NEW w \in PageWorkers, PageDone(w)
  PROVE  RunInv'
<1> w \in AllThreads /\ w \in Thread /\ w \notin Readers BY Kinds
<1>0. PICK j \in Id : held[w] = j BY Holds DEF PageDone, TypeInv
<1>1. j \in Id /\ held[w] = j /\ w \in RunningPages(j) /\ w \in Carriers(j)
  BY <1>0 DEF PageDone, RunningPages, Processing, Carriers
<1>2. UNCHANGED <<readerRunning, readerDone, sequence>> BY DEF PageDone
<1>3. /\ pagesRunning'[j] = pagesRunning[j] - 1
      /\ \A k \in Id \ {j} : pagesRunning'[k] = pagesRunning[k]
  BY <1>1 DEF PageDone, TypeInv, JobT
<1> JobInv(j) BY <1>1 DEF RunInv
<1>4. /\ w \notin ReadersOf(j) /\ FinalizersOf(j) = {}
      /\ state[j] \in {"processing", "failed", "cancelling"}
  <2>1. pc[w] = "process" BY DEF PageDone
  <2>2. QED BY <1>1, <2>1, NoFinalizer DEF JobInv, WorkerPart, ReadersOf
<1>5. /\ Cardinality(RunningPages(j) \ {w}) = Cardinality(RunningPages(j)) - 1
      /\ Cardinality(Carriers(j) \ {w}) = Cardinality(Carriers(j)) - 1
  BY <1>1, FiniteSides, FS_RemoveElement
<1>6. CASE Settled(j)
  <2>1. /\ Release(w) /\ UNCHANGED <<outstanding, finalizerRunning, state, pages>>
    BY <1>0, <1>6 DEF PageDone, queueVars
  <2>2. /\ pc'[w] = "idle" /\ held'[w] = NoJob
        /\ \A u \in AllThreads \ {w} : pc'[u] = pc[u] /\ held'[u] = held[u]
    BY <2>1, ReleaseEffect DEF TypeInv
  <2>3. PagesInv' BY <1>2, <2>1 DEF RunInv, PagesInv
  <2>4. \A k \in Id : PagesOf(k)' = PagesOf(k) BY <2>1 DEF PagesOf
  <2>5. \A k \in Id \ {j} : JobInv(k)' BY <1>1, <1>2, <1>3, <2>1, <2>2, <2>4, OtherJobs
  <2>6. /\ ReadersOf(j)' = ReadersOf(j) \ {w} /\ FinalizersOf(j)' = FinalizersOf(j) \ {w}
        /\ RunningPages(j)' = RunningPages(j) \ {w} /\ Carriers(j)' = Carriers(j) \ {w}
    BY <1>1, <2>2, Released
  <2>7. ReaderPart(j)' /\ FreshPart(j)'
    BY <1>2, <1>4, <2>1, <2>6 DEF JobInv, ReaderPart, FreshPart
  <2>8. WorkerPart(j)' BY <1>3, <1>4, <1>5, <2>1, <2>6 DEF JobInv, WorkerPart
  <2>9. AccountPart(j)' BY <1>4, <1>6, <2>1, <2>4 DEF JobInv, AccountPart, Settled, Terminal
  <2>10. FinalPart(j)' BY <1>4, <2>1, <2>6 DEF JobInv, FinalPart
  <2>11. QED BY <1>1, <2>3, <2>5, <2>7, <2>8, <2>9, <2>10 DEF RunInv, JobInv
<1>7. CASE ~Settled(j)
  <2>1. PICK found : FinalizeLocked(w, j, found) BY <1>0, <1>7 DEF PageDone
  <2>2. /\ outstanding'[j] = outstanding[j] - 1
        /\ \A k \in Id \ {j} : outstanding'[k] = outstanding[k]
    BY <1>0, <1>7 DEF PageDone, TypeInv, JobT
  <2>3. /\ \A k \in Id \ {j} : /\ state'[k] = state[k] /\ PagesOf(k)' = PagesOf(k)
                               /\ finalizerRunning'[k] = finalizerRunning[k]
        /\ \A u \in AllThreads \ {w} : pc'[u] = pc[u] /\ held'[u] = held[u]
        /\ pages' \subseteq pages /\ held'[w] \in {j, NoJob}
    BY <1>1, <2>1, FinalizeOthers
  <2>4. PagesInv' BY <1>2, <2>3, PagesKept DEF RunInv
  <2>5. \A k \in Id \ {j} : JobInv(k)' BY <1>1, <1>2, <1>3, <2>2, <2>3, OtherJobs
  <2>6. state[j] = "processing" BY <1>4, <1>7 DEF Settled, Terminal
  <2>7. ASSUME /\ MayFinalize(j) /\ state'[j] = "finalizing" /\ finalizerRunning'[j] = TRUE
               /\ pc'[w] = "finalize" /\ held'[w] = j /\ PagesOf(j)' = PagesOf(j)
        PROVE  JobInv(j)'
    <3>1. Cardinality(PagesOf(j)) = 0 /\ Cardinality(Carriers(j) \ {w}) = 0 /\ readerDone[j]
      <4>1. outstanding'[j] = 0 /\ readerDone[j] BY <1>2, <2>7 DEF MayFinalize
      <4>2. outstanding[j] = Cardinality(PagesOf(j)) + Cardinality(Carriers(j))
        BY <2>6 DEF JobInv, AccountPart
      <4>3. Cardinality(Carriers(j) \ {w}) \in Nat
        BY FiniteSides, FS_RemoveElement, FS_CardinalityType
      <4>4. QED BY <1>5, <2>2, <4>1, <4>2, <4>3, FiniteSides
    <3>2. PagesOf(j) = {} /\ Carriers(j) \ {w} = {} /\ ReadersOf(j) = {}
      BY <3>1, FiniteSides, FS_EmptySet, FS_RemoveElement DEF JobInv, ReaderPart
    <3>3. \A u \in Thread \ {w} : held[u] # j BY <1>1, <1>4, <3>2, Uses DEF TypeInv
    <3>4. /\ ReadersOf(j)' = {} /\ RunningPages(j)' = {} /\ Carriers(j)' = {}
          /\ FinalizersOf(j)' = {w} /\ \A u \in Thread \ {w} : held'[u] # j
      BY <2>3, <2>7, <3>3, Kinds DEF ReadersOf, Reading, RunningPages, Processing, Carriers,
         FinalizersOf, Finalizing
    <3>5. RunningPages(j) \ {w} = {} BY <3>2 DEF RunningPages, Carriers, Processing
    <3>6. pagesRunning'[j] = 0 BY <1>3, <1>5, <3>5, FS_EmptySet DEF JobInv, WorkerPart
    <3>7. ReaderPart(j)' /\ FreshPart(j)' /\ FinalPart(j)'
      BY <1>2, <2>7, <3>1, <3>2, <3>4 DEF JobInv, ReaderPart, FreshPart, FinalPart
    <3>8. WorkerPart(j)' /\ AccountPart(j)'
      BY <2>7, <3>2, <3>4, <3>6, FS_EmptySet DEF WorkerPart, AccountPart
    <3>9. QED BY <3>7, <3>8 DEF JobInv
  <2>8. ASSUME /\ \/ state'[j] = "failed" /\ PagesOf(j)' = {}
                  \/ state'[j] = state[j] /\ PagesOf(j)' = PagesOf(j)
               /\ finalizerRunning'[j] = finalizerRunning[j]
               /\ pc'[w] = "idle" /\ held'[w] = NoJob
        PROVE  JobInv(j)'
    <3>1. /\ ReadersOf(j)' = ReadersOf(j) \ {w} /\ FinalizersOf(j)' = FinalizersOf(j) \ {w}
          /\ RunningPages(j)' = RunningPages(j) \ {w} /\ Carriers(j)' = Carriers(j) \ {w}
      BY <1>1, <2>3, <2>8, Released
    <3>2. ReaderPart(j)' BY <1>2, <1>4, <2>6, <2>8, <3>1 DEF JobInv, ReaderPart
    <3>3. FreshPart(j)' BY <2>6, <2>8 DEF FreshPart
    <3>4. WorkerPart(j)' BY <1>3, <1>5, <2>6, <2>8, <3>1 DEF JobInv, WorkerPart
    <3>5. AccountPart(j)'
      BY <1>5, <2>2, <2>6, <2>8, <3>1, FiniteSides DEF JobInv, AccountPart
    <3>6. FinalPart(j)' BY <1>4, <2>8, <3>1 DEF JobInv, FinalPart
    <3>7. QED BY <3>2, <3>3, <3>4, <3>5, <3>6 DEF JobInv
  <2>9. JobInv(j)' BY <1>1, <2>1, <2>7, <2>8, FinalizeCases
  <2>10. QED BY <2>4, <2>5, <2>9 DEF RunInv
<1>8. QED BY <1>6, <1>7

LEMMA TakePageRun ==
  ASSUME TypeInv, RunInv, NEW w \in PageWorkers, TakePage(w)
  PROVE  RunInv'
<1> w \in AllThreads /\ w \in Thread /\ w \notin Readers BY Kinds
<1>1. PICK p \in pages : pages' = pages \ {p} /\ held' = [held EXCEPT ![w] = p.job]
  BY DEF TakePage
<1>2. PICK j \in Id : j = p.job BY DEF TypeInv, QueueT, Pending
<1>3. /\ pc[w] = "idle" /\ held[w] = NoJob /\ UNCHANGED <<jobVars, sequence>>
  BY DEF TakePage, TypeInv, ThreadT
<1>4. /\ pc'[w] = "taken" /\ held'[w] = j
      /\ \A u \in AllThreads \ {w} : pc'[u] = pc[u] /\ held'[u] = held[u]
  BY <1>1, <1>2 DEF TakePage, Goto, TypeInv, ThreadT
<1>5. PagesInv' BY <1>1, <1>3, PagesKept DEF RunInv
<1>6. /\ p \in PagesOf(j) /\ PagesOf(j)' = PagesOf(j) \ {p}
      /\ \A k \in Id \ {j} : PagesOf(k)' = PagesOf(k)
  BY <1>1, <1>2 DEF PagesOf
<1>7. \A k \in Id \ {j} : JobInv(k)'
  BY <1>3, <1>4, <1>6, OtherJobs DEF jobVars, runVars, docVars
<1>8. JobInv(j)'
  <2> JobInv(j) BY DEF RunInv
  <2>1. state[j] = "processing" BY <1>6 DEF JobInv, AccountPart
  <2>2. /\ ReadersOf(j)' = ReadersOf(j) /\ RunningPages(j)' = RunningPages(j)
        /\ Carriers(j)' = Carriers(j) \cup {w} /\ w \notin Carriers(j)
        /\ FinalizersOf(j)' = FinalizersOf(j) /\ FinalizersOf(j) = {}
    <3>1. FinalizersOf(j) = {} BY <1>6 DEF JobInv, FinalPart
    <3>2. QED BY <1>3, <1>4, <3>1, Kinds DEF ReadersOf, Reading, RunningPages, Processing, Carriers,
          FinalizersOf, Finalizing
  <2>3. /\ Cardinality(Carriers(j) \cup {w}) = Cardinality(Carriers(j)) + 1
        /\ Cardinality(PagesOf(j) \ {p}) = Cardinality(PagesOf(j)) - 1
    BY <1>6, <2>2, FiniteSides, FS_AddElement, FS_RemoveElement
  <2>4. ReaderPart(j)' /\ FreshPart(j)' /\ WorkerPart(j)' /\ FinalPart(j)'
    BY <1>3, <2>1, <2>2 DEF JobInv, ReaderPart, FreshPart, WorkerPart, FinalPart, jobVars, runVars,
       docVars
  <2>5. AccountPart(j)'
    BY <1>3, <1>6, <2>1, <2>2, <2>3, FiniteSides DEF JobInv, AccountPart, jobVars, docVars
  <2>6. QED BY <2>4, <2>5 DEF JobInv
<1>9. QED BY <1>5, <1>7, <1>8 DEF RunInv

LEMMA StartPageRun ==
  ASSUME TypeInv, RunInv, NEW w \in PageWorkers, StartPage(w)
  PROVE  RunInv'
<1> w \in AllThreads /\ w \in Thread /\ w \notin Readers BY Kinds
<1>0. PICK j \in Id : held[w] = j BY Holds DEF StartPage, TypeInv
<1>1. /\ pc[w] = "taken" /\ w \in Carriers(j) /\ w \notin RunningPages(j) /\ w \notin ReadersOf(j)
      /\ w \notin FinalizersOf(j)
  BY <1>0 DEF StartPage, Carriers, RunningPages, Processing, ReadersOf, FinalizersOf, Finalizing
<1>2. UNCHANGED <<state, readerRunning, finalizerRunning, readerDone, outstanding, pages, sequence>>
  BY DEF StartPage, docVars, schedVars, queueVars
<1>3. PagesInv' /\ \A k \in Id : PagesOf(k)' = PagesOf(k) BY <1>2 DEF RunInv, PagesInv, PagesOf
<1> JobInv(j) BY DEF RunInv
<1>4. FinalizersOf(j) = {}
  BY <1>0, <1>1, NoFinalizer DEF JobInv
<1>5. CASE Settled(j)
  <2>1. Release(w) /\ UNCHANGED pagesRunning BY <1>0, <1>5 DEF StartPage
  <2>2. /\ pc'[w] = "idle" /\ held'[w] = NoJob
        /\ \A u \in AllThreads \ {w} : pc'[u] = pc[u] /\ held'[u] = held[u]
    BY <2>1, ReleaseEffect DEF TypeInv
  <2>3. \A k \in Id \ {j} : JobInv(k)' BY <1>0, <1>2, <1>3, <2>1, <2>2, OtherJobs
  <2>4. /\ ReadersOf(j)' = ReadersOf(j) \ {w} /\ FinalizersOf(j)' = FinalizersOf(j) \ {w}
        /\ RunningPages(j)' = RunningPages(j) \ {w} /\ Carriers(j)' = Carriers(j) \ {w}
        /\ \A u \in AllThreads : held'[u] = j => held[u] = j
    BY <1>0, <2>2, Released
  <2>5. ReaderPart(j)' /\ FreshPart(j)' /\ WorkerPart(j)' /\ FinalPart(j)'
    BY <1>1, <1>2, <1>3, <1>4, <2>1, <2>4 DEF JobInv, ReaderPart, FreshPart, WorkerPart, FinalPart
  <2>6. AccountPart(j)' BY <1>2, <1>3, <1>5 DEF JobInv, AccountPart, Settled, Terminal
  <2>7. QED BY <1>3, <2>3, <2>5, <2>6 DEF RunInv, JobInv
<1>6. CASE ~Settled(j)
  <2>1. /\ Goto(w, "process") /\ UNCHANGED held
        /\ pagesRunning'[j] = pagesRunning[j] + 1
        /\ \A k \in Id \ {j} : pagesRunning'[k] = pagesRunning[k]
    BY <1>0, <1>6 DEF StartPage, TypeInv, JobT
  <2>2. /\ pc'[w] = "process" /\ held'[w] = j
        /\ \A u \in AllThreads \ {w} : pc'[u] = pc[u] /\ held'[u] = held[u]
    BY <1>0, <2>1, GotoEffect DEF TypeInv
  <2>3. \A k \in Id \ {j} : JobInv(k)' BY <1>0, <1>2, <1>3, <2>1, <2>2, OtherJobs
  <2>4. /\ ReadersOf(j)' = ReadersOf(j) /\ Carriers(j)' = Carriers(j)
        /\ RunningPages(j)' = RunningPages(j) \cup {w} /\ FinalizersOf(j)' = {}
    BY <1>0, <1>1, <1>4, <2>2, Kinds DEF ReadersOf, Reading, RunningPages, Processing, Carriers,
       FinalizersOf, Finalizing
  <2>5. Cardinality(RunningPages(j) \cup {w}) = Cardinality(RunningPages(j)) + 1
    BY <1>1, FiniteSides, FS_AddElement
  <2>6. state[j] = "processing" BY <1>1, <1>6 DEF JobInv, WorkerPart, Settled, Terminal
  <2>7. ReaderPart(j)' /\ FreshPart(j)' /\ FinalPart(j)'
    BY <1>2, <1>4, <2>4, <2>6 DEF JobInv, ReaderPart, FreshPart, FinalPart
  <2>8. WorkerPart(j)' BY <1>2, <2>1, <2>4, <2>5, <2>6 DEF JobInv, WorkerPart
  <2>9. AccountPart(j)' BY <1>2, <1>3, <2>4 DEF JobInv, AccountPart
  <2>10. QED BY <1>3, <2>3, <2>7, <2>8, <2>9 DEF RunInv, JobInv
<1>7. QED BY <1>5, <1>6

\* Steps within one phase of a thread's work, and of connections that leave
\* the jobs alone.
LEMMA RunFrame ==
  ASSUME TypeInv, RunInv,
         UNCHANGED <<state, runVars, readerDone, outstanding, pages, sequence>>,
         \A u \in Thread : held'[u] = held[u],
         \A u \in AllThreads, k \in Id : held'[u] = k => held[u] = k \/ state[k] = "cancelling",
         \A u \in Readers :
           pc'[u] \in {"read", "admit", "copy", "caught"} <=> pc[u] \in {"read", "admit", "copy", "caught"},
         \A u \in PageWorkers :
           /\ pc'[u] = "process" <=> pc[u] = "process"
           /\ pc'[u] = "taken" <=> pc[u] = "taken",
         \A u \in Thread : pc'[u] \in {"finalize", "publish"} <=> pc[u] \in {"finalize", "publish"}
  PROVE  RunInv'
<1>1. PagesInv' BY DEF RunInv, PagesInv
<1>2. ASSUME NEW k \in Id PROVE JobInv(k)'
  <2> JobInv(k) BY DEF RunInv
  <2>1. PagesOf(k)' = PagesOf(k) BY DEF PagesOf
  <2>2. /\ ReadersOf(k)' = ReadersOf(k) /\ RunningPages(k)' = RunningPages(k)
        /\ Carriers(k)' = Carriers(k) /\ FinalizersOf(k)' = FinalizersOf(k)
    BY Kinds DEF ReadersOf, Reading, RunningPages, Processing, Carriers, FinalizersOf, Finalizing
  <2>3. ReaderPart(k)' BY <2>2 DEF JobInv, ReaderPart, runVars
  <2>4. FreshPart(k)' BY <2>1 DEF JobInv, FreshPart
  <2>5. WorkerPart(k)' BY <2>2 DEF JobInv, WorkerPart, runVars
  <2>6. AccountPart(k)' BY <2>1, <2>2 DEF JobInv, AccountPart
  <2>7. FinalPart(k)' BY <2>1, <2>2 DEF JobInv, FinalPart, runVars
  <2>8. QED BY <2>3, <2>4, <2>5, <2>6, <2>7 DEF JobInv
<1>3. QED BY <1>1, <1>2 DEF RunInv

LEMMA TakeDocumentRun ==
  ASSUME TypeInv, RunInv, NEW r \in Readers, TakeDocument(r)
  PROVE  RunInv'
<1> r \in AllThreads /\ r \in Thread /\ r \notin PageWorkers BY Kinds
<1>1. PICK j \in waiting :
         IF state[j] = "queued"
         THEN /\ state' = [state EXCEPT ![j] = "reading"]
              /\ readerRunning' = [readerRunning EXCEPT ![j] = TRUE]
              /\ held' = [held EXCEPT ![r] = j]
              /\ Goto(r, "read")
         ELSE UNCHANGED <<state, readerRunning, held, pc>>
  BY DEF TakeDocument
<1>2. /\ j \in Id /\ held[r] = NoJob /\ pc[r] = "idle"
      /\ UNCHANGED <<finalizerRunning, pagesRunning, readerDone, outstanding, pages, sequence>>
  BY DEF TakeDocument, TypeInv, QueueT, ThreadT, docVars, queueVars
<1>3. CASE state[j] # "queued"
  <2>1. UNCHANGED <<state, runVars, held, pc>> BY <1>1, <1>2, <1>3 DEF runVars
  <2>2. QED BY <1>2, <2>1, RunFrame
<1>4. CASE state[j] = "queued"
  <2>1. /\ state'[j] = "reading" /\ readerRunning'[j] = TRUE /\ pc'[r] = "read" /\ held'[r] = j
        /\ \A k \in Id \ {j} : state'[k] = state[k] /\ readerRunning'[k] = readerRunning[k]
        /\ \A u \in AllThreads \ {r} : pc'[u] = pc[u] /\ held'[u] = held[u]
    BY <1>1, <1>2, <1>4 DEF TypeInv, JobT, ThreadT, Goto
  <2>2. PagesInv' /\ \A k \in Id : PagesOf(k)' = PagesOf(k) BY <1>2 DEF RunInv, PagesInv, PagesOf
  <2>3. \A k \in Id \ {j} : JobInv(k)' BY <1>2, <2>1, <2>2, OtherJobs
  <2> JobInv(j) BY <1>2 DEF RunInv
  <2>4. /\ ~readerDone[j] /\ outstanding[j] = 0 /\ PagesOf(j) = {}
        /\ \A t \in AllThreads : held[t] # j
    BY <1>4 DEF JobInv, FreshPart
  <2>5. /\ ReadersOf(j)' = {r} /\ RunningPages(j)' = {} /\ Carriers(j)' = {} /\ FinalizersOf(j)' = {}
        /\ RunningPages(j) = {} /\ FinalizersOf(j) = {}
    BY <2>1, <2>4, Kinds DEF ReadersOf, Reading, RunningPages, Processing, Carriers, FinalizersOf, Finalizing
  <2>6. ReaderPart(j)' /\ FreshPart(j)' BY <1>2, <2>1, <2>4, <2>5 DEF ReaderPart, FreshPart
  <2>7. WorkerPart(j)' /\ FinalPart(j)'
    BY <1>2, <2>5 DEF JobInv, WorkerPart, FinalPart
  <2>8. AccountPart(j)' BY <1>2, <2>2, <2>4, <2>5, FS_EmptySet DEF AccountPart
  <2>9. QED BY <1>2, <2>2, <2>3, <2>6, <2>7, <2>8 DEF RunInv, JobInv
<1>5. QED BY <1>3, <1>4

LEMMA QueuePageRun ==
  ASSUME TypeInv, RunInv, NEW r \in Readers, QueuePage(r)
  PROVE  RunInv'
<1> r \in AllThreads /\ r \in Thread /\ r \notin PageWorkers BY Kinds
<1>0. PICK j \in Id : held[r] = j BY Holds DEF QueuePage, TypeInv
<1>1. /\ pc[r] = "copy" /\ UNCHANGED <<runVars, readerDone, held>>
      /\ page[r] \in PageNumber /\ bytes[r] \in PageBytes
  BY DEF QueuePage, TypeInv, ThreadT
<1>2. CASE Goto(r, "caught") /\ UNCHANGED <<queueVars, sequence, outstanding, pagesQueued, state>>
  <2>1. /\ pc'[r] = "caught" /\ \A u \in AllThreads \ {r} : pc'[u] = pc[u]
    BY <1>1, <1>2, GotoEffect DEF TypeInv
  <2>2. QED BY <1>1, <1>2, <2>1, RunFrame, Kinds DEF queueVars
<1>3. CASE ~(Goto(r, "caught") /\ UNCHANGED <<queueVars, sequence, outstanding, pagesQueued, state>>)
  <2> DEFINE p == [job |-> j, number |-> page[r], sequence |-> sequence, bytes |-> bytes[r]]
  <2>1. /\ ~Abandoned(j) /\ pages' = pages \cup {p} /\ sequence' = sequence + 1
        /\ outstanding' = [outstanding EXCEPT ![j] = @ + 1]
        /\ state' = [state EXCEPT ![j] = "processing"] /\ Goto(r, "read")
    BY <1>0, <1>3 DEF QueuePage
  <2>2. /\ pc'[r] = "read" /\ held'[r] = j
        /\ \A u \in AllThreads \ {r} : pc'[u] = pc[u] /\ held'[u] = held[u]
    BY <1>0, <1>1, <2>1, GotoEffect DEF TypeInv
  <2>3. /\ state'[j] = "processing" /\ outstanding'[j] = outstanding[j] + 1
        /\ \A k \in Id \ {j} : state'[k] = state[k] /\ outstanding'[k] = outstanding[k]
    BY <2>1 DEF TypeInv, JobT
  <2>4. p \notin pages /\ \A q \in pages : q.sequence < sequence
    <3>1. \A q \in pages : q.sequence < sequence BY DEF RunInv, PagesInv
    <3>2. p.sequence = sequence /\ sequence \in Nat BY DEF TypeInv, QueueT
    <3>3. QED BY <3>1, <3>2
  <2>5. PagesInv'
    <3>1. IsFiniteSet(pages') BY <2>1, FS_AddElement DEF RunInv, PagesInv
    <3>2. ASSUME NEW q \in pages' PROVE q.sequence < sequence + 1
      <4>1. CASE q = p BY <4>1 DEF TypeInv, QueueT
      <4>2. CASE q \in pages
        <5>1. q.sequence < sequence /\ q.sequence \in Nat /\ sequence \in Nat
          BY <2>4, <4>2 DEF TypeInv, QueueT, Pending
        <5>2. QED BY <5>1
      <4>3. QED BY <2>1, <4>1, <4>2
    <3>3. QED BY <2>1, <3>1, <3>2 DEF PagesInv
  <2>6. /\ PagesOf(j)' = PagesOf(j) \cup {p} /\ p \notin PagesOf(j)
        /\ \A k \in Id \ {j} : PagesOf(k)' = PagesOf(k)
    BY <2>1, <2>4 DEF PagesOf
  <2>7. \A k \in Id \ {j} : JobInv(k)'
    BY <1>0, <1>1, <2>2, <2>3, <2>6, OtherJobs DEF runVars
  <2> JobInv(j) BY DEF RunInv
  <2>8. /\ ReadersOf(j)' = ReadersOf(j) /\ RunningPages(j)' = RunningPages(j)
        /\ Carriers(j)' = Carriers(j) /\ FinalizersOf(j)' = {} /\ FinalizersOf(j) = {}
        /\ r \in ReadersOf(j)
    <3>1. FinalizersOf(j) = {} BY <1>0, <1>1, NoFinalizer DEF JobInv
    <3>2. QED BY <1>0, <1>1, <2>2, <3>1, Kinds DEF ReadersOf, Reading, RunningPages, Processing, Carriers,
          FinalizersOf, Finalizing
  <2>9. state[j] \in {"reading", "processing"}
    BY <2>1, <2>8 DEF JobInv, ReaderPart, Abandoned
  <2>10. Cardinality(PagesOf(j) \cup {p}) = Cardinality(PagesOf(j)) + 1
    BY <2>6, FiniteSides, FS_AddElement
  <2>11. ReaderPart(j)' /\ FreshPart(j)' /\ WorkerPart(j)' /\ FinalPart(j)'
    BY <1>1, <2>3, <2>8 DEF JobInv, ReaderPart, FreshPart, WorkerPart, FinalPart, runVars
  <2>12. AccountPart(j)' BY <2>3, <2>6, <2>8, <2>9, <2>10, FiniteSides DEF JobInv, AccountPart
  <2>13. QED BY <2>5, <2>7, <2>11, <2>12 DEF RunInv, JobInv
<1>4. QED BY <1>2, <1>3

LEMMA ReaderRun ==
  ASSUME TypeInv, RunInv, NEW r \in Readers, Reader(r), ~Finalizer(r)
  PROVE  RunInv'
<1> r \in AllThreads /\ r \in Thread /\ r \notin PageWorkers BY Kinds
<1>1. ASSUME NEW label \in {"admit", "copy"}, pc[r] \in {"read", "admit"},
             Goto(r, label), UNCHANGED <<jobVars, pages, sequence, held>>
      PROVE  RunInv'
  <2>1. /\ pc'[r] = label /\ \A u \in AllThreads \ {r} : pc'[u] = pc[u]
    BY <1>1, GotoEffect DEF TypeInv
  <2>2. QED BY <1>1, <2>1, RunFrame, Kinds DEF jobVars, docVars
<1>2. ASSUME NEW n \in PageBytes, RenderPage(r, n) PROVE RunInv'
  BY <1>1, <1>2 DEF RenderPage, schedVars, queueVars
<1>3. CASE ReservePage(r) BY <1>1, <1>3 DEF ReservePage, queueVars
<1>4. CASE ThreadExits(r)
  <2>1. /\ pc[r] = "idle" /\ pc'[r] = "exited" /\ \A u \in AllThreads \ {r} : pc'[u] = pc[u]
        /\ UNCHANGED <<jobVars, schedVars, held>>
    BY <1>4 DEF ThreadExits, Stop, Goto, TypeInv, ThreadT
  <2>2. QED BY <2>1, RunFrame, Kinds DEF jobVars, docVars, schedVars, queueVars
<1>5. QED BY <1>2, <1>3, <1>4, TakeDocumentRun, QueuePageRun, ReaderFailsRun, EndOfDocumentRun DEF Reader

LEMMA PublishRun ==
  ASSUME TypeInv, RunInv, NEW t \in Thread, Publish(t) \/ FinalizeFails(t)
  PROVE  RunInv'
<1> t \in AllThreads BY Kinds
<1>0. PICK j \in Id : held[t] = j BY Holds DEF Publish, FinalizeFails, TypeInv
<1>1. /\ t \in FinalizersOf(j) /\ pc[t] \in {"finalize", "publish"} /\ Release(t)
      /\ UNCHANGED <<readerRunning, pagesRunning, readerDone, outstanding, sequence>>
      /\ finalizerRunning'[j] = FALSE
      /\ \A k \in Id \ {j} : finalizerRunning'[k] = finalizerRunning[k]
  BY <1>0 DEF Publish, FinalizeFails, FinalizersOf, Finalizing, TypeInv, JobT, docVars, schedVars
<1> JobInv(j) BY DEF RunInv
<1>2. /\ readerDone[j] /\ PagesOf(j) = {} /\ state[j] \in {"finalizing", "cancelling"}
      /\ \A u \in Thread \ {t} : held[u] # j
  BY <1>1 DEF JobInv, FinalPart
<1>3. /\ state'[j] \in {"succeeded", "failed", "cancelling"} /\ PagesOf(j)' = {}
      /\ \A k \in Id \ {j} : state'[k] = state[k] /\ PagesOf(k)' = PagesOf(k)
      /\ pages' \subseteq pages
  <2>1. CASE Publish(t)
    <3>1. pages' = pages BY <2>1 DEF Publish, schedVars, queueVars
    <3>2. CASE state[j] = "finalizing"
      <4>1. state' = [state EXCEPT ![j] = "succeeded"] BY <1>0, <2>1, <3>2 DEF Publish
      <4>2. QED BY <1>2, <3>1, <4>1 DEF TypeInv, JobT, PagesOf
    <3>3. CASE state[j] # "finalizing"
      <4>1. UNCHANGED state BY <1>0, <2>1, <3>3 DEF Publish
      <4>2. QED BY <1>2, <3>1, <3>3, <4>1 DEF PagesOf
    <3>4. QED BY <3>2, <3>3
  <2>2. CASE FinalizeFails(t)
    <3>1. FailLocked(j) BY <1>0, <2>2 DEF FinalizeFails
    <3>2. QED BY <1>2, <3>1, FailEffect DEF Settled, Terminal
  <2>3. QED BY <2>1, <2>2
<1>4. /\ pc'[t] = "idle" /\ held'[t] = NoJob
      /\ \A u \in AllThreads \ {t} : pc'[u] = pc[u] /\ held'[u] = held[u]
  BY <1>1, ReleaseEffect DEF TypeInv
<1>5. PagesInv' BY <1>1, <1>3, PagesKept DEF RunInv
<1>6. \A k \in Id \ {j} : JobInv(k)' BY <1>0, <1>1, <1>3, <1>4, OtherJobs
<1>7. JobInv(j)'
  <2>1. /\ ReadersOf(j) = {} /\ RunningPages(j) = {} /\ Carriers(j) = {} /\ FinalizersOf(j) = {t}
    BY <1>1, <1>2, Kinds DEF ReadersOf, Reading, RunningPages, Processing, Carriers, FinalizersOf,
       Finalizing
  <2>2. /\ ReadersOf(j)' = {} /\ RunningPages(j)' = {} /\ Carriers(j)' = {} /\ FinalizersOf(j)' = {}
    BY <1>0, <1>4, <2>1, Released
  <2>3. ReaderPart(j)' /\ FreshPart(j)' /\ WorkerPart(j)' /\ AccountPart(j)' /\ FinalPart(j)'
    BY <1>1, <1>3, <2>1, <2>2 DEF JobInv, ReaderPart, FreshPart, WorkerPart, AccountPart, FinalPart
  <2>4. QED BY <2>3 DEF JobInv
<1>8. QED BY <1>5, <1>6, <1>7 DEF RunInv

LEMMA FinalizerRun ==
  ASSUME TypeInv, RunInv, NEW t \in Thread, Finalizer(t)
  PROVE  RunInv'
<1> t \in AllThreads BY Kinds
<1>1. CASE WriteResult(t)
  <2>1. /\ pc[t] = "finalize" /\ Goto(t, "publish") /\ UNCHANGED <<jobVars, schedVars, held>>
    BY <1>1 DEF WriteResult
  <2>2. pc'[t] = "publish" /\ \A u \in AllThreads \ {t} : pc'[u] = pc[u]
    BY <2>1, GotoEffect DEF TypeInv
  <2>3. QED BY <2>1, <2>2, RunFrame, Kinds DEF jobVars, docVars, schedVars, queueVars
<1>2. QED BY <1>1, PublishRun DEF Finalizer

LEMMA PageWorkerRun ==
  ASSUME TypeInv, RunInv, NEW w \in PageWorkers, PageWorker(w), ~Finalizer(w)
  PROVE  RunInv'
<1> w \in AllThreads /\ w \in Thread /\ w \notin Readers BY Kinds
<1>1. CASE WriteAsset(w)
  <2>1. UNCHANGED <<jobVars, schedVars, pc, held>> BY <1>1 DEF WriteAsset, threadVars
  <2>2. QED BY <2>1, RunFrame DEF jobVars, docVars, schedVars, queueVars
<1>2. CASE ThreadExits(w)
  <2>1. /\ pc[w] = "idle" /\ pc'[w] = "exited" /\ \A u \in AllThreads \ {w} : pc'[u] = pc[u]
        /\ UNCHANGED <<jobVars, schedVars, held>>
    BY <1>2 DEF ThreadExits, Stop, Goto, TypeInv, ThreadT
  <2>2. QED BY <2>1, RunFrame, Kinds DEF jobVars, docVars, schedVars, queueVars
<1>3. QED BY <1>1, <1>2, TakePageRun, StartPageRun, PageDoneRun, PageFailsRun DEF PageWorker

-----------------------------------------------------------------------------
(* Requests, and what the counters of the admission control count.         *)

RequestInv ==
  \A j \in Id :
    /\ state[j] = "none" <=> request[j] # "submitted"
    /\ j \in registered => request[j] = "submitted"
    /\ j \in reservations => request[j] \in {"receiving", "rejected"}

LEMMA ConnectionRun ==
  ASSUME TypeInv, RunInv, RequestInv, NEW j \in Id, Connection(j)
  PROVE  RunInv'
<1> JobInv(j) BY DEF RunInv
<1>1. CASE Submit(j)
  <2>1. /\ state[j] = "none" /\ state'[j] = "queued"
        /\ \A k \in Id \ {j} : state'[k] = state[k]
        /\ UNCHANGED <<runVars, readerDone, outstanding, pages, pc, held>>
        /\ sequence' = sequence + 1
    BY <1>1 DEF Submit, RequestInv, TypeInv, JobT, docVars, queueVars, threadVars
  <2>2. \A k \in Id : PagesOf(k)' = PagesOf(k) BY <2>1 DEF PagesOf
  <2>3. PagesInv'
    <3>1. \A q \in pages : q.sequence < sequence /\ q.sequence \in Nat /\ sequence \in Nat
      BY DEF RunInv, PagesInv, TypeInv, QueueT, Pending
    <3>2. QED BY <2>1, <3>1 DEF RunInv, PagesInv
  <2>4. ASSUME NEW k \in Id \ {j} PROVE JobInv(k)'
    <3>1. JobInv(k) BY DEF RunInv
    <3>2. QED BY <2>1, <2>2, <3>1, JobFrame DEF runVars
  <2>5. JobInv(j)'
    <3>1. /\ PagesOf(j) = {} /\ (\A t \in AllThreads : held[t] # j) /\ ~readerDone[j]
          /\ outstanding[j] = 0
      BY <2>1 DEF JobInv, FreshPart
    <3>2. /\ ReadersOf(j)' = {} /\ RunningPages(j)' = {} /\ Carriers(j)' = {} /\ FinalizersOf(j)' = {}
          /\ ReadersOf(j) = {} /\ RunningPages(j) = {} /\ Carriers(j) = {} /\ FinalizersOf(j) = {}
      BY <2>1, <3>1, Kinds DEF ReadersOf, Reading, RunningPages, Processing, Carriers, FinalizersOf,
         Finalizing
    <3>3. ReaderPart(j)' /\ FreshPart(j)' /\ WorkerPart(j)' /\ AccountPart(j)' /\ FinalPart(j)'
      BY <2>1, <2>2, <3>1, <3>2 DEF JobInv, ReaderPart, FreshPart, WorkerPart, AccountPart, FinalPart,
         runVars
    <3>4. QED BY <3>3 DEF JobInv
  <2>6. QED BY <2>3, <2>4, <2>5 DEF RunInv
<1>2. CASE Cancel(j)
  <2>1. /\ ~Settled(j) /\ state'[j] = "cancelling" /\ PagesOf(j)' = {} /\ pages' \subseteq pages
        /\ \A k \in Id \ {j} : state'[k] = state[k] /\ PagesOf(k)' = PagesOf(k)
        /\ UNCHANGED <<runVars, readerDone, outstanding, pc, held, sequence>>
    BY <1>2 DEF Cancel, DiscardPages, PagesOf, TypeInv, JobT, docVars, threadVars
  <2>2. PagesInv' BY <2>1, PagesKept DEF RunInv
  <2>3. ASSUME NEW k \in Id \ {j} PROVE JobInv(k)'
    <3>1. JobInv(k) BY DEF RunInv
    <3>2. QED BY <2>1, <3>1, JobFrame DEF runVars
  <2>4. JobInv(j)'
    <3>1. /\ ReadersOf(j)' = ReadersOf(j) /\ RunningPages(j)' = RunningPages(j)
          /\ Carriers(j)' = Carriers(j) /\ FinalizersOf(j)' = FinalizersOf(j)
      BY <2>1 DEF ReadersOf, Reading, RunningPages, Processing, Carriers, FinalizersOf, Finalizing
    <3>2. ReaderPart(j)' /\ FreshPart(j)' /\ AccountPart(j)'
      BY <2>1, <3>1 DEF JobInv, ReaderPart, FreshPart, AccountPart, runVars
    <3>3. WorkerPart(j)' BY <2>1, <3>1 DEF JobInv, WorkerPart, runVars
    <3>4. FinalPart(j)' BY <2>1, <3>1 DEF JobInv, FinalPart, runVars
    <3>5. QED BY <3>2, <3>3, <3>4 DEF JobInv
  <2>5. QED BY <2>2, <2>3, <2>4 DEF RunInv
<1>3. CASE ~(Submit(j) \/ Cancel(j))
  <2>1. UNCHANGED <<jobVars, schedVars, threadVars>>
    BY <1>3 DEF Connection, Reserve, Receive, Disconnect, RemoveBegin, RemoveFails, RemoveFiles,
       RemoveEnd
  <2>2. QED BY <2>1, RunFrame DEF jobVars, docVars, schedVars, queueVars, threadVars
<1>4. QED BY <1>1, <1>2, <1>3

-----------------------------------------------------------------------------
(* Cancellation: where a job being cancelled is.                           *)

Quiet(j) == ~readerRunning[j] /\ pagesRunning[j] = 0 /\ ~finalizerRunning[j]
InQueue(j) == \E i \in DOMAIN cleanupQueue : cleanupQueue[i] = j
AtCleaner(j) == pc[Cleaner] = "clean" /\ held[Cleaner] = j

\* cleanup_queued is set once, when the last thread has left the job, and
\* from then on the job is in the cleanup queue, with the cleanup thread, or
\* cancelled; until then some thread still runs for it.
CleanPart(j) ==
  /\ cleanupQueued[j] => Quiet(j) /\ state[j] \in {"cancelling", "cancelled"}
  /\ state[j] = "cancelled" => cleanupQueued[j]
  /\ state[j] = "cancelling" =>
       IF cleanupQueued[j] THEN InQueue(j) \/ AtCleaner(j) ELSE ~Quiet(j)
  /\ InQueue(j) \/ AtCleaner(j) => cleanupQueued[j] /\ state[j] = "cancelling"
  /\ ~(InQueue(j) /\ AtCleaner(j))

OnceInQueue == \A i, k \in DOMAIN cleanupQueue : cleanupQueue[i] = cleanupQueue[k] => i = k
CleanInv == OnceInQueue /\ \A j \in Id : CleanPart(j)

LEMMA CleanInit == Init => CleanInv
  BY Kinds DEF Init, CleanInv, OnceInQueue, CleanPart, InQueue, AtCleaner

LEMMA CleanFrame ==
  ASSUME CleanInv, UNCHANGED cleanupVars,
         pc'[Cleaner] = pc[Cleaner], held'[Cleaner] = held[Cleaner],
         \A k \in Id : /\ state'[k] = "cancelling" <=> state[k] = "cancelling"
                       /\ state'[k] = "cancelled" <=> state[k] = "cancelled"
                       /\ state[k] \in {"cancelling", "cancelled"} => (Quiet(k)' <=> Quiet(k))
  PROVE  CleanInv'
<1>1. OnceInQueue' BY DEF CleanInv, OnceInQueue, cleanupVars
<1>2. ASSUME NEW k \in Id PROVE CleanPart(k)'
  <2>1. (InQueue(k)' <=> InQueue(k)) /\ (AtCleaner(k)' <=> AtCleaner(k))
    BY DEF InQueue, AtCleaner, cleanupVars
  <2>2. cleanupQueued' = cleanupQueued BY DEF cleanupVars
  <2>3. CleanPart(k) BY DEF CleanInv
  <2>4. QED BY <2>1, <2>2, <2>3 DEF CleanPart
<1>3. QED BY <1>1, <1>2 DEF CleanInv

LEMMA CleanFinish ==
  ASSUME TypeInv, CleanInv, NEW j \in Id, FinishCancelLocked(j),
         pc'[Cleaner] = pc[Cleaner], held'[Cleaner] = held[Cleaner],
         \A k \in Id \ {j} :
           /\ state'[k] = state[k] /\ readerRunning'[k] = readerRunning[k]
           /\ pagesRunning'[k] = pagesRunning[k] /\ finalizerRunning'[k] = finalizerRunning[k],
         ~cleanupQueued[j],
         state[j] = "cancelling" => state'[j] = "cancelling",
         state'[j] # "cancelled"
  PROVE  CleanInv'
<1>1. CleanPart(j) BY DEF CleanInv
<1>2. ~InQueue(j) /\ ~AtCleaner(j) BY <1>1 DEF CleanPart
<1>3. \A k \in Id : AtCleaner(k)' <=> AtCleaner(k) BY DEF AtCleaner
<1>4. Quiet(j)' <=> NobodyRuns(j) BY DEF Quiet, NobodyRuns
<1>5. CASE UNCHANGED cleanupVars /\ ~(state'[j] = "cancelling" /\ NobodyRuns(j))
  <2>1. OnceInQueue' BY <1>5 DEF CleanInv, OnceInQueue, cleanupVars
  <2>2. \A k \in Id : InQueue(k)' <=> InQueue(k) BY <1>5 DEF InQueue, cleanupVars
  <2>3. cleanupQueued' = cleanupQueued BY <1>5 DEF cleanupVars
  <2>4. CleanPart(j)' BY <1>1, <1>2, <1>3, <1>4, <1>5, <2>2, <2>3 DEF CleanPart
  <2>5. ASSUME NEW k \in Id \ {j} PROVE CleanPart(k)'
    <3>1. CleanPart(k) BY DEF CleanInv
    <3>2. Quiet(k)' <=> Quiet(k) BY DEF Quiet
    <3>3. QED BY <1>3, <2>2, <2>3, <3>1, <3>2 DEF CleanPart
  <2>6. QED BY <2>1, <2>4, <2>5 DEF CleanInv
<1>6. CASE /\ state'[j] = "cancelling" /\ NobodyRuns(j)
           /\ cleanupQueued' = [cleanupQueued EXCEPT ![j] = TRUE]
           /\ cleanupQueue' = Append(cleanupQueue, j)
  <2>1. /\ DOMAIN cleanupQueue' = 1 .. Len(cleanupQueue) + 1
        /\ DOMAIN cleanupQueue = 1 .. Len(cleanupQueue) /\ Len(cleanupQueue) \in Nat
        /\ \A i \in 1 .. Len(cleanupQueue) : cleanupQueue'[i] = cleanupQueue[i]
        /\ cleanupQueue'[Len(cleanupQueue) + 1] = j
    BY <1>6 DEF TypeInv, QueueT
  <2>2. \A i \in DOMAIN cleanupQueue : cleanupQueue[i] # j BY <1>2 DEF InQueue
  <2>3. OnceInQueue' BY <2>1, <2>2 DEF CleanInv, OnceInQueue
  <2>4. /\ InQueue(j)' /\ \A k \in Id \ {j} : InQueue(k)' <=> InQueue(k)
    <3>1. InQueue(j)' BY <2>1 DEF InQueue
    <3>2. ASSUME NEW k \in Id \ {j} PROVE InQueue(k)' <=> InQueue(k)
      BY <2>1 DEF InQueue
    <3>3. QED BY <3>1, <3>2
  <2>5. cleanupQueued'[j] = TRUE /\ \A k \in Id \ {j} : cleanupQueued'[k] = cleanupQueued[k]
    BY <1>6 DEF TypeInv, JobT
  <2>6. CleanPart(j)' BY <1>2, <1>3, <1>4, <1>6, <2>4, <2>5 DEF CleanPart
  <2>7. ASSUME NEW k \in Id \ {j} PROVE CleanPart(k)'
    <3>1. CleanPart(k) BY DEF CleanInv
    <3>2. Quiet(k)' <=> Quiet(k) BY DEF Quiet
    <3>3. QED BY <1>3, <2>4, <2>5, <3>1, <3>2 DEF CleanPart
  <2>8. QED BY <2>3, <2>6, <2>7 DEF CleanInv
<1>7. QED BY <1>5, <1>6 DEF FinishCancelLocked

LEMMA ConnectionClean ==
  ASSUME TypeInv, CleanInv, RequestInv, NEW j \in Id, Connection(j)
  PROVE  CleanInv'
<1>1. CASE Submit(j)
  <2>1. /\ state[j] = "none" /\ state'[j] = "queued"
        /\ \A k \in Id \ {j} : state'[k] = state[k]
        /\ UNCHANGED <<runVars, cleanupVars, pc, held>>
    BY <1>1 DEF Submit, RequestInv, TypeInv, JobT, threadVars
  <2>2. \A k \in Id : Quiet(k)' <=> Quiet(k) BY <2>1 DEF Quiet, runVars
  <2>3. QED BY <2>1, <2>2, CleanFrame
<1>2. CASE Cancel(j)
  <2>1. /\ ~Settled(j) /\ state'[j] = "cancelling" /\ FinishCancelLocked(j)
        /\ \A k \in Id \ {j} : state'[k] = state[k]
        /\ UNCHANGED <<runVars, pc, held>>
    BY <1>2 DEF Cancel, TypeInv, JobT, threadVars
  <2>2. ~cleanupQueued[j] BY <2>1 DEF CleanInv, CleanPart, Settled, Terminal
  <2>3. QED BY <2>1, <2>2, CleanFinish DEF runVars
<1>3. CASE ~(Submit(j) \/ Cancel(j))
  <2>1. UNCHANGED <<jobVars, threadVars>>
    BY <1>3 DEF Connection, Reserve, Receive, Disconnect, RemoveBegin, RemoveFails, RemoveFiles,
       RemoveEnd
  <2>2. \A k \in Id : Quiet(k)' <=> Quiet(k) BY <2>1 DEF Quiet, jobVars, runVars
  <2>3. QED BY <2>1, <2>2, CleanFrame DEF jobVars, threadVars
<1>4. QED BY <1>1, <1>2, <1>3

\* A thread at work on a job keeps it out of the cleanup queue.
LEMMA BusyNotQueued ==
  ASSUME RunInv, CleanInv, NEW j \in Id, NEW t \in Thread, Working(t, j),
         t \in Readers => pc[t] # "process",
         t \in PageWorkers => pc[t] \in {"process", "finalize", "publish"}
  PROVE  ~cleanupQueued[j] /\ state[j] # "cancelled"
<1>1. ~Quiet(j)
  <2>1. CASE t \in ReadersOf(j) BY <2>1 DEF RunInv, JobInv, ReaderPart, Quiet
  <2>2. CASE t \in RunningPages(j)
    BY <2>2, FiniteSides, FS_EmptySet DEF RunInv, JobInv, WorkerPart, Quiet
  <2>3. CASE t \in FinalizersOf(j) BY <2>3 DEF RunInv, JobInv, FinalPart, Quiet
  <2>4. QED BY <2>1, <2>2, <2>3, Kinds
        DEF Working, Reading, Processing, ReadersOf, RunningPages, FinalizersOf, Finalizing
<1>2. QED BY <1>1 DEF CleanInv, CleanPart

LEMMA FinalizerClean ==
  ASSUME TypeInv, RunInv, CleanInv, NEW t \in Thread, Finalizer(t)
  PROVE  CleanInv'
<1> t \in AllThreads /\ t # Cleaner /\ Cleaner \in AllThreads BY Kinds
<1>0. PICK j \in Id : held[t] = j
  BY Holds DEF Finalizer, WriteResult, Publish, FinalizeFails, TypeInv
<1>1. pc[t] \in {"finalize", "publish"} /\ t \in FinalizersOf(j) /\ Working(t, j)
  BY <1>0 DEF Finalizer, WriteResult, Publish, FinalizeFails, FinalizersOf, Finalizing, Working
<1>2. ~cleanupQueued[j] /\ state[j] \in {"finalizing", "cancelling"}
  <2>1. ~cleanupQueued[j] BY <1>1, BusyNotQueued
  <2>2. QED BY <1>1, <2>1 DEF RunInv, JobInv, FinalPart
<1>3. CASE WriteResult(t)
  <2>1. UNCHANGED <<state, runVars, cleanupVars, held>> /\ Goto(t, "publish")
    BY <1>3 DEF WriteResult, jobVars
  <2>2. pc'[Cleaner] = pc[Cleaner] BY <2>1, GotoEffect DEF TypeInv
  <2>3. \A k \in Id : Quiet(k)' <=> Quiet(k) BY <2>1 DEF Quiet, runVars
  <2>4. QED BY <2>1, <2>2, <2>3, CleanFrame
<1>4. CASE Publish(t) \/ FinalizeFails(t)
  <2>1. /\ Release(t) /\ UNCHANGED <<readerRunning, pagesRunning>>
        /\ \A k \in Id \ {j} : finalizerRunning'[k] = finalizerRunning[k]
    BY <1>0, <1>4 DEF Publish, FinalizeFails, TypeInv, JobT
  <2>2. pc'[Cleaner] = pc[Cleaner] /\ held'[Cleaner] = held[Cleaner]
    BY <2>1, ReleaseEffect DEF TypeInv
  <2>3. CASE Publish(t) /\ state[j] = "finalizing"
    <3>1. state' = [state EXCEPT ![j] = "succeeded"] /\ UNCHANGED cleanupVars
      BY <1>0, <2>3 DEF Publish
    <3>2. /\ state'[j] = "succeeded" /\ \A k \in Id \ {j} : state'[k] = state[k]
      BY <3>1 DEF TypeInv, JobT
    <3>3. \A k \in Id \ {j} : Quiet(k)' <=> Quiet(k) BY <2>1 DEF Quiet
    <3>4. QED BY <2>2, <2>3, <3>1, <3>2, <3>3, CleanFrame
  <2>4. CASE Publish(t) /\ state[j] # "finalizing"
    <3>1. UNCHANGED state /\ FinishCancelLocked(j) BY <1>0, <2>4 DEF Publish
    <3>2. QED BY <1>2, <2>1, <2>2, <3>1, CleanFinish
  <2>5. CASE FinalizeFails(t)
    <3>1. FailLocked(j) /\ FinishCancelLocked(j) BY <1>0, <2>5 DEF FinalizeFails
    <3>2. /\ state'[j] \in {state[j], "failed"}
          /\ state[j] = "cancelling" => state'[j] = "cancelling"
          /\ \A k \in Id \ {j} : state'[k] = state[k]
      BY <1>2, <3>1, FailEffect DEF Settled, Terminal
    <3>3. QED BY <1>2, <2>1, <2>2, <3>1, <3>2, CleanFinish
  <2>6. QED BY <1>4, <2>3, <2>4, <2>5
<1>5. QED BY <1>3, <1>4 DEF Finalizer

LEMMA ReaderClean ==
  ASSUME TypeInv, RunInv, CleanInv, NEW r \in Readers, Reader(r)
  PROVE  CleanInv'
<1> r \in AllThreads /\ r \in Thread /\ r # Cleaner /\ Cleaner \in AllThreads /\ r \notin PageWorkers
  BY Kinds
<1>1. CASE TakeDocument(r)
  <2>1. PICK j \in waiting :
         IF state[j] = "queued"
         THEN /\ state' = [state EXCEPT ![j] = "reading"]
              /\ readerRunning' = [readerRunning EXCEPT ![j] = TRUE]
              /\ held' = [held EXCEPT ![r] = j]
              /\ Goto(r, "read")
         ELSE UNCHANGED <<state, readerRunning, held, pc>>
    BY <1>1 DEF TakeDocument
  <2>2. j \in Id /\ UNCHANGED <<finalizerRunning, pagesRunning, cleanupVars>>
    BY <1>1 DEF TakeDocument, TypeInv, QueueT
  <2>3. pc'[Cleaner] = pc[Cleaner] /\ held'[Cleaner] = held[Cleaner]
    BY <2>1, <2>2 DEF Goto, TypeInv, ThreadT
  <2>4. /\ state'[j] \in {state[j], "reading"}
        /\ state'[j] # state[j] => state[j] = "queued"
        /\ readerRunning'[j] # readerRunning[j] => state[j] = "queued"
        /\ \A k \in Id \ {j} : state'[k] = state[k] /\ readerRunning'[k] = readerRunning[k]
    BY <2>1, <2>2 DEF TypeInv, JobT
  <2>5. \A k \in Id : state[k] # "queued" => (Quiet(k)' <=> Quiet(k)) BY <2>2, <2>4 DEF Quiet
  <2>6. QED BY <2>2, <2>3, <2>4, <2>5, CleanFrame
<1>2. ASSUME NEW n \in PageBytes, RenderPage(r, n) PROVE CleanInv'
  <2>1. UNCHANGED <<state, runVars, cleanupVars, held>> /\ Goto(r, "admit")
    BY <1>2 DEF RenderPage, jobVars
  <2>2. pc'[Cleaner] = pc[Cleaner] BY <2>1, GotoEffect DEF TypeInv
  <2>3. QED BY <2>1, <2>2, CleanFrame DEF Quiet, runVars
<1>3. CASE ReservePage(r)
  <2>1. UNCHANGED <<state, runVars, cleanupVars, held>> /\ Goto(r, "copy")
    BY <1>3 DEF ReservePage, jobVars
  <2>2. pc'[Cleaner] = pc[Cleaner] BY <2>1, GotoEffect DEF TypeInv
  <2>3. QED BY <2>1, <2>2, CleanFrame DEF Quiet, runVars
<1>4. CASE QueuePage(r)
  <2>1. PICK label : Goto(r, label) /\ UNCHANGED <<runVars, cleanupVars, held>>
    BY <1>4 DEF QueuePage
  <2>2. pc'[Cleaner] = pc[Cleaner] BY <2>1, GotoEffect DEF TypeInv
  <2>3. PICK j \in Id : held[r] = j BY <1>4, Holds DEF QueuePage, TypeInv
  <2>4. r \in ReadersOf(j) BY <1>4, <2>3 DEF QueuePage, ReadersOf, Reading
  <2>5. \A k \in Id : state'[k] = state[k] \/ (/\ state[k] \in {"reading", "processing"}
                                               /\ state'[k] = "processing")
    <3>1. CASE UNCHANGED state BY <3>1
    <3>2. CASE ~Abandoned(j) /\ state' = [state EXCEPT ![j] = "processing"]
      <4>1. state[j] \in {"reading", "processing"}
        BY <2>4, <3>2 DEF RunInv, JobInv, ReaderPart, Abandoned
      <4>2. QED BY <3>2, <4>1 DEF TypeInv, JobT
    <3>3. QED BY <1>4, <2>3, <3>1, <3>2 DEF QueuePage
  <2>6. QED BY <2>1, <2>2, <2>5, CleanFrame DEF Quiet, runVars
<1>5. CASE ReaderFails(r)
  <2>1. PICK j \in Id : held[r] = j BY <1>5, Holds DEF ReaderFails, TypeInv
  <2>2. r \in ReadersOf(j) /\ Working(r, j) /\ pc[r] # "process"
    BY <1>5, <2>1 DEF ReaderFails, ReadersOf, Reading, Working
  <2>3. ~cleanupQueued[j] /\ state[j] # "cancelled" BY <2>2, BusyNotQueued
  <2>4. /\ FailLocked(j) /\ FinishCancelLocked(j) /\ Release(r)
        /\ UNCHANGED <<finalizerRunning, pagesRunning>>
        /\ \A k \in Id \ {j} : readerRunning'[k] = readerRunning[k]
    BY <1>5, <2>1 DEF ReaderFails, TypeInv, JobT
  <2>5. /\ state'[j] \in {state[j], "failed"}
        /\ state[j] = "cancelling" => state'[j] = "cancelling"
        /\ \A k \in Id \ {j} : state'[k] = state[k]
    BY <2>4, FailEffect DEF Settled, Terminal
  <2>6. pc'[Cleaner] = pc[Cleaner] /\ held'[Cleaner] = held[Cleaner]
    BY <2>4, ReleaseEffect DEF TypeInv
  <2>7. QED BY <2>3, <2>4, <2>5, <2>6, CleanFinish
<1>6. CASE EndOfDocument(r)
  <2>1. PICK j \in Id : held[r] = j BY <1>6, Holds DEF EndOfDocument, TypeInv
  <2>2. r \in ReadersOf(j) /\ Working(r, j) /\ pc[r] # "process"
    BY <1>6, <2>1 DEF EndOfDocument, ReadersOf, Reading, Working
  <2>3. ~cleanupQueued[j] /\ state[j] # "cancelled" BY <2>2, BusyNotQueued
  <2>4. /\ FinalizeLocked(r, j, collected[j]) /\ FinishCancelLocked(j)
        /\ UNCHANGED pagesRunning
        /\ \A k \in Id \ {j} : readerRunning'[k] = readerRunning[k]
    BY <1>6, <2>1 DEF EndOfDocument, TypeInv, JobT
  <2>5. /\ state'[j] \in {state[j], "failed", "finalizing"}
        /\ state[j] = "cancelling" => state'[j] = "cancelling"
        /\ \A k \in Id \ {j} : state'[k] = state[k] /\ finalizerRunning'[k] = finalizerRunning[k]
        /\ pc'[Cleaner] = pc[Cleaner] /\ held'[Cleaner] = held[Cleaner]
    <3>1. /\ state'[j] \in {state[j], "failed", "finalizing"}
          /\ state'[j] = state[j] \/ MayFinalize(j)
          /\ \A k \in Id \ {j} : state'[k] = state[k] /\ finalizerRunning'[k] = finalizerRunning[k]
          /\ pc'[Cleaner] = pc[Cleaner] /\ held'[Cleaner] = held[Cleaner]
      <4>1. /\ \A k \in Id \ {j} : /\ state'[k] = state[k] /\ PagesOf(k)' = PagesOf(k)
                                   /\ finalizerRunning'[k] = finalizerRunning[k]
            /\ \A u \in AllThreads \ {r} : pc'[u] = pc[u] /\ held'[u] = held[u]
        BY <2>1, <2>4, FinalizeOthers
      <4>2. \/ MayFinalize(j) /\ state'[j] = "finalizing"
            \/ MayFinalize(j) /\ state'[j] = "failed"
            \/ state'[j] = state[j]
        BY <2>1, <2>4, FinalizeCases, Zenon
      <4>3. QED BY <4>1, <4>2
    <3>2. MayFinalize(j) => state[j] # "cancelling" BY DEF MayFinalize, Settled
    <3>3. QED BY <3>1, <3>2
  <2>6. QED BY <2>3, <2>4, <2>5, CleanFinish
<1>7. CASE ThreadExits(r)
  <2>1. UNCHANGED <<state, runVars, cleanupVars, held>> /\ pc'[Cleaner] = pc[Cleaner]
    BY <1>7 DEF ThreadExits, Stop, Goto, jobVars, TypeInv, ThreadT
  <2>2. QED BY <2>1, CleanFrame DEF Quiet, runVars
<1>8. QED BY <1>1, <1>2, <1>3, <1>4, <1>5, <1>6, <1>7, FinalizerClean DEF Reader

LEMMA PageWorkerClean ==
  ASSUME TypeInv, RunInv, CleanInv, NEW w \in PageWorkers, PageWorker(w)
  PROVE  CleanInv'
<1> w \in AllThreads /\ w \in Thread /\ w # Cleaner /\ Cleaner \in AllThreads /\ w \notin Readers
  BY Kinds
<1>1. CASE TakePage(w) \/ WriteAsset(w) \/ ThreadExits(w)
  <2>1. /\ UNCHANGED <<state, runVars, cleanupVars>>
        /\ pc'[Cleaner] = pc[Cleaner] /\ held'[Cleaner] = held[Cleaner]
    BY <1>1 DEF TakePage, WriteAsset, ThreadExits, Stop, Goto, jobVars, threadVars, TypeInv, ThreadT
  <2>2. QED BY <2>1, CleanFrame DEF Quiet, runVars
<1>2. CASE StartPage(w)
  <2>1. PICK j \in Id : held[w] = j BY <1>2, Holds DEF StartPage, TypeInv
  <2>2. /\ UNCHANGED <<state, readerRunning, finalizerRunning, cleanupVars>>
        /\ \A k \in Id : pagesRunning'[k] # pagesRunning[k] => ~Settled(k)
    BY <1>2, <2>1 DEF StartPage, TypeInv, JobT
  <2>3. pc'[Cleaner] = pc[Cleaner] /\ held'[Cleaner] = held[Cleaner]
    BY <1>2 DEF StartPage, Release, Goto, TypeInv, ThreadT
  <2>4. \A k \in Id : Settled(k) => (Quiet(k)' <=> Quiet(k)) BY <2>2 DEF Quiet
  <2>5. QED BY <2>2, <2>3, <2>4, CleanFrame DEF Settled, Terminal
<1>3. CASE PageDone(w) \/ PageFails(w)
  <2>1. PICK j \in Id : held[w] = j BY <1>3, Holds DEF PageDone, PageFails, TypeInv
  <2>2. w \in RunningPages(j) /\ Working(w, j) /\ pc[w] = "process"
    BY <1>3, <2>1 DEF PageDone, PageFails, RunningPages, Processing, Working
  <2>3. ~cleanupQueued[j] /\ state[j] # "cancelled" BY <2>2, BusyNotQueued
  <2>4. /\ FinishCancelLocked(j) /\ UNCHANGED readerRunning
        /\ \A k \in Id \ {j} : pagesRunning'[k] = pagesRunning[k]
    BY <1>3, <2>1 DEF PageDone, PageFails, TypeInv, JobT
  <2>5. /\ state'[j] \in {state[j], "failed", "finalizing"}
        /\ state[j] = "cancelling" => state'[j] = "cancelling"
        /\ \A k \in Id \ {j} : state'[k] = state[k] /\ finalizerRunning'[k] = finalizerRunning[k]
        /\ pc'[Cleaner] = pc[Cleaner] /\ held'[Cleaner] = held[Cleaner]
    <3>1. CASE PageFails(w)
      <4>1. FailLocked(j) /\ Release(w) /\ UNCHANGED finalizerRunning BY <2>1, <3>1 DEF PageFails
      <4>2. QED BY <4>1, FailEffect, ReleaseEffect DEF TypeInv, Settled, Terminal
    <3>2. CASE PageDone(w) /\ Settled(j)
      <4>1. Release(w) /\ UNCHANGED <<state, finalizerRunning>> BY <2>1, <3>2 DEF PageDone
      <4>2. QED BY <4>1, ReleaseEffect DEF TypeInv
    <3>3. CASE PageDone(w) /\ ~Settled(j)
      <4>1. PICK found : FinalizeLocked(w, j, found) BY <2>1, <3>3 DEF PageDone
      <4>2. /\ state'[j] \in {state[j], "failed", "finalizing"}
            /\ \A k \in Id \ {j} : state'[k] = state[k] /\ finalizerRunning'[k] = finalizerRunning[k]
            /\ pc'[Cleaner] = pc[Cleaner] /\ held'[Cleaner] = held[Cleaner]
        <5>1. /\ \A k \in Id \ {j} : /\ state'[k] = state[k] /\ PagesOf(k)' = PagesOf(k)
                                     /\ finalizerRunning'[k] = finalizerRunning[k]
              /\ \A u \in AllThreads \ {w} : pc'[u] = pc[u] /\ held'[u] = held[u]
          BY <2>1, <4>1, FinalizeOthers
        <5>2. state'[j] = "finalizing" \/ state'[j] = "failed" \/ state'[j] = state[j]
          BY <2>1, <4>1, FinalizeCases, Zenon
        <5>3. QED BY <5>1, <5>2
      <4>3. state[j] # "cancelling" BY <3>3 DEF Settled
      <4>4. QED BY <4>2, <4>3
    <3>4. QED BY <1>3, <3>1, <3>2, <3>3
  <2>6. QED BY <2>3, <2>4, <2>5, CleanFinish
<1>4. QED BY <1>1, <1>2, <1>3, FinalizerClean DEF PageWorker

LEMMA TakeCleanupRunClean ==
  ASSUME TypeInv, RunInv, CleanInv, TakeCleanup
  PROVE  RunInv' /\ CleanInv'
<1> Cleaner \in AllThreads /\ Cleaner \notin Thread BY Kinds
<1> DEFINE q == cleanupQueue
<1>0. PICK h \in Id : h = Head(q) BY DEF TakeCleanup, TypeInv, QueueT
<1>1. /\ q \in Seq(Id) /\ q # <<>> /\ h \in Id /\ h = q[1] /\ 1 \in DOMAIN q
      /\ DOMAIN q = 1 .. Len(q) /\ Len(q) \in Nat \ {0}
      /\ cleanupQueue' = Tail(q) /\ DOMAIN cleanupQueue' = 1 .. Len(q) - 1
      /\ \A i \in 1 .. Len(q) - 1 : cleanupQueue'[i] = q[i + 1]
  BY <1>0 DEF TakeCleanup, TypeInv, QueueT
<1>2. /\ pc[Cleaner] = "idle" /\ pc'[Cleaner] = "clean" /\ held'[Cleaner] = h
      /\ \A u \in AllThreads \ {Cleaner} : pc'[u] = pc[u] /\ held'[u] = held[u]
      /\ UNCHANGED <<state, runVars, cleanupQueued, readerDone, outstanding, pages, sequence>>
  BY <1>0, <1>1 DEF TakeCleanup, Goto, TypeInv, ThreadT, docVars, schedVars, queueVars
<1>3. \E i \in DOMAIN q : q[i] = h BY <1>1
<1>4. state[h] = "cancelling" BY <1>1, <1>3 DEF CleanInv, CleanPart, InQueue
<1>5. RunInv'
  <2>1. \A u \in Thread : pc'[u] = pc[u] /\ held'[u] = held[u] BY <1>2 DEF AllThreads
  <2>2. \A u \in AllThreads, k \in Id : held'[u] = k => held[u] = k \/ state[k] = "cancelling"
    BY <1>2, <1>4
  <2>3. QED BY <1>2, <2>1, <2>2, RunFrame, Kinds
<1>6. OnceInQueue'
  <2>1. \A i, k \in 1 .. Len(q) - 1 : q[i + 1] = q[k + 1] => i + 1 = k + 1
    BY <1>1 DEF CleanInv, OnceInQueue
  <2>2. QED BY <1>1, <2>1 DEF OnceInQueue
<1>7. ASSUME NEW k \in Id PROVE CleanPart(k)'
  <2>1. CleanPart(k) BY DEF CleanInv
  <2>2. Quiet(k)' <=> Quiet(k) BY <1>2 DEF Quiet, runVars
  <2>3. ~AtCleaner(k) /\ (AtCleaner(k)' <=> k = h) BY <1>1, <1>2 DEF AtCleaner
  <2>4. InQueue(k)' <=> InQueue(k) /\ k # h
    <3>1. InQueue(k)' => InQueue(k)
      <4>1. SUFFICES ASSUME NEW i \in 1 .. Len(q) - 1, q[i + 1] = k PROVE InQueue(k)
        BY <1>1 DEF InQueue
      <4>2. i + 1 \in DOMAIN q BY <1>1
      <4>3. QED BY <4>1, <4>2 DEF InQueue
    <3>2. ~InQueue(h)'
      <4>1. SUFFICES ASSUME NEW i \in 1 .. Len(q) - 1, q[i + 1] = q[1] PROVE FALSE
        BY <1>1, <1>2 DEF InQueue
      <4>2. i + 1 \in DOMAIN q /\ i + 1 # 1 BY <1>1
      <4>3. QED BY <1>1, <4>1, <4>2 DEF CleanInv, OnceInQueue
    <3>3. InQueue(k) /\ k # h => InQueue(k)'
      <4>1. SUFFICES ASSUME NEW i \in DOMAIN q, q[i] = k, k # h PROVE InQueue(k)' BY DEF InQueue
      <4>2. i - 1 \in 1 .. Len(q) - 1 /\ q[(i - 1) + 1] = k BY <1>1, <4>1
      <4>3. QED BY <1>1, <4>2 DEF InQueue
    <3>4. QED BY <3>1, <3>2, <3>3
  <2>5. InQueue(h) BY <1>3 DEF InQueue
  <2>6. QED BY <1>2, <2>1, <2>2, <2>3, <2>4, <2>5 DEF CleanPart
<1>8. QED BY <1>5, <1>6, <1>7 DEF CleanInv

LEMMA CleanupRunClean ==
  ASSUME TypeInv, RunInv, CleanInv, Cleanup
  PROVE  RunInv' /\ CleanInv'
<1> Cleaner \in AllThreads /\ Cleaner \notin Thread BY Kinds
<1>0. PICK j \in Id : held[Cleaner] = j BY Holds DEF Cleanup, TypeInv
<1>1. /\ AtCleaner(j) /\ Release(Cleaner) /\ pc[Cleaner] = "clean"
      /\ state'[j] = "cancelled" /\ \A k \in Id \ {j} : state'[k] = state[k]
      /\ UNCHANGED <<runVars, cleanupVars, readerDone, outstanding, pages, sequence>>
  BY <1>0 DEF Cleanup, AtCleaner, TypeInv, JobT, docVars, schedVars, queueVars
<1>2. /\ pc'[Cleaner] = "idle" /\ held'[Cleaner] = NoJob
      /\ \A u \in AllThreads \ {Cleaner} : pc'[u] = pc[u] /\ held'[u] = held[u]
  BY <1>1, ReleaseEffect DEF TypeInv
<1>3. cleanupQueued[j] /\ state[j] = "cancelling" /\ Quiet(j) /\ ~InQueue(j)
  BY <1>1 DEF CleanInv, CleanPart
<1>4. PagesInv' /\ \A k \in Id : PagesOf(k)' = PagesOf(k) BY <1>1 DEF RunInv, PagesInv, PagesOf
<1>5. \A k \in Id \ {j} : JobInv(k)' BY <1>0, <1>1, <1>2, <1>4, OtherJobs DEF runVars
<1>6. JobInv(j)'
  <2> JobInv(j) BY DEF RunInv
  <2>1. ReadersOf(j) = {} /\ FinalizersOf(j) = {} /\ RunningPages(j) = {} /\ PagesOf(j) = {}
    BY <1>3, FiniteSides, FS_EmptySet
    DEF JobInv, ReaderPart, FinalPart, WorkerPart, AccountPart, Quiet
  <2>2. /\ ReadersOf(j)' = ReadersOf(j) /\ FinalizersOf(j)' = FinalizersOf(j)
        /\ RunningPages(j)' = RunningPages(j) /\ Carriers(j)' = Carriers(j)
    BY <1>2, Kinds DEF ReadersOf, Reading, RunningPages, Processing, Carriers, FinalizersOf, Finalizing
  <2>3. ReaderPart(j)' /\ FreshPart(j)' /\ WorkerPart(j)' /\ AccountPart(j)' /\ FinalPart(j)'
    BY <1>1, <1>4, <2>1, <2>2 DEF JobInv, ReaderPart, FreshPart, WorkerPart, AccountPart, FinalPart,
       runVars
  <2>4. QED BY <2>3 DEF JobInv
<1>7. RunInv' BY <1>4, <1>5, <1>6 DEF RunInv
<1>8. OnceInQueue' BY <1>1 DEF CleanInv, OnceInQueue, cleanupVars
<1>9. ASSUME NEW k \in Id PROVE CleanPart(k)'
  <2>1. CleanPart(k) BY DEF CleanInv
  <2>2. (Quiet(k)' <=> Quiet(k)) /\ (InQueue(k)' <=> InQueue(k)) /\ cleanupQueued' = cleanupQueued
    BY <1>1 DEF Quiet, InQueue, runVars, cleanupVars
  <2>3. ~AtCleaner(k)' /\ (AtCleaner(k) => k = j) BY <1>0, <1>2 DEF AtCleaner
  <2>4. QED BY <1>1, <1>3, <2>1, <2>2, <2>3 DEF CleanPart
<1>10. QED BY <1>7, <1>8, <1>9 DEF CleanInv

LEMMA CleanupThreadRunClean ==
  ASSUME TypeInv, RunInv, CleanInv, CleanupThread
  PROVE  RunInv' /\ CleanInv'
<1>1. CASE CleanerExits
  <2>1. /\ pc[Cleaner] = "idle" /\ pc'[Cleaner] = "exited" /\ \A u \in Thread : pc'[u] = pc[u]
        /\ UNCHANGED <<jobVars, schedVars, held>>
    BY <1>1, Kinds DEF CleanerExits, Stop, Goto, TypeInv, ThreadT, AllThreads
  <2>2. RunInv' BY <2>1, RunFrame, Kinds DEF jobVars, docVars, schedVars, queueVars
  <2>3. \A k \in Id : ~AtCleaner(k) /\ ~AtCleaner(k)' BY <2>1 DEF AtCleaner
  <2>4. UNCHANGED <<state, cleanupQueued, cleanupQueue, runVars>>
    BY <2>1 DEF jobVars, cleanupVars
  <2>5. CleanInv'
    BY <2>3, <2>4 DEF CleanInv, OnceInQueue, CleanPart, InQueue, Quiet, runVars
  <2>6. QED BY <2>2, <2>5
<1>2. QED BY <1>1, TakeCleanupRunClean, CleanupRunClean DEF CleanupThread

-----------------------------------------------------------------------------
(* Every step of a thread keeps the jobs that are live, or ends one of     *)
(* them and settles its account.                                           *)

Kept ==
  /\ \A k \in Id : state'[k] \in Live <=> state[k] \in Live
  /\ UNCHANGED <<activeJobs, admitted, succeeded, failed, cancelled>>
JobEnds(j) ==
  /\ state[j] \in Live /\ state'[j] \in Terminal
  /\ \A k \in Id \ {j} : state'[k] = state[k]
  /\ activeJobs' = activeJobs - 1 /\ admitted' = admitted
  /\ succeeded' + failed' + cancelled' = succeeded + failed + cancelled + 1
NoneKept == \A k \in Id : state'[k] = "none" <=> state[k] = "none"
Outcome == NoneKept /\ (Kept \/ \E j \in Id : JobEnds(j))

LEMMA SameState ==
  ASSUME UNCHANGED <<state, counters>>
  PROVE  Outcome
  BY DEF Outcome, NoneKept, Kept, counters

LEMMA Ends ==
  ASSUME TypeInv, NEW j \in Id, state[j] \in Live, NEW over \in Terminal,
         state' = [state EXCEPT ![j] = over],
         activeJobs' = activeJobs - 1, admitted' = admitted,
         succeeded' + failed' + cancelled' = succeeded + failed + cancelled + 1
  PROVE  Outcome
<1>1. state'[j] = over /\ \A k \in Id \ {j} : state'[k] = state[k]
  BY DEF TypeInv, JobT
<1>2. JobEnds(j) BY <1>1 DEF JobEnds
<1>3. NoneKept BY <1>1 DEF NoneKept, Live, Terminal
<1>4. QED BY <1>2, <1>3 DEF Outcome

LEMMA FailOutcome ==
  ASSUME TypeInv, NEW j \in Id, FailLocked(j), state[j] # "none"
  PROVE  Outcome
<1>1. CASE Settled(j) BY <1>1, SameState DEF FailLocked
<1>2. CASE ~Settled(j)
  <2>1. /\ state' = [state EXCEPT ![j] = "failed"] /\ activeJobs' = activeJobs - 1
        /\ admitted' = admitted /\ failed' = failed + 1 /\ succeeded' = succeeded
        /\ cancelled' = cancelled
    BY <1>2 DEF FailLocked, ReturnQuota
  <2>2. state[j] \in Live BY <1>2 DEF TypeInv, JobT, Settled, Terminal, Live
  <2>3. succeeded' + failed' + cancelled' = succeeded + failed + cancelled + 1
    BY <2>1 DEF TypeInv, CountT
  <2>4. "failed" \in Terminal BY DEF Terminal
  <2>5. QED BY <2>1, <2>2, <2>3, <2>4, Ends
<1>3. QED BY <1>1, <1>2

LEMMA Moves ==
  ASSUME TypeInv, NEW j \in Id, state[j] \in Live, NEW next \in Live,
         state' = [state EXCEPT ![j] = next], UNCHANGED counters
  PROVE  Outcome
<1>1. state'[j] = next /\ \A k \in Id \ {j} : state'[k] = state[k]
  BY DEF TypeInv, JobT
<1>2. Kept BY <1>1 DEF Kept, counters
<1>3. NoneKept BY <1>1 DEF NoneKept, Live
<1>4. QED BY <1>2, <1>3 DEF Outcome

LEMMA FinalizeOutcome ==
  ASSUME TypeInv, NEW t, NEW j \in Id, NEW found, FinalizeLocked(t, j, found),
         state[j] # "none"
  PROVE  Outcome
<1>1. CASE MayFinalize(j) /\ found # {}
  <2>1. state' = [state EXCEPT ![j] = "finalizing"] /\ UNCHANGED counters
    BY <1>1 DEF FinalizeLocked
  <2>2. state[j] \in Live BY <1>1 DEF MayFinalize, Settled, TypeInv, JobT, Terminal, Live
  <2>3. "finalizing" \in Live BY DEF Live
  <2>4. QED BY <2>1, <2>2, <2>3, Moves
<1>2. CASE MayFinalize(j) /\ found = {} BY <1>2, FailOutcome DEF FinalizeLocked
<1>3. CASE ~MayFinalize(j) BY <1>3, SameState DEF FinalizeLocked
<1>4. QED BY <1>1, <1>2, <1>3

LEMMA ThreadOutcome ==
  ASSUME TypeInv, RunInv, CleanInv,
         \/ \E r \in Readers : Reader(r)
         \/ \E w \in PageWorkers : PageWorker(w)
         \/ CleanupThread
  PROVE  Outcome
<1>0. ASSUME NEW t \in AllThreads, NEW j \in Id, held[t] = j PROVE state[j] # "none"
  BY <1>0 DEF RunInv, JobInv, FreshPart
<1>1. ASSUME NEW t \in Thread, Finalizer(t) PROVE Outcome
  <2> t \in AllThreads BY Kinds
  <2>1. PICK j \in Id : held[t] = j
    BY <1>1, Holds DEF Finalizer, WriteResult, Publish, FinalizeFails, TypeInv
  <2>2. CASE WriteResult(t) BY <2>2, SameState DEF WriteResult, jobVars
  <2>3. CASE Publish(t) /\ state[j] = "finalizing"
    <3>1. /\ state' = [state EXCEPT ![j] = "succeeded"] /\ activeJobs' = activeJobs - 1
          /\ admitted' = admitted /\ failed' = failed /\ succeeded' = succeeded + 1
          /\ cancelled' = cancelled
      BY <2>1, <2>3 DEF Publish, ReturnQuota
    <3>2. succeeded' + failed' + cancelled' = succeeded + failed + cancelled + 1
      BY <3>1 DEF TypeInv, CountT
    <3>3. "succeeded" \in Terminal /\ state[j] \in Live BY <2>3 DEF Terminal, Live
    <3>4. QED BY <3>1, <3>2, <3>3, Ends
  <2>4. CASE Publish(t) /\ state[j] # "finalizing" BY <2>1, <2>4, SameState DEF Publish
  <2>5. CASE FinalizeFails(t)
    <3>1. FailLocked(j) BY <2>1, <2>5 DEF FinalizeFails
    <3>2. QED BY <1>0, <2>1, <3>1, FailOutcome
  <2>6. QED BY <1>1, <2>2, <2>3, <2>4, <2>5 DEF Finalizer
<1>2. ASSUME NEW r \in Readers, Reader(r), ~Finalizer(r) PROVE Outcome
  <2> r \in AllThreads /\ r \in Thread BY Kinds
  <2>1. CASE TakeDocument(r)
    <3>1. CASE UNCHANGED state BY <2>1, <3>1, SameState DEF TakeDocument
    <3>2. CASE ~UNCHANGED state
      <4>1. PICK j \in waiting : state[j] = "queued" /\ state' = [state EXCEPT ![j] = "reading"]
        BY <2>1, <3>2 DEF TakeDocument
      <4>2. j \in Id /\ state[j] \in Live /\ "reading" \in Live /\ UNCHANGED counters
        BY <2>1, <4>1 DEF TakeDocument, TypeInv, QueueT, Live
      <4>3. QED BY <4>1, <4>2, Moves
    <3>3. QED BY <3>1, <3>2
  <2>2. CASE (\E n \in PageBytes : RenderPage(r, n)) \/ ReservePage(r) \/ ThreadExits(r)
    BY <2>2, SameState DEF RenderPage, ReservePage, ThreadExits, Stop, jobVars
  <2>3. CASE QueuePage(r)
    <3>1. PICK j \in Id : held[r] = j BY <2>3, Holds DEF QueuePage, TypeInv
    <3>2. UNCHANGED counters BY <2>3 DEF QueuePage
    <3>3. CASE UNCHANGED state BY <3>2, <3>3, SameState
    <3>4. CASE ~Abandoned(j) /\ state' = [state EXCEPT ![j] = "processing"]
      <4>1. r \in ReadersOf(j) BY <2>3, <3>1 DEF QueuePage, ReadersOf, Reading
      <4>2. state[j] \in {"reading", "processing"}
        BY <3>4, <4>1 DEF RunInv, JobInv, ReaderPart, Abandoned
      <4>3. state[j] \in Live /\ "processing" \in Live BY <4>2 DEF Live
      <4>4. QED BY <3>2, <3>4, <4>3, Moves
    <3>5. QED BY <2>3, <3>1, <3>3, <3>4 DEF QueuePage
  <2>4. CASE ReaderFails(r)
    <3>1. PICK j \in Id : held[r] = j BY <2>4, Holds DEF ReaderFails, TypeInv
    <3>2. FailLocked(j) BY <2>4, <3>1 DEF ReaderFails
    <3>3. QED BY <1>0, <3>1, <3>2, FailOutcome
  <2>5. CASE EndOfDocument(r)
    <3>1. PICK j \in Id : held[r] = j BY <2>5, Holds DEF EndOfDocument, TypeInv
    <3>2. FinalizeLocked(r, j, collected[j]) BY <2>5, <3>1 DEF EndOfDocument
    <3>3. QED BY <1>0, <3>1, <3>2, FinalizeOutcome
  <2>6. QED BY <1>2, <2>1, <2>2, <2>3, <2>4, <2>5 DEF Reader
<1>3. ASSUME NEW w \in PageWorkers, PageWorker(w), ~Finalizer(w) PROVE Outcome
  <2> w \in AllThreads /\ w \in Thread BY Kinds
  <2>1. CASE TakePage(w) \/ StartPage(w) \/ WriteAsset(w) \/ ThreadExits(w)
    BY <2>1, SameState DEF TakePage, StartPage, WriteAsset, ThreadExits, Stop, jobVars
  <2>2. CASE PageFails(w)
    <3>1. PICK j \in Id : held[w] = j BY <2>2, Holds DEF PageFails, TypeInv
    <3>2. FailLocked(j) BY <2>2, <3>1 DEF PageFails
    <3>3. QED BY <1>0, <3>1, <3>2, FailOutcome
  <2>3. CASE PageDone(w)
    <3>1. PICK j \in Id : held[w] = j BY <2>3, Holds DEF PageDone, TypeInv
    <3>2. CASE Settled(j) BY <2>3, <3>1, <3>2, SameState DEF PageDone
    <3>3. CASE ~Settled(j)
      <4>1. PICK found : FinalizeLocked(w, j, found) BY <2>3, <3>1, <3>3 DEF PageDone
      <4>2. QED BY <1>0, <3>1, <4>1, FinalizeOutcome
    <3>4. QED BY <3>2, <3>3
  <2>4. QED BY <1>3, <2>1, <2>2, <2>3 DEF PageWorker
<1>4. CASE CleanupThread
  <2>1. CASE TakeCleanup BY <2>1, SameState DEF TakeCleanup
  <2>2. CASE CleanerExits BY <2>2, SameState DEF CleanerExits, Stop, jobVars
  <2>3. CASE Cleanup
    <3> Cleaner \in AllThreads BY Kinds
    <3>1. PICK j \in Id : held[Cleaner] = j BY <2>3, Holds DEF Cleanup, TypeInv
    <3>2. state[j] = "cancelling" BY <2>3, <3>1 DEF Cleanup, CleanInv, CleanPart, AtCleaner
    <3>3. /\ state' = [state EXCEPT ![j] = "cancelled"] /\ activeJobs' = activeJobs - 1
          /\ admitted' = admitted /\ failed' = failed /\ succeeded' = succeeded
          /\ cancelled' = cancelled + 1
      BY <2>3, <3>1 DEF Cleanup, ReturnQuota
    <3>4. succeeded' + failed' + cancelled' = succeeded + failed + cancelled + 1
      BY <3>3 DEF TypeInv, CountT
    <3>5. "cancelled" \in Terminal /\ state[j] \in Live BY <3>2 DEF Terminal, Live
    <3>6. QED BY <3>3, <3>4, <3>5, Ends
  <2>4. QED BY <1>4, <2>1, <2>2, <2>3 DEF CleanupThread
<1>5. QED BY <1>1, <1>2, <1>3, <1>4, Kinds

-----------------------------------------------------------------------------
(* The account of jobs and reservations.                                   *)

LimitInv ==
  /\ activeJobs + Cardinality(reservations) <= MaxActiveJobs
  /\ admitted + Cardinality(reservations) <= MaxJobs

Inv == TypeInv /\ RunInv /\ RequestInv /\ CleanInv /\ AdmissionLedger /\ LimitInv

LEMMA FiniteLive ==
  /\ IsFiniteSet(ActiveSet) /\ Cardinality(ActiveSet) \in Nat
  /\ HttpT => IsFiniteSet(reservations) /\ Cardinality(reservations) \in Nat
<1>1. ActiveSet \subseteq Id BY DEF ActiveSet
<1>2. HttpT => reservations \subseteq Id BY DEF HttpT
<1>3. QED BY <1>1, <1>2, SchedulerAssumption, FS_Subset, FS_CardinalityType

LEMMA KeptLedger ==
  ASSUME AdmissionLedger, Kept
  PROVE  AdmissionLedger'
<1>1. ActiveSet' = ActiveSet BY DEF Kept, ActiveSet
<1>2. QED BY <1>1 DEF AdmissionLedger, Kept

\* An outcome of a thread keeps the account and frees room at most.
LEMMA OutcomeLedger ==
  ASSUME TypeInv, TypeInv', AdmissionLedger, LimitInv, UNCHANGED reservations, Outcome
  PROVE  AdmissionLedger' /\ LimitInv'
<1>1. CASE Kept BY <1>1, KeptLedger DEF Kept, LimitInv
<1>2. ASSUME NEW j \in Id, JobEnds(j) PROVE AdmissionLedger' /\ LimitInv'
  <2>1. j \in ActiveSet /\ ActiveSet' = ActiveSet \ {j}
    BY <1>2 DEF JobEnds, ActiveSet, Live, Terminal
  <2>2. Cardinality(ActiveSet \ {j}) = Cardinality(ActiveSet) - 1
    BY <2>1, FiniteLive, FS_RemoveElement
  <2>3. activeJobs' = Cardinality(ActiveSet') BY <1>2, <2>1, <2>2 DEF JobEnds, AdmissionLedger
  <2>4. admitted' = succeeded' + failed' + cancelled' + activeJobs'
    <3> DEFINE ended == succeeded + failed + cancelled
    <3>1. activeJobs \in Int /\ ended \in Int /\ ended' \in Int BY DEF TypeInv, CountT
    <3>2. activeJobs' = activeJobs - 1 /\ admitted' = admitted /\ ended' = ended + 1
      BY <1>2 DEF JobEnds
    <3>3. admitted = ended + activeJobs BY DEF AdmissionLedger
    <3> HIDE DEF ended
    <3>4. admitted' = ended' + activeJobs' BY <3>1, <3>2, <3>3
    <3>5. QED BY <3>4 DEF ended
  <2>5. LimitInv'
    <3>1. Cardinality(reservations) \in Nat /\ activeJobs \in Int /\ MaxActiveJobs \in Nat
      BY FiniteLive, SchedulerAssumption DEF TypeInv, CountT
    <3>2. activeJobs' = activeJobs - 1 /\ admitted' = admitted BY <1>2 DEF JobEnds
    <3>3. QED BY <3>1, <3>2 DEF LimitInv
  <2>6. QED BY <2>3, <2>4, <2>5 DEF AdmissionLedger
<1>3. QED BY <1>1, <1>2 DEF Outcome

LEMMA OutcomeRequests ==
  ASSUME RequestInv, NoneKept, UNCHANGED <<request, registered, reservations>>
  PROVE  RequestInv'
  BY DEF RequestInv, NoneKept

LEMMA ConnectionLedger ==
  ASSUME Inv, TypeInv', NEW j \in Id, Connection(j)
  PROVE  RequestInv' /\ AdmissionLedger' /\ LimitInv'
<1> USE DEF Inv
<1>0. /\ IsFiniteSet(reservations) /\ Cardinality(reservations) \in Nat
      /\ activeJobs \in Int /\ admitted \in Int /\ MaxActiveJobs \in Nat /\ MaxJobs \in Nat
  BY FiniteLive, SchedulerAssumption DEF TypeInv, CountT
<1>1. CASE Submit(j)
  <2>1. /\ request[j] = "receiving" /\ j \in reservations /\ state[j] = "none" /\ state'[j] = "queued"
        /\ \A k \in Id \ {j} : state'[k] = state[k] /\ request'[k] = request[k]
        /\ request'[j] = "submitted" /\ reservations' = reservations \ {j}
        /\ registered' = registered \cup {j}
        /\ activeJobs' = activeJobs + 1 /\ admitted' = admitted + 1
        /\ UNCHANGED <<succeeded, failed, cancelled>>
    BY <1>1 DEF Submit, RequestInv, TypeInv, JobT, HttpT
  <2>2. RequestInv' BY <2>1 DEF RequestInv
  <2>3. ActiveSet' = ActiveSet \cup {j} /\ j \notin ActiveSet BY <2>1 DEF ActiveSet, Live
  <2>4. Cardinality(ActiveSet \cup {j}) = Cardinality(ActiveSet) + 1
    BY <2>3, FiniteLive, FS_AddElement
  <2>5. AdmissionLedger'
    <3>1. activeJobs' = Cardinality(ActiveSet') BY <2>1, <2>3, <2>4 DEF AdmissionLedger
    <3>2. admitted' = succeeded' + failed' + cancelled' + activeJobs'
      BY <2>1 DEF AdmissionLedger, TypeInv, CountT
    <3>3. QED BY <3>1, <3>2 DEF AdmissionLedger
  <2>6. Cardinality(reservations \ {j}) = Cardinality(reservations) - 1
    BY <1>0, <2>1, FS_RemoveElement
  <2>7. LimitInv' BY <1>0, <2>1, <2>6 DEF LimitInv
  <2>8. QED BY <2>2, <2>5, <2>7
<1>2. CASE Cancel(j)
  <2>1. ~Settled(j) /\ state' = [state EXCEPT ![j] = "cancelling"] /\ UNCHANGED <<httpVars, counters>>
    BY <1>2 DEF Cancel
  <2>2. state[j] \in Live
    <3>1. state[j] # "none" BY <1>2 DEF Cancel, RequestInv
    <3>2. QED BY <2>1, <3>1 DEF Settled, Terminal, Live, TypeInv, JobT
  <2>3. Outcome BY <2>1, <2>2, Moves DEF Live
  <2>4. QED BY <2>1, <2>3, OutcomeLedger, OutcomeRequests DEF httpVars, Outcome
<1>3. CASE ~(Submit(j) \/ Cancel(j))
  <2>1. UNCHANGED <<state, activeJobs, admitted, succeeded, failed, cancelled>>
    BY <1>3 DEF Connection, Reserve, Receive, Disconnect, RemoveBegin, RemoveFails, RemoveFiles,
       RemoveEnd, counters, jobVars
  <2>2. Kept BY <2>1 DEF Kept
  <2>3. AdmissionLedger' BY <2>2, KeptLedger
  <2>4. CASE Reserve(j)
    <3>1. /\ request[j] = "none" /\ reservations' = reservations \cup {j} /\ registered' = registered
          /\ request'[j] = "receiving" /\ \A k \in Id \ {j} : request'[k] = request[k]
      BY <2>4 DEF Reserve, TypeInv, HttpT
    <3>2. RequestInv' BY <2>1, <3>1 DEF RequestInv
    <3>3. Cardinality(reservations \cup {j}) <= Cardinality(reservations) + 1
      BY <1>0, FS_AddElement
    <3>4. Cardinality(reservations \cup {j}) \in Nat
      BY <1>0, FS_AddElement, FS_CardinalityType
    <3>5. LimitInv' BY <1>0, <2>1, <2>4, <3>1, <3>3, <3>4 DEF LimitInv, Reserve, Admits
    <3>6. QED BY <2>3, <3>2, <3>5
  <2>5. CASE ~Reserve(j)
    <3> DEFINE Shrinks ==
          /\ reservations' \subseteq reservations /\ registered' \subseteq registered
          /\ \A k \in Id \ {j} : request'[k] = request[k]
          /\ \/ request'[j] = request[j]
             \/ /\ request[j] \in {"receiving", "rejected"} /\ request'[j] = "rejected"
             \/ /\ request[j] \in {"receiving", "rejected"} /\ request'[j] = "closed"
                /\ j \notin reservations'
    <3>1. Shrinks
      <4>1. ASSUME NEW n \in Chunks, Receive(j, n) PROVE Shrinks
        BY <4>1 DEF Receive, TypeInv, HttpT
      <4>2. CASE Disconnect(j) BY <4>2 DEF Disconnect, TypeInv, HttpT
      <4>3. CASE RemoveBegin(j) \/ RemoveFails(j) \/ RemoveFiles(j) \/ RemoveEnd(j)
        BY <4>3 DEF RemoveBegin, RemoveFails, RemoveFiles, RemoveEnd, httpVars
      <4>4. QED BY <1>3, <2>5, <4>1, <4>2, <4>3 DEF Connection
    <3>2. RequestInv' BY <2>1, <3>1 DEF RequestInv
    <3>3. Cardinality(reservations') <= Cardinality(reservations) /\ Cardinality(reservations') \in Nat
      BY <1>0, <3>1, FS_Subset, FS_CardinalityType
    <3>4. LimitInv' BY <1>0, <2>1, <3>3 DEF LimitInv
    <3>5. QED BY <2>3, <3>2, <3>4
  <2>6. QED BY <2>4, <2>5
<1>4. QED BY <1>1, <1>2, <1>3

LEMMA InvInit == Init => Inv
<1> SUFFICES ASSUME Init PROVE Inv OBVIOUS
<1>1. TypeInv /\ RunInv /\ CleanInv BY TypesInit, RunInit, CleanInit
<1>2. RequestInv BY DEF Init, RequestInv
<1>3. ActiveSet = {} /\ reservations = {} BY DEF Init, ActiveSet, Live
<1>4. AdmissionLedger /\ LimitInv
  BY <1>3, FS_EmptySet, SchedulerAssumption DEF Init, AdmissionLedger, LimitInv
<1>5. QED BY <1>1, <1>2, <1>4 DEF Inv

LEMMA InvStep == Inv /\ [Next]_vars => Inv'
<1> SUFFICES ASSUME Inv, [Next]_vars PROVE Inv' OBVIOUS
<1> USE DEF Inv
<1>1. TypeInv' BY TypesStep
<1>2. ASSUME NEW j \in Id, Connection(j) PROVE Inv'
  <2>1. RunInv' BY <1>2, ConnectionRun
  <2>2. CleanInv' BY <1>2, ConnectionClean
  <2>3. QED BY <1>1, <1>2, <2>1, <2>2, ConnectionLedger
<1>3. ASSUME \/ \E r \in Readers : Reader(r)
             \/ \E w \in PageWorkers : PageWorker(w)
             \/ CleanupThread
      PROVE  Inv'
  <2>1. RunInv'
    BY <1>3, ReaderRun, PageWorkerRun, FinalizerRun, CleanupThreadRunClean, Kinds
  <2>2. CleanInv' BY <1>3, ReaderClean, PageWorkerClean, CleanupThreadRunClean
  <2>3. Outcome BY <1>3, ThreadOutcome
  <2>4. UNCHANGED <<request, registered, reservations>>
    <3>1. CASE CleanupThread
      BY <3>1 DEF CleanupThread, TakeCleanup, Cleanup, CleanerExits, Stop, httpVars
    <3>2. ASSUME NEW t \in Thread, ThreadExits(t) \/ Finalizer(t)
          PROVE  UNCHANGED <<request, registered, reservations>>
      BY <3>2 DEF ThreadExits, Stop, Finalizer, WriteResult, Publish, FinalizeFails, httpVars
    <3>3. ASSUME NEW r \in Readers, Reader(r)
          PROVE  UNCHANGED <<request, registered, reservations>>
      <4>1. CASE TakeDocument(r) \/ ReservePage(r) \/ QueuePage(r)
        BY <4>1 DEF TakeDocument, ReservePage, QueuePage, httpVars
      <4>2. CASE (\E n \in PageBytes : RenderPage(r, n)) \/ ReaderFails(r) \/ EndOfDocument(r)
        BY <4>2 DEF RenderPage, ReaderFails, EndOfDocument, httpVars
      <4>3. CASE Finalizer(r) \/ ThreadExits(r) BY <3>2, <4>3, Kinds
      <4>4. QED BY <3>3, <4>1, <4>2, <4>3 DEF Reader
    <3>4. ASSUME NEW w \in PageWorkers, PageWorker(w)
          PROVE  UNCHANGED <<request, registered, reservations>>
      <4>1. CASE TakePage(w) \/ StartPage(w) \/ WriteAsset(w)
        BY <4>1 DEF TakePage, StartPage, WriteAsset, httpVars
      <4>2. CASE PageDone(w) \/ PageFails(w) BY <4>2 DEF PageDone, PageFails, httpVars
      <4>3. CASE Finalizer(w) \/ ThreadExits(w) BY <3>2, <4>3, Kinds
      <4>4. QED BY <3>4, <4>1, <4>2, <4>3 DEF PageWorker
    <3>5. QED BY <1>3, <3>1, <3>3, <3>4
  <2>5. RequestInv' BY <2>3, <2>4, OutcomeRequests DEF Outcome
  <2>6. AdmissionLedger' /\ LimitInv' BY <1>1, <2>3, <2>4, OutcomeLedger
  <2>7. QED BY <1>1, <2>1, <2>2, <2>5, <2>6
<1>4. CASE BeginShutdown \/ BeginCleanupShutdown \/ Ended \/ UNCHANGED vars
  <2>1. UNCHANGED <<httpVars, counters, jobVars, schedVars, threadVars>>
    BY <1>4 DEF BeginShutdown, BeginCleanupShutdown, Ended, vars
  <2>2. RunInv' BY <2>1, RunFrame DEF jobVars, docVars, schedVars, queueVars, threadVars
  <2>3. CleanInv' BY <2>1, CleanFrame DEF jobVars, threadVars, Quiet, runVars
  <2>4. Outcome BY <2>1, SameState DEF jobVars
  <2>5. RequestInv' BY <2>1, <2>4, OutcomeRequests DEF Outcome, httpVars
  <2>6. AdmissionLedger' /\ LimitInv' BY <1>1, <2>1, <2>4, OutcomeLedger DEF httpVars
  <2>7. QED BY <1>1, <2>2, <2>3, <2>5, <2>6
<1>5. QED BY <1>2, <1>3, <1>4 DEF Next

(* The inductive invariant: a job's flags and counters tell which threads  *)
(* work on it (RunInv), what is still open is queued, carried or finalized *)
(* once, and the cleanup of a cancelled job starts only when it is quiet.  *)
THEOREM Invariant == Spec => []Inv
  BY InvInit, InvStep, PTL DEF Spec

-----------------------------------------------------------------------------
(* What follows from it.                                                   *)

\* A thread at work on a job shows in one of the job's three flags.
LEMMA QuietMeansIdle ==
  ASSUME TypeInv, RunInv, NEW j \in Id, Quiet(j), NEW t \in Thread
  PROVE  ~Working(t, j)
<1> t \in AllThreads BY Kinds
<1>1. ReadersOf(j) = {} BY DEF RunInv, JobInv, ReaderPart, Quiet
<1>2. RunningPages(j) = {}
  BY FiniteSides, FS_EmptySet DEF RunInv, JobInv, WorkerPart, Quiet
<1>3. FinalizersOf(j) = {} BY DEF RunInv, JobInv, FinalPart, Quiet
<1>4. CASE t \in Readers
  <2>1. pc[t] # "process" BY <1>4 DEF TypeInv, ThreadT
  <2>2. QED BY <1>1, <1>3, <1>4, <2>1 DEF Working, Reading, Processing, Finalizing, ReadersOf, FinalizersOf
<1>5. CASE t \in PageWorkers
  <2>1. pc[t] \notin {"read", "admit", "copy", "caught"} BY <1>5 DEF TypeInv, ThreadT
  <2>2. QED BY <1>2, <1>3, <1>5, <2>1 DEF Working, Reading, Processing, Finalizing, RunningPages, FinalizersOf
<1>6. QED BY <1>4, <1>5, Kinds

(* A job that is reported cancelled, or whose output the cleanup thread is *)
(* removing, has no reader, no page worker and no finalizer left, whatever *)
(* the interleaving of cancel() with them.                                 *)
THEOREM CancelledJobsAreQuiet == Spec => []CancelledIsQuiet
<1>1. Inv => CancelledIsQuiet
  <2> SUFFICES ASSUME Inv, NEW j \in Id, NEW t \in Thread,
                      state[j] = "cancelled" \/ AtCleaner(j)
               PROVE  ~Working(t, j)
    BY DEF CancelledIsQuiet, AtCleaner
  <2>1. cleanupQueued[j] BY DEF Inv, CleanInv, CleanPart
  <2>2. Quiet(j) BY <2>1 DEF Inv, CleanInv, CleanPart
  <2>3. QED BY <2>2, QuietMeansIdle DEF Inv
<1>2. QED BY <1>1, Invariant, PTL

(* A job being cancelled always has somebody who will bring it to the end: *)
(* a thread that still works on it, or its one place on the way through    *)
(* the cleanup thread.                                                     *)
THEOREM CancellationNeverStalls == Spec => []CancellingMakesProgress
<1>1. Inv => CancellingMakesProgress
  <2> SUFFICES ASSUME Inv PROVE CancellingMakesProgress OBVIOUS
  <2>1. ASSUME NEW j \in Id, state[j] = "cancelling", ~InQueue(j), ~AtCleaner(j)
        PROVE  \E t \in Thread : Working(t, j)
    <3>1. ~Quiet(j) BY <2>1 DEF Inv, CleanInv, CleanPart
    <3>2. JobInv(j) BY DEF Inv, RunInv
    <3>3. CASE readerRunning[j]
      <4>1. PICK r \in ReadersOf(j) : TRUE BY <3>2, <3>3 DEF JobInv, ReaderPart
      <4>2. QED BY <4>1, Kinds DEF ReadersOf, Working
    <3>4. CASE pagesRunning[j] # 0
      <4>1. RunningPages(j) # {} BY <3>2, <3>4, FS_EmptySet DEF JobInv, WorkerPart
      <4>2. PICK w \in RunningPages(j) : TRUE BY <4>1
      <4>3. QED BY <4>2, Kinds DEF RunningPages, Working
    <3>5. CASE finalizerRunning[j]
      <4>1. PICK t \in FinalizersOf(j) : TRUE BY <3>2, <3>5 DEF JobInv, FinalPart
      <4>2. QED BY <4>1 DEF FinalizersOf, Working
    <3>6. QED BY <3>1, <3>3, <3>4, <3>5 DEF Quiet
  <2>2. OnceInQueue BY DEF Inv, CleanInv
  <2>3. QED BY <2>1, <2>2 DEF CancellingMakesProgress, InQueue, AtCleaner, OnceInQueue
<1>2. QED BY <1>1, Invariant, PTL

(* Two threads never write the result of one job, and the one that does    *)
(* finds its document complete: nobody reads or recognises it, and no page *)
(* of it is queued.                                                        *)
THEOREM ResultsAreWrittenAlone == Spec => []FinalizesAlone
<1>1. Inv => FinalizesAlone
  <2> SUFFICES ASSUME Inv, NEW t \in Thread, NEW j \in Id, Finalizing(t, j)
               PROVE  /\ \A u \in Thread \ {t} : ~Working(u, j)
                      /\ PagesOf(j) = {}
                      /\ state[j] \in {"finalizing", "cancelling"}
    BY DEF FinalizesAlone
  <2>1. t \in FinalizersOf(j) /\ JobInv(j) BY DEF FinalizersOf, Inv, RunInv
  <2>2. \A u \in Thread \ {t} : held[u] # j BY <2>1 DEF JobInv, FinalPart
  <2>3. QED BY <2>1, <2>2 DEF JobInv, FinalPart, Working, Reading, Processing, Finalizing
<1>2. QED BY <1>1, Invariant, PTL

(* The counters add up, and active_jobs counts exactly the jobs that have  *)
(* not ended: every path that ends a job gives its slot back once.         *)
THEOREM AccountsBalance == Spec => []AdmissionLedger
<1>1. Inv => AdmissionLedger BY DEF Inv
<1>2. QED BY <1>1, Invariant, PTL

(* The limits on active jobs and on jobs kept hold at all times, with the  *)
(* requests that are still uploading.                                      *)
THEOREM LimitsHold == Spec => []AdmissionBounded
<1>1. Inv => AdmissionBounded BY DEF Inv, LimitInv, AdmissionBounded
<1>2. QED BY <1>1, Invariant, PTL

(* Only a job in progress occupies the page queue, and its count of        *)
(* outstanding pages is what is queued and what the workers carry.         *)
THEOREM QueueHoldsWantedPages == Spec => []QueuedPagesAreWanted
<1>1. Inv => QueuedPagesAreWanted
  <2> SUFFICES ASSUME Inv, NEW j \in Id
               PROVE  /\ PagesOf(j) # {} => state[j] = "processing"
                      /\ state[j] \in {"queued", "reading", "processing"} =>
                           outstanding[j] = Cardinality(PagesOf(j)) + Cardinality(Carriers(j))
    BY DEF QueuedPagesAreWanted, Carriers
  <2>1. JobInv(j) BY DEF Inv, RunInv
  <2>2. CASE state[j] = "queued"
    <3>1. outstanding[j] = 0 /\ PagesOf(j) = {} /\ \A t \in AllThreads : held[t] # j
      BY <2>1, <2>2 DEF JobInv, FreshPart
    <3>2. Carriers(j) = {} BY <3>1, Kinds DEF Carriers
    <3>3. QED BY <3>1, <3>2, FS_EmptySet
  <2>3. CASE state[j] # "queued" BY <2>1, <2>3 DEF JobInv, AccountPart
  <2>4. QED BY <2>2, <2>3
<1>2. QED BY <1>1, Invariant, PTL

-----------------------------------------------------------------------------
(* Results: where the pages of a document are.                             *)

\* The numbers of the pages that are queued, carried by a worker, or done.
Numbers(j) == {p.number : p \in PagesOf(j)} \cup {page[w] : w \in Carriers(j)} \cup collected[j]

ResultT ==
  /\ pagesQueued \in [Id -> Nat]
  /\ collected \in [Id -> SUBSET PageNumber] /\ document \in [Id -> SUBSET PageNumber]

\* A reader queues pages 1, 2, ...; none of them is lost before the result is written.
ResultPart(j) ==
  /\ state[j] \in {"none", "queued", "reading"} => pagesQueued[j] = 0
  /\ state[j] \in {"none", "queued", "reading", "processing"} => Numbers(j) = 1 .. pagesQueued[j]
  /\ state[j] \in {"finalizing", "succeeded"} => document[j] = 1 .. pagesQueued[j] /\ document[j] # {}
  /\ state[j] \in {"reading", "processing"} =>
       \A r \in ReadersOf(j) :
         /\ pc[r] = "read" => page[r] = pagesQueued[j]
         /\ pc[r] \in {"admit", "copy"} => page[r] = pagesQueued[j] + 1
FreshReaders == \A r \in Readers : pc[r] = "idle" => page[r] = 0
ResultInv == ResultT /\ FreshReaders /\ \A j \in Id : ResultPart(j)

LEMMA ResultInit == Init => ResultInv
<1> SUFFICES ASSUME Init PROVE ResultInv OBVIOUS
<1>1. ResultT /\ FreshReaders BY Kinds DEF Init, ResultT, FreshReaders
<1>2. ASSUME NEW j \in Id PROVE ResultPart(j)
  <2>1. PagesOf(j) = {} /\ Carriers(j) = {} /\ collected[j] = {}
    BY <1>2, Kinds DEF Init, PagesOf, Carriers
  <2>2. pagesQueued[j] = 0 /\ 1 .. 0 = {} /\ state[j] = "none" BY DEF Init
  <2>3. Numbers(j) = {} BY <2>1 DEF Numbers
  <2> QED BY <2>2, <2>3 DEF ResultPart
<1> QED BY <1>1, <1>2 DEF ResultInv

LEMMA ResultFrame ==
  ASSUME NEW k \in Id, ResultPart(k),
         state'[k] = state[k], pagesQueued'[k] = pagesQueued[k], collected'[k] = collected[k],
         document'[k] = document[k], PagesOf(k)' = PagesOf(k),
         \A u \in AllThreads : held'[u] = k <=> held[u] = k,
         \A u \in Thread : held[u] = k =>
            /\ page'[u] = page[u] \/ pc'[u] = "caught"
            /\ pc'[u] = "caught" => u \in Readers
            /\ pc'[u] \in {pc[u], "caught"} \/ (pc[u] = "taken" /\ pc'[u] = "process")
                                            \/ (pc[u] = "admit" /\ pc'[u] = "copy")
                                            \/ (pc[u] = "finalize" /\ pc'[u] = "publish"),
         \A u \in Readers : held[u] = k /\ pc[u] = "caught" => pc'[u] = "caught",
         ThreadT
  PROVE  ResultPart(k)'
<1>1. Carriers(k)' = Carriers(k) /\ \A w \in Carriers(k) : page'[w] = page[w]
  BY Kinds DEF Carriers, ThreadT
<1>2. Numbers(k)' = Numbers(k) BY <1>1 DEF Numbers
<1>3. ASSUME NEW r \in ReadersOf(k)', pc'[r] \in {"read", "admit", "copy"}
      PROVE  /\ r \in ReadersOf(k) /\ page'[r] = page[r]
             /\ pc'[r] = "read" => pc[r] = "read"
             /\ pc'[r] \in {"admit", "copy"} => pc[r] \in {"admit", "copy"}
  BY <1>3, Kinds DEF ReadersOf, Reading
<1> QED BY <1>2, <1>3 DEF ResultPart

\* A thread t working for job j: no other thread and no other job notices.
Alone(t, j) ==
  /\ held[t] \in {j, NoJob} /\ held'[t] \in {j, NoJob}
  /\ \A u \in AllThreads \ {t} : /\ pc'[u] = pc[u] /\ held'[u] = held[u]
                                 /\ page'[u] = page[u] /\ bytes'[u] = bytes[u]
  /\ \A k \in Id \ {j} : /\ state'[k] = state[k] /\ PagesOf(k)' = PagesOf(k)
                         /\ pagesQueued'[k] = pagesQueued[k]
                         /\ collected'[k] = collected[k] /\ document'[k] = document[k]

LEMMA ReleaseAll ==
  ASSUME ThreadT, NEW t \in AllThreads, Release(t)
  PROVE  /\ pc'[t] = "idle" /\ held'[t] = NoJob /\ page'[t] = 0 /\ bytes'[t] = 0
         /\ \A u \in AllThreads \ {t} : /\ pc'[u] = pc[u] /\ held'[u] = held[u]
                                        /\ page'[u] = page[u] /\ bytes'[u] = bytes[u]
  BY DEF Release, Goto, ThreadT

LEMMA GotoAll ==
  ASSUME ThreadT, NEW t \in AllThreads, NEW label, Goto(t, label), UNCHANGED <<held, page, bytes>>
  PROVE  /\ pc'[t] = label /\ held'[t] = held[t] /\ page'[t] = page[t] /\ bytes'[t] = bytes[t]
         /\ \A u \in AllThreads \ {t} : /\ pc'[u] = pc[u] /\ held'[u] = held[u]
                                        /\ page'[u] = page[u] /\ bytes'[u] = bytes[u]
  BY DEF Goto, ThreadT

LEMMA FailResults ==
  ASSUME TypeInv, ResultT, NEW j \in Id, FailLocked(j)
  PROVE  /\ collected' \in [Id -> SUBSET PageNumber] /\ document' = document
         /\ \A k \in Id \ {j} : collected'[k] = collected[k]
<1>1. CASE Settled(j) BY <1>1 DEF FailLocked, ResultT, resultVars
<1>2. CASE ~Settled(j) BY <1>2 DEF FailLocked, ResultT
<1>3. QED BY <1>1, <1>2

LEMMA FinalizeResults ==
  ASSUME TypeInv, ResultT, NEW t \in AllThreads, NEW j \in Id, held[t] = j,
         NEW found \in SUBSET PageNumber, FinalizeLocked(t, j, found)
  PROVE  /\ collected' \in [Id -> SUBSET PageNumber] /\ document' \in [Id -> SUBSET PageNumber]
         /\ \A k \in Id \ {j} : collected'[k] = collected[k] /\ document'[k] = document[k]
         /\ \A u \in AllThreads \ {t} : page'[u] = page[u] /\ bytes'[u] = bytes[u]
         /\ pc'[t] = "idle" => page'[t] = 0
         /\ MayFinalize(j) => \/ state'[j] = "finalizing" /\ document'[j] = found /\ found # {}
                              \/ state'[j] = "failed"
         /\ ~MayFinalize(j) => collected'[j] = found /\ document'[j] = document[j]
<1>1. CASE MayFinalize(j) /\ found # {}
  <2>1. /\ state' = [state EXCEPT ![j] = "finalizing"] /\ document' = [document EXCEPT ![j] = found]
        /\ collected' = [collected EXCEPT ![j] = {}] /\ Goto(t, "finalize")
        /\ UNCHANGED <<held, page, bytes>>
    BY <1>1 DEF FinalizeLocked
  <2>2. pc'[t] = "finalize" BY <2>1 DEF Goto, TypeInv, ThreadT
  <2>3. QED BY <1>1, <2>1, <2>2 DEF ResultT, TypeInv, JobT
<1>2. CASE MayFinalize(j) /\ found = {}
  <2>1. FailLocked(j) /\ Release(t) /\ ~Settled(j) BY <1>2 DEF FinalizeLocked, MayFinalize
  <2>2. state'[j] = "failed" BY <2>1, FailEffect
  <2>3. QED BY <1>2, <2>1, <2>2, FailResults, ReleaseAll DEF ResultT, TypeInv
<1>3. CASE ~MayFinalize(j)
  <2>1. Release(t) /\ collected' = [collected EXCEPT ![j] = found] /\ UNCHANGED document
    BY <1>3 DEF FinalizeLocked
  <2>2. QED BY <1>3, <2>1, ReleaseAll DEF ResultT, TypeInv
<1>4. QED BY <1>1, <1>2, <1>3

LEMMA FinalizeWaits ==
  ASSUME TypeInv, ResultT, NEW t \in AllThreads, NEW j \in Id, held[t] = j,
         NEW found \in SUBSET PageNumber, FinalizeLocked(t, j, found), ~MayFinalize(j)
  PROVE  collected'[j] = found
<1>1. collected' = [collected EXCEPT ![j] = found] BY DEF FinalizeLocked
<1>2. QED BY <1>1 DEF ResultT

LEMMA FinalizeAlone ==
  ASSUME TypeInv, ResultT, NEW t \in AllThreads, NEW j \in Id, held[t] = j,
         NEW found \in SUBSET PageNumber, FinalizeLocked(t, j, found), UNCHANGED pagesQueued
  PROVE  Alone(t, j) /\ ResultT' /\ (pc'[t] = "idle" => page'[t] = 0)
<1>1. ResultT' /\ (pc'[t] = "idle" => page'[t] = 0) BY FinalizeResults DEF ResultT
<1>2. /\ held'[t] \in {j, NoJob}
      /\ \A u \in AllThreads \ {t} : pc'[u] = pc[u] /\ held'[u] = held[u]
      /\ \A k \in Id \ {j} : state'[k] = state[k] /\ PagesOf(k)' = PagesOf(k)
  BY FinalizeOthers
<1>3. /\ \A u \in AllThreads \ {t} : page'[u] = page[u] /\ bytes'[u] = bytes[u]
      /\ \A k \in Id \ {j} : collected'[k] = collected[k] /\ document'[k] = document[k]
  BY FinalizeResults
<1>4. \A k \in Id \ {j} : pagesQueued'[k] = pagesQueued[k] OBVIOUS
<1>5. QED BY <1>1, <1>2, <1>3, <1>4 DEF Alone

LEMMA FinalizerAlone ==
  ASSUME TypeInv, ResultT, NEW t \in Thread, Finalizer(t), NEW j \in Id, held[t] = j
  PROVE  Alone(t, j) /\ ResultT' /\ (pc'[t] = "idle" => page'[t] = 0)
<1> t \in AllThreads BY Kinds
<1>1. CASE WriteResult(t)
  <2>1. Goto(t, "publish") /\ UNCHANGED <<held, page, bytes, state, pages, pagesQueued, collected, document>>
    BY <1>1 DEF WriteResult, jobVars, docVars, resultVars, schedVars, queueVars
  <2>2. pc'[t] = "publish" BY <2>1, GotoAll DEF TypeInv
  <2>3. QED BY <2>1, <2>2, GotoAll DEF TypeInv, Alone, PagesOf, ResultT
<1>2. CASE Publish(t)
  <2>1. Release(t) /\ UNCHANGED <<pages, pagesQueued, collected, document>>
    BY <1>2 DEF Publish, docVars, resultVars, schedVars, queueVars
  <2>2. \A k \in Id \ {j} : state'[k] = state[k] BY <1>2 DEF Publish, TypeInv, JobT
  <2>3. QED BY <2>1, <2>2, ReleaseAll DEF TypeInv, Alone, PagesOf, ResultT
<1>3. CASE FinalizeFails(t)
  <2>1. FailLocked(j) /\ Release(t) /\ UNCHANGED pagesQueued BY <1>3 DEF FinalizeFails, docVars
  <2>2. QED BY <2>1, FailResults, FailEffect, ReleaseAll DEF TypeInv, Alone, ResultT
<1>4. QED BY <1>1, <1>2, <1>3 DEF Finalizer

LEMMA ReaderAlone ==
  ASSUME TypeInv, ResultT, NEW r \in Readers, Reader(r), NEW j \in Id, held[r] = j
  PROVE  Alone(r, j) /\ ResultT' /\ (pc'[r] = "idle" => page'[r] = 0)
<1> r \in AllThreads /\ r \in Thread BY Kinds
<1>0. pc[r] # "idle" BY Kinds DEF TypeInv, ThreadT
<1>1. ASSUME NEW n \in PageBytes, RenderPage(r, n)
      PROVE  Alone(r, j) /\ ResultT' /\ (pc'[r] = "idle" => page'[r] = 0)
  <2>1. /\ UNCHANGED <<held, state, pages, pagesQueued, collected, document>>
        /\ pc' = [pc EXCEPT ![r] = "admit"] /\ page' = [page EXCEPT ![r] = @ + 1]
        /\ bytes' = [bytes EXCEPT ![r] = n]
    BY <1>1 DEF RenderPage, Goto, jobVars, docVars, resultVars, schedVars, queueVars
  <2>2. /\ pc'[r] = "admit"
        /\ \A u \in AllThreads \ {r} : pc'[u] = pc[u] /\ page'[u] = page[u] /\ bytes'[u] = bytes[u]
    BY <2>1 DEF TypeInv, ThreadT
  <2>3. QED BY <2>1, <2>2 DEF Alone, PagesOf, ResultT
<1>2. CASE ReservePage(r)
  <2>1. Goto(r, "copy") /\ UNCHANGED <<held, page, bytes, state, pages, pagesQueued, collected, document>>
    BY <1>2 DEF ReservePage, jobVars, docVars, resultVars, queueVars
  <2>2. pc'[r] = "copy" BY <2>1, GotoAll DEF TypeInv
  <2>3. QED BY <2>1, <2>2, GotoAll DEF TypeInv, Alone, PagesOf, ResultT
<1>3. CASE QueuePage(r)
  <2>1. PICK label \in {"read", "caught"} :
          pc' = [pc EXCEPT ![r] = label] /\ bytes' = [bytes EXCEPT ![r] = 0]
    BY <1>3 DEF QueuePage, Goto
  <2>2. UNCHANGED <<held, page, collected, document>> BY <1>3 DEF QueuePage, resultVars
  <2>3. /\ pc'[r] = label
        /\ \A u \in AllThreads \ {r} : pc'[u] = pc[u] /\ bytes'[u] = bytes[u]
    BY <2>1 DEF TypeInv, ThreadT
  <2>4. pagesQueued' \in [Id -> Nat] /\ \A k \in Id \ {j} : state'[k] = state[k] /\ pagesQueued'[k] = pagesQueued[k]
    BY <1>3 DEF QueuePage, ResultT, TypeInv, JobT
  <2>5. \A k \in Id \ {j} : PagesOf(k)' = PagesOf(k)
    <3>1. CASE pages' = pages BY <3>1 DEF PagesOf
    <3>2. CASE pages' = pages \cup {[job |-> j, number |-> page[r], sequence |-> sequence, bytes |-> bytes[r]]}
      BY <3>2 DEF PagesOf
    <3>3. QED BY <1>3, <3>1, <3>2 DEF QueuePage, queueVars
  <2>6. QED BY <2>2, <2>3, <2>4, <2>5 DEF Alone, ResultT
<1>4. CASE ReaderFails(r)
  <2>1. FailLocked(j) /\ Release(r) /\ UNCHANGED pagesQueued BY <1>4 DEF ReaderFails, docVars
  <2>2. QED BY <2>1, FailResults, FailEffect, ReleaseAll DEF TypeInv, Alone, ResultT
<1>5. CASE EndOfDocument(r)
  <2>1. FinalizeLocked(r, j, collected[j]) /\ UNCHANGED pagesQueued BY <1>5 DEF EndOfDocument
  <2>2. collected[j] \in SUBSET PageNumber BY DEF ResultT
  <2>3. QED BY <2>1, <2>2, FinalizeAlone
<1>6. CASE Finalizer(r) BY <1>6, FinalizerAlone
<1>7. CASE TakeDocument(r) \/ ThreadExits(r) BY <1>0, <1>7 DEF TakeDocument, ThreadExits
<1>8. QED BY <1>1, <1>2, <1>3, <1>4, <1>5, <1>6, <1>7 DEF Reader

LEMMA PageWorkerAlone ==
  ASSUME TypeInv, ResultT, NEW w \in PageWorkers, PageWorker(w), NEW j \in Id, held[w] = j
  PROVE  Alone(w, j) /\ ResultT'
<1> w \in AllThreads /\ w \in Thread BY Kinds
<1>0. pc[w] # "idle" BY Kinds DEF TypeInv, ThreadT
<1>1. CASE StartPage(w)
  <2>1. UNCHANGED <<state, pages, pagesQueued, collected, document>>
    BY <1>1 DEF StartPage, docVars, resultVars, schedVars, queueVars
  <2>2. CASE Release(w) BY <2>1, <2>2, ReleaseAll DEF TypeInv, Alone, PagesOf, ResultT
  <2>3. CASE Goto(w, "process") /\ UNCHANGED <<held, page, bytes>>
    BY <2>1, <2>3, GotoAll DEF TypeInv, Alone, PagesOf, ResultT
  <2>4. QED BY <1>1, <2>2, <2>3 DEF StartPage
<1>2. CASE WriteAsset(w)
  BY <1>2 DEF WriteAsset, jobVars, docVars, resultVars, schedVars, queueVars, threadVars, Alone,
     PagesOf, ResultT
<1>3. CASE PageDone(w)
  <2>1. UNCHANGED pagesQueued BY <1>3 DEF PageDone
  <2>2. CASE Settled(j)
    <3>1. Release(w) /\ UNCHANGED <<state, collected, document, pages>>
      BY <1>3, <2>2 DEF PageDone, resultVars, queueVars
    <3>2. QED BY <2>1, <3>1, ReleaseAll DEF TypeInv, Alone, PagesOf, ResultT
  <2>3. CASE ~Settled(j)
    <3>1. FinalizeLocked(w, j, collected[j] \cup {page[w]}) BY <1>3, <2>3 DEF PageDone
    <3>2. collected[j] \cup {page[w]} \in SUBSET PageNumber
      BY <1>3 DEF PageDone, ResultT, TypeInv, ThreadT
    <3>3. QED BY <2>1, <3>1, <3>2, FinalizeAlone
  <2>4. QED BY <2>2, <2>3
<1>4. CASE PageFails(w)
  <2>1. FailLocked(j) /\ Release(w) /\ UNCHANGED pagesQueued BY <1>4 DEF PageFails, docVars
  <2>2. QED BY <2>1, FailResults, FailEffect, ReleaseAll DEF TypeInv, Alone, ResultT
<1>5. CASE Finalizer(w) BY <1>5, FinalizerAlone
<1>6. CASE TakePage(w) \/ ThreadExits(w) BY <1>0, <1>6 DEF TakePage, ThreadExits
<1>7. QED BY <1>1, <1>2, <1>3, <1>4, <1>5, <1>6 DEF PageWorker

LEMMA ResultOthers ==
  ASSUME ThreadT, ResultInv, NEW t \in AllThreads, NEW j \in Id, Alone(t, j)
  PROVE  \A k \in Id \ {j} : ResultPart(k)'
<1> TAKE k \in Id \ {j}
<1>1. ResultPart(k) /\ k # NoJob BY Kinds DEF ResultInv
<1>2. \A u \in AllThreads : held'[u] = k <=> held[u] = k BY <1>1 DEF Alone
<1>3. \A u \in AllThreads : held[u] = k => pc'[u] = pc[u] /\ page'[u] = page[u]
  BY <1>1 DEF Alone
<1>4. /\ state'[k] = state[k] /\ pagesQueued'[k] = pagesQueued[k] /\ collected'[k] = collected[k]
      /\ document'[k] = document[k] /\ PagesOf(k)' = PagesOf(k)
  BY DEF Alone
<1>5. /\ \A u \in Thread : held[u] = k => page'[u] = page[u] /\ pc'[u] = pc[u]
      /\ \A u \in Thread : held[u] = k /\ pc[u] = "caught" => u \in Readers
  BY <1>3, Kinds DEF ThreadT
<1>6. QED BY <1>1, <1>2, <1>4, <1>5, ResultFrame, Kinds

LEMMA OverResult ==
  ASSUME NEW j \in Id, state'[j] \in {"failed", "cancelling", "cancelled"}
  PROVE  ResultPart(j)'
  BY DEF ResultPart

\* A thread leaves a job whose outcome it does not change.
LEMMA FailResult ==
  ASSUME TypeInv, NEW j \in Id, state[j] \notin {"succeeded"}, FailLocked(j)
  PROVE  ResultPart(j)'
<1>1. state'[j] \in {"failed", "cancelling", "cancelled"}
  BY FailEffect DEF Settled, Terminal
<1>2. QED BY <1>1, OverResult

LEMMA FinalizerResult ==
  ASSUME TypeInv, RunInv, ResultInv, NEW t \in Thread, Finalizer(t), NEW j \in Id, held[t] = j
  PROVE  ResultPart(j)'
<1> t \in AllThreads BY Kinds
<1>0. /\ t \in FinalizersOf(j) /\ state[j] \in {"finalizing", "cancelling"}
  BY DEF Finalizer, WriteResult, Publish, FinalizeFails, FinalizersOf, Finalizing, RunInv, JobInv,
     FinalPart
<1>1. CASE state[j] = "finalizing" /\ (WriteResult(t) \/ Publish(t))
  <2>1. document'[j] = document[j] /\ pagesQueued'[j] = pagesQueued[j]
    BY <1>1 DEF WriteResult, Publish, jobVars, docVars, resultVars
  <2>2. state'[j] \in {"finalizing", "succeeded"}
    BY <1>1 DEF WriteResult, Publish, jobVars, TypeInv, JobT
  <2>3. document[j] = 1 .. pagesQueued[j] /\ document[j] # {} BY <1>1 DEF ResultInv, ResultPart
  <2>4. QED BY <2>1, <2>2, <2>3 DEF ResultPart
<1>2. CASE state[j] = "cancelling" /\ (WriteResult(t) \/ Publish(t))
  <2>1. state'[j] = "cancelling" BY <1>2 DEF WriteResult, Publish, jobVars
  <2>2. QED BY <2>1, OverResult
<1>3. CASE FinalizeFails(t)
  <2>1. FailLocked(j) /\ state[j] # "succeeded" BY <1>0, <1>3 DEF FinalizeFails
  <2>2. QED BY <2>1, FailResult
<1>4. QED BY <1>0, <1>1, <1>2, <1>3 DEF Finalizer

LEMMA NoCarriers ==
  ASSUME RunInv, NEW j \in Id, Cardinality(PagesOf(j)) + Cardinality(Carriers(j)) = 0
  PROVE  PagesOf(j) = {} /\ Carriers(j) = {}
<1>1. Cardinality(PagesOf(j)) \in Nat /\ Cardinality(Carriers(j)) \in Nat BY FiniteSides
<1>2. Cardinality(PagesOf(j)) = 0 /\ Cardinality(Carriers(j)) = 0 BY <1>1
<1>3. QED BY <1>2, FiniteSides, FS_EmptySet

LEMMA LastCarrier ==
  ASSUME RunInv, NEW j \in Id, Cardinality(PagesOf(j)) + Cardinality(Carriers(j)) = 1,
         NEW w \in Carriers(j)
  PROVE  PagesOf(j) = {} /\ Carriers(j) = {w}
<1>1. IsFiniteSet(PagesOf(j)) /\ IsFiniteSet(Carriers(j)) BY FiniteSides
<1>2. Cardinality(Carriers(j) \ {w}) = Cardinality(Carriers(j)) - 1 /\ IsFiniteSet(Carriers(j) \ {w})
  BY <1>1, FS_RemoveElement
<1>3. Cardinality(Carriers(j) \ {w}) \in Nat /\ Cardinality(PagesOf(j)) \in Nat
      /\ Cardinality(Carriers(j)) \in Nat
  BY <1>1, <1>2, FS_CardinalityType
<1>4. Cardinality(Carriers(j) \ {w}) = 0 /\ Cardinality(PagesOf(j)) = 0 BY <1>2, <1>3
<1>5. Carriers(j) \ {w} = {} /\ PagesOf(j) = {} BY <1>1, <1>2, <1>4, FS_EmptySet
<1>6. QED BY <1>5

LEMMA EndOfDocumentResult ==
  ASSUME TypeInv, RunInv, ResultInv, NEW r \in Readers, EndOfDocument(r), NEW j \in Id, held[r] = j
  PROVE  ResultPart(j)'
<1> r \in AllThreads /\ r \in Thread /\ r \notin PageWorkers BY Kinds
<1>1. /\ FinalizeLocked(r, j, collected[j]) /\ r \in ReadersOf(j)
      /\ UNCHANGED <<outstanding, pagesQueued>> /\ page[r] > 0 /\ pc[r] = "read"
      /\ collected[j] \in SUBSET PageNumber
  BY DEF EndOfDocument, ReadersOf, Reading, ResultInv, ResultT
<1>2. /\ state[j] \in {"reading", "processing", "failed", "cancelling"} /\ ReadersOf(j) = {r}
  BY <1>1 DEF RunInv, JobInv, ReaderPart
<1>3. CASE state[j] \in {"failed", "cancelling"}
  <2>1. ~MayFinalize(j) BY <1>3 DEF MayFinalize, Settled, Terminal
  <2>2. state'[j] = state[j] BY <1>1, <2>1, FinalizeCases
  <2>3. QED BY <1>3, <2>2, OverResult
<1>4. CASE state[j] \in {"reading", "processing"}
  <2>1. page[r] = pagesQueued[j] /\ Numbers(j) = 1 .. pagesQueued[j]
        /\ (state[j] = "reading" => pagesQueued[j] = 0)
    BY <1>1, <1>4 DEF ResultInv, ResultPart
  <2>2. state[j] = "processing" BY <1>1, <1>4, <2>1
  <2>3. CASE MayFinalize(j)
    <3>1. outstanding[j] = 0 BY <1>1, <2>3 DEF MayFinalize
    <3>2. PagesOf(j) = {} /\ Carriers(j) = {}
      BY <2>2, <3>1, NoCarriers DEF RunInv, JobInv, AccountPart
    <3>3. Numbers(j) = collected[j] BY <3>2 DEF Numbers
    <3>4. CASE state'[j] = "finalizing" /\ document'[j] = collected[j] /\ collected[j] # {}
      BY <1>1, <2>1, <3>3, <3>4 DEF ResultPart
    <3>5. CASE state'[j] = "failed" BY <3>5, OverResult
    <3>6. QED BY <1>1, <2>3, <3>4, <3>5, FinalizeResults DEF ResultInv
  <2>4. CASE ~MayFinalize(j)
    <3>1. /\ state'[j] = state[j] /\ PagesOf(j)' = PagesOf(j)
          /\ pc'[r] = "idle" /\ held'[r] = NoJob
          /\ \A u \in AllThreads \ {r} : pc'[u] = pc[u] /\ held'[u] = held[u]
      BY <1>1, <2>4, FinalizeCases, FinalizeOthers
    <3>2. /\ collected'[j] = collected[j]
          /\ \A u \in AllThreads \ {r} : page'[u] = page[u]
      <4>1. ResultT BY DEF ResultInv
      <4>2. collected'[j] = collected[j] BY <1>1, <2>4, <4>1, FinalizeResults
      <4>3. \A u \in AllThreads \ {r} : page'[u] = page[u] BY <1>1, <4>1, FinalizeResults
      <4>4. QED BY <4>2, <4>3
    <3>3. ReadersOf(j)' = {} /\ Carriers(j)' = Carriers(j)
      BY <1>2, <3>1, Kinds, Released DEF Carriers
    <3>4. \A w \in Carriers(j) : page'[w] = page[w] BY <3>2, Kinds DEF Carriers
    <3>5. Numbers(j)' = Numbers(j) BY <3>1, <3>2, <3>3, <3>4 DEF Numbers
    <3>6. QED BY <1>1, <2>1, <2>2, <3>1, <3>3, <3>5 DEF ResultPart
  <2>5. QED BY <2>3, <2>4
<1>5. QED BY <1>2, <1>3, <1>4

LEMMA QueuePageResult ==
  ASSUME TypeInv, RunInv, ResultInv, NEW r \in Readers, QueuePage(r), NEW j \in Id, held[r] = j
  PROVE  ResultPart(j)'
<1> r \in AllThreads /\ r \in Thread /\ r \notin PageWorkers BY Kinds
<1>1. r \in ReadersOf(j) /\ pc[r] = "copy" /\ UNCHANGED <<held, page, collected, document>>
  BY DEF QueuePage, ReadersOf, Reading, resultVars
<1>2. /\ state[j] \in {"reading", "processing", "failed", "cancelling"} /\ ReadersOf(j) = {r}
  BY <1>1 DEF RunInv, JobInv, ReaderPart
<1>3. \A u \in AllThreads \ {r} : pc'[u] = pc[u]
  BY DEF QueuePage, Goto, TypeInv, ThreadT
<1>4. Carriers(j)' = Carriers(j) BY <1>1, <1>3, Kinds DEF Carriers
<1>5. ReadersOf(j)' \subseteq {r}
  <2>1. ASSUME NEW u \in ReadersOf(j)', u # r PROVE FALSE
    <3>1. u \in ReadersOf(j) BY <1>1, <1>3, <2>1, Kinds DEF ReadersOf, Reading
    <3>2. QED BY <1>2, <2>1, <3>1
  <2>2. QED BY <2>1
<1>6. CASE ~Abandoned(j) /\ pc' = [pc EXCEPT ![r] = "read"] /\ state' = [state EXCEPT ![j] = "processing"]
           /\ pagesQueued' = [pagesQueued EXCEPT ![j] = @ + 1]
           /\ pages' = pages \cup {[job |-> j, number |-> page[r], sequence |-> sequence, bytes |-> bytes[r]]}
  <2>1. state[j] \in {"reading", "processing"} BY <1>2, <1>6 DEF Abandoned
  <2>2. page[r] = pagesQueued[j] + 1 /\ Numbers(j) = 1 .. pagesQueued[j] /\ pagesQueued[j] \in Nat
    BY <1>1, <2>1 DEF ResultInv, ResultPart, ResultT
  <2>3. state'[j] = "processing" /\ pagesQueued'[j] = pagesQueued[j] + 1 /\ pc'[r] = "read"
    BY <1>6 DEF TypeInv, JobT, ThreadT, ResultInv, ResultT
  <2>4. {p.number : p \in PagesOf(j)'} = {p.number : p \in PagesOf(j)} \cup {page[r]}
    <3> DEFINE new == [job |-> j, number |-> page[r], sequence |-> sequence, bytes |-> bytes[r]]
    <3>1. PagesOf(j)' = PagesOf(j) \cup {new} BY <1>6 DEF PagesOf
    <3>2. new.number = page[r] OBVIOUS
    <3> HIDE DEF new
    <3>3. QED BY <3>1, <3>2
  <2>5. Numbers(j)' = Numbers(j) \cup {page[r]} BY <1>1, <1>4, <2>4 DEF Numbers
  <2>6. Numbers(j)' = 1 .. pagesQueued'[j] BY <2>2, <2>3, <2>5
  <2>7. \A u \in ReadersOf(j)' : pc'[u] = "read" /\ page'[u] = pagesQueued'[j]
    BY <1>1, <1>5, <2>2, <2>3
  <2>8. QED BY <2>3, <2>6, <2>7 DEF ResultPart
<1>7. CASE pc' = [pc EXCEPT ![r] = "caught"] /\ UNCHANGED <<state, pages, pagesQueued>>
  <2>1. pc'[r] = "caught" BY <1>7 DEF TypeInv, ThreadT
  <2>2. Numbers(j)' = Numbers(j) BY <1>1, <1>4, <1>7 DEF Numbers, PagesOf
  <2>3. \A u \in ReadersOf(j)' : pc'[u] = "caught" BY <1>5, <2>1
  <2>4. QED BY <1>1, <1>7, <2>2, <2>3 DEF ResultPart, ResultInv
<1>8. QED BY <1>6, <1>7 DEF QueuePage, Goto, queueVars

LEMMA ReaderResult ==
  ASSUME TypeInv, RunInv, ResultInv, NEW r \in Readers, Reader(r), NEW j \in Id, held[r] = j
  PROVE  ResultPart(j)'
<1> r \in AllThreads /\ r \in Thread /\ r \notin PageWorkers BY Kinds
<1>0. pc[r] # "idle" /\ ThreadT BY Kinds DEF TypeInv, ThreadT
<1>1. ASSUME NEW n \in PageBytes, RenderPage(r, n) PROVE ResultPart(j)'
  <2>1. /\ UNCHANGED <<held, state, pages, pagesQueued, collected, document>> /\ pc[r] = "read"
        /\ pc' = [pc EXCEPT ![r] = "admit"] /\ page' = [page EXCEPT ![r] = @ + 1]
    BY <1>1 DEF RenderPage, Goto, jobVars, docVars, resultVars, schedVars, queueVars
  <2>2. /\ pc'[r] = "admit" /\ page'[r] = page[r] + 1
        /\ \A u \in AllThreads \ {r} : pc'[u] = pc[u] /\ page'[u] = page[u]
    BY <2>1 DEF TypeInv, ThreadT
  <2>3. r \in ReadersOf(j) BY <2>1 DEF ReadersOf, Reading
  <2>4. ReadersOf(j)' \subseteq {r}
    <3>1. ASSUME NEW u \in ReadersOf(j)', u # r PROVE u \in ReadersOf(j)
      BY <2>1, <2>2, <3>1, Kinds DEF ReadersOf, Reading
    <3>2. QED BY <2>3, <3>1 DEF RunInv, JobInv, ReaderPart
  <2>5. Carriers(j)' = Carriers(j) /\ \A w \in Carriers(j) : page'[w] = page[w]
    BY <2>1, <2>2, Kinds DEF Carriers
  <2>6. Numbers(j)' = Numbers(j) BY <2>1, <2>5 DEF Numbers, PagesOf
  <2>7. QED BY <2>1, <2>2, <2>3, <2>4, <2>6 DEF ResultPart, ResultInv
<1>2. CASE ReservePage(r)
  <2>1. Goto(r, "copy") /\ UNCHANGED <<held, page, bytes, state, pages, pagesQueued, collected, document>>
        /\ pc[r] = "admit"
    BY <1>2 DEF ReservePage, jobVars, docVars, resultVars, queueVars
  <2>2. pc'[r] = "copy" /\ \A u \in AllThreads \ {r} : pc'[u] = pc[u] BY <1>0, <2>1, GotoAll
  <2>3. Carriers(j)' = Carriers(j) BY <2>1, <2>2, Kinds DEF Carriers
  <2>4. Numbers(j)' = Numbers(j) BY <2>1, <2>3 DEF Numbers, PagesOf
  <2>5. \A u \in ReadersOf(j)' : u \in ReadersOf(j) /\ (pc'[u] = pc[u] \/ (pc[u] = "admit" /\ pc'[u] = "copy"))
    BY <2>1, <2>2, Kinds DEF ReadersOf, Reading
  <2>6. QED BY <2>1, <2>4, <2>5 DEF ResultPart, ResultInv
<1>3. CASE QueuePage(r) BY <1>3, QueuePageResult
<1>4. CASE ReaderFails(r)
  <2>1. FailLocked(j) /\ r \in ReadersOf(j) BY <1>4 DEF ReaderFails, ReadersOf, Reading
  <2>2. state[j] # "succeeded" BY <2>1 DEF RunInv, JobInv, ReaderPart
  <2>3. QED BY <2>1, <2>2, FailResult
<1>5. CASE EndOfDocument(r) BY <1>5, EndOfDocumentResult
<1>6. CASE Finalizer(r) BY <1>6, FinalizerResult
<1>7. CASE TakeDocument(r) \/ ThreadExits(r) BY <1>0, <1>7 DEF TakeDocument, ThreadExits
<1>8. QED BY <1>1, <1>2, <1>3, <1>4, <1>5, <1>6, <1>7 DEF Reader

LEMMA PageDoneResult ==
  ASSUME TypeInv, RunInv, ResultInv, NEW w \in PageWorkers, PageDone(w), NEW j \in Id, held[w] = j
  PROVE  ResultPart(j)'
<1> w \in AllThreads /\ w \in Thread /\ w \notin Readers BY Kinds
<1>1. w \in RunningPages(j) /\ w \in Carriers(j) /\ UNCHANGED pagesQueued /\ ResultT /\ JobInv(j)
  BY DEF PageDone, RunningPages, Processing, Carriers, ResultInv, RunInv
<1>2. state[j] \in {"processing", "failed", "cancelling"} BY <1>1 DEF JobInv, WorkerPart
<1>3. CASE Settled(j)
  <2>1. state'[j] \in {"failed", "cancelling"} BY <1>2, <1>3 DEF PageDone, Settled, Terminal
  <2>2. QED BY <2>1, OverResult
<1>4. CASE ~Settled(j)
  <2> DEFINE found == collected[j] \cup {page[w]}
  <2>1. /\ FinalizeLocked(w, j, found) /\ UNCHANGED <<readerDone, readerRunning>>
        /\ outstanding' = [outstanding EXCEPT ![j] = @ - 1]
    BY <1>4 DEF PageDone
  <2>2. found \in SUBSET PageNumber BY DEF PageDone, ResultInv, ResultT, TypeInv, ThreadT
  <2>3. state[j] = "processing" BY <1>2, <1>4 DEF Settled, Terminal
  <2>4. Numbers(j) = 1 .. pagesQueued[j] /\ ResultPart(j) BY <2>3 DEF ResultInv, ResultPart
  <2>5. outstanding'[j] = outstanding[j] - 1 /\ outstanding[j] \in Int
        /\ outstanding[j] = Cardinality(PagesOf(j)) + Cardinality(Carriers(j))
    BY <1>1, <2>1, <2>3 DEF TypeInv, JobT, JobInv, AccountPart
  <2> HIDE DEF found
  <2>6. CASE MayFinalize(j)
    <3>1. outstanding[j] = 1 BY <2>5, <2>6 DEF MayFinalize
    <3>2. PagesOf(j) = {} /\ Carriers(j) = {w} BY <1>1, <2>5, <3>1, LastCarrier
    <3>3. Numbers(j) = found BY <3>2 DEF Numbers, found
    <3>4. CASE state'[j] = "finalizing" /\ document'[j] = found /\ found # {}
      BY <1>1, <2>4, <3>3, <3>4 DEF ResultPart
    <3>5. CASE state'[j] = "failed" BY <3>5, OverResult
    <3>6. QED BY <1>1, <2>1, <2>2, <2>6, <3>4, <3>5, FinalizeResults
  <2>7. CASE ~MayFinalize(j)
    <3>1. /\ state'[j] = state[j] /\ PagesOf(j)' = PagesOf(j)
          /\ pc'[w] = "idle" /\ held'[w] = NoJob
          /\ \A u \in AllThreads \ {w} : pc'[u] = pc[u] /\ held'[u] = held[u]
      BY <2>1, <2>7, FinalizeCases, FinalizeOthers
    <3>2. collected'[j] = found
      <4> HIDE DEF found
      <4>1. QED BY <1>1, <2>1, <2>2, <2>7, FinalizeWaits
    <3>3. \A u \in AllThreads \ {w} : page'[u] = page[u] BY <1>1, <2>1, <2>2, FinalizeResults
    <3>4. Carriers(j)' = Carriers(j) \ {w} /\ ReadersOf(j)' = ReadersOf(j)
      BY <3>1, Released DEF ReadersOf
    <3>5. \A u \in Carriers(j) \ {w} : page'[u] = page[u] BY <3>3, Kinds DEF Carriers
    <3>6. Numbers(j)' = Numbers(j)
      BY <1>1, <3>1, <3>2, <3>4, <3>5 DEF Numbers, found
    <3>7. \A u \in ReadersOf(j) : page'[u] = page[u] /\ pc'[u] = pc[u]
      BY <3>1, <3>3, Kinds DEF ReadersOf
    <3>8. QED BY <1>1, <2>3, <2>4, <3>1, <3>4, <3>6, <3>7 DEF ResultPart
  <2>8. QED BY <2>6, <2>7
<1>5. QED BY <1>3, <1>4

LEMMA PageWorkerResult ==
  ASSUME TypeInv, RunInv, ResultInv, NEW w \in PageWorkers, PageWorker(w), NEW j \in Id, held[w] = j
  PROVE  ResultPart(j)'
<1> w \in AllThreads /\ w \in Thread /\ w \notin Readers BY Kinds
<1>0. pc[w] # "idle" /\ ThreadT /\ ResultPart(j) BY Kinds DEF TypeInv, ThreadT, ResultInv
<1>1. CASE StartPage(w)
  <2>1. /\ UNCHANGED <<state, pages, pagesQueued, collected, document>>
        /\ w \in Carriers(j) /\ pc[w] = "taken"
    BY <1>1 DEF StartPage, docVars, resultVars, schedVars, queueVars, Carriers
  <2>2. CASE Settled(j)
    <3>1. state'[j] \in {"failed", "cancelling", "cancelled"}
      BY <2>1, <2>2 DEF Settled, Terminal, RunInv, JobInv, WorkerPart
    <3>2. QED BY <3>1, OverResult
  <2>3. CASE ~Settled(j)
    <3>1. Goto(w, "process") /\ UNCHANGED <<held, page, bytes>> BY <1>1, <2>3 DEF StartPage
    <3>2. pc'[w] = "process" /\ \A u \in AllThreads \ {w} : pc'[u] = pc[u] BY <1>0, <3>1, GotoAll
    <3>3. Carriers(j)' = Carriers(j) BY <2>1, <3>1, <3>2, Kinds DEF Carriers
    <3>4. Numbers(j)' = Numbers(j) BY <2>1, <3>1, <3>3 DEF Numbers, PagesOf
    <3>5. ReadersOf(j)' = ReadersOf(j) /\ \A u \in ReadersOf(j) : pc'[u] = pc[u]
      BY <3>1, <3>2, Kinds DEF ReadersOf, Reading
    <3>6. QED BY <1>0, <2>1, <3>1, <3>4, <3>5 DEF ResultPart
  <2>4. QED BY <2>2, <2>3
<1>2. CASE WriteAsset(w)
  <2>1. UNCHANGED <<state, pages, pagesQueued, collected, document, pc, held, page>>
    BY <1>2 DEF WriteAsset, jobVars, docVars, resultVars, schedVars, queueVars, threadVars
  <2>2. QED BY <1>0, <2>1 DEF ResultPart, Numbers, Carriers, PagesOf, ReadersOf, Reading
<1>3. CASE PageDone(w) BY <1>3, PageDoneResult
<1>4. CASE PageFails(w)
  <2>1. FailLocked(j) /\ w \in RunningPages(j) BY <1>4 DEF PageFails, RunningPages, Processing
  <2>2. state[j] # "succeeded" BY <2>1 DEF RunInv, JobInv, WorkerPart
  <2>3. QED BY <2>1, <2>2, FailResult
<1>5. CASE Finalizer(w) BY <1>5, FinalizerResult
<1>6. CASE TakePage(w) \/ ThreadExits(w) BY <1>0, <1>6 DEF TakePage, ThreadExits
<1>7. QED BY <1>1, <1>2, <1>3, <1>4, <1>5, <1>6 DEF PageWorker

LEMMA TakePageResult ==
  ASSUME TypeInv, RunInv, ResultInv, NEW w \in PageWorkers, TakePage(w)
  PROVE  ResultInv'
<1> w \in AllThreads /\ w \in Thread /\ w \notin Readers BY Kinds
<1>1. PICK p \in pages : /\ pages' = pages \ {p} /\ held' = [held EXCEPT ![w] = p.job]
                         /\ page' = [page EXCEPT ![w] = p.number]
  BY DEF TakePage
<1>2. /\ pc[w] = "idle" /\ pc' = [pc EXCEPT ![w] = "taken"]
      /\ UNCHANGED <<state, pagesQueued, collected, document, bytes>>
  BY DEF TakePage, Goto, jobVars, docVars, resultVars
<1> DEFINE j == p.job
<1>3. j \in Id /\ p \in PagesOf(j) BY <1>1 DEF TypeInv, QueueT, Pending, PagesOf
<1>4. /\ pc'[w] = "taken" /\ held'[w] = j /\ page'[w] = p.number /\ held[w] = NoJob
      /\ \A u \in AllThreads \ {w} : pc'[u] = pc[u] /\ held'[u] = held[u] /\ page'[u] = page[u]
  BY <1>1, <1>2 DEF TypeInv, ThreadT
<1>5. PagesOf(j)' = PagesOf(j) \ {p} /\ \A k \in Id \ {j} : PagesOf(k)' = PagesOf(k)
  BY <1>1 DEF PagesOf
<1>6. ASSUME NEW k \in Id \ {j} PROVE ResultPart(k)'
  <2>1. Alone(w, j)
    BY <1>2, <1>3, <1>4, <1>5 DEF Alone
  <2>2. QED BY <1>3, <2>1, ResultOthers DEF TypeInv
<1>7. ResultPart(j)'
  <2>1. Carriers(j)' = Carriers(j) \cup {w} BY <1>4, Kinds DEF Carriers
  <2>2. \A u \in Carriers(j) : u # w /\ page'[u] = page[u]
    BY <1>2, <1>4, Kinds DEF Carriers
  <2>3. Numbers(j)' = Numbers(j)
    <3>1. {page'[u] : u \in Carriers(j)'} = {page[u] : u \in Carriers(j)} \cup {p.number}
      BY <1>4, <2>1, <2>2
    <3>2. {q.number : q \in PagesOf(j)'} \cup {p.number} = {q.number : q \in PagesOf(j)}
      BY <1>3, <1>5
    <3>3. QED BY <1>2, <3>1, <3>2 DEF Numbers
  <2>4. ReadersOf(j)' = ReadersOf(j) /\ \A u \in ReadersOf(j) : pc'[u] = pc[u] /\ page'[u] = page[u]
    BY <1>4, Kinds DEF ReadersOf, Reading
  <2>5. QED BY <1>2, <1>3, <2>3, <2>4 DEF ResultPart, ResultInv
<1>8. ResultT' BY <1>2 DEF ResultInv, ResultT
<1>9. FreshReaders' BY <1>4, Kinds DEF FreshReaders, ResultInv
<1>10. QED BY <1>6, <1>7, <1>8, <1>9 DEF ResultInv

LEMMA TakeDocumentResult ==
  ASSUME TypeInv, RunInv, ResultInv, NEW r \in Readers, TakeDocument(r)
  PROVE  ResultInv'
<1> r \in AllThreads /\ r \in Thread /\ r \notin PageWorkers BY Kinds
<1>0. /\ UNCHANGED <<pagesQueued, collected, document, pages, page, bytes>> /\ pc[r] = "idle"
      /\ ResultT'
  BY DEF TakeDocument, resultVars, docVars, queueVars, ResultInv, ResultT
<1>1. CASE UNCHANGED <<state, held, pc>>
  <2>1. \A k \in Id : ResultPart(k)'
    BY <1>0, <1>1 DEF ResultInv, ResultPart, Numbers, Carriers, PagesOf, ReadersOf, Reading
  <2>2. QED BY <1>0, <1>1, <2>1 DEF ResultInv, FreshReaders
<1>2. CASE ~UNCHANGED <<state, held, pc>>
  <2>1. PICK j \in waiting : /\ state[j] = "queued" /\ state' = [state EXCEPT ![j] = "reading"]
                             /\ held' = [held EXCEPT ![r] = j] /\ pc' = [pc EXCEPT ![r] = "read"]
    BY <1>2 DEF TakeDocument, Goto
  <2>2. j \in Id /\ JobInv(j) /\ ResultPart(j) BY DEF TypeInv, QueueT, RunInv, ResultInv
  <2>3. /\ pc'[r] = "read" /\ held'[r] = j /\ held[r] = NoJob
        /\ \A u \in AllThreads \ {r} : pc'[u] = pc[u] /\ held'[u] = held[u]
    BY <1>0, <2>1 DEF TypeInv, ThreadT
  <2>4. state'[j] = "reading" /\ \A k \in Id \ {j} : state'[k] = state[k]
    BY <2>1, <2>2 DEF TypeInv, JobT
  <2>5. Alone(r, j) BY <1>0, <2>3, <2>4 DEF Alone, PagesOf
  <2>6. \A k \in Id \ {j} : ResultPart(k)' BY <2>2, <2>5, ResultOthers DEF TypeInv
  <2>7. ResultPart(j)'
    <3>1. pagesQueued[j] = 0 /\ Numbers(j) = 1 .. pagesQueued[j] BY <2>1, <2>2 DEF ResultPart
    <3>2. \A u \in AllThreads : held[u] # j BY <2>1, <2>2 DEF JobInv, FreshPart
    <3>3. Carriers(j)' = Carriers(j) BY <2>3, <3>2, Kinds DEF Carriers
    <3>4. Numbers(j)' = Numbers(j) BY <1>0, <3>3 DEF Numbers, PagesOf
    <3>5. ReadersOf(j)' \subseteq {r} BY <2>3, <3>2, Kinds DEF ReadersOf, Reading
    <3>6. page'[r] = 0 BY <1>0 DEF ResultInv, FreshReaders
    <3>7. QED BY <1>0, <2>3, <2>4, <3>1, <3>4, <3>5, <3>6 DEF ResultPart
  <2>8. FreshReaders' BY <1>0, <2>3, Kinds DEF FreshReaders, ResultInv
  <2>9. QED BY <1>0, <2>6, <2>7, <2>8 DEF ResultInv
<1>3. QED BY <1>1, <1>2

LEMMA StillResult ==
  ASSUME TypeInv, ResultInv, UNCHANGED <<pagesQueued, collected, document, pages>>,
         \A k \in Id : state'[k] = state[k] \/ state'[k] \in {"failed", "cancelling", "cancelled"},
         \A u \in Thread : held'[u] = held[u] /\ page'[u] = page[u],
         \A u \in Thread : pc'[u] = pc[u] \/ (pc[u] = "idle" /\ pc'[u] = "exited")
  PROVE  ResultInv'
<1>1. ASSUME NEW k \in Id PROVE ResultPart(k)'
  <2>1. CASE state'[k] = state[k]
    <3>1. /\ Carriers(k)' = Carriers(k) /\ ReadersOf(k)' = ReadersOf(k)
          /\ \A u \in ReadersOf(k) : pc'[u] = pc[u] /\ page'[u] = page[u]
          /\ \A u \in Carriers(k) : page'[u] = page[u]
      BY Kinds DEF Carriers, ReadersOf, Reading
    <3>2. Numbers(k)' = Numbers(k) BY <3>1 DEF Numbers, PagesOf
    <3>3. QED BY <2>1, <3>1, <3>2 DEF ResultInv, ResultPart
  <2>2. CASE state'[k] \in {"failed", "cancelling", "cancelled"} BY <2>2, OverResult
  <2>3. QED BY <2>1, <2>2
<1>2. ResultT' BY DEF ResultInv, ResultT
<1>3. FreshReaders' BY Kinds DEF ResultInv, FreshReaders
<1>4. QED BY <1>1, <1>2, <1>3 DEF ResultInv

LEMMA ConnectionResult ==
  ASSUME TypeInv, RunInv, RequestInv, ResultInv, NEW j \in Id, Connection(j)
  PROVE  ResultInv'
<1>0. UNCHANGED <<pagesQueued, document, pc, held, page>>
  BY DEF Connection, Reserve, Submit, Disconnect, Receive, Cancel, RemoveBegin, RemoveFails,
     RemoveFiles, RemoveEnd, jobVars, docVars, resultVars, threadVars
<1>1. CASE Submit(j)
  <2>1. /\ state' = [state EXCEPT ![j] = "queued"] /\ UNCHANGED <<pages, collected>>
        /\ request[j] = "receiving"
    BY <1>1 DEF Submit, resultVars, queueVars
  <2>2. state[j] = "none" /\ state'[j] = "queued" /\ \A k \in Id \ {j} : state'[k] = state[k]
    BY <2>1 DEF RequestInv, TypeInv, JobT
  <2>3. \A k \in Id : Numbers(k)' = Numbers(k) BY <1>0, <2>1 DEF Numbers, PagesOf, Carriers
  <2>4. \A k \in Id : ReadersOf(k)' = ReadersOf(k) BY <1>0 DEF ReadersOf, Reading
  <2>5. ASSUME NEW k \in Id PROVE ResultPart(k)'
    <3>1. CASE k = j BY <1>0, <2>2, <2>3, <3>1 DEF ResultPart, ResultInv
    <3>2. CASE k # j BY <1>0, <2>2, <2>3, <2>4, <3>2 DEF ResultPart, ResultInv
    <3>3. QED BY <3>1, <3>2
  <2>6. QED BY <1>0, <2>1, <2>5 DEF ResultInv, ResultT, FreshReaders
<1>2. CASE Cancel(j)
  <2>1. /\ state' = [state EXCEPT ![j] = "cancelling"] /\ pages' = pages \ PagesOf(j)
        /\ collected' = [collected EXCEPT ![j] = {}]
    BY <1>2 DEF Cancel, DiscardPages
  <2>2. state'[j] = "cancelling" /\ \A k \in Id \ {j} : state'[k] = state[k] /\ collected'[k] = collected[k]
    BY <2>1 DEF TypeInv, JobT, ResultInv, ResultT
  <2>3. \A k \in Id \ {j} : PagesOf(k)' = PagesOf(k) BY <2>1 DEF PagesOf
  <2>4. ASSUME NEW k \in Id PROVE ResultPart(k)'
    <3>1. CASE k = j BY <2>2, <3>1, OverResult
    <3>2. CASE k # j
      <4>1. Numbers(k)' = Numbers(k) BY <1>0, <2>2, <2>3, <3>2 DEF Numbers, Carriers
      <4>2. ReadersOf(k)' = ReadersOf(k) BY <1>0 DEF ReadersOf, Reading
      <4>3. QED BY <1>0, <2>2, <3>2, <4>1, <4>2 DEF ResultPart, ResultInv
    <3>3. QED BY <3>1, <3>2
  <2>5. ResultT' BY <1>0, <2>1 DEF ResultInv, ResultT
  <2>6. QED BY <1>0, <2>4, <2>5 DEF ResultInv, FreshReaders
<1>3. CASE ~(Submit(j) \/ Cancel(j))
  <2>1. UNCHANGED <<state, pages, collected>>
    BY <1>3 DEF Connection, Reserve, Disconnect, Receive, RemoveBegin, RemoveFails,
       RemoveFiles, RemoveEnd, jobVars, resultVars, schedVars, queueVars
  <2>2. /\ \A k \in Id : state'[k] = state[k]
        /\ \A u \in Thread : held'[u] = held[u] /\ page'[u] = page[u]
        /\ \A u \in Thread : pc'[u] = pc[u]
    BY <1>0, <2>1
  <2>3. QED BY <1>0, <2>1, <2>2, StillResult
<1>4. QED BY <1>1, <1>2, <1>3

LEMMA ResultStep == Inv /\ ResultInv /\ [Next]_vars => ResultInv'
<1> SUFFICES ASSUME Inv, ResultInv, [Next]_vars PROVE ResultInv' OBVIOUS
<1>0. TypeInv /\ ThreadT /\ RunInv /\ RequestInv /\ CleanInv /\ ResultT
  BY DEF Inv, TypeInv, ResultInv
<1>1. ASSUME NEW j \in Id, Connection(j) PROVE ResultInv' BY <1>0, <1>1, ConnectionResult
<1>2. ASSUME NEW t \in Thread, ThreadExits(t) PROVE ResultInv'
  <2>1. /\ UNCHANGED <<state, pagesQueued, collected, document, pages, held, page>>
        /\ pc' = [pc EXCEPT ![t] = "exited"] /\ pc[t] = "idle"
    BY <1>2 DEF ThreadExits, Stop, Goto, jobVars, docVars, resultVars, schedVars, queueVars
  <2>2. \A u \in Thread : pc'[u] = pc[u] \/ (pc[u] = "idle" /\ pc'[u] = "exited")
    <3>1. pc'[t] = "exited" /\ \A u \in AllThreads \ {t} : pc'[u] = pc[u]
      BY <1>0, <2>1 DEF ThreadT, AllThreads
    <3>2. QED BY <2>1, <3>1 DEF AllThreads
  <2>3. QED BY <1>0, <2>1, <2>2, StillResult
<1>3. ASSUME NEW r \in Readers, Reader(r) PROVE ResultInv'
  <2> r \in AllThreads /\ r \in Thread BY Kinds
  <2>1. CASE TakeDocument(r) BY <1>0, <2>1, TakeDocumentResult
  <2>2. CASE ThreadExits(r) BY <1>2, <2>2
  <2>3. CASE ~(TakeDocument(r) \/ ThreadExits(r))
    <3>1. pc[r] \notin {"idle", "exited"}
      BY <1>3, <2>3 DEF Reader, RenderPage, ReservePage, QueuePage, ReaderFails, EndOfDocument,
         Finalizer, WriteResult, Publish, FinalizeFails
    <3>2. PICK j \in Id : held[r] = j BY <1>0, <3>1, Holds
    <3>3. Alone(r, j) /\ ResultT' /\ (pc'[r] = "idle" => page'[r] = 0)
      BY <1>0, <1>3, <3>2, ReaderAlone
    <3>4. \A k \in Id \ {j} : ResultPart(k)' BY <1>0, <3>3, ResultOthers
    <3>5. ResultPart(j)' BY <1>0, <1>3, <3>2, ReaderResult
    <3>6. FreshReaders' BY <3>3, Kinds DEF Alone, FreshReaders, ResultInv
    <3>7. QED BY <3>3, <3>4, <3>5, <3>6 DEF ResultInv
  <2>4. QED BY <2>1, <2>2, <2>3
<1>4. ASSUME NEW w \in PageWorkers, PageWorker(w) PROVE ResultInv'
  <2> w \in AllThreads /\ w \in Thread /\ w \notin Readers BY Kinds
  <2>1. CASE TakePage(w) BY <1>0, <2>1, TakePageResult
  <2>2. CASE ThreadExits(w) BY <1>2, <2>2
  <2>3. CASE ~(TakePage(w) \/ ThreadExits(w))
    <3>1. pc[w] \notin {"idle", "exited"}
      BY <1>4, <2>3 DEF PageWorker, StartPage, WriteAsset, PageDone, PageFails,
         Finalizer, WriteResult, Publish, FinalizeFails
    <3>2. PICK j \in Id : held[w] = j BY <1>0, <3>1, Holds
    <3>3. Alone(w, j) /\ ResultT' BY <1>0, <1>4, <3>2, PageWorkerAlone
    <3>4. \A k \in Id \ {j} : ResultPart(k)' BY <1>0, <3>3, ResultOthers
    <3>5. ResultPart(j)' BY <1>0, <1>4, <3>2, PageWorkerResult
    <3>6. FreshReaders' BY <3>3, Kinds DEF Alone, FreshReaders, ResultInv
    <3>7. QED BY <3>3, <3>4, <3>5, <3>6 DEF ResultInv
  <2>4. QED BY <2>1, <2>2, <2>3
<1>5. CASE CleanupThread
  <2>1. UNCHANGED <<pagesQueued, collected, document, pages>>
    BY <1>5 DEF CleanupThread, TakeCleanup, Cleanup, CleanerExits, Stop, jobVars, docVars,
       resultVars, schedVars, queueVars
  <2>2. \A u \in Thread : held'[u] = held[u] /\ pc'[u] = pc[u]
    BY <1>0, <1>5, Kinds DEF CleanupThread, TakeCleanup, Cleanup, CleanerExits, Stop, Release,
       Goto, ThreadT
  <2>3. \A u \in Thread : page'[u] = page[u]
    BY <1>0, <1>5, Kinds DEF CleanupThread, TakeCleanup, Cleanup, CleanerExits, Stop, Release,
       ThreadT
  <2>4. \A k \in Id : state'[k] = state[k] \/ state'[k] \in {"failed", "cancelling", "cancelled"}
    <3>1. CASE Cleanup BY <1>0, <3>1 DEF Cleanup, TypeInv, JobT
    <3>2. CASE TakeCleanup \/ CleanerExits BY <3>2 DEF TakeCleanup, CleanerExits, Stop, jobVars
    <3>3. QED BY <1>5, <3>1, <3>2 DEF CleanupThread
  <2>5. QED BY <1>0, <2>1, <2>2, <2>3, <2>4, StillResult
<1>6. CASE BeginShutdown \/ BeginCleanupShutdown \/ Ended \/ UNCHANGED vars
  <2>1. UNCHANGED <<state, pagesQueued, collected, document, pages, held, page, pc>>
    BY <1>6 DEF BeginShutdown, BeginCleanupShutdown, Ended, vars, jobVars, docVars, resultVars,
       schedVars, queueVars, threadVars
  <2>2. /\ \A k \in Id : state'[k] = state[k]
        /\ \A u \in Thread : held'[u] = held[u] /\ page'[u] = page[u]
        /\ \A u \in Thread : pc'[u] = pc[u]
    BY <1>0, <2>1
  <2>3. QED BY <1>0, <2>1, <2>2, StillResult
<1>7. QED BY <1>1, <1>3, <1>4, <1>5, <1>6 DEF Next

(* A job that succeeds has every page its reader rendered in its result,   *)
(* once the last of the reader and the page workers has come by, in        *)
(* whatever order the pages are recognised.                                *)
THEOREM ResultsAreComplete == Spec => []SucceededComplete
<1>1. ResultInv => SucceededComplete BY DEF ResultInv, ResultPart, SucceededComplete
<1>2. QED BY <1>1, ResultInit, ResultStep, Invariant, PTL DEF Spec

-----------------------------------------------------------------------------
(* What a step does to the jobs, seen from outside: the state of a job and *)
(* the threads that work on it.                                            *)

Team(j) == {t \in Thread : Working(t, j)}
Same(k) == state'[k] = state[k] /\ Team(k)' = Team(k)
Moved(j, s, T) == state'[j] = s /\ Team(j)' = T /\ \A k \in Id \ {j} : Same(k)

\* The moves of the readers and the page workers.
WorkMove(j) ==
  \/ state[j] = "queued" /\ \E t \in Thread : Moved(j, "reading", {t})
  \/ state[j] \in {"reading", "processing"} /\ Moved(j, "processing", Team(j))
  \/ state[j] = "processing" /\ \E t \in Thread \ Team(j) : Moved(j, "processing", Team(j) \cup {t})
  \/ /\ state[j] \in {"processing", "failed", "cancelling"}
     /\ \E t \in Team(j) : Moved(j, state[j], Team(j) \ {t})
  \/ state[j] = "processing" /\ \E t \in Thread : Team(j) = {t} /\ Moved(j, "finalizing", Team(j))
  \/ state[j] = "finalizing" /\ \E t \in Thread : Team(j) = {t} /\ Moved(j, "succeeded", {})
  \/ /\ state[j] \in {"reading", "processing", "finalizing"}
     /\ \E t \in Team(j) : Moved(j, "failed", Team(j) \ {t})

Still == \A k \in Id : Same(k)

LEMMA TeamIs ==
  ASSUME NEW j \in Id, NEW t \in Thread
  PROVE  t \in Team(j) <=> /\ held[t] = j
                           /\ pc[t] \in {"read", "admit", "copy", "caught", "process", "finalize", "publish"}
  BY DEF Team, Working, Reading, Processing, Finalizing

LEMMA TeamNext ==
  ASSUME NEW j \in Id, NEW t \in Thread
  PROVE  t \in Team(j)' <=> /\ held'[t] = j
                            /\ pc'[t] \in {"read", "admit", "copy", "caught", "process", "finalize", "publish"}
  BY DEF Team, Working, Reading, Processing, Finalizing

LEMMA TeamOthers ==
  ASSUME NEW t \in Thread, NEW j \in Id, Alone(t, j)
  PROVE  /\ \A k \in Id \ {j} : Same(k)
         /\ Team(j)' = IF t \in Team(j)' THEN Team(j) \cup {t} ELSE Team(j) \ {t}
<1>1. \A u \in Thread \ {t} : pc'[u] = pc[u] /\ held'[u] = held[u]
  BY Kinds DEF Alone, Thread, AllThreads
<1>2. ASSUME NEW k \in Id \ {j} PROVE Same(k)
  <2>1. held[t] # k /\ held'[t] # k BY Kinds DEF Alone
  <2>2. ASSUME NEW u \in Thread PROVE u \in Team(k)' <=> u \in Team(k)
    <3>1. CASE u = t BY <2>1, <3>1, TeamIs, TeamNext
    <3>2. CASE u # t BY <1>1, <3>2, TeamIs, TeamNext
    <3>3. QED BY <3>1, <3>2
  <2>3. Team(k)' = Team(k) BY <2>2 DEF Team
  <2>4. QED BY <2>3 DEF Same, Alone
<1>3. ASSUME NEW u \in Thread, u # t PROVE u \in Team(j)' <=> u \in Team(j)
  BY <1>1, <1>3, TeamIs, TeamNext
<1>4. Team(j)' \subseteq Thread /\ Team(j) \subseteq Thread BY DEF Team
<1>5. QED BY <1>2, <1>3, <1>4

\* A thread that was at work goes on, and the state stays.
LEMMA GoesOn ==
  ASSUME NEW t \in Thread, NEW j \in Id, Alone(t, j), t \in Team(j) <=> t \in Team(j)',
         state'[j] = state[j]
  PROVE  Still
<1>1. Team(j)' = Team(j) BY TeamOthers
<1>2. QED BY <1>1, TeamOthers DEF Still, Same

LEMMA FailMove ==
  ASSUME TypeInv, NEW t \in Thread, NEW j \in Id, Alone(t, j), FailLocked(j),
         t \in Team(j), t \notin Team(j)',
         state[j] \in {"reading", "processing", "finalizing", "failed", "cancelling"}
  PROVE  WorkMove(j)
<1>1. Team(j)' = Team(j) \ {t} /\ \A k \in Id \ {j} : Same(k) BY TeamOthers
<1>2. CASE Settled(j)
  <2>1. state'[j] = state[j] /\ state[j] \in {"failed", "cancelling"}
    BY <1>2, FailEffect DEF Settled, Terminal
  <2>2. Moved(j, state[j], Team(j) \ {t}) BY <1>1, <2>1 DEF Moved
  <2>3. QED BY <2>1, <2>2 DEF WorkMove
<1>3. CASE ~Settled(j)
  <2>1. state'[j] = "failed" /\ state[j] \in {"reading", "processing", "finalizing"}
    BY <1>3, FailEffect DEF Settled, Terminal
  <2>2. Moved(j, "failed", Team(j) \ {t}) BY <1>1, <2>1 DEF Moved
  <2>3. QED BY <2>1, <2>2 DEF WorkMove
<1>4. QED BY <1>2, <1>3

LEMMA FinalizeMove ==
  ASSUME TypeInv, RunInv', NEW t \in Thread, NEW j \in Id, Alone(t, j), held[t] = j, NEW found,
         FinalizeLocked(t, j, found), t \in Team(j),
         state[j] \in {"processing", "failed", "cancelling"}
  PROVE  WorkMove(j)
<1> t \in AllThreads BY Kinds
<1>0. Team(j)' = (IF t \in Team(j)' THEN Team(j) \cup {t} ELSE Team(j) \ {t})
      /\ \A k \in Id \ {j} : Same(k)
  BY TeamOthers
<1>1. CASE MayFinalize(j) /\ state'[j] = "finalizing" /\ pc'[t] = "finalize" /\ held'[t] = j
  <2>1. t \in FinalizersOf(j)' BY <1>1 DEF FinalizersOf, Finalizing
  <2>2. \A u \in Thread \ {t} : held'[u] # j BY <2>1 DEF RunInv, JobInv, FinalPart
  <2>3. \A u \in Thread \ {t} : u \notin Team(j)' BY <2>2, TeamNext
  <2>4. t \in Team(j)' BY <1>1, TeamNext
  <2>5. Team(j)' = {t} /\ Team(j) = {t}
    <3>1. Team(j)' \subseteq Thread BY DEF Team
    <3>2. QED BY <1>0, <2>3, <2>4, <3>1
  <2>6. state[j] = "processing" BY <1>1 DEF MayFinalize, Settled, Terminal
  <2>7. Moved(j, "finalizing", Team(j)) BY <1>0, <1>1, <2>5 DEF Moved
  <2>8. QED BY <2>5, <2>6, <2>7 DEF WorkMove
<1>2. CASE MayFinalize(j) /\ state'[j] = "failed" /\ pc'[t] = "idle" /\ held'[t] = NoJob
  <2>1. t \notin Team(j)' BY <1>2, TeamNext
  <2>2. state[j] = "processing" BY <1>2 DEF MayFinalize, Settled, Terminal
  <2>3. Moved(j, "failed", Team(j) \ {t}) BY <1>0, <1>2, <2>1 DEF Moved
  <2>4. QED BY <2>2, <2>3 DEF WorkMove
<1>3. CASE ~MayFinalize(j) /\ state'[j] = state[j] /\ pc'[t] = "idle" /\ held'[t] = NoJob
  <2>1. t \notin Team(j)' BY <1>3, TeamNext
  <2>2. Moved(j, state[j], Team(j) \ {t}) BY <1>0, <1>3, <2>1 DEF Moved
  <2>3. QED BY <2>2 DEF WorkMove
<1>4. QED BY <1>1, <1>2, <1>3, FinalizeCases

LEMMA FinalizerMove ==
  ASSUME TypeInv, RunInv, ResultT, NEW t \in Thread, Finalizer(t)
  PROVE  Still \/ \E j \in Id : WorkMove(j)
<1> t \in AllThreads BY Kinds
<1>1. PICK j \in Id : held[t] = j
  BY Holds DEF Finalizer, WriteResult, Publish, FinalizeFails, TypeInv
<1>2. pc[t] \in {"finalize", "publish"} BY DEF Finalizer, WriteResult, Publish, FinalizeFails
<1>3. t \in FinalizersOf(j) /\ t \in Team(j) BY <1>1, <1>2, TeamIs DEF FinalizersOf, Finalizing
<1>4. /\ state[j] \in {"finalizing", "cancelling"} /\ \A u \in Thread \ {t} : held[u] # j
  BY <1>3 DEF RunInv, JobInv, FinalPart
<1>5. Team(j) = {t} BY <1>3, <1>4, TeamIs DEF Team
<1>6. Alone(t, j) BY <1>1, FinalizerAlone
<1>7. CASE WriteResult(t)
  <2>1. Goto(t, "publish") /\ UNCHANGED <<held, page, bytes, state>>
    BY <1>7 DEF WriteResult, jobVars
  <2>2. pc'[t] = "publish" /\ held'[t] = j BY <1>1, <2>1, GotoAll DEF TypeInv
  <2>3. t \in Team(j)' BY <2>2, TeamNext
  <2>4. QED BY <1>3, <1>6, <2>1, <2>3, GoesOn
<1>8. CASE Publish(t) \/ FinalizeFails(t)
  <2>1. Release(t) BY <1>8 DEF Publish, FinalizeFails
  <2>2. pc'[t] = "idle" BY <2>1, ReleaseAll DEF TypeInv
  <2>3. t \notin Team(j)' BY <2>2, TeamNext
  <2>4. CASE FinalizeFails(t)
    <3>1. FailLocked(j) BY <1>1, <2>4 DEF FinalizeFails
    <3>2. QED BY <1>3, <1>4, <1>6, <2>3, <3>1, FailMove
  <2>5. CASE Publish(t)
    <3>1. Team(j)' = Team(j) \ {t} /\ \A k \in Id \ {j} : Same(k) BY <1>6, <2>3, TeamOthers
    <3>2. CASE state[j] = "finalizing"
      <4>1. state'[j] = "succeeded" BY <1>1, <2>5, <3>2 DEF Publish, TypeInv, JobT
      <4>2. Moved(j, "succeeded", {}) BY <1>5, <3>1, <4>1 DEF Moved
      <4>3. QED BY <1>5, <3>2, <4>2 DEF WorkMove
    <3>3. CASE state[j] = "cancelling"
      <4>1. state'[j] = state[j] BY <1>1, <2>5, <3>3 DEF Publish
      <4>2. Moved(j, state[j], Team(j) \ {t}) BY <3>1, <4>1 DEF Moved
      <4>3. QED BY <1>3, <3>3, <4>2 DEF WorkMove
    <3>4. QED BY <1>4, <3>2, <3>3
  <2>6. QED BY <1>8, <2>4, <2>5
<1>9. QED BY <1>7, <1>8 DEF Finalizer

LEMMA ExitMove ==
  ASSUME TypeInv, NEW t \in Thread, ThreadExits(t)
  PROVE  Still
<1>1. pc[t] = "idle" /\ pc' = [pc EXCEPT ![t] = "exited"] /\ UNCHANGED <<state, held>>
  BY DEF ThreadExits, Stop, Goto, jobVars
<1>2. pc'[t] = "exited" /\ \A u \in Thread \ {t} : pc'[u] = pc[u]
  BY <1>1 DEF TypeInv, ThreadT, AllThreads
<1>3. ASSUME NEW k \in Id, NEW u \in Thread PROVE u \in Team(k)' <=> u \in Team(k)
  BY <1>1, <1>2, TeamIs, TeamNext
<1>4. QED BY <1>1, <1>3 DEF Still, Same, Team

LEMMA ReaderMove ==
  ASSUME TypeInv, RunInv, ResultInv, RunInv', NEW r \in Readers, Reader(r)
  PROVE  Still \/ \E j \in Id : WorkMove(j)
<1> r \in AllThreads /\ r \in Thread BY Kinds
<1>0. ThreadT /\ ResultT BY DEF TypeInv, ResultInv
<1>1. CASE TakeDocument(r)
  <2>1. CASE UNCHANGED <<state, held, pc>>
    BY <2>1 DEF Still, Same, Team, Working, Reading, Processing, Finalizing
  <2>2. CASE ~UNCHANGED <<state, held, pc>>
    <3>1. PICK j \in waiting : /\ state[j] = "queued" /\ state' = [state EXCEPT ![j] = "reading"]
                               /\ held' = [held EXCEPT ![r] = j] /\ pc' = [pc EXCEPT ![r] = "read"]
      BY <1>1, <2>2 DEF TakeDocument, Goto
    <3>2. j \in Id /\ JobInv(j) BY DEF TypeInv, QueueT, RunInv
    <3>3. /\ pc'[r] = "read" /\ held'[r] = j /\ held[r] = NoJob
          /\ \A u \in AllThreads \ {r} : pc'[u] = pc[u] /\ held'[u] = held[u]
      BY <1>0, <1>1, <3>1 DEF ThreadT, TakeDocument
    <3>4. state'[j] = "reading" /\ \A k \in Id \ {j} : state'[k] = state[k]
      BY <3>1, <3>2 DEF TypeInv, JobT
    <3>5. UNCHANGED <<pages, pagesQueued, collected, document, page, bytes>>
      BY <1>1 DEF TakeDocument, queueVars, docVars, resultVars
    <3>6. Alone(r, j) BY <3>3, <3>4, <3>5 DEF Alone, PagesOf
    <3>7. Team(j) = {} BY <3>1, <3>2, TeamIs, Kinds DEF JobInv, FreshPart, Team
    <3>8. r \in Team(j)' BY <3>2, <3>3, TeamNext
    <3>9. Team(j)' = {r} /\ \A k \in Id \ {j} : Same(k) BY <3>2, <3>6, <3>7, <3>8, TeamOthers
    <3>10. Moved(j, "reading", {r}) BY <3>4, <3>9 DEF Moved
    <3>11. QED BY <3>1, <3>2, <3>10 DEF WorkMove
  <2>3. QED BY <2>1, <2>2
<1>2. CASE ThreadExits(r) BY <1>2, ExitMove
<1>3. CASE Finalizer(r) BY <1>0, <1>3, FinalizerMove
<1>4. CASE ~(TakeDocument(r) \/ ThreadExits(r) \/ Finalizer(r))
  <2>1. pc[r] \in {"read", "admit", "copy", "caught"}
    BY <1>4 DEF Reader, RenderPage, ReservePage, QueuePage, ReaderFails, EndOfDocument
  <2>2. PICK j \in Id : held[r] = j BY <1>0, <2>1, Holds
  <2>3. Alone(r, j) BY <1>0, <2>2, ReaderAlone
  <2>4. r \in Team(j) /\ r \in ReadersOf(j) BY <2>1, <2>2, TeamIs DEF ReadersOf, Reading
  <2>5. state[j] \in {"reading", "processing", "failed", "cancelling"}
    BY <2>4 DEF RunInv, JobInv, ReaderPart
  <2>6. CASE (\E n \in PageBytes : RenderPage(r, n)) \/ ReservePage(r)
    <3>1. UNCHANGED <<state, held>> /\ \E label \in {"admit", "copy"} : pc' = [pc EXCEPT ![r] = label]
      BY <2>6 DEF RenderPage, ReservePage, Goto, jobVars
    <3>2. held'[r] = j /\ pc'[r] \in {"admit", "copy"} BY <1>0, <2>2, <3>1 DEF ThreadT
    <3>3. r \in Team(j)' BY <3>2, TeamNext
    <3>4. QED BY <2>3, <2>4, <3>1, <3>3, GoesOn
  <2>7. CASE QueuePage(r)
    <3>1. held' = held /\ \E label \in {"read", "caught"} : pc' = [pc EXCEPT ![r] = label]
      BY <2>7 DEF QueuePage, Goto
    <3>2. held'[r] = j /\ pc'[r] \in {"read", "caught"} BY <1>0, <2>2, <3>1 DEF ThreadT
    <3>3. r \in Team(j)' BY <3>2, TeamNext
    <3>4. CASE state' = state BY <2>3, <2>4, <3>3, <3>4, GoesOn
    <3>5. CASE ~Abandoned(j) /\ state' = [state EXCEPT ![j] = "processing"]
      <4>1. state'[j] = "processing" /\ state[j] \in {"reading", "processing"}
        BY <2>5, <3>5 DEF TypeInv, JobT, Abandoned
      <4>2. Team(j)' = Team(j) /\ \A k \in Id \ {j} : Same(k) BY <2>3, <2>4, <3>3, TeamOthers
      <4>3. Moved(j, "processing", Team(j)) BY <4>1, <4>2 DEF Moved
      <4>4. QED BY <4>1, <4>3 DEF WorkMove
    <3>6. QED BY <2>2, <2>7, <3>4, <3>5 DEF QueuePage
  <2>8. CASE ReaderFails(r)
    <3>1. FailLocked(j) /\ Release(r) BY <2>2, <2>8 DEF ReaderFails
    <3>2. pc'[r] = "idle" BY <1>0, <3>1, ReleaseAll
    <3>3. r \notin Team(j)' BY <3>2, TeamNext
    <3>4. QED BY <2>3, <2>4, <2>5, <3>1, <3>3, FailMove
  <2>9. CASE EndOfDocument(r)
    <3>1. FinalizeLocked(r, j, collected[j]) /\ pc[r] = "read" /\ page[r] > 0
      BY <2>2, <2>9 DEF EndOfDocument
    <3>2. state[j] # "reading" BY <2>4, <3>1 DEF ResultInv, ResultPart
    <3>3. QED BY <2>2, <2>3, <2>4, <2>5, <3>1, <3>2, FinalizeMove
  <2>10. QED BY <1>4, <2>6, <2>7, <2>8, <2>9 DEF Reader
<1>5. QED BY <1>1, <1>2, <1>3, <1>4

LEMMA PageWorkerMove ==
  ASSUME TypeInv, RunInv, ResultInv, RunInv', NEW w \in PageWorkers, PageWorker(w)
  PROVE  Still \/ \E j \in Id : WorkMove(j)
<1> w \in AllThreads /\ w \in Thread /\ w \notin Readers BY Kinds
<1>0. ThreadT /\ ResultT BY DEF TypeInv, ResultInv
<1>1. CASE TakePage(w)
  <2>1. PICK p \in pages : held' = [held EXCEPT ![w] = p.job] BY <1>1 DEF TakePage
  <2>2. pc[w] = "idle" /\ pc' = [pc EXCEPT ![w] = "taken"] /\ UNCHANGED state
    BY <1>1 DEF TakePage, Goto, jobVars
  <2>3. /\ pc'[w] = "taken" /\ \A u \in Thread \ {w} : pc'[u] = pc[u] /\ held'[u] = held[u]
    BY <1>0, <2>1, <2>2 DEF ThreadT, AllThreads
  <2>4. ASSUME NEW k \in Id, NEW u \in Thread PROVE u \in Team(k)' <=> u \in Team(k)
    BY <2>2, <2>3, TeamIs, TeamNext
  <2>5. QED BY <2>2, <2>4 DEF Still, Same, Team
<1>2. CASE ThreadExits(w) BY <1>2, ExitMove
<1>3. CASE Finalizer(w) BY <1>0, <1>3, FinalizerMove
<1>4. CASE ~(TakePage(w) \/ ThreadExits(w) \/ Finalizer(w))
  <2>1. pc[w] \in {"taken", "process"}
    BY <1>4 DEF PageWorker, StartPage, WriteAsset, PageDone, PageFails
  <2>2. PICK j \in Id : held[w] = j BY <1>0, <2>1, Holds
  <2>3. Alone(w, j) BY <1>0, <2>2, PageWorkerAlone
  <2>4. CASE StartPage(w)
    <3>1. pc[w] = "taken" /\ UNCHANGED state BY <2>4 DEF StartPage
    <3>2. w \notin Team(j) BY <3>1, TeamIs
    <3>3. CASE Settled(j)
      <4>1. Release(w) BY <2>2, <2>4, <3>3 DEF StartPage
      <4>2. pc'[w] = "idle" BY <1>0, <4>1, ReleaseAll
      <4>3. w \notin Team(j)' BY <4>2, TeamNext
      <4>4. QED BY <2>3, <3>1, <3>2, <4>3, GoesOn
    <3>4. CASE ~Settled(j)
      <4>1. Goto(w, "process") /\ UNCHANGED <<held, page, bytes>> BY <2>2, <2>4, <3>4 DEF StartPage
      <4>2. pc'[w] = "process" /\ held'[w] = j BY <1>0, <2>2, <4>1, GotoAll
      <4>3. w \in Team(j)' BY <4>2, TeamNext
      <4>4. Team(j)' = Team(j) \cup {w} /\ \A k \in Id \ {j} : Same(k) BY <2>3, <4>3, TeamOthers
      <4>5. w \in Carriers(j) BY <2>2, <3>1 DEF Carriers
      <4>6. state[j] = "processing" BY <3>4, <4>5 DEF RunInv, JobInv, WorkerPart, Settled, Terminal
      <4>7. Moved(j, "processing", Team(j) \cup {w}) BY <3>1, <4>4, <4>6 DEF Moved
      <4>8. QED BY <3>2, <4>6, <4>7 DEF WorkMove
    <3>5. QED BY <3>3, <3>4
  <2>5. CASE WriteAsset(w)
    BY <2>5 DEF WriteAsset, jobVars, threadVars, Still, Same, Team, Working, Reading, Processing,
       Finalizing
  <2>6. CASE PageDone(w) \/ PageFails(w)
    <3>1. pc[w] = "process" BY <2>6 DEF PageDone, PageFails
    <3>2. w \in Team(j) /\ w \in RunningPages(j) BY <2>2, <3>1, TeamIs DEF RunningPages, Processing
    <3>3. state[j] \in {"processing", "failed", "cancelling"}
      BY <3>2 DEF RunInv, JobInv, WorkerPart
    <3>4. CASE PageFails(w)
      <4>1. FailLocked(j) /\ Release(w) BY <2>2, <3>4 DEF PageFails
      <4>2. pc'[w] = "idle" BY <1>0, <4>1, ReleaseAll
      <4>3. w \notin Team(j)' BY <4>2, TeamNext
      <4>4. QED BY <2>3, <3>2, <3>3, <4>1, <4>3, FailMove
    <3>5. CASE PageDone(w) /\ ~Settled(j)
      <4>1. FinalizeLocked(w, j, collected[j] \cup {page[w]}) BY <2>2, <3>5 DEF PageDone
      <4>2. QED BY <2>2, <2>3, <3>2, <3>3, <4>1, FinalizeMove
    <3>6. CASE PageDone(w) /\ Settled(j)
      <4>1. Release(w) /\ UNCHANGED state BY <2>2, <3>6 DEF PageDone
      <4>2. pc'[w] = "idle" BY <1>0, <4>1, ReleaseAll
      <4>3. w \notin Team(j)' BY <4>2, TeamNext
      <4>4. Team(j)' = Team(j) \ {w} /\ \A k \in Id \ {j} : Same(k) BY <2>3, <4>3, TeamOthers
      <4>5. Moved(j, state[j], Team(j) \ {w}) BY <4>1, <4>4 DEF Moved
      <4>6. QED BY <3>2, <3>3, <4>5 DEF WorkMove
    <3>7. QED BY <2>6, <3>4, <3>5, <3>6
  <2>7. QED BY <1>4, <2>4, <2>5, <2>6 DEF PageWorker
<1>5. QED BY <1>1, <1>2, <1>3, <1>4

\* No thread starts on a job that is over and that nobody works on any more.
LEMMA WorkLeavesOver ==
  ASSUME NEW j \in Id, WorkMove(j) \/ Still, NEW k \in Id
  PROVE  /\ state[k] \in Terminal /\ Team(k) = {} => Same(k)
         /\ state'[k] = "cancelled" => state[k] = "cancelled"
         /\ state[k] # "none" => state'[k] # "none"
<1>1. CASE Still BY <1>1 DEF Still, Same
<1>2. CASE WorkMove(j) /\ k # j
  <2>1. Same(k) BY <1>2 DEF WorkMove, Moved
  <2>2. QED BY <2>1 DEF Same
<1>3. CASE WorkMove(j) /\ k = j
  <2>1. state'[j] \in {"reading", "processing", "finalizing", "succeeded", "failed"}
        \/ (state'[j] = state[j] /\ state[j] # "cancelled")
    BY <1>3 DEF WorkMove, Moved
  <2>2. state[j] \in Terminal => Team(j) # {} BY <1>3 DEF WorkMove, Terminal
  <2>3. QED BY <1>3, <2>1, <2>2
<1>4. QED BY <1>1, <1>2, <1>3

LEMMA ThreadHttp ==
  ASSUME \/ \E r \in Readers : Reader(r)
         \/ \E w \in PageWorkers : PageWorker(w)
         \/ CleanupThread
  PROVE  UNCHANGED httpVars
<1>1. CASE CleanupThread
  BY <1>1 DEF CleanupThread, TakeCleanup, Cleanup, CleanerExits, Stop, httpVars
<1>2. ASSUME NEW t \in Thread, ThreadExits(t) \/ Finalizer(t)
      PROVE  UNCHANGED httpVars
  BY <1>2 DEF ThreadExits, Stop, Finalizer, WriteResult, Publish, FinalizeFails, httpVars
<1>3. ASSUME NEW r \in Readers, Reader(r)
      PROVE  UNCHANGED httpVars
  <2>1. CASE TakeDocument(r) \/ ReservePage(r) \/ QueuePage(r)
    BY <2>1 DEF TakeDocument, ReservePage, QueuePage, httpVars
  <2>2. CASE (\E n \in PageBytes : RenderPage(r, n)) \/ ReaderFails(r) \/ EndOfDocument(r)
    BY <2>2 DEF RenderPage, ReaderFails, EndOfDocument, httpVars
  <2>3. CASE Finalizer(r) \/ ThreadExits(r) BY <1>2, <2>3, Kinds
  <2>4. QED BY <1>3, <2>1, <2>2, <2>3 DEF Reader
<1>4. ASSUME NEW w \in PageWorkers, PageWorker(w)
      PROVE  UNCHANGED httpVars
  <2>1. CASE TakePage(w) \/ StartPage(w) \/ WriteAsset(w)
    BY <2>1 DEF TakePage, StartPage, WriteAsset, httpVars
  <2>2. CASE PageDone(w) \/ PageFails(w) BY <2>2 DEF PageDone, PageFails, httpVars
  <2>3. CASE Finalizer(w) \/ ThreadExits(w) BY <1>2, <2>3, Kinds
  <2>4. QED BY <1>4, <2>1, <2>2, <2>3 DEF PageWorker
<1>5. QED BY <1>1, <1>3, <1>4

-----------------------------------------------------------------------------
(* Files: who may still write below a job's directory.                     *)

Gone(j) == request[j] = "submitted" /\ j \notin registered

\* A job that is being deleted, or has been, is over and nobody works on it; there is
\* no output without a directory, and none of a job that is gone or never was.  Of a
\* request that was not submitted only an upload is left, if its removal failed.
FilePart(j) ==
  /\ j \in deleting => j \in registered
  /\ j \in deleting \/ Gone(j) => state[j] \in Terminal /\ Team(j) = {}
  /\ Gone(j) \/ request[j] = "none" => j \notin staged
  /\ request[j] = "closed" => j \notin outputs /\ (j \in staged => j \in cleanupFailed)
  /\ j \in outputs => j \in staged /\ state[j] # "none"
  /\ state[j] = "cancelled" /\ j \in outputs => j \in cleanupFailed
FileT == registered \subseteq Id /\ deleting \subseteq Id
         /\ staged \subseteq Id /\ outputs \subseteq Id /\ cleanupFailed \subseteq Id
FileInv == FileT /\ \A j \in Id : FilePart(j)

LEMMA FileInit == Init => FileInv
  BY DEF Init, FileInv, FileT, FilePart, Gone

\* Threads write only for the jobs they work on.
WritesFor(j) ==
  /\ Team(j) # {} /\ cleanupFailed' = cleanupFailed
  /\ staged' = staged \cup {j} /\ outputs' \in {outputs, outputs \cup {j}}

LEMMA ThreadFiles ==
  ASSUME TypeInv, \/ \E r \in Readers : Reader(r)
                  \/ \E w \in PageWorkers : PageWorker(w)
  PROVE  UNCHANGED fileVars \/ \E j \in Id : WritesFor(j)
<1>1. ASSUME NEW t \in Thread, Finalizer(t)
      PROVE  UNCHANGED fileVars \/ \E j \in Id : WritesFor(j)
  <2> t \in AllThreads BY Kinds
  <2>1. pc[t] \in {"finalize", "publish"} BY <1>1 DEF Finalizer, WriteResult, Publish, FinalizeFails
  <2>2. PICK j \in Id : held[t] = j BY <2>1, Holds DEF TypeInv
  <2>3. t \in Team(j) BY <2>1, <2>2, TeamIs
  <2>4. CASE WriteResult(t) BY <2>2, <2>3, <2>4 DEF WriteResult, WritesFor
  <2>5. CASE FinalizeFails(t) BY <2>2, <2>3, <2>5 DEF FinalizeFails, WritesFor
  <2>6. CASE Publish(t) BY <2>6 DEF Publish
  <2>7. QED BY <1>1, <2>4, <2>5, <2>6 DEF Finalizer
<1>2. ASSUME NEW r \in Readers, Reader(r), ~Finalizer(r) PROVE UNCHANGED fileVars
  <2>1. CASE TakeDocument(r) \/ ReservePage(r) \/ QueuePage(r)
    BY <2>1 DEF TakeDocument, ReservePage, QueuePage
  <2>2. CASE (\E n \in PageBytes : RenderPage(r, n)) \/ ReaderFails(r) \/ EndOfDocument(r)
    BY <2>2 DEF RenderPage, ReaderFails, EndOfDocument
  <2>3. CASE ThreadExits(r) BY <2>3 DEF ThreadExits, Stop
  <2>4. QED BY <1>2, <2>1, <2>2, <2>3 DEF Reader
<1>3. ASSUME NEW w \in PageWorkers, PageWorker(w), ~Finalizer(w)
      PROVE  UNCHANGED fileVars \/ \E j \in Id : WritesFor(j)
  <2>1. CASE WriteAsset(w)
    <3> w \in Thread /\ w \in AllThreads BY Kinds
    <3>1. pc[w] = "process" BY <2>1 DEF WriteAsset
    <3>2. PICK j \in Id : held[w] = j BY <3>1, Holds DEF TypeInv
    <3>3. w \in Team(j) BY <3>1, <3>2, TeamIs
    <3>4. QED BY <2>1, <3>2, <3>3 DEF WriteAsset, WritesFor
  <2>2. CASE TakePage(w) \/ StartPage(w) BY <2>2 DEF TakePage, StartPage
  <2>3. CASE PageDone(w) \/ PageFails(w) BY <2>3 DEF PageDone, PageFails
  <2>4. CASE ThreadExits(w) BY <2>4 DEF ThreadExits, Stop
  <2>5. QED BY <1>3, <2>1, <2>2, <2>3, <2>4 DEF PageWorker
<1>4. QED BY <1>1, <1>2, <1>3, Kinds

LEMMA ConnectionTeams ==
  ASSUME NEW j \in Id, Connection(j), NEW k \in Id
  PROVE  Team(k)' = Team(k)
<1>1. UNCHANGED threadVars
  BY DEF Connection, Reserve, Submit, Disconnect, Receive, Cancel, RemoveBegin,
     RemoveFails, RemoveFiles, RemoveEnd
<1>2. QED BY <1>1 DEF threadVars, Team, Working, Reading, Processing, Finalizing

LEMMA ConnectionFiles ==
  ASSUME TypeInv, RunInv, RequestInv, FileInv, NEW j \in Id, Connection(j)
  PROVE  FileInv'
<1>0. /\ \A k \in Id : FilePart(k) /\ Team(k)' = Team(k)
      /\ FileT /\ HttpT /\ state \in [Id -> Live \cup Terminal \cup {"none"}]
  BY ConnectionTeams DEF FileInv, TypeInv, JobT
<1>1. ASSUME UNCHANGED <<state, registered, deleting, outputs>>,
             \/ /\ request[j] = "none" /\ request' = [request EXCEPT ![j] = "receiving"]
                /\ staged' \in {staged, staged \cup {j}} /\ cleanupFailed' = cleanupFailed
             \/ /\ request[j] \in {"receiving", "rejected"} /\ UNCHANGED <<staged, cleanupFailed>>
                /\ request' \in {request, [request EXCEPT ![j] = "rejected"]}
             \/ /\ request[j] \in {"receiving", "rejected"}
                /\ request' = [request EXCEPT ![j] = "closed"]
                /\ \/ staged' = staged \ {j} /\ cleanupFailed' = cleanupFailed
                   \/ staged' = staged \cup {j} /\ cleanupFailed' = cleanupFailed \cup {j}
      PROVE  FileInv'
  <2>1. FileT' BY <1>0, <1>1 DEF FileT
  <2>2. \A k \in Id \ {j} : request'[k] = request[k] BY <1>0, <1>1 DEF HttpT
  <2>3. request[j] # "submitted" /\ request'[j] \in {"receiving", "rejected", "closed"}
    BY <1>0, <1>1 DEF HttpT
  <2>4. state[j] = "none" BY <2>3 DEF RequestInv
  <2>5. ASSUME NEW k \in Id PROVE FilePart(k)'
    <3>1. CASE k # j BY <1>0, <1>1, <2>2, <3>1 DEF FilePart, Gone
    <3>2. CASE k = j
      <4>1. request'[j] = "closed" => (j \in staged' => j \in cleanupFailed')
        BY <1>0, <1>1 DEF HttpT
      <4>2. QED BY <1>0, <1>1, <2>3, <2>4, <3>2, <4>1 DEF FilePart, Gone
    <3>3. QED BY <3>1, <3>2
  <2>6. QED BY <2>1, <2>5 DEF FileInv
<1>2. CASE Reserve(j)
  <2>1. request[j] = "none" /\ request' = [request EXCEPT ![j] = "receiving"]
        /\ staged' \in {staged, staged \cup {j}}
        /\ UNCHANGED <<state, registered, deleting, outputs, cleanupFailed>>
    BY <1>2 DEF Reserve, jobVars
  <2>2. QED BY <1>1, <2>1
<1>3. ASSUME NEW n \in Chunks, Receive(j, n) PROVE FileInv'
  <2>1. request[j] \in {"receiving", "rejected"}
        /\ request' \in {request, [request EXCEPT ![j] = "rejected"]}
        /\ UNCHANGED <<state, registered, deleting, staged, outputs, cleanupFailed>>
    BY <1>3 DEF Receive, jobVars, fileVars
  <2>2. QED BY <1>1, <2>1
<1>4. CASE Disconnect(j)
  <2>1. /\ request[j] \in {"receiving", "rejected"}
        /\ request' = [request EXCEPT ![j] = "closed"]
        /\ \/ staged' = staged \ {j} /\ cleanupFailed' = cleanupFailed
           \/ staged' = staged \cup {j} /\ cleanupFailed' = cleanupFailed \cup {j}
        /\ UNCHANGED <<state, registered, deleting, outputs>>
    BY <1>4 DEF Disconnect, jobVars
  <2>2. QED BY <1>1, <2>1
<1>5. CASE Submit(j)
  <2>1. /\ request[j] = "receiving" /\ request' = [request EXCEPT ![j] = "submitted"]
        /\ registered' = registered \cup {j} /\ staged' = staged \cup {j}
        /\ state' = [state EXCEPT ![j] = "queued"] /\ UNCHANGED <<deleting, outputs, cleanupFailed>>
    BY <1>5 DEF Submit
  <2>2. /\ state'[j] = "queued" /\ request'[j] = "submitted"
        /\ \A k \in Id \ {j} : state'[k] = state[k] /\ request'[k] = request[k]
    BY <1>0, <2>1 DEF HttpT
  <2>3. state[j] = "none" /\ j \notin registered BY <2>1 DEF RequestInv
  <2>4. ASSUME NEW k \in Id PROVE FilePart(k)'
    <3>1. CASE k # j BY <1>0, <2>1, <2>2, <3>1 DEF FilePart, Gone
    <3>2. CASE k = j BY <1>0, <2>1, <2>2, <2>3, <3>2 DEF FilePart, Gone
    <3>3. QED BY <3>1, <3>2
  <2>5. QED BY <1>0, <2>1, <2>4 DEF FileInv, FileT
<1>6. CASE Cancel(j)
  <2>1. /\ j \in registered \ deleting /\ state' = [state EXCEPT ![j] = "cancelling"]
        /\ UNCHANGED <<request, registered, deleting, staged, outputs, cleanupFailed>>
    BY <1>6 DEF Cancel, httpVars, fileVars
  <2>2. /\ state'[j] = "cancelling" /\ \A k \in Id \ {j} : state'[k] = state[k]
    BY <1>0, <2>1
  <2>3. ASSUME NEW k \in Id PROVE FilePart(k)'
    <3>1. CASE k # j BY <1>0, <2>1, <2>2, <3>1 DEF FilePart, Gone
    <3>2. CASE k = j BY <1>0, <2>1, <2>2, <3>2 DEF FilePart, Gone
    <3>3. QED BY <3>1, <3>2
  <2>4. QED BY <1>0, <2>1, <2>3 DEF FileInv, FileT
<1>7. CASE RemoveBegin(j)
  <2>1. /\ j \in registered /\ Removable(j) /\ deleting' = deleting \cup {j}
        /\ UNCHANGED <<request, registered, state, staged, outputs, cleanupFailed>>
    BY <1>7 DEF RemoveBegin, jobVars, fileVars
  <2>2. state[j] \in Terminal /\ Quiet(j) BY <2>1 DEF Removable, Quiet
  <2>3. Team(j) = {} BY <2>2, QuietMeansIdle DEF Team
  <2>4. ASSUME NEW k \in Id PROVE FilePart(k)'
    BY <1>0, <2>1, <2>2, <2>3 DEF FilePart, Gone
  <2>5. QED BY <1>0, <2>1, <2>4 DEF FileInv, FileT
<1>8. CASE RemoveFails(j) \/ RemoveFiles(j)
  <2>1. /\ deleting' \subseteq deleting /\ outputs' \subseteq outputs
        /\ staged' \in {staged, staged \ {j}} /\ (j \notin staged' => j \notin outputs')
        /\ UNCHANGED <<request, registered, state, cleanupFailed>>
    <3>1. CASE RemoveFails(j) BY <3>1 DEF RemoveFails, jobVars
    <3>2. CASE RemoveFiles(j) BY <3>2 DEF RemoveFiles, jobVars, httpVars
    <3>3. QED BY <1>8, <3>1, <3>2
  <2>2. ASSUME NEW k \in Id PROVE FilePart(k)'
    BY <1>0, <2>1 DEF FilePart, Gone
  <2>3. QED BY <1>0, <2>1, <2>2 DEF FileInv, FileT
<1>9. CASE RemoveEnd(j)
  <2>1. /\ j \in deleting /\ j \notin staged /\ registered' = registered \ {j}
        /\ deleting' = deleting \ {j}
        /\ UNCHANGED <<request, state, staged, outputs, cleanupFailed>>
    BY <1>9 DEF RemoveEnd, jobVars, fileVars
  <2>2. ASSUME NEW k \in Id PROVE FilePart(k)'
    <3>1. CASE k # j BY <1>0, <2>1, <3>1 DEF FilePart, Gone
    <3>2. CASE k = j BY <1>0, <2>1, <3>2 DEF FilePart, Gone
    <3>3. QED BY <3>1, <3>2
  <2>3. QED BY <1>0, <2>1, <2>2 DEF FileInv, FileT
<1>10. QED BY <1>2, <1>3, <1>4, <1>5, <1>6, <1>7, <1>8, <1>9 DEF Connection

\* What leaves every job that is over and at rest alone keeps its files as they are.
LEMMA WorkFiles ==
  ASSUME Inv, FileInv, NEW j \in Id, WorkMove(j) \/ Still, UNCHANGED httpVars,
         UNCHANGED fileVars \/ \E i \in Id : WritesFor(i)
  PROVE  FileInv'
<1>0. /\ \A k \in Id : FilePart(k)
      /\ FileT /\ UNCHANGED <<request, registered, deleting>>
  BY DEF FileInv, httpVars
<1>1. ASSUME NEW k \in Id
      PROVE  /\ state[k] \in Terminal /\ Team(k) = {} => state'[k] = state[k] /\ Team(k)' = Team(k)
             /\ state'[k] = "cancelled" => state[k] = "cancelled"
             /\ state[k] # "none" => state'[k] # "none"
  BY <1>1, WorkLeavesOver DEF Same
<1>2. CASE UNCHANGED fileVars
  <2>1. ASSUME NEW k \in Id PROVE FilePart(k)'
    <3>1. FilePart(k) BY <1>0
    <3>2. UNCHANGED <<staged, outputs, cleanupFailed>> BY <1>2 DEF fileVars
    <3>3. j \in Id /\ (k \in deleting \/ Gone(k) => state'[k] \in Terminal /\ Team(k)' = {})
      BY <1>1, <3>1 DEF FilePart
    <3>4. QED BY <1>0, <1>1, <3>1, <3>2, <3>3 DEF FilePart, Gone
  <2>2. QED BY <1>0, <1>2, <2>1 DEF FileInv, FileT, fileVars
<1>3. ASSUME NEW i \in Id, WritesFor(i) PROVE FileInv'
  <2>1. PICK t \in Thread : t \in Team(i) BY <1>3 DEF WritesFor, Team
  <2>2. held[t] = i BY <2>1, TeamIs
  <2>3. state[i] # "none" BY <2>2, Kinds DEF Inv, RunInv, JobInv, FreshPart, Thread, AllThreads
  <2>4. state[i] # "cancelled"
    <3>1. SUFFICES ASSUME state[i] = "cancelled" PROVE FALSE OBVIOUS
    <3>2. Quiet(i) BY <3>1 DEF Inv, CleanInv, CleanPart
    <3>3. ~Working(t, i) BY <3>2, QuietMeansIdle DEF Inv
    <3>4. QED BY <2>1, <3>3 DEF Team
  <2>5. i \notin deleting /\ ~Gone(i) BY <1>0, <2>1 DEF FilePart
  <2>6. request[i] = "submitted" BY <2>3 DEF Inv, RequestInv
  <2>7. /\ staged' = staged \cup {i} /\ outputs \subseteq outputs' /\ outputs' \subseteq outputs \cup {i}
        /\ cleanupFailed' = cleanupFailed
    BY <1>3 DEF WritesFor
  <2>8. ASSUME NEW k \in Id PROVE FilePart(k)'
    <3>1. FilePart(k) BY <1>0
    <3>2. k \in deleting \/ Gone(k) => state'[k] \in Terminal /\ Team(k)' = {}
      BY <1>1, <3>1 DEF FilePart
    <3>3. CASE k = i BY <1>0, <1>1, <2>3, <2>4, <2>5, <2>6, <2>7, <3>2, <3>3 DEF FilePart, Gone
    <3>4. CASE k # i BY <1>0, <1>1, <2>7, <3>1, <3>2, <3>4 DEF FilePart, Gone
    <3>5. QED BY <3>3, <3>4
  <2>9. FileT' BY <1>0, <2>7 DEF FileT
  <2>10. QED BY <2>8, <2>9 DEF FileInv
<1>4. QED BY <1>2, <1>3

LEMMA CleanerTeams ==
  ASSUME ThreadT, CleanupThread, NEW k \in Id
  PROVE  Team(k)' = Team(k)
<1>1. \A u \in Thread : held'[u] = held[u] /\ pc'[u] = pc[u]
  BY Kinds DEF CleanupThread, TakeCleanup, Cleanup, CleanerExits, Stop, Release, Goto, ThreadT,
     Thread, AllThreads
<1>2. \A u \in Thread : u \in Team(k)' <=> u \in Team(k) BY <1>1, TeamIs, TeamNext
<1>3. QED BY <1>2 DEF Team

LEMMA FileStep == Inv /\ Inv' /\ ResultInv /\ FileInv /\ [Next]_vars => FileInv'
<1> SUFFICES ASSUME Inv, Inv', ResultInv, FileInv, [Next]_vars PROVE FileInv' OBVIOUS
<1>0. TypeInv /\ ThreadT /\ RunInv /\ RunInv' /\ RequestInv /\ CleanInv BY DEF Inv, TypeInv
<1>1. ASSUME NEW j \in Id, Connection(j) PROVE FileInv' BY <1>0, <1>1, ConnectionFiles
<1>2. ASSUME \/ \E r \in Readers : Reader(r)
             \/ \E w \in PageWorkers : PageWorker(w)
      PROVE  FileInv'
  <2>1. Still \/ \E j \in Id : WorkMove(j) BY <1>0, <1>2, ReaderMove, PageWorkerMove
  <2>2. UNCHANGED fileVars \/ \E i \in Id : WritesFor(i) BY <1>0, <1>2, ThreadFiles
  <2>3. UNCHANGED httpVars BY <1>2, ThreadHttp
  <2>4. CASE Id = {}
    BY <2>2, <2>3, <2>4 DEF FileInv, FileT, httpVars, fileVars
  <2>5. CASE Id # {}
    <3>1. \E j \in Id : WorkMove(j) \/ Still BY <2>1, <2>5
    <3>2. QED BY <2>2, <2>3, <3>1, WorkFiles
  <2>6. QED BY <2>4, <2>5
<1>3. CASE CleanupThread
  <2>0. \A k \in Id : FilePart(k) /\ Team(k)' = Team(k) BY <1>0, <1>3, CleanerTeams DEF FileInv
  <2>1. UNCHANGED <<request, registered, deleting>> BY <1>3, ThreadHttp DEF httpVars
  <2>2. CASE Cleanup
    <3>1. PICK j \in Id : held[Cleaner] = j BY <1>0, <2>2, Holds, Kinds DEF Cleanup
    <3>2. state[j] = "cancelling" BY <1>0, <2>2, <3>1 DEF Cleanup, CleanInv, CleanPart, AtCleaner
    <3>3. state'[j] = "cancelled" /\ \A k \in Id \ {j} : state'[k] = state[k]
      BY <1>0, <2>2, <3>1 DEF Cleanup, TypeInv, JobT
    <3>4. /\ staged' = staged
          /\ \/ outputs' = outputs \ {j} /\ cleanupFailed' = cleanupFailed
             \/ outputs' = outputs /\ cleanupFailed' = cleanupFailed \cup {j}
      BY <2>2, <3>1 DEF Cleanup
    <3>5. ASSUME NEW k \in Id PROVE FilePart(k)'
      <4>1. CASE k = j BY <2>0, <2>1, <3>2, <3>3, <3>4, <4>1 DEF FilePart, Gone, Terminal
      <4>2. CASE k # j BY <2>0, <2>1, <3>3, <3>4, <4>2 DEF FilePart, Gone
      <4>3. QED BY <4>1, <4>2
    <3>6. FileT' BY <2>1, <3>4 DEF FileInv, FileT
    <3>7. QED BY <3>5, <3>6 DEF FileInv
  <2>3. CASE TakeCleanup \/ CleanerExits
    <3>1. UNCHANGED <<state, fileVars>> BY <2>3 DEF TakeCleanup, CleanerExits, Stop, jobVars
    <3>2. ASSUME NEW k \in Id PROVE FilePart(k)'
      BY <2>0, <2>1, <3>1 DEF FilePart, Gone, fileVars
    <3>3. QED BY <2>1, <3>1, <3>2 DEF FileInv, FileT, fileVars
  <2>4. QED BY <1>3, <2>2, <2>3 DEF CleanupThread
<1>4. CASE BeginShutdown \/ BeginCleanupShutdown \/ Ended \/ UNCHANGED vars
  <2>1. UNCHANGED <<state, httpVars, fileVars, pc, held>>
    BY <1>4 DEF BeginShutdown, BeginCleanupShutdown, Ended, vars, jobVars, threadVars
  <2>2. \A k \in Id : Team(k)' = Team(k)
    BY <2>1 DEF Team, Working, Reading, Processing, Finalizing
  <2>3. ASSUME NEW k \in Id PROVE FilePart(k)'
    BY <2>1, <2>2 DEF FileInv, FilePart, Gone, httpVars, fileVars
  <2>4. QED BY <2>1, <2>3 DEF FileInv, FileT, httpVars, fileVars
<1>5. QED BY <1>1, <1>2, <1>3, <1>4 DEF Next

LEMMA ResultAlways == Spec => []ResultInv
  BY ResultInit, ResultStep, Invariant, PTL DEF Spec

LEMMA FileAlways == Spec => []FileInv
  BY FileInit, FileStep, Invariant, ResultAlways, PTL DEF Spec

(* The output of a cancelled job is gone, unless its removal failed, and a *)
(* deleted job leaves no directory, although workers may have held the job *)
(* when it ended.  A request that was not submitted leaves at most what it *)
(* has uploaded, and only if the removal of that failed.                   *)
THEOREM NothingComesBack == Spec => []NoResurrectedFiles
<1>1. FileInv => NoResurrectedFiles
  BY DEF FileInv, FileT, FilePart, Gone, NoResurrectedFiles
<1>2. QED BY <1>1, FileAlways, PTL

-----------------------------------------------------------------------------
(* The scheduler implements JobLifecycle.                                  *)

Status(j) == IF Gone(j) THEN "deleted" ELSE state[j]
Work(j) == Cardinality(Team(j))
Unseen(j) == Status(j)' = Status(j) /\ Work(j)' = Work(j)

\* The refinement mapping: what ServerScheduler substitutes for the variables of JobLifecycle.
StatusMap == [j \in Id |-> IF request[j] = "submitted" /\ j \notin registered
                          THEN "deleted" ELSE state[j]]
WorkMap == [j \in Id |-> Cardinality({t \in Thread : Working(t, j)})]

LEMMA Mapped == \A j \in Id : /\ StatusMap[j] = Status(j) /\ StatusMap'[j] = Status(j)'
                              /\ WorkMap[j] = Work(j) /\ WorkMap'[j] = Work(j)'
  BY DEF StatusMap, WorkMap, Status, Work, Gone, Team

MapTo(j, s, n) ==
  StatusMap' = [StatusMap EXCEPT ![j] = s] /\ WorkMap' = [WorkMap EXCEPT ![j] = n]

LEMMA MapMove ==
  ASSUME NEW j \in Id, NEW STATE s, NEW STATE n, Status(j)' = s, Work(j)' = n,
         \A k \in Id \ {j} : Unseen(k)
  PROVE  MapTo(j, s, n)
<1>1. DOMAIN StatusMap = Id /\ DOMAIN StatusMap' = Id /\ DOMAIN WorkMap = Id /\ DOMAIN WorkMap' = Id
  BY DEF StatusMap, WorkMap
<1>2. /\ StatusMap = [k \in DOMAIN StatusMap |-> StatusMap[k]]
      /\ StatusMap' = [k \in DOMAIN StatusMap' |-> StatusMap'[k]]
      /\ WorkMap = [k \in DOMAIN WorkMap |-> WorkMap[k]]
      /\ WorkMap' = [k \in DOMAIN WorkMap' |-> WorkMap'[k]]
  BY DEF StatusMap, WorkMap
<1>3. \A k \in Id : /\ StatusMap'[k] = IF k = j THEN s ELSE StatusMap[k]
                    /\ WorkMap'[k] = IF k = j THEN n ELSE WorkMap[k]
  BY Mapped DEF Unseen
<1>4. QED BY <1>1, <1>2, <1>3 DEF MapTo

LEMMA AbstractStutter ==
  ASSUME \A k \in Id : Unseen(k)
  PROVE  UNCHANGED Lifecycle!vars
<1>1. StatusMap' = StatusMap BY DEF StatusMap, Unseen, Status, Gone
<1>2. WorkMap' = WorkMap BY DEF WorkMap, Unseen, Work, Team
<1>3. QED BY <1>1, <1>2 DEF Lifecycle!vars, StatusMap, WorkMap

LEMMA TeamSizes ==
  ASSUME NEW j \in Id
  PROVE  /\ IsFiniteSet(Team(j)) /\ Work(j) \in Nat
         /\ \A t \in Team(j) : Work(j) > 0 /\ Cardinality(Team(j) \ {t}) = Work(j) - 1
         /\ \A t \in Thread \ Team(j) : Cardinality(Team(j) \cup {t}) = Work(j) + 1
         /\ \A t : Cardinality({t}) = 1
         /\ Cardinality({}) = 0
<1>1. IsFiniteSet(Team(j))
  <2>1. IsFiniteSet(Thread) BY SchedulerAssumption, FS_Union DEF Thread
  <2>2. QED BY <2>1, FS_Subset DEF Team
<1>2. Work(j) \in Nat BY <1>1, FS_CardinalityType DEF Work
<1>3. ASSUME NEW t \in Team(j)
      PROVE  Work(j) > 0 /\ Cardinality(Team(j) \ {t}) = Work(j) - 1
  <2>1. Cardinality(Team(j) \ {t}) = Cardinality(Team(j)) - 1 BY <1>1, FS_RemoveElement
  <2>2. Team(j) # {} BY <1>3
  <2>3. Cardinality(Team(j)) # 0 BY <1>1, <2>2, FS_EmptySet
  <2>4. QED BY <1>2, <2>1, <2>3 DEF Work
<1>4. ASSUME NEW t \in Thread \ Team(j) PROVE Cardinality(Team(j) \cup {t}) = Work(j) + 1
  BY <1>1, <1>4, FS_AddElement DEF Work
<1>5. QED BY <1>1, <1>2, <1>3, <1>4, FS_EmptySet, FS_Singleton

\* A step of a thread that moves job j is one of the lifecycle's.
LEMMA WorkImplements ==
  ASSUME TypeInv, FileInv, UNCHANGED httpVars, NEW j \in Id, WorkMove(j)
  PROVE  Lifecycle!Next
<1>1. \A k \in Id : Gone(k)' <=> Gone(k) BY DEF Gone, httpVars
<1>2. ~Gone(j)
  <2>1. ~(state[j] \in Terminal /\ Team(j) = {}) BY DEF WorkMove, Terminal
  <2>2. QED BY <2>1 DEF FileInv, FilePart
<1>3. Status(j) = state[j] /\ Status(j)' = state'[j] BY <1>1, <1>2 DEF Status
<1>4. ASSUME NEW STATE s, NEW STATE T, Moved(j, s, T) PROVE MapTo(j, s, Cardinality(T))
  <2>1. Status(j)' = s /\ Work(j)' = Cardinality(T) BY <1>3, <1>4 DEF Moved, Work
  <2>2. \A k \in Id \ {j} : Unseen(k) BY <1>1, <1>4 DEF Moved, Same, Unseen, Status, Work
  <2>3. QED BY <2>1, <2>2, MapMove
<1>5. /\ IsFiniteSet(Team(j)) /\ Work(j) \in Nat
      /\ \A t \in Team(j) : Work(j) > 0 /\ Cardinality(Team(j) \ {t}) = Work(j) - 1
      /\ \A t \in Thread \ Team(j) : Cardinality(Team(j) \cup {t}) = Work(j) + 1
      /\ \A t : Cardinality({t}) = 1
      /\ Cardinality({}) = 0
  BY TeamSizes
<1>6. StatusMap[j] = state[j] /\ WorkMap[j] = Work(j) BY <1>3, Mapped
<1>7. CASE state[j] = "queued" /\ \E t \in Thread : Moved(j, "reading", {t})
  <2>1. MapTo(j, "reading", 1) BY <1>4, <1>5, <1>7
  <2>2. Lifecycle!Read(j)
    BY <1>6, <1>7, <2>1 DEF Lifecycle!Read, Lifecycle!Move, MapTo, StatusMap, WorkMap
  <2>3. QED BY <2>2 DEF Lifecycle!Next
<1>8. CASE state[j] \in {"reading", "processing"} /\ Moved(j, "processing", Team(j))
  <2>1. MapTo(j, "processing", WorkMap[j]) BY <1>4, <1>6, <1>8 DEF Work
  <2>2. Lifecycle!Progress(j)
    BY <1>6, <1>8, <2>1 DEF Lifecycle!Progress, Lifecycle!Move, MapTo, StatusMap, WorkMap
  <2>3. QED BY <2>2 DEF Lifecycle!Next
<1>9. CASE state[j] = "processing" /\ \E t \in Thread \ Team(j) : Moved(j, "processing", Team(j) \cup {t})
  <2>1. PICK t \in Thread \ Team(j) : Moved(j, "processing", Team(j) \cup {t}) BY <1>9
  <2>2. MapTo(j, "processing", Cardinality(Team(j) \cup {t})) BY <1>4, <2>1
  <2>3. Cardinality(Team(j) \cup {t}) = WorkMap[j] + 1 BY <1>5, <1>6
  <2>4. MapTo(j, StatusMap[j], WorkMap[j] + 1) BY <1>6, <1>9, <2>2, <2>3
  <2>5. Lifecycle!StartWork(j)
    BY <1>6, <1>9, <2>4 DEF Lifecycle!StartWork, Lifecycle!Move, MapTo, StatusMap, WorkMap
  <2>6. QED BY <2>5 DEF Lifecycle!Next
<1>10. CASE /\ state[j] \in {"processing", "failed", "cancelling"}
            /\ \E t \in Team(j) : Moved(j, state[j], Team(j) \ {t})
  <2>1. PICK t \in Team(j) : Moved(j, state[j], Team(j) \ {t}) BY <1>10
  <2>2. MapTo(j, state[j], Cardinality(Team(j) \ {t})) BY <1>4, <2>1
  <2>3. Cardinality(Team(j) \ {t}) = WorkMap[j] - 1 /\ WorkMap[j] > 0 BY <1>5, <1>6
  <2>4. MapTo(j, StatusMap[j], WorkMap[j] - 1) BY <1>6, <2>2, <2>3
  <2>5. Lifecycle!StopWork(j)
    BY <1>6, <1>10, <2>3, <2>4 DEF Lifecycle!StopWork, Lifecycle!Move, MapTo, StatusMap, WorkMap
  <2>6. QED BY <2>5 DEF Lifecycle!Next
<1>11. CASE state[j] = "processing" /\ \E t \in Thread : Team(j) = {t} /\ Moved(j, "finalizing", Team(j))
  <2>1. MapTo(j, "finalizing", 1) /\ WorkMap[j] = 1 BY <1>4, <1>5, <1>6, <1>11 DEF Work
  <2>2. Lifecycle!Finalize(j)
    BY <1>6, <1>11, <2>1 DEF Lifecycle!Finalize, Lifecycle!Move, MapTo, StatusMap, WorkMap
  <2>3. QED BY <2>2 DEF Lifecycle!Next
<1>12. CASE state[j] = "finalizing" /\ \E t \in Thread : Team(j) = {t} /\ Moved(j, "succeeded", {})
  <2>1. MapTo(j, "succeeded", 0) BY <1>4, <1>5, <1>12
  <2>2. Lifecycle!Succeed(j)
    BY <1>6, <1>12, <2>1 DEF Lifecycle!Succeed, Lifecycle!Move, MapTo, StatusMap, WorkMap
  <2>3. QED BY <2>2 DEF Lifecycle!Next
<1>13. CASE /\ state[j] \in {"reading", "processing", "finalizing"}
            /\ \E t \in Team(j) : Moved(j, "failed", Team(j) \ {t})
  <2>1. PICK t \in Team(j) : Moved(j, "failed", Team(j) \ {t}) BY <1>13
  <2>2. MapTo(j, "failed", Cardinality(Team(j) \ {t})) BY <1>4, <2>1
  <2>3. Cardinality(Team(j) \ {t}) = WorkMap[j] - 1 BY <1>5, <1>6
  <2>4. MapTo(j, "failed", WorkMap[j] - 1) BY <2>2, <2>3
  <2>5. Lifecycle!Fail(j)
    BY <1>6, <1>13, <2>4 DEF Lifecycle!Fail, Lifecycle!Running, Lifecycle!Move, MapTo, StatusMap,
       WorkMap
  <2>6. QED BY <2>5 DEF Lifecycle!Next
<1>14. QED BY <1>7, <1>8, <1>9, <1>10, <1>11, <1>12, <1>13 DEF WorkMove

LEMMA ConnectionImplements ==
  ASSUME TypeInv, RunInv, RequestInv, FileInv, NEW j \in Id, Connection(j)
  PROVE  Lifecycle!Next \/ UNCHANGED Lifecycle!vars
<1>0. \A k \in Id : Team(k)' = Team(k) /\ Work(k)' = Work(k) BY ConnectionTeams DEF Work
<1>1. \A k \in Id : StatusMap[k] = Status(k) /\ WorkMap[k] = Work(k) BY Mapped
<1>2. CASE Submit(j)
  <2>1. /\ request[j] = "receiving" /\ request' = [request EXCEPT ![j] = "submitted"]
        /\ registered' = registered \cup {j} /\ state' = [state EXCEPT ![j] = "queued"]
    BY <1>2 DEF Submit
  <2>2. /\ state'[j] = "queued" /\ request'[j] = "submitted"
        /\ \A k \in Id \ {j} : state'[k] = state[k] /\ request'[k] = request[k]
    BY <2>1 DEF TypeInv, JobT, HttpT
  <2>3. Status(j) = "none" /\ Status(j)' = "queued" BY <2>1, <2>2 DEF Status, Gone, RequestInv
  <2>4. \A k \in Id \ {j} : Unseen(k) BY <1>0, <2>1, <2>2 DEF Unseen, Status, Gone
  <2>5. Work(j)' = 0
    <3>1. \A t \in AllThreads : held[t] # j BY <2>1 DEF RequestInv, RunInv, JobInv, FreshPart
    <3>2. Team(j) = {} BY <3>1, TeamIs, Kinds DEF Team, Thread, AllThreads
    <3>3. QED BY <1>0, <3>2, FS_EmptySet DEF Work
  <2>6. MapTo(j, "queued", 0) BY <2>3, <2>4, <2>5, MapMove
  <2>7. Lifecycle!Accept(j)
    BY <1>1, <2>3, <2>6 DEF Lifecycle!Accept, Lifecycle!Move, MapTo, StatusMap, WorkMap
  <2>8. QED BY <2>7 DEF Lifecycle!Next
<1>3. CASE Cancel(j)
  <2>1. /\ j \in registered /\ ~Settled(j) /\ state' = [state EXCEPT ![j] = "cancelling"]
        /\ UNCHANGED <<request, registered>>
    BY <1>3 DEF Cancel, httpVars
  <2>2. state'[j] = "cancelling" /\ \A k \in Id \ {j} : state'[k] = state[k]
    BY <2>1 DEF TypeInv, JobT
  <2>3. state[j] \in {"queued", "reading", "processing", "finalizing"}
    <3>1. state[j] # "none" BY <2>1 DEF RequestInv
    <3>2. QED BY <2>1, <3>1 DEF TypeInv, JobT, Settled, Live, Terminal
  <2>4. Status(j) = state[j] /\ Status(j)' = "cancelling" BY <2>1, <2>2 DEF Status, Gone
  <2>5. \A k \in Id \ {j} : Unseen(k) BY <1>0, <2>1, <2>2 DEF Unseen, Status, Gone
  <2>6. MapTo(j, "cancelling", WorkMap[j]) BY <1>0, <1>1, <2>4, <2>5, MapMove
  <2>7. Lifecycle!RequestCancel(j)
    BY <1>1, <2>3, <2>4, <2>6 DEF Lifecycle!RequestCancel, Lifecycle!Running, Lifecycle!Move,
       MapTo, StatusMap, WorkMap
  <2>8. QED BY <2>7 DEF Lifecycle!Next
<1>4. CASE RemoveEnd(j)
  <2>1. /\ j \in deleting /\ registered' = registered \ {j} /\ UNCHANGED <<request, state>>
    BY <1>4 DEF RemoveEnd, jobVars
  <2>2. j \in registered /\ state[j] \in Terminal /\ Team(j) = {} BY <2>1 DEF FileInv, FilePart
  <2>3. request[j] = "submitted" BY <2>2 DEF RequestInv
  <2>4. Status(j) = state[j] /\ Status(j)' = "deleted" BY <2>1, <2>2, <2>3 DEF Status, Gone
  <2>5. \A k \in Id \ {j} : Unseen(k) BY <1>0, <2>1 DEF Unseen, Status, Gone
  <2>6. Work(j) = 0 /\ Work(j)' = 0 BY <1>0, <2>2, FS_EmptySet DEF Work
  <2>7. MapTo(j, "deleted", 0) BY <2>4, <2>5, <2>6, MapMove
  <2>8. Lifecycle!Delete(j)
    BY <1>1, <2>2, <2>4, <2>6, <2>7 DEF Lifecycle!Delete, Lifecycle!Ended, Terminal,
       Lifecycle!Move, MapTo, StatusMap, WorkMap
  <2>9. QED BY <2>8 DEF Lifecycle!Next
<1>5. CASE ~(Submit(j) \/ Cancel(j) \/ RemoveEnd(j))
  <2>1. UNCHANGED <<state, registered>>
    BY <1>5 DEF Connection, Reserve, Receive, Disconnect, RemoveBegin, RemoveFails, RemoveFiles,
       jobVars, httpVars
  <2>2. \A k \in Id : request'[k] = "submitted" <=> request[k] = "submitted"
    <3>1. CASE Reserve(j) BY <3>1 DEF Reserve, TypeInv, HttpT
    <3>2. ASSUME NEW n \in Chunks, Receive(j, n)
          PROVE  \A k \in Id : request'[k] = "submitted" <=> request[k] = "submitted"
      BY <3>2 DEF Receive, TypeInv, HttpT
    <3>3. CASE Disconnect(j) BY <3>3 DEF Disconnect, TypeInv, HttpT
    <3>4. CASE RemoveBegin(j) \/ RemoveFails(j) \/ RemoveFiles(j)
      BY <3>4 DEF RemoveBegin, RemoveFails, RemoveFiles, httpVars
    <3>5. QED BY <1>5, <3>1, <3>2, <3>3, <3>4 DEF Connection
  <2>3. \A k \in Id : Unseen(k) BY <1>0, <2>1, <2>2 DEF Unseen, Status, Gone
  <2>4. QED BY <2>3, AbstractStutter
<1>6. QED BY <1>2, <1>3, <1>4, <1>5

LEMMA CleanupImplements ==
  ASSUME TypeInv, RunInv, CleanInv, FileInv, Cleanup
  PROVE  Lifecycle!Next
<1>0. CleanupThread /\ ThreadT BY DEF CleanupThread, TypeInv
<1>1. PICK j \in Id : held[Cleaner] = j BY <1>0, Holds, Kinds DEF Cleanup
<1>2. state[j] = "cancelling" /\ Quiet(j) BY <1>1 DEF Cleanup, CleanInv, CleanPart, AtCleaner
<1>3. state'[j] = "cancelled" /\ \A k \in Id \ {j} : state'[k] = state[k]
  BY <1>1 DEF Cleanup, TypeInv, JobT
<1>4. \A k \in Id : Team(k)' = Team(k) BY <1>0, CleanerTeams
<1>5. UNCHANGED <<request, registered>> BY <1>0, ThreadHttp DEF httpVars
<1>6. Team(j) = {} BY <1>2, QuietMeansIdle DEF Team
<1>7. ~Gone(j) BY <1>2 DEF FileInv, FilePart, Terminal
<1>8. Status(j) = state[j] /\ Status(j)' = "cancelled" BY <1>3, <1>5, <1>7 DEF Status, Gone
<1>9. \A k \in Id \ {j} : Unseen(k) BY <1>3, <1>4, <1>5 DEF Unseen, Status, Gone, Work
<1>10. Work(j) = 0 /\ Work(j)' = 0 BY <1>4, <1>6, FS_EmptySet DEF Work
<1>11. MapTo(j, "cancelled", 0) BY <1>8, <1>9, <1>10, MapMove
<1>12. StatusMap[j] = Status(j) /\ WorkMap[j] = Work(j) BY Mapped
<1>13. Lifecycle!FinishCancel(j)
  BY <1>2, <1>8, <1>10, <1>11, <1>12 DEF Lifecycle!FinishCancel, Lifecycle!Move, MapTo, StatusMap,
     WorkMap
<1>14. QED BY <1>13 DEF Lifecycle!Next

LEMMA StepImplements ==
  ASSUME Inv, Inv', ResultInv, FileInv, [Next]_vars
  PROVE  [Lifecycle!Next]_(Lifecycle!vars)
<1>0. TypeInv /\ ThreadT /\ RunInv /\ RunInv' /\ RequestInv /\ CleanInv BY DEF Inv, TypeInv
<1>1. ASSUME NEW j \in Id, Connection(j) PROVE Lifecycle!Next \/ UNCHANGED Lifecycle!vars
  BY <1>0, <1>1, ConnectionImplements
<1>2. ASSUME \A k \in Id : Team(k)' = Team(k), UNCHANGED <<state, httpVars>>
      PROVE  UNCHANGED Lifecycle!vars
  <2>1. \A k \in Id : Unseen(k) BY <1>2 DEF Unseen, Status, Gone, Work, httpVars
  <2>2. QED BY <2>1, AbstractStutter
<1>3. ASSUME \/ \E r \in Readers : Reader(r)
             \/ \E w \in PageWorkers : PageWorker(w)
      PROVE  Lifecycle!Next \/ UNCHANGED Lifecycle!vars
  <2>1. Still \/ \E j \in Id : WorkMove(j) BY <1>0, <1>3, ReaderMove, PageWorkerMove
  <2>2. UNCHANGED httpVars BY <1>3, ThreadHttp
  <2>3. CASE Still
    <3>1. \A k \in Id : Unseen(k)
      BY <2>2, <2>3 DEF Still, Same, Unseen, Status, Gone, Work, httpVars
    <3>2. QED BY <3>1, AbstractStutter
  <2>4. CASE \E j \in Id : WorkMove(j) BY <1>0, <2>2, <2>4, WorkImplements
  <2>5. QED BY <2>1, <2>3, <2>4
<1>4. CASE CleanupThread
  <2>1. CASE Cleanup BY <1>0, <2>1, CleanupImplements
  <2>2. CASE TakeCleanup \/ CleanerExits
    <3>1. UNCHANGED <<state, httpVars>> BY <2>2 DEF TakeCleanup, CleanerExits, Stop, jobVars
    <3>2. QED BY <1>0, <1>2, <1>4, <3>1, CleanerTeams
  <2>3. QED BY <1>4, <2>1, <2>2 DEF CleanupThread
<1>5. CASE BeginShutdown \/ BeginCleanupShutdown \/ Ended \/ UNCHANGED vars
  <2>1. UNCHANGED <<state, httpVars, pc, held>>
    BY <1>5 DEF BeginShutdown, BeginCleanupShutdown, Ended, vars, jobVars, threadVars
  <2>2. \A k \in Id : Team(k)' = Team(k)
    BY <2>1 DEF Team, Working, Reading, Processing, Finalizing
  <2>3. QED BY <1>2, <2>1, <2>2
<1>6. QED BY <1>1, <1>3, <1>4, <1>5 DEF Next

LEMMA InitImplements == Init => Lifecycle!Init
<1> SUFFICES ASSUME Init PROVE Lifecycle!Init OBVIOUS
<1>1. \A j \in Id : {t \in Thread : Working(t, j)} = {}
  BY Kinds DEF Init, Working, Reading, Processing, Finalizing, Thread, AllThreads
<1>2. QED BY <1>1, FS_EmptySet DEF Init, Lifecycle!Init

(* Every step of the scheduler is, for the jobs a client sees, a step of   *)
(* JobLifecycle or none at all: the status changes as the REST interface   *)
(* promises, and no thread starts on a job that has ended.                 *)
THEOREM Refinement == Spec => ImplementsLifecycle
<1>1. Inv /\ Inv' /\ ResultInv /\ FileInv /\ [Next]_vars => [Lifecycle!Next]_(Lifecycle!vars)
  BY StepImplements
<1>2. QED
  BY <1>1, InitImplements, Invariant, ResultAlways, FileAlways, PTL
     DEF Spec, ImplementsLifecycle, Lifecycle!Spec

-----------------------------------------------------------------------------
(* Quotas.  The bytes that a set of jobs, pages or readers accounts for    *)
(* are counted as pairs <<x, i>>, i = 1, 2, ..., the number of its bytes.  *)

Pairs(S, m, f) == {x \in S \X (1 .. m) : x[2] <= f[x[1]]}

LEMMA Segment == \A n \in Nat : IsFiniteSet(1 .. n) /\ Cardinality(1 .. n) = n
<1>1. \A n \in Int : IsFiniteSet(1 .. n) /\ Cardinality(1 .. n) = IF 1 > n THEN 0 ELSE n - 1 + 1
  BY FS_Interval
<1>2. QED BY <1>1

LEMMA PairsOne ==
  \A j, m, f : m \in Nat /\ f[j] \in 0 .. m =>
    IsFiniteSet(Pairs({j}, m, f)) /\ Cardinality(Pairs({j}, m, f)) = f[j]
<1> TAKE j, m, f
<1> SUFFICES ASSUME m \in Nat, f[j] \in 0 .. m
             PROVE  IsFiniteSet(Pairs({j}, m, f)) /\ Cardinality(Pairs({j}, m, f)) = f[j]
  OBVIOUS
<1> DEFINE n == f[j]
           g == [i \in 1 .. n |-> <<j, i>>]
<1>1. n \in Nat /\ n <= m OBVIOUS
<1>2. Pairs({j}, m, f) = {<<j, i>> : i \in 1 .. n} BY <1>1 DEF Pairs
<1> HIDE DEF n
<1>3. g \in Bijection(1 .. n, Pairs({j}, m, f))
  <2>1. g \in [1 .. n -> Pairs({j}, m, f)] BY <1>2
  <2>2. IsInjective(g) BY DEF IsInjective
  <2>3. \A t \in Pairs({j}, m, f) : \E i \in 1 .. n : g[i] = t BY <1>2
  <2>4. QED BY <2>1, <2>2, <2>3 DEF Bijection, Injection, Surjection
<1>4. ExistsBijection(1 .. n, Pairs({j}, m, f)) BY <1>3 DEF ExistsBijection
<1>5. IsFiniteSet(1 .. n) /\ Cardinality(1 .. n) = n
  BY <1>1, Segment
<1>6. QED BY <1>4, <1>5, FS_Bijection DEF n

LEMMA PairsFinite ==
  \A S, m, f : IsFiniteSet(S) /\ m \in Nat =>
    IsFiniteSet(Pairs(S, m, f)) /\ Cardinality(Pairs(S, m, f)) \in Nat
<1> TAKE S, m, f
<1> SUFFICES ASSUME IsFiniteSet(S), m \in Nat
             PROVE  IsFiniteSet(Pairs(S, m, f)) /\ Cardinality(Pairs(S, m, f)) \in Nat
  OBVIOUS
<1>1. IsFiniteSet(1 .. m) BY Segment
<1>2. IsFiniteSet(S \X (1 .. m)) BY <1>1, FS_Product
<1>3. Pairs(S, m, f) \in SUBSET (S \X (1 .. m)) BY DEF Pairs
<1>4. QED BY <1>2, <1>3, FS_Subset, FS_CardinalityType

LEMMA PairsAdd ==
  \A S, j, m, f : IsFiniteSet(S) /\ m \in Nat /\ j \notin S /\ f[j] \in 0 .. m =>
    Cardinality(Pairs(S \cup {j}, m, f)) = Cardinality(Pairs(S, m, f)) + f[j]
<1> TAKE S, j, m, f
<1> SUFFICES ASSUME IsFiniteSet(S), m \in Nat, j \notin S, f[j] \in 0 .. m
             PROVE  Cardinality(Pairs(S \cup {j}, m, f)) = Cardinality(Pairs(S, m, f)) + f[j]
  OBVIOUS
<1>1. Pairs(S \cup {j}, m, f) = Pairs(S, m, f) \cup Pairs({j}, m, f) BY DEF Pairs
<1>2. Pairs(S, m, f) \cap Pairs({j}, m, f) = {} BY DEF Pairs
<1>3. Cardinality(Pairs(S, m, f) \cap Pairs({j}, m, f)) = 0 BY <1>2, FS_EmptySet
<1>4. /\ IsFiniteSet(Pairs(S, m, f)) /\ Cardinality(Pairs(S, m, f)) \in Nat
      /\ IsFiniteSet(Pairs({j}, m, f)) /\ Cardinality(Pairs({j}, m, f)) = f[j]
  BY PairsFinite, PairsOne
<1>5. Cardinality(Pairs(S, m, f) \cup Pairs({j}, m, f))
        = Cardinality(Pairs(S, m, f)) + Cardinality(Pairs({j}, m, f))
          - Cardinality(Pairs(S, m, f) \cap Pairs({j}, m, f))
  BY <1>4, FS_Union
<1>6. Cardinality(Pairs(S \cup {j}, m, f)) = Cardinality(Pairs(S, m, f)) + f[j] - 0
  BY <1>1, <1>3, <1>4, <1>5, Zenon
<1>7. f[j] \in Nat OBVIOUS
<1>8. QED BY <1>4, <1>6, <1>7

LEMMA PairsLess ==
  \A S, j, m, f : IsFiniteSet(S) /\ m \in Nat /\ j \in S /\ f[j] \in 0 .. m =>
    /\ Cardinality(Pairs(S \ {j}, m, f)) = Cardinality(Pairs(S, m, f)) - f[j]
    /\ f[j] <= Cardinality(Pairs(S, m, f))
<1> TAKE S, j, m, f
<1> SUFFICES ASSUME IsFiniteSet(S), m \in Nat, j \in S, f[j] \in 0 .. m
             PROVE  /\ Cardinality(Pairs(S \ {j}, m, f)) = Cardinality(Pairs(S, m, f)) - f[j]
                    /\ f[j] <= Cardinality(Pairs(S, m, f))
  OBVIOUS
<1> DEFINE rest == S \ {j}
<1>1. IsFiniteSet(rest) /\ j \notin rest /\ rest \cup {j} = S BY FS_Subset
<1>2. Cardinality(Pairs(rest, m, f)) \in Nat BY <1>1, PairsFinite
<1> HIDE DEF rest
<1>3. Cardinality(Pairs(rest \cup {j}, m, f)) = Cardinality(Pairs(rest, m, f)) + f[j]
  BY <1>1, PairsAdd
<1>4. f[j] \in Nat OBVIOUS
<1>5. Cardinality(Pairs(S, m, f)) = Cardinality(Pairs(rest, m, f)) + f[j] BY <1>1, <1>3
<1>6. QED BY <1>2, <1>4, <1>5 DEF rest

LEMMA PairsSame ==
  \A S, m, f, g : (\A j \in S : f[j] = g[j]) => Pairs(S, m, f) = Pairs(S, m, g)
  BY DEF Pairs

LEMMA PairsMinus ==
  \A S, T, m, f : IsFiniteSet(S) /\ m \in Nat /\ T \subseteq S =>
    Cardinality(Pairs(S \ T, m, f)) = Cardinality(Pairs(S, m, f)) - Cardinality(Pairs(T, m, f))
<1> TAKE S, T, m, f
<1> SUFFICES ASSUME IsFiniteSet(S), m \in Nat, T \subseteq S
             PROVE  Cardinality(Pairs(S \ T, m, f))
                      = Cardinality(Pairs(S, m, f)) - Cardinality(Pairs(T, m, f))
  OBVIOUS
<1> DEFINE all == Pairs(S, m, f)
           some == Pairs(T, m, f)
<1>1. Pairs(S \ T, m, f) = all \ some /\ all \cap some = some BY DEF Pairs
<1>2. IsFiniteSet(all) /\ Cardinality(all) \in Nat BY PairsFinite
<1>3. IsFiniteSet(T) BY FS_Subset
<1>4. IsFiniteSet(some) /\ Cardinality(some) \in Nat BY <1>3, PairsFinite
<1> HIDE DEF all, some
<1>5. Cardinality(all \ some) = Cardinality(all) - Cardinality(all \cap some)
  BY <1>2, <1>4, FS_Difference
<1>6. QED BY <1>1, <1>5 DEF all, some

-----------------------------------------------------------------------------
(* Uploads.                                                                *)

\* A reservation lasts until the request is submitted or closed, nothing is uploaded
\* before it, and no upload alone exceeds the limit.
UploadPart(j) ==
  /\ request[j] \in {"receiving", "rejected"} => j \in reservations
  /\ request[j] = "none" => uploadBytes[j] = 0
  /\ j \in Owing => uploadBytes[j] <= MaxInflightUploadBytes
UploadT == uploadBytes \in [Id -> Nat] /\ inflightUploadBytes \in Int
UploadInv == UploadT /\ UploadLedger /\ \A j \in Id : UploadPart(j)

Charged(S, f) == Cardinality(Pairs(S, MaxInflightUploadBytes, f))

LEMMA Uploaded ==
  /\ Cardinality(UploadedSet) = Charged(Owing, uploadBytes)
  /\ Cardinality(UploadedSet') = Charged(Owing', uploadBytes')
  BY DEF UploadedSet, Charged, Pairs

LEMMA ChargedAdd ==
  \A S, j, f : IsFiniteSet(S) /\ MaxInflightUploadBytes \in Nat /\ j \notin S
               /\ f[j] \in 0 .. MaxInflightUploadBytes =>
    Charged(S \cup {j}, f) = Charged(S, f) + f[j]
<1> TAKE S, j, f
<1> HAVE IsFiniteSet(S) /\ MaxInflightUploadBytes \in Nat /\ j \notin S
         /\ f[j] \in 0 .. MaxInflightUploadBytes
<1>1. Cardinality(Pairs(S \cup {j}, MaxInflightUploadBytes, f))
        = Cardinality(Pairs(S, MaxInflightUploadBytes, f)) + f[j]
  BY PairsAdd
<1>2. QED BY <1>1 DEF Charged

LEMMA ChargedLess ==
  \A S, j, f : IsFiniteSet(S) /\ MaxInflightUploadBytes \in Nat /\ j \in S
               /\ f[j] \in 0 .. MaxInflightUploadBytes =>
    /\ Charged(S \ {j}, f) = Charged(S, f) - f[j]
    /\ f[j] <= Charged(S, f)
<1> TAKE S, j, f
<1> HAVE IsFiniteSet(S) /\ MaxInflightUploadBytes \in Nat /\ j \in S
         /\ f[j] \in 0 .. MaxInflightUploadBytes
<1>1. /\ Cardinality(Pairs(S \ {j}, MaxInflightUploadBytes, f))
           = Cardinality(Pairs(S, MaxInflightUploadBytes, f)) - f[j]
      /\ f[j] <= Cardinality(Pairs(S, MaxInflightUploadBytes, f))
  BY PairsLess
<1>2. QED BY <1>1 DEF Charged

LEMMA FiniteOwing == HttpT => IsFiniteSet(Owing)
<1>1. HttpT => Owing \subseteq Id BY DEF Owing, ActiveSet, HttpT
<1>2. QED BY <1>1, SchedulerAssumption, FS_Subset

LEMMA UploadInit == Init => UploadInv
<1> SUFFICES ASSUME Init PROVE UploadInv OBVIOUS
<1>1. Owing = {} BY DEF Init, Owing, ActiveSet, Live
<1>2. UploadedSet = {} BY <1>1 DEF UploadedSet
<1>3. UploadLedger BY <1>2, FS_EmptySet, SchedulerAssumption DEF Init, UploadLedger
<1>4. UploadT /\ \A j \in Id : UploadPart(j) BY <1>1 DEF Init, UploadT, UploadPart
<1>5. QED BY <1>3, <1>4 DEF UploadInv

\* Neither an account nor who has one changes.
LEMMA UploadsKept ==
  ASSUME UploadInv, Owing' = Owing, UNCHANGED <<uploadBytes, inflightUploadBytes>>,
         \A k \in Id : /\ request'[k] \in {"receiving", "rejected"} => k \in reservations'
                       /\ request'[k] = "none" => request[k] = "none"
  PROVE  UploadInv'
<1>1. UploadedSet' = UploadedSet BY DEF UploadedSet
<1>2. QED BY <1>1 DEF UploadInv, UploadT, UploadLedger, UploadPart

\* An account is closed, with all that was charged to it.
LEMMA UploadsReturned ==
  ASSUME TypeInv, UploadInv, NEW j \in Owing, Owing' = Owing \ {j}, UNCHANGED uploadBytes,
         inflightUploadBytes' = inflightUploadBytes - uploadBytes[j],
         \A k \in Id : /\ request'[k] \in {"receiving", "rejected"} => k \in reservations'
                       /\ request'[k] = "none" => request[k] = "none"
  PROVE  UploadInv'
<1>1. j \in Id BY DEF TypeInv, HttpT, Owing, ActiveSet
<1>2. /\ IsFiniteSet(Owing) /\ MaxInflightUploadBytes \in Nat
      /\ uploadBytes[j] \in 0 .. MaxInflightUploadBytes /\ uploadBytes[j] \in Nat
  BY <1>1, FiniteOwing, SchedulerAssumption DEF TypeInv, UploadInv, UploadT, UploadPart
<1>3. Charged(Owing \ {j}, uploadBytes) = Charged(Owing, uploadBytes) - uploadBytes[j]
  BY <1>2, ChargedLess
<1>4. inflightUploadBytes = Charged(Owing, uploadBytes) /\ inflightUploadBytes <= MaxInflightUploadBytes
      /\ inflightUploadBytes \in Int
  BY Uploaded DEF UploadInv, UploadT, UploadLedger
<1>5. inflightUploadBytes' = Cardinality(UploadedSet') BY <1>3, <1>4, Uploaded
<1>6. inflightUploadBytes' \in Int /\ inflightUploadBytes' <= MaxInflightUploadBytes
  BY <1>2, <1>4
<1>7. UploadT' /\ UploadLedger' BY <1>5, <1>6 DEF UploadInv, UploadT, UploadLedger
<1>8. QED BY <1>7 DEF UploadInv, UploadPart

LEMMA ReserveUploads ==
  ASSUME Inv, UploadInv, NEW j \in Id, Reserve(j)
  PROVE  UploadInv'
<1>1. /\ request[j] = "none" /\ reservations' = reservations \cup {j}
      /\ request' = [request EXCEPT ![j] = "receiving"]
      /\ UNCHANGED <<uploadBytes, inflightUploadBytes, state>>
  BY DEF Reserve, counters, jobVars
<1>2. request'[j] = "receiving" /\ \A k \in Id \ {j} : request'[k] = request[k]
  BY <1>1 DEF Inv, TypeInv, HttpT
<1>3. j \notin Owing /\ Owing' = Owing \cup {j} /\ uploadBytes[j] = 0
  <2>1. j \notin reservations /\ state[j] = "none" BY <1>1 DEF Inv, RequestInv
  <2>2. uploadBytes[j] = 0 BY <1>1 DEF UploadInv, UploadPart
  <2>3. QED BY <1>1, <2>1, <2>2 DEF Owing, ActiveSet, Live
<1>4. IsFiniteSet(Owing) /\ MaxInflightUploadBytes \in Nat /\ uploadBytes[j] \in 0 .. MaxInflightUploadBytes
  BY <1>3, FiniteOwing, SchedulerAssumption DEF Inv, TypeInv
<1>5. Charged(Owing \cup {j}, uploadBytes) = Charged(Owing, uploadBytes) + uploadBytes[j]
  BY <1>3, <1>4, ChargedAdd
<1>6. Charged(Owing, uploadBytes) = inflightUploadBytes /\ inflightUploadBytes \in Int
  BY Uploaded DEF UploadInv, UploadT, UploadLedger
<1>7. Charged(Owing', uploadBytes') = inflightUploadBytes' BY <1>1, <1>3, <1>5, <1>6
<1>8. UploadLedger' BY <1>1, <1>7, Uploaded DEF UploadInv, UploadLedger
<1>9. \A k \in Id : UploadPart(k)' BY <1>1, <1>2, <1>3, <1>4 DEF UploadInv, UploadPart
<1>10. QED BY <1>1, <1>8, <1>9 DEF UploadInv, UploadT

LEMMA ReceiveUploads ==
  ASSUME Inv, UploadInv, NEW j \in Id, NEW n \in Chunks, Receive(j, n)
  PROVE  UploadInv'
<1>1. /\ request[j] = "receiving" /\ UNCHANGED <<reservations, state>>
      /\ \/ request' = request \/ request' = [request EXCEPT ![j] = "rejected"]
  BY DEF Receive, jobVars
<1>2. /\ j \in reservations /\ j \in Owing /\ Owing' = Owing
  BY <1>1 DEF UploadInv, UploadPart, Owing, ActiveSet
<1>3. \A k \in Id : /\ request'[k] \in {"receiving", "rejected"} => k \in reservations'
                    /\ request'[k] = "none" => request[k] = "none"
  BY <1>1, <1>2 DEF UploadInv, UploadPart, Inv, TypeInv, HttpT
<1>4. CASE UNCHANGED <<inflightUploadBytes, uploadBytes>> BY <1>2, <1>3, <1>4, UploadsKept
<1>5. CASE /\ n <= MaxInflightUploadBytes - inflightUploadBytes
           /\ inflightUploadBytes' = inflightUploadBytes + n
           /\ uploadBytes' = [uploadBytes EXCEPT ![j] = @ + n]
  <2>1. /\ IsFiniteSet(Owing) /\ IsFiniteSet(Owing \ {j}) /\ MaxInflightUploadBytes \in Nat
        /\ n \in Nat /\ uploadBytes[j] \in Nat /\ inflightUploadBytes \in Int
        /\ uploadBytes[j] \in 0 .. MaxInflightUploadBytes
    <3>1. IsFiniteSet(Owing) BY FiniteOwing DEF Inv, TypeInv
    <3>2. IsFiniteSet(Owing \ {j}) BY <3>1, FS_Subset
    <3>3. QED BY <1>2, <3>1, <3>2, SchedulerAssumption DEF UploadInv, UploadT, UploadPart
  <2>2. uploadBytes'[j] = uploadBytes[j] + n /\ \A k \in Id \ {j} : uploadBytes'[k] = uploadBytes[k]
    BY <1>5 DEF UploadInv, UploadT
  <2>3. inflightUploadBytes = Charged(Owing, uploadBytes) BY Uploaded DEF UploadInv, UploadLedger
  <2>4. /\ Charged(Owing \ {j}, uploadBytes) = Charged(Owing, uploadBytes) - uploadBytes[j]
        /\ uploadBytes[j] <= Charged(Owing, uploadBytes)
    BY <1>2, <2>1, ChargedLess
  <2>5. uploadBytes'[j] \in 0 .. MaxInflightUploadBytes BY <1>5, <2>1, <2>2, <2>3, <2>4
  <2>6. Charged(Owing \ {j}, uploadBytes') = Charged(Owing \ {j}, uploadBytes)
    <3>1. \A k \in Owing \ {j} : uploadBytes'[k] = uploadBytes[k]
      BY <2>2 DEF Owing, ActiveSet, Inv, TypeInv, HttpT
    <3>2. QED BY <3>1, PairsSame DEF Charged
  <2>7. Charged((Owing \ {j}) \cup {j}, uploadBytes') = Charged(Owing \ {j}, uploadBytes') + uploadBytes'[j]
    BY <2>1, <2>5, ChargedAdd
  <2>8. (Owing \ {j}) \cup {j} = Owing' BY <1>2
  <2>9. Charged(Owing', uploadBytes') = inflightUploadBytes + n
    <3>1. Charged(Owing', uploadBytes')
            = (Charged(Owing, uploadBytes) - uploadBytes[j]) + (uploadBytes[j] + n)
      BY <2>2, <2>4, <2>6, <2>7, <2>8
    <3>2. QED BY <2>1, <2>3, <3>1
  <2>10. UploadLedger' BY <1>5, <2>1, <2>9, Uploaded DEF UploadLedger
  <2>11. UploadT' BY <1>5, <2>1 DEF UploadInv, UploadT
  <2>12. \A k \in Id : UploadPart(k)'
    <3>1. \A k \in Id : k \in Owing' => uploadBytes'[k] <= MaxInflightUploadBytes
      BY <1>2, <2>2, <2>5 DEF UploadInv, UploadPart
    <3>2. \A k \in Id : request'[k] = "none" => uploadBytes'[k] = 0
      BY <1>1, <1>3, <2>2 DEF UploadInv, UploadPart
    <3>3. QED BY <1>3, <3>1, <3>2 DEF UploadPart
  <2>13. QED BY <2>10, <2>11, <2>12 DEF UploadInv
<1>6. QED BY <1>4, <1>5 DEF Receive

LEMMA ConnectionUploads ==
  ASSUME Inv, UploadInv, NEW j \in Id, Connection(j)
  PROVE  UploadInv'
<1>1. CASE Reserve(j) BY <1>1, ReserveUploads
<1>2. CASE \E n \in Chunks : Receive(j, n) BY <1>2, ReceiveUploads
<1>3. CASE Submit(j)
  <2>1. /\ j \in reservations /\ reservations' = reservations \ {j}
        /\ request' = [request EXCEPT ![j] = "submitted"] /\ state' = [state EXCEPT ![j] = "queued"]
        /\ UNCHANGED <<uploadBytes, inflightUploadBytes>>
    BY <1>3 DEF Submit
  <2>2. Owing' = Owing
    <3>1. state'[j] = "queued" /\ \A k \in Id \ {j} : state'[k] = state[k]
      BY <2>1 DEF Inv, TypeInv, JobT
    <3>2. QED BY <2>1, <3>1 DEF Owing, ActiveSet, Live
  <2>3. \A k \in Id : /\ request'[k] \in {"receiving", "rejected"} => k \in reservations'
                      /\ request'[k] = "none" => request[k] = "none"
    BY <2>1 DEF UploadInv, UploadPart, Inv, TypeInv, HttpT
  <2>4. QED BY <2>1, <2>2, <2>3, UploadsKept
<1>4. CASE Disconnect(j)
  <2>1. /\ request[j] \in {"receiving", "rejected"} /\ request' = [request EXCEPT ![j] = "closed"]
        /\ UNCHANGED <<uploadBytes, state>> /\ j \in reservations
        /\ reservations' = reservations \ {j}
        /\ inflightUploadBytes' = inflightUploadBytes - uploadBytes[j]
    BY <1>4 DEF Disconnect, UploadInv, UploadPart, jobVars
  <2>2. j \in Owing /\ Owing' = Owing \ {j}
    <3>1. state[j] = "none" BY <2>1 DEF Inv, RequestInv
    <3>2. QED BY <2>1, <3>1 DEF Owing, ActiveSet, Live
  <2>3. \A k \in Id : /\ request'[k] \in {"receiving", "rejected"} => k \in reservations'
                      /\ request'[k] = "none" => request[k] = "none"
    BY <2>1 DEF UploadInv, UploadPart, Inv, TypeInv, HttpT
  <2>4. QED BY <2>1, <2>2, <2>3, UploadsReturned DEF Inv
<1>5. CASE Cancel(j)
  <2>1. /\ ~Settled(j) /\ state' = [state EXCEPT ![j] = "cancelling"] /\ j \in registered
        /\ UNCHANGED <<httpVars, counters>>
    BY <1>5 DEF Cancel
  <2>2. state[j] # "none" BY <2>1 DEF Inv, RequestInv
  <2>3. Owing' = Owing
    <3>1. state[j] \in Live BY <2>1, <2>2 DEF Settled, Terminal, Live, Inv, TypeInv, JobT
    <3>2. state'[j] = "cancelling" /\ \A k \in Id \ {j} : state'[k] = state[k]
      BY <2>1 DEF Inv, TypeInv, JobT
    <3>3. QED BY <2>1, <3>1, <3>2 DEF Owing, ActiveSet, Live, httpVars
  <2>4. QED BY <2>1, <2>3, UploadsKept DEF httpVars, counters, UploadInv, UploadPart
<1>6. CASE RemoveBegin(j) \/ RemoveFails(j) \/ RemoveFiles(j) \/ RemoveEnd(j)
  <2>1. UNCHANGED <<request, reservations, uploadBytes, inflightUploadBytes, state>>
    BY <1>6 DEF RemoveBegin, RemoveFails, RemoveFiles, RemoveEnd, httpVars, counters, jobVars
  <2>2. Owing' = Owing BY <2>1 DEF Owing, ActiveSet
  <2>3. QED BY <2>1, <2>2, UploadsKept DEF UploadInv, UploadPart
<1>7. QED BY <1>1, <1>2, <1>3, <1>4, <1>5, <1>6 DEF Connection

\* A thread returns a job's quota exactly when it ends the job.
Returns ==
  \/ UNCHANGED <<activeJobs, inflightUploadBytes>>
  \/ \E j \in Id : ReturnQuota(j) /\ state[j] \notin Terminal /\ state'[j] \in Terminal

LEMMA FailReturns ==
  ASSUME TypeInv, NEW j \in Id, FailLocked(j)
  PROVE  Returns
<1>1. CASE Settled(j) BY <1>1 DEF FailLocked, Returns, counters
<1>2. CASE ~Settled(j)
  <2>1. ReturnQuota(j) /\ state'[j] = "failed" BY <1>2, FailEffect DEF FailLocked
  <2>2. QED BY <1>2, <2>1 DEF Returns, Settled, Terminal
<1>3. QED BY <1>1, <1>2

LEMMA FinalizeReturns ==
  ASSUME TypeInv, NEW t, NEW j \in Id, NEW found, FinalizeLocked(t, j, found)
  PROVE  Returns
<1>1. CASE MayFinalize(j) /\ found = {} BY <1>1, FailReturns DEF FinalizeLocked
<1>2. CASE ~(MayFinalize(j) /\ found = {}) BY <1>2 DEF FinalizeLocked, Returns, counters
<1>3. QED BY <1>1, <1>2

LEMMA ThreadReturns ==
  ASSUME TypeInv, RunInv, CleanInv,
         \/ \E r \in Readers : Reader(r)
         \/ \E w \in PageWorkers : PageWorker(w)
         \/ CleanupThread
  PROVE  Returns
<1>1. ASSUME NEW t \in Thread, Finalizer(t) PROVE Returns
  <2> t \in AllThreads BY Kinds
  <2>1. PICK j \in Id : held[t] = j
    BY <1>1, Holds DEF Finalizer, WriteResult, Publish, FinalizeFails, TypeInv
  <2>2. CASE WriteResult(t) BY <2>2 DEF WriteResult, Returns, counters
  <2>3. CASE Publish(t) /\ state[j] = "finalizing"
    <3>1. ReturnQuota(j) /\ state'[j] = "succeeded" BY <2>1, <2>3 DEF Publish, TypeInv, JobT
    <3>2. QED BY <2>3, <3>1 DEF Returns, Terminal
  <2>4. CASE Publish(t) /\ state[j] # "finalizing" BY <2>1, <2>4 DEF Publish, Returns, counters
  <2>5. CASE FinalizeFails(t) BY <2>1, <2>5, FailReturns DEF FinalizeFails
  <2>6. QED BY <1>1, <2>2, <2>3, <2>4, <2>5 DEF Finalizer
<1>2. ASSUME NEW r \in Readers, Reader(r), ~Finalizer(r) PROVE Returns
  <2> r \in AllThreads /\ r \in Thread BY Kinds
  <2>1. CASE TakeDocument(r) \/ (\E n \in PageBytes : RenderPage(r, n)) \/ ReservePage(r) \/ QueuePage(r)
             \/ ThreadExits(r)
    BY <2>1 DEF TakeDocument, RenderPage, ReservePage, QueuePage, ThreadExits, Stop, Returns,
       counters
  <2>2. CASE ReaderFails(r)
    <3>1. PICK j \in Id : held[r] = j BY <2>2, Holds DEF ReaderFails, TypeInv
    <3>2. QED BY <2>2, <3>1, FailReturns DEF ReaderFails
  <2>3. CASE EndOfDocument(r)
    <3>1. PICK j \in Id : held[r] = j BY <2>3, Holds DEF EndOfDocument, TypeInv
    <3>2. FinalizeLocked(r, j, collected[j]) BY <2>3, <3>1 DEF EndOfDocument
    <3>3. QED BY <3>2, FinalizeReturns
  <2>4. QED BY <1>2, <2>1, <2>2, <2>3 DEF Reader
<1>3. ASSUME NEW w \in PageWorkers, PageWorker(w), ~Finalizer(w) PROVE Returns
  <2> w \in AllThreads /\ w \in Thread BY Kinds
  <2>1. CASE TakePage(w) \/ StartPage(w) \/ WriteAsset(w) \/ ThreadExits(w)
    BY <2>1 DEF TakePage, StartPage, WriteAsset, ThreadExits, Stop, Returns, counters
  <2>2. CASE PageFails(w)
    <3>1. PICK j \in Id : held[w] = j BY <2>2, Holds DEF PageFails, TypeInv
    <3>2. QED BY <2>2, <3>1, FailReturns DEF PageFails
  <2>3. CASE PageDone(w)
    <3>1. PICK j \in Id : held[w] = j BY <2>3, Holds DEF PageDone, TypeInv
    <3>2. CASE Settled(j) BY <2>3, <3>1, <3>2 DEF PageDone, Returns, counters
    <3>3. CASE ~Settled(j)
      <4>1. PICK found : FinalizeLocked(w, j, found) BY <2>3, <3>1, <3>3 DEF PageDone
      <4>2. QED BY <4>1, FinalizeReturns
    <3>4. QED BY <3>2, <3>3
  <2>4. QED BY <1>3, <2>1, <2>2, <2>3 DEF PageWorker
<1>4. CASE CleanupThread
  <2>1. CASE TakeCleanup \/ CleanerExits
    BY <2>1 DEF TakeCleanup, CleanerExits, Stop, Returns, counters
  <2>2. CASE Cleanup
    <3> Cleaner \in AllThreads BY Kinds
    <3>1. PICK j \in Id : held[Cleaner] = j BY <2>2, Holds DEF Cleanup, TypeInv
    <3>2. state[j] = "cancelling" BY <2>2, <3>1 DEF Cleanup, CleanInv, CleanPart, AtCleaner
    <3>3. ReturnQuota(j) /\ state'[j] = "cancelled" BY <2>2, <3>1 DEF Cleanup, TypeInv, JobT
    <3>4. QED BY <3>2, <3>3 DEF Returns, Terminal
  <2>3. QED BY <1>4, <2>1, <2>2 DEF CleanupThread
<1>5. QED BY <1>1, <1>2, <1>3, <1>4, Kinds

LEMMA ThreadUploads ==
  ASSUME Inv, UploadInv,
         \/ \E r \in Readers : Reader(r)
         \/ \E w \in PageWorkers : PageWorker(w)
         \/ CleanupThread
  PROVE  UploadInv'
<1>1. UNCHANGED httpVars BY ThreadHttp
<1>2. Outcome BY ThreadOutcome DEF Inv
<1>3. Returns BY ThreadReturns DEF Inv
<1>4. \A k \in Id : /\ request'[k] \in {"receiving", "rejected"} => k \in reservations'
                    /\ request'[k] = "none" => request[k] = "none"
  BY <1>1 DEF httpVars, UploadInv, UploadPart
<1>5. activeJobs \in Int BY DEF Inv, TypeInv, CountT
<1>6. CASE Kept
  <2>1. Owing' = Owing BY <1>1, <1>6 DEF Owing, ActiveSet, Kept, httpVars
  <2>2. UNCHANGED inflightUploadBytes
    <3>1. activeJobs' # activeJobs - 1 BY <1>5, <1>6 DEF Kept
    <3>2. QED BY <1>3, <3>1 DEF Returns, ReturnQuota
  <2>3. QED BY <1>1, <1>4, <2>1, <2>2, UploadsKept DEF httpVars
<1>7. ASSUME NEW j \in Id, JobEnds(j) PROVE UploadInv'
  <2>1. activeJobs' = activeJobs - 1 /\ activeJobs' # activeJobs BY <1>5, <1>7 DEF JobEnds
  <2>2. PICK i \in Id : ReturnQuota(i) /\ state[i] \notin Terminal /\ state'[i] \in Terminal
    BY <1>3, <2>1 DEF Returns
  <2>3. i = j BY <1>7, <2>2 DEF JobEnds
  <2>4. inflightUploadBytes' = inflightUploadBytes - uploadBytes[j] BY <2>2, <2>3 DEF ReturnQuota
  <2>5. j \in Owing /\ Owing' = Owing \ {j}
    <3>1. j \notin reservations
      <4>1. state[j] # "none" BY <1>7 DEF JobEnds, Live
      <4>2. QED BY <4>1 DEF Inv, RequestInv
    <3>2. QED BY <1>1, <1>7, <3>1 DEF Owing, ActiveSet, JobEnds, httpVars, Live, Terminal
  <2>6. QED BY <1>1, <1>4, <2>4, <2>5, UploadsReturned DEF Inv, httpVars
<1>8. QED BY <1>2, <1>6, <1>7 DEF Outcome

LEMMA UploadStep == Inv /\ UploadInv /\ [Next]_vars => UploadInv'
<1> SUFFICES ASSUME Inv, UploadInv, [Next]_vars PROVE UploadInv' OBVIOUS
<1>1. CASE BeginShutdown \/ BeginCleanupShutdown \/ Ended \/ UNCHANGED vars
  <2>1. UNCHANGED <<httpVars, counters, state>>
    BY <1>1 DEF BeginShutdown, BeginCleanupShutdown, Ended, vars, jobVars
  <2>2. Owing' = Owing BY <2>1 DEF Owing, ActiveSet, httpVars
  <2>3. QED BY <2>1, <2>2, UploadsKept DEF httpVars, counters, UploadInv, UploadPart
<1>2. QED BY <1>1, ConnectionUploads, ThreadUploads DEF Next

-----------------------------------------------------------------------------
(* The page queue.                                                         *)

Sizes == [p \in Pending |-> p.bytes]
SpaceT == queuedPageBytes \in Int /\ reservedPages \in Int /\ reservedPageBytes \in Int

\* Every page that is queued or will be fits the queue, and the reserved bytes are
\* those of the readers that copy a page.
SpaceInv ==
  /\ SpaceT /\ QueueLedger
  /\ \A p \in pages : p.bytes <= MaxQueuedPageBytes
  /\ \A r \in Readers : pc[r] \in {"admit", "copy"} => bytes[r] <= MaxQueuedPageBytes
  /\ reservedPageBytes = Cardinality(Pairs(Copiers, MaxQueuedPageBytes, bytes))

LEMMA Limits == MaxQueuedPages \in Nat /\ MaxQueuedPageBytes \in Nat
  BY SchedulerAssumption

LEMMA PageSizes == \A n \in PageBytes : n \in Nat
  BY SchedulerAssumption

LEMMA FiniteCopiers ==
  /\ IsFiniteSet(Copiers) /\ Cardinality(Copiers) \in Nat
  /\ IsFiniteSet(Copiers') /\ Cardinality(Copiers') \in Nat
<1>1. Copiers \subseteq Readers /\ Copiers' \subseteq Readers BY DEF Copiers
<1>2. QED BY <1>1, SchedulerAssumption, FS_Subset, FS_CardinalityType

\* The bytes of queued pages, by the lemmas on pairs.
LEMMA BytesArePairs == \A S \in SUBSET Pending : ByteSet(S) = Pairs(S, MaxQueuedPageBytes, Sizes)
  BY DEF ByteSet, Pairs, Sizes

LEMMA BytesOfNone == Bytes({}) = 0
<1>1. ByteSet({}) = {} BY DEF ByteSet
<1>2. QED BY <1>1, FS_EmptySet DEF Bytes

LEMMA BytesNat ==
  ASSUME NEW S \in SUBSET Pending, IsFiniteSet(S)
  PROVE  Bytes(S) \in Nat
  BY BytesArePairs, PairsFinite, Limits DEF Bytes

LEMMA BytesMinus ==
  \A S \in SUBSET Pending : IsFiniteSet(S) =>
    \A T \in SUBSET S : Bytes(S \ T) = Bytes(S) - Bytes(T) /\ Bytes(T) \in Nat /\ Bytes(S) \in Nat
<1> TAKE S \in SUBSET Pending
<1> HAVE IsFiniteSet(S)
<1> TAKE T \in SUBSET S
<1>1. /\ ByteSet(S \ T) = Pairs(S \ T, MaxQueuedPageBytes, Sizes)
      /\ ByteSet(S) = Pairs(S, MaxQueuedPageBytes, Sizes)
      /\ ByteSet(T) = Pairs(T, MaxQueuedPageBytes, Sizes)
  BY BytesArePairs
<1>2. Cardinality(Pairs(S \ T, MaxQueuedPageBytes, Sizes))
        = Cardinality(Pairs(S, MaxQueuedPageBytes, Sizes)) - Cardinality(Pairs(T, MaxQueuedPageBytes, Sizes))
  BY PairsMinus, Limits
<1>3. IsFiniteSet(T) BY FS_Subset
<1>4. Bytes(T) \in Nat /\ Bytes(S) \in Nat BY <1>3, BytesNat
<1>5. QED BY <1>1, <1>2, <1>4 DEF Bytes

LEMMA BytesPlus ==
  \A S \in SUBSET Pending : IsFiniteSet(S) =>
    \A p \in Pending \ S : p.bytes <= MaxQueuedPageBytes => Bytes(S \cup {p}) = Bytes(S) + p.bytes
<1> TAKE S \in SUBSET Pending
<1> HAVE IsFiniteSet(S)
<1> TAKE p \in Pending \ S
<1> HAVE p.bytes <= MaxQueuedPageBytes
<1>1. /\ ByteSet(S \cup {p}) = Pairs(S \cup {p}, MaxQueuedPageBytes, Sizes)
      /\ ByteSet(S) = Pairs(S, MaxQueuedPageBytes, Sizes)
  BY BytesArePairs
<1>2. Sizes[p] = p.bytes /\ Sizes[p] \in 0 .. MaxQueuedPageBytes
  <2>1. p \in Pending /\ p.bytes \in PageBytes BY DEF Pending
  <2>2. p.bytes \in 0 .. MaxQueuedPageBytes BY <2>1, PageSizes, Limits
  <2>3. QED BY <2>1, <2>2 DEF Sizes
<1>3. Cardinality(Pairs(S \cup {p}, MaxQueuedPageBytes, Sizes))
        = Cardinality(Pairs(S, MaxQueuedPageBytes, Sizes)) + Sizes[p]
  BY <1>2, PairsAdd, Limits
<1>4. QED BY <1>1, <1>2, <1>3 DEF Bytes

LEMMA BytesOfPage ==
  \A p \in Pending : p.bytes <= MaxQueuedPageBytes => Bytes({p}) = p.bytes
<1> TAKE p \in Pending
<1> HAVE p.bytes <= MaxQueuedPageBytes
<1>1. ByteSet({p}) = Pairs({p}, MaxQueuedPageBytes, Sizes) BY BytesArePairs
<1>2. Sizes[p] = p.bytes /\ Sizes[p] \in 0 .. MaxQueuedPageBytes
  <2>1. p \in Pending /\ p.bytes \in PageBytes BY DEF Pending
  <2>2. p.bytes \in 0 .. MaxQueuedPageBytes BY <2>1, PageSizes, Limits
  <2>3. QED BY <2>1, <2>2 DEF Sizes
<1>3. Cardinality(Pairs({p}, MaxQueuedPageBytes, Sizes)) = Sizes[p] BY <1>2, PairsOne, Limits
<1>4. QED BY <1>1, <1>2, <1>3 DEF Bytes

LEMMA SpaceInit == Init => SpaceInv
<1> SUFFICES ASSUME Init PROVE SpaceInv OBVIOUS
<1>1. Copiers = {} /\ {r \in Readers : pc[r] = "copy"} = {} BY Kinds DEF Init, Copiers
<1>2. Pairs(Copiers, MaxQueuedPageBytes, bytes) = {} BY <1>1 DEF Pairs
<1>3. Cardinality({}) = 0 BY FS_EmptySet
<1>4. /\ pages = {} /\ queuedPageBytes = 0 /\ reservedPages = 0 /\ reservedPageBytes = 0
      /\ \A r \in Readers : pc[r] = "idle"
  BY Kinds DEF Init
<1>5. QueueLedger BY <1>1, <1>3, <1>4, BytesOfNone, Limits DEF QueueLedger
<1>6. QED BY <1>2, <1>3, <1>4, <1>5 DEF SpaceInv, SpaceT

\* Some queued pages go, with their bytes; no reservation is made or given back.
Discards ==
  /\ UNCHANGED reserveVars
  /\ \E T \in SUBSET pages : pages' = pages \ T /\ queuedPageBytes' = queuedPageBytes - Bytes(T)
Places ==
  \A r \in Readers :
    /\ pc'[r] = "copy" <=> pc[r] = "copy"
    /\ pc'[r] \in {"admit", "copy"} => pc[r] \in {"admit", "copy"} /\ bytes'[r] = bytes[r]

LEMMA SpaceDiscards ==
  ASSUME TypeInv, PagesInv, SpaceInv, Discards, Places
  PROVE  SpaceInv'
<1>1. PICK T \in SUBSET pages : pages' = pages \ T /\ queuedPageBytes' = queuedPageBytes - Bytes(T)
  BY DEF Discards
<1>2. pages \in SUBSET Pending /\ IsFiniteSet(pages) BY DEF TypeInv, QueueT, PagesInv
<1>3. Bytes(pages \ T) = Bytes(pages) - Bytes(T) /\ Bytes(T) \in Nat /\ Bytes(pages) \in Nat
  BY <1>2, BytesMinus
<1>4. /\ Cardinality(pages \ T) <= Cardinality(pages) /\ Cardinality(pages \ T) \in Nat
      /\ Cardinality(pages) \in Nat
  <2>1. IsFiniteSet(pages \ T) BY <1>2, FS_Subset
  <2>2. QED BY <1>2, <2>1, FS_Subset, FS_CardinalityType
<1>5. Copiers' = Copiers BY DEF Places, Copiers
<1>6. \A r \in Copiers : bytes'[r] = bytes[r] BY DEF Places, Copiers
<1>7. Pairs(Copiers', MaxQueuedPageBytes, bytes') = Pairs(Copiers, MaxQueuedPageBytes, bytes)
  BY <1>5, <1>6, PairsSame
<1>8. UNCHANGED <<reservedPages, reservedPageBytes>> BY DEF Discards, reserveVars
<1>9. /\ queuedPageBytes \in Int /\ queuedPageBytes = Bytes(pages)
      /\ reservedPages \in Int /\ reservedPageBytes \in Int
      /\ reservedPages = Cardinality(Copiers)
      /\ Cardinality(pages) + reservedPages <= MaxQueuedPages
      /\ queuedPageBytes + reservedPageBytes <= MaxQueuedPageBytes
  BY DEF SpaceInv, SpaceT, QueueLedger, Copiers
<1>10. Cardinality(pages \ T) + reservedPages <= MaxQueuedPages
  BY <1>4, <1>9, Limits
<1>11. /\ queuedPageBytes' \in Int /\ queuedPageBytes' = Bytes(pages')
       /\ queuedPageBytes' + reservedPageBytes <= MaxQueuedPageBytes
  BY <1>1, <1>3, <1>9, Limits
<1>12. QueueLedger'
  BY <1>1, <1>5, <1>8, <1>9, <1>10, <1>11 DEF QueueLedger, Copiers
<1>13. SpaceT' BY <1>8, <1>9, <1>11 DEF SpaceT
<1>14. \A r \in Readers : pc'[r] \in {"admit", "copy"} => bytes'[r] <= MaxQueuedPageBytes
  BY DEF Places, SpaceInv
<1>15. \A p \in pages' : p.bytes <= MaxQueuedPageBytes BY <1>1 DEF SpaceInv
<1>16. reservedPageBytes' = Cardinality(Pairs(Copiers', MaxQueuedPageBytes, bytes'))
  BY <1>7, <1>8 DEF SpaceInv
<1>17. QED BY <1>12, <1>13, <1>14, <1>15, <1>16 DEF SpaceInv

LEMMA NothingDiscarded ==
  ASSUME SpaceInv, UNCHANGED <<queueVars, reserveVars>>
  PROVE  Discards
<1>1. queuedPageBytes' = queuedPageBytes - Bytes({})
  BY BytesOfNone DEF SpaceInv, SpaceT, queueVars
<1>2. {} \in SUBSET pages /\ pages' = pages \ {} BY DEF queueVars
<1>3. QED BY <1>1, <1>2 DEF Discards

LEMMA SpaceFrame ==
  ASSUME TypeInv, PagesInv, SpaceInv, UNCHANGED <<queueVars, reserveVars>>, Places
  PROVE  SpaceInv'
  BY NothingDiscarded, SpaceDiscards

LEMMA PlacesOfRelease ==
  ASSUME ThreadT, NEW t \in AllThreads, Release(t), t \in Readers => pc[t] # "copy"
  PROVE  Places
<1>1. pc'[t] = "idle" /\ \A u \in AllThreads \ {t} : pc'[u] = pc[u] /\ bytes'[u] = bytes[u]
  BY ReleaseAll
<1>2. QED BY <1>1, Kinds DEF Places

LEMMA PlacesOfGoto ==
  ASSUME ThreadT, NEW t \in AllThreads, NEW label, Goto(t, label), label \notin {"admit", "copy"},
         t \in Readers => pc[t] # "copy", UNCHANGED bytes
  PROVE  Places
<1>1. pc'[t] = label /\ \A u \in AllThreads \ {t} : pc'[u] = pc[u]
  BY DEF Goto, ThreadT
<1>2. QED BY <1>1, Kinds DEF Places

LEMMA FailDiscards ==
  ASSUME SpaceInv, NEW j \in Id, FailLocked(j), UNCHANGED reserveVars
  PROVE  Discards
<1>1. CASE Settled(j) BY <1>1, NothingDiscarded DEF FailLocked
<1>2. CASE ~Settled(j)
  <2>1. DiscardPages(j) /\ PagesOf(j) \in SUBSET pages BY <1>2 DEF FailLocked, PagesOf
  <2>2. QED BY <2>1 DEF Discards, DiscardPages
<1>3. QED BY <1>1, <1>2

LEMMA FailSpace ==
  ASSUME TypeInv, PagesInv, SpaceInv, NEW j \in Id, FailLocked(j), NEW t \in AllThreads, Release(t),
         t \in Readers => pc[t] # "copy", UNCHANGED reserveVars
  PROVE  SpaceInv'
<1>1. Discards BY FailDiscards
<1>2. Places BY PlacesOfRelease DEF TypeInv
<1>3. QED BY <1>1, <1>2, SpaceDiscards

LEMMA FinalizeSpace ==
  ASSUME TypeInv, PagesInv, SpaceInv, NEW t \in Thread, NEW j \in Id, NEW found,
         FinalizeLocked(t, j, found), pc[t] # "copy", UNCHANGED reserveVars
  PROVE  SpaceInv'
<1> t \in AllThreads BY Kinds
<1>1. CASE MayFinalize(j) /\ found = {} BY <1>1, FailSpace DEF FinalizeLocked
<1>2. CASE MayFinalize(j) /\ found # {}
  <2>1. Goto(t, "finalize") /\ UNCHANGED <<bytes, queueVars>> BY <1>2 DEF FinalizeLocked
  <2>2. QED BY <2>1, PlacesOfGoto, SpaceFrame DEF TypeInv
<1>3. CASE ~MayFinalize(j)
  <2>1. Release(t) /\ UNCHANGED queueVars BY <1>3 DEF FinalizeLocked
  <2>2. QED BY <2>1, PlacesOfRelease, SpaceFrame DEF TypeInv
<1>4. QED BY <1>1, <1>2, <1>3

LEMMA FinalizerSpace ==
  ASSUME TypeInv, PagesInv, SpaceInv, NEW t \in Thread, Finalizer(t)
  PROVE  SpaceInv'
<1> t \in AllThreads BY Kinds
<1>1. CASE WriteResult(t)
  <2>1. Goto(t, "publish") /\ pc[t] # "copy" /\ UNCHANGED <<bytes, queueVars, reserveVars>>
    BY <1>1 DEF WriteResult, schedVars
  <2>2. QED BY <2>1, PlacesOfGoto, SpaceFrame DEF TypeInv
<1>2. CASE Publish(t)
  <2>1. Release(t) /\ pc[t] # "copy" /\ UNCHANGED <<queueVars, reserveVars>>
    BY <1>2 DEF Publish, schedVars
  <2>2. QED BY <2>1, PlacesOfRelease, SpaceFrame DEF TypeInv
<1>3. CASE FinalizeFails(t)
  <2>1. PICK j \in Id : held[t] = j BY <1>3, Holds DEF FinalizeFails, TypeInv
  <2>2. FailLocked(j) /\ Release(t) /\ pc[t] # "copy" /\ UNCHANGED reserveVars
    BY <1>3, <2>1 DEF FinalizeFails
  <2>3. QED BY <2>2, FailSpace
<1>4. QED BY <1>1, <1>2, <1>3 DEF Finalizer

LEMMA ReservePageSpace ==
  ASSUME TypeInv, PagesInv, SpaceInv, NEW r \in Readers, ReservePage(r)
  PROVE  SpaceInv'
<1> r \in AllThreads BY Kinds
<1>1. /\ pc[r] = "admit" /\ Goto(r, "copy") /\ Room(bytes[r])
      /\ reservedPages' = reservedPages + 1 /\ reservedPageBytes' = reservedPageBytes + bytes[r]
      /\ UNCHANGED <<pages, queuedPageBytes, bytes>>
  BY DEF ReservePage, queueVars
<1>2. pc'[r] = "copy" /\ \A u \in AllThreads \ {r} : pc'[u] = pc[u]
  BY <1>1 DEF Goto, TypeInv, ThreadT
<1>3. Copiers' = Copiers \cup {r} /\ r \notin Copiers BY <1>1, <1>2, Kinds DEF Copiers
<1>4. Cardinality(Copiers \cup {r}) = Cardinality(Copiers) + 1
  BY <1>3, FiniteCopiers, FS_AddElement
<1>5. bytes[r] \in Nat /\ bytes[r] \in 0 .. MaxQueuedPageBytes
  <2>1. bytes[r] \in Nat BY <1>1, PageSizes DEF TypeInv, ThreadT
  <2>2. bytes[r] <= MaxQueuedPageBytes BY <1>1 DEF SpaceInv
  <2>3. QED BY <2>1, <2>2, Limits
<1>6. Cardinality(Pairs(Copiers \cup {r}, MaxQueuedPageBytes, bytes))
        = Cardinality(Pairs(Copiers, MaxQueuedPageBytes, bytes)) + bytes[r]
  BY <1>3, <1>5, FiniteCopiers, PairsAdd, Limits
<1>7. /\ queuedPageBytes \in Int /\ reservedPages \in Int /\ reservedPageBytes \in Int
      /\ reservedPages = Cardinality(Copiers) /\ queuedPageBytes = Bytes(pages)
      /\ reservedPageBytes = Cardinality(Pairs(Copiers, MaxQueuedPageBytes, bytes))
  BY DEF SpaceInv, SpaceT, QueueLedger, Copiers
<1>8. Cardinality(pages) \in Nat BY FS_CardinalityType DEF PagesInv
<1>9. /\ Cardinality(pages) + (reservedPages + 1) <= MaxQueuedPages
      /\ queuedPageBytes + (reservedPageBytes + bytes[r]) <= MaxQueuedPageBytes
  BY <1>1, <1>5, <1>7, <1>8, Limits DEF Room
<1>10. SpaceT' BY <1>1, <1>5, <1>7 DEF SpaceT
<1>11. QueueLedger'
  <2>1. reservedPages' = Cardinality(Copiers') BY <1>1, <1>3, <1>4, <1>7
  <2>2. QED BY <1>1, <1>7, <1>9, <2>1 DEF QueueLedger, Copiers
<1>12. reservedPageBytes' = Cardinality(Pairs(Copiers', MaxQueuedPageBytes, bytes'))
  BY <1>1, <1>3, <1>6, <1>7
<1>13. \A u \in Readers : pc'[u] \in {"admit", "copy"} => bytes'[u] <= MaxQueuedPageBytes
  BY <1>1, <1>2, Kinds DEF SpaceInv
<1>14. \A p \in pages' : p.bytes <= MaxQueuedPageBytes BY <1>1 DEF SpaceInv
<1>15. QED BY <1>10, <1>11, <1>12, <1>13, <1>14 DEF SpaceInv

LEMMA QueuePageSpace ==
  ASSUME TypeInv, PagesInv, SpaceInv, NEW r \in Readers, QueuePage(r)
  PROVE  SpaceInv'
<1> r \in AllThreads BY Kinds
<1>1. /\ pc[r] = "copy" /\ reservedPages' = reservedPages - 1
      /\ reservedPageBytes' = reservedPageBytes - bytes[r] /\ bytes' = [bytes EXCEPT ![r] = 0]
  BY DEF QueuePage, ReturnPlace
<1>2. pc'[r] \in {"read", "caught"} /\ \A u \in AllThreads \ {r} : pc'[u] = pc[u] /\ bytes'[u] = bytes[u]
  BY <1>1 DEF QueuePage, Goto, TypeInv, ThreadT
<1>3. Copiers' = Copiers \ {r} /\ r \in Copiers BY <1>1, <1>2, Kinds DEF Copiers
<1>4. Cardinality(Copiers \ {r}) = Cardinality(Copiers) - 1
  BY <1>3, FiniteCopiers, FS_RemoveElement
<1>5. bytes[r] \in Nat /\ bytes[r] \in 0 .. MaxQueuedPageBytes /\ bytes[r] \in PageBytes
  <2>1. bytes[r] \in PageBytes BY <1>1 DEF TypeInv, ThreadT
  <2>2. bytes[r] <= MaxQueuedPageBytes BY <1>1 DEF SpaceInv
  <2>3. QED BY <2>1, <2>2, Limits, PageSizes
<1>6. Cardinality(Pairs(Copiers \ {r}, MaxQueuedPageBytes, bytes))
        = Cardinality(Pairs(Copiers, MaxQueuedPageBytes, bytes)) - bytes[r]
  BY <1>3, <1>5, FiniteCopiers, PairsLess, Limits
<1>7. \A u \in Copiers \ {r} : bytes[u] = bytes'[u] BY <1>2, Kinds DEF Copiers
<1>8. Pairs(Copiers \ {r}, MaxQueuedPageBytes, bytes) = Pairs(Copiers \ {r}, MaxQueuedPageBytes, bytes')
  BY <1>7, PairsSame
<1>9. /\ queuedPageBytes \in Int /\ reservedPages \in Int /\ reservedPageBytes \in Int
      /\ reservedPages = Cardinality(Copiers) /\ queuedPageBytes = Bytes(pages)
      /\ reservedPageBytes = Cardinality(Pairs(Copiers, MaxQueuedPageBytes, bytes))
      /\ Cardinality(pages) + reservedPages <= MaxQueuedPages
      /\ queuedPageBytes + reservedPageBytes <= MaxQueuedPageBytes
  BY DEF SpaceInv, SpaceT, QueueLedger, Copiers
<1>10. reservedPageBytes' = Cardinality(Pairs(Copiers', MaxQueuedPageBytes, bytes'))
  BY <1>1, <1>3, <1>6, <1>8, <1>9
<1>11. \A u \in Readers : pc'[u] \in {"admit", "copy"} => bytes'[u] <= MaxQueuedPageBytes
  BY <1>2, Kinds DEF SpaceInv
<1>12. reservedPages' = Cardinality(Copiers') BY <1>1, <1>3, <1>4, <1>9
<1>13. IsFiniteSet(pages) /\ Cardinality(pages) \in Nat BY FS_CardinalityType DEF PagesInv
<1>14. CASE UNCHANGED queueVars
  <2>1. UNCHANGED <<pages, queuedPageBytes>> BY <1>14 DEF queueVars
  <2>2. /\ Cardinality(pages) + (reservedPages - 1) <= MaxQueuedPages
        /\ queuedPageBytes + (reservedPageBytes - bytes[r]) <= MaxQueuedPageBytes
    BY <1>5, <1>9, <1>13, Limits
  <2>3. SpaceT' BY <1>1, <1>5, <1>9, <2>1 DEF SpaceT
  <2>4. QueueLedger' BY <1>1, <1>9, <1>12, <2>1, <2>2 DEF QueueLedger, Copiers
  <2>5. QED BY <1>10, <1>11, <2>1, <2>3, <2>4 DEF SpaceInv
<1>15. CASE ~UNCHANGED queueVars
  <2> DEFINE p == [job |-> held[r], number |-> page[r], sequence |-> sequence, bytes |-> bytes[r]]
  <2>1. pages' = pages \cup {p} /\ queuedPageBytes' = queuedPageBytes + bytes[r]
    BY <1>15 DEF QueuePage
  <2>2. p \in Pending /\ p.bytes = bytes[r]
    <3>1. held[r] \in Id BY <1>1, Holds DEF TypeInv
    <3>2. page[r] \in PageNumber /\ sequence \in Nat BY <1>1 DEF TypeInv, ThreadT, QueueT
    <3>3. QED BY <1>5, <3>1, <3>2 DEF Pending
  <2>3. p \notin pages
    <3>1. \A q \in pages : q.sequence < sequence BY DEF PagesInv
    <3>2. p.sequence = sequence /\ sequence \in Nat BY DEF TypeInv, QueueT
    <3>3. QED BY <3>1, <3>2
  <2> HIDE DEF p
  <2>4. pages \in SUBSET Pending BY DEF TypeInv, QueueT
  <2>5. Bytes(pages \cup {p}) = Bytes(pages) + bytes[r]
    BY <1>5, <1>13, <2>2, <2>3, <2>4, BytesPlus
  <2>6. Cardinality(pages \cup {p}) = Cardinality(pages) + 1 BY <1>13, <2>3, FS_AddElement
  <2>7. SpaceT' BY <1>1, <1>5, <1>9, <2>1 DEF SpaceT
  <2>8. /\ (Cardinality(pages) + 1) + (reservedPages - 1) <= MaxQueuedPages
        /\ (queuedPageBytes + bytes[r]) + (reservedPageBytes - bytes[r]) <= MaxQueuedPageBytes
    BY <1>5, <1>9, <1>13, Limits
  <2>9. queuedPageBytes' = Bytes(pages') BY <1>9, <2>1, <2>5
  <2>10. QueueLedger' BY <1>1, <1>12, <2>1, <2>6, <2>8, <2>9 DEF QueueLedger, Copiers
  <2>11. \A q \in pages' : q.bytes <= MaxQueuedPageBytes
    BY <1>5, <2>1, <2>2 DEF SpaceInv
  <2>12. QED BY <1>10, <1>11, <2>7, <2>10, <2>11 DEF SpaceInv
<1>16. QED BY <1>14, <1>15

LEMMA ReaderSpace ==
  ASSUME TypeInv, PagesInv, SpaceInv, NEW r \in Readers, Reader(r)
  PROVE  SpaceInv'
<1> r \in Thread /\ r \in AllThreads BY Kinds
<1>1. CASE TakeDocument(r)
  <2>1. /\ UNCHANGED <<queueVars, reserveVars, bytes>> /\ pc[r] = "idle"
        /\ UNCHANGED pc \/ Goto(r, "read")
    BY <1>1 DEF TakeDocument
  <2>2. Places
    <3>1. CASE UNCHANGED pc BY <2>1, <3>1 DEF Places
    <3>2. CASE Goto(r, "read") BY <2>1, <3>2, PlacesOfGoto DEF TypeInv
    <3>3. QED BY <2>1, <3>1, <3>2
  <2>3. QED BY <2>1, <2>2, SpaceFrame
<1>2. ASSUME NEW n \in PageBytes, RenderPage(r, n) PROVE SpaceInv'
  <2>1. /\ pc[r] = "read" /\ n <= MaxQueuedPageBytes /\ Goto(r, "admit")
        /\ bytes' = [bytes EXCEPT ![r] = n]
        /\ UNCHANGED <<pages, queuedPageBytes, reservedPages, reservedPageBytes>>
    BY <1>2 DEF RenderPage, schedVars, queueVars, reserveVars
  <2>2. /\ pc'[r] = "admit" /\ bytes'[r] = n
        /\ \A u \in AllThreads \ {r} : pc'[u] = pc[u] /\ bytes'[u] = bytes[u]
    BY <2>1 DEF Goto, TypeInv, ThreadT
  <2>3. Copiers' = Copiers /\ \A u \in Copiers : bytes'[u] = bytes[u]
    BY <2>1, <2>2, Kinds DEF Copiers
  <2>4. Pairs(Copiers', MaxQueuedPageBytes, bytes') = Pairs(Copiers, MaxQueuedPageBytes, bytes)
    BY <2>3, PairsSame
  <2>5. QueueLedger' BY <2>1, <2>3 DEF SpaceInv, QueueLedger, Copiers
  <2>6. \A u \in Readers : pc'[u] \in {"admit", "copy"} => bytes'[u] <= MaxQueuedPageBytes
    BY <2>1, <2>2, Kinds DEF SpaceInv
  <2>7. QED BY <2>1, <2>4, <2>5, <2>6 DEF SpaceInv, SpaceT
<1>3. CASE ReservePage(r) BY <1>3, ReservePageSpace
<1>4. CASE QueuePage(r) BY <1>4, QueuePageSpace
<1>5. CASE ReaderFails(r)
  <2>1. PICK j \in Id : held[r] = j BY <1>5, Holds DEF ReaderFails, TypeInv
  <2>2. FailLocked(j) /\ Release(r) /\ pc[r] # "copy" /\ UNCHANGED reserveVars
    BY <1>5, <2>1 DEF ReaderFails
  <2>3. QED BY <2>2, FailSpace
<1>6. CASE EndOfDocument(r)
  <2>1. PICK j \in Id : held[r] = j BY <1>6, Holds DEF EndOfDocument, TypeInv
  <2>2. FinalizeLocked(r, j, collected[j]) /\ pc[r] # "copy" /\ UNCHANGED reserveVars
    BY <1>6, <2>1 DEF EndOfDocument
  <2>3. QED BY <2>2, FinalizeSpace
<1>7. CASE Finalizer(r) BY <1>7, FinalizerSpace
<1>8. CASE ThreadExits(r)
  <2>1. Goto(r, "exited") /\ pc[r] = "idle" /\ UNCHANGED <<bytes, queueVars, reserveVars>>
    BY <1>8 DEF ThreadExits, Stop, schedVars
  <2>2. QED BY <2>1, PlacesOfGoto, SpaceFrame DEF TypeInv
<1>9. QED BY <1>1, <1>2, <1>3, <1>4, <1>5, <1>6, <1>7, <1>8 DEF Reader

LEMMA PageWorkerSpace ==
  ASSUME TypeInv, PagesInv, SpaceInv, NEW w \in PageWorkers, PageWorker(w)
  PROVE  SpaceInv'
<1> w \in Thread /\ w \in AllThreads /\ w \notin Readers BY Kinds
<1>0. pc[w] # "copy" BY DEF TypeInv, ThreadT
<1>1. CASE TakePage(w)
  <2>1. PICK p \in pages : pages' = pages \ {p} /\ queuedPageBytes' = queuedPageBytes - p.bytes
    BY <1>1 DEF TakePage
  <2>2. p \in Pending /\ p.bytes <= MaxQueuedPageBytes BY DEF TypeInv, QueueT, SpaceInv
  <2>3. Bytes({p}) = p.bytes BY <2>2, BytesOfPage
  <2>4. {p} \in SUBSET pages /\ queuedPageBytes' = queuedPageBytes - Bytes({p}) BY <2>1, <2>3
  <2>5. UNCHANGED <<reserveVars, bytes>> /\ Goto(w, "taken") BY <1>1 DEF TakePage
  <2>6. Discards BY <2>1, <2>4, <2>5 DEF Discards
  <2>7. Places BY <2>5, PlacesOfGoto DEF TypeInv
  <2>8. QED BY <2>6, <2>7, SpaceDiscards
<1>2. CASE StartPage(w)
  <2>1. UNCHANGED <<queueVars, reserveVars>> BY <1>2 DEF StartPage, schedVars
  <2>2. CASE Release(w) BY <2>1, <2>2, PlacesOfRelease, SpaceFrame DEF TypeInv
  <2>3. CASE Goto(w, "process") /\ UNCHANGED bytes
    BY <2>1, <2>3, PlacesOfGoto, SpaceFrame DEF TypeInv
  <2>4. QED BY <1>2, <2>2, <2>3 DEF StartPage
<1>3. CASE WriteAsset(w)
  <2>1. UNCHANGED <<queueVars, reserveVars, pc, bytes>>
    BY <1>3 DEF WriteAsset, schedVars, threadVars
  <2>2. QED BY <2>1, SpaceFrame DEF Places
<1>4. CASE PageDone(w)
  <2>1. PICK j \in Id : held[w] = j BY <1>4, Holds DEF PageDone, TypeInv
  <2>2. UNCHANGED reserveVars BY <1>4 DEF PageDone
  <2>3. CASE Settled(j)
    <3>1. Release(w) /\ UNCHANGED queueVars BY <1>4, <2>1, <2>3 DEF PageDone
    <3>2. QED BY <2>2, <3>1, PlacesOfRelease, SpaceFrame DEF TypeInv
  <2>4. CASE ~Settled(j)
    <3>1. PICK found : FinalizeLocked(w, j, found) BY <1>4, <2>1, <2>4 DEF PageDone
    <3>2. QED BY <1>0, <2>2, <3>1, FinalizeSpace
  <2>5. QED BY <2>3, <2>4
<1>5. CASE PageFails(w)
  <2>1. PICK j \in Id : held[w] = j BY <1>5, Holds DEF PageFails, TypeInv
  <2>2. FailLocked(j) /\ Release(w) /\ UNCHANGED reserveVars BY <1>5, <2>1 DEF PageFails
  <2>3. QED BY <2>2, FailSpace
<1>6. CASE Finalizer(w) BY <1>6, FinalizerSpace
<1>7. CASE ThreadExits(w)
  <2>1. Goto(w, "exited") /\ UNCHANGED <<bytes, queueVars, reserveVars>>
    BY <1>7 DEF ThreadExits, Stop, schedVars
  <2>2. QED BY <2>1, PlacesOfGoto, SpaceFrame DEF TypeInv
<1>8. QED BY <1>1, <1>2, <1>3, <1>4, <1>5, <1>6, <1>7 DEF PageWorker

LEMMA SpaceStep == TypeInv /\ PagesInv /\ SpaceInv /\ [Next]_vars => SpaceInv'
<1> SUFFICES ASSUME TypeInv, PagesInv, SpaceInv, [Next]_vars PROVE SpaceInv' OBVIOUS
<1>1. ASSUME NEW j \in Id, Connection(j) PROVE SpaceInv'
  <2>1. CASE Cancel(j)
    <3>1. DiscardPages(j) /\ PagesOf(j) \in SUBSET pages /\ UNCHANGED <<reserveVars, pc, bytes>>
      BY <2>1 DEF Cancel, PagesOf, threadVars
    <3>2. Discards BY <3>1 DEF Discards, DiscardPages
    <3>3. Places BY <3>1 DEF Places
    <3>4. QED BY <3>2, <3>3, SpaceDiscards
  <2>2. CASE ~Cancel(j)
    <3>1. UNCHANGED <<queueVars, reserveVars, threadVars>>
      BY <1>1, <2>2 DEF Connection, Reserve, Receive, Submit, Disconnect, RemoveBegin, RemoveFails,
         RemoveFiles, RemoveEnd, schedVars
    <3>2. QED BY <3>1, SpaceFrame DEF Places, threadVars
  <2>3. QED BY <2>1, <2>2
<1>2. CASE CleanupThread
  <2> Cleaner \in AllThreads /\ Cleaner \notin Readers BY Kinds
  <2>1. UNCHANGED <<queueVars, reserveVars>>
    BY <1>2 DEF CleanupThread, TakeCleanup, Cleanup, CleanerExits, Stop, schedVars
  <2>2. CASE TakeCleanup BY <2>1, <2>2, PlacesOfGoto, SpaceFrame DEF TakeCleanup, TypeInv
  <2>3. CASE Cleanup BY <2>1, <2>3, PlacesOfRelease, SpaceFrame DEF Cleanup, TypeInv
  <2>4. CASE CleanerExits BY <2>1, <2>4, PlacesOfGoto, SpaceFrame DEF CleanerExits, Stop, TypeInv
  <2>5. QED BY <1>2, <2>2, <2>3, <2>4 DEF CleanupThread
<1>3. CASE BeginShutdown \/ BeginCleanupShutdown \/ Ended \/ UNCHANGED vars
  <2>1. UNCHANGED <<queueVars, reserveVars, threadVars>>
    BY <1>3 DEF BeginShutdown, BeginCleanupShutdown, Ended, vars, schedVars
  <2>2. QED BY <2>1, SpaceFrame DEF Places, threadVars
<1>4. QED BY <1>1, <1>2, <1>3, ReaderSpace, PageWorkerSpace DEF Next

LEMMA UploadAlways == Spec => []UploadInv
  BY UploadInit, UploadStep, Invariant, PTL DEF Spec

LEMMA SpaceAlways == Spec => []SpaceInv
<1>1. Inv => TypeInv /\ PagesInv BY DEF Inv, RunInv
<1>2. QED BY <1>1, SpaceInit, SpaceStep, Invariant, PTL DEF Spec

(* Every byte of an upload and every place and byte of the page queue is   *)
(* counted while it is held and given back once, on each of the ways a     *)
(* connection, a page or a job can end, and the limits are kept.           *)
THEOREM QuotasAlwaysBalance == Spec => []QuotasBalance
<1>1. SpaceInv => ReservationLedger BY DEF SpaceInv, ReservationLedger, CopiedSet, Pairs
<1>2. UploadInv /\ SpaceInv => QuotasBalance BY <1>1 DEF UploadInv, SpaceInv, QuotasBalance
<1>3. QED BY <1>2, UploadAlways, SpaceAlways, PTL

-----------------------------------------------------------------------------
(* The types the C++ fields have: no counter ever drops below zero.        *)

\* What the invariants above leave open.
RestT ==
  /\ arrival \in [Id -> Nat] /\ registered \subseteq Id
  /\ shutdown \in BOOLEAN /\ cleanupShutdown \in BOOLEAN
  /\ succeeded \in Nat /\ failed \in Nat /\ cancelled \in Nat
  /\ \A j \in Id : outstanding[j] \in Nat

\* The counters of jobs only go up.
Counts ==
  \/ UNCHANGED <<succeeded, failed, cancelled>>
  \/ succeeded' = succeeded + 1 /\ UNCHANGED <<failed, cancelled>>
  \/ failed' = failed + 1 /\ UNCHANGED <<succeeded, cancelled>>
  \/ cancelled' = cancelled + 1 /\ UNCHANGED <<succeeded, failed>>

LEMMA RestFrame ==
  ASSUME RestT, Counts, UNCHANGED <<arrival, stopVars>>, registered' \subseteq Id,
         \A j \in Id : outstanding'[j] \in Nat
  PROVE  RestT'
<1>1. succeeded' \in Nat /\ failed' \in Nat /\ cancelled' \in Nat BY DEF RestT, Counts
<1>2. QED BY <1>1 DEF RestT, stopVars

LEMMA FailCounts ==
  ASSUME NEW j, FailLocked(j)
  PROVE  Counts
  BY DEF FailLocked, Counts, counters

LEMMA FinalizeCounts ==
  ASSUME NEW t, NEW j, NEW found, FinalizeLocked(t, j, found)
  PROVE  Counts
<1>1. CASE MayFinalize(j) /\ found = {} BY <1>1, FailCounts DEF FinalizeLocked
<1>2. CASE ~(MayFinalize(j) /\ found = {}) BY <1>2 DEF FinalizeLocked, Counts, counters
<1>3. QED BY <1>1, <1>2

\* A worker whose page is accounted for counts in outstanding.
LEMMA OutstandingPage ==
  ASSUME TypeInv, RunInv, NEW w \in PageWorkers, pc[w] = "process", NEW j \in Id, held[w] = j,
         ~Settled(j)
  PROVE  outstanding[j] \in Nat \ {0}
<1>1. w \in Carriers(j) /\ w \in RunningPages(j) BY DEF Carriers, RunningPages, Processing
<1>2. state[j] = "processing"
  BY <1>1 DEF RunInv, JobInv, WorkerPart, Settled, Terminal
<1>3. outstanding[j] = Cardinality(PagesOf(j)) + Cardinality(Carriers(j))
  BY <1>2 DEF RunInv, JobInv, AccountPart
<1>4. /\ Cardinality(PagesOf(j)) \in Nat /\ Cardinality(Carriers(j)) \in Nat
      /\ IsFiniteSet(Carriers(j))
  BY FiniteSides
<1>5. Cardinality(Carriers(j)) # 0 BY <1>1, <1>4, FS_EmptySet
<1>6. QED BY <1>3, <1>4, <1>5

LEMMA FinalizerRest ==
  ASSUME TypeInv, RestT, NEW t \in Thread, Finalizer(t)
  PROVE  Counts /\ UNCHANGED <<arrival, stopVars, outstanding>>
<1>1. CASE WriteResult(t)
  BY <1>1 DEF WriteResult, Counts, counters, jobVars, docVars, schedVars, waitVars
<1>2. CASE Publish(t)
  BY <1>2 DEF Publish, Counts, counters, docVars, schedVars, waitVars
<1>3. CASE FinalizeFails(t) BY <1>3, FailCounts DEF FinalizeFails, docVars, waitVars
<1>4. QED BY <1>1, <1>2, <1>3 DEF Finalizer

LEMMA ThreadRest ==
  ASSUME TypeInv, RunInv, RestT,
         \/ \E r \in Readers : Reader(r)
         \/ \E w \in PageWorkers : PageWorker(w)
         \/ CleanupThread
  PROVE  Counts /\ UNCHANGED <<arrival, stopVars>> /\ \A j \in Id : outstanding'[j] \in Nat
<1> USE DEF RestT
<1>1. ASSUME NEW r \in Readers, Reader(r)
      PROVE  Counts /\ UNCHANGED <<arrival, stopVars>> /\ \A j \in Id : outstanding'[j] \in Nat
  <2> r \in Thread /\ r \in AllThreads BY Kinds
  <2>1. CASE TakeDocument(r) \/ (\E n \in PageBytes : RenderPage(r, n)) \/ ReservePage(r)
    BY <2>1 DEF TakeDocument, RenderPage, ReservePage, Counts, counters, jobVars, docVars,
       schedVars,
       waitVars
  <2>2. CASE ThreadExits(r)
    BY <2>2 DEF ThreadExits, Stop, Counts, counters, jobVars, docVars, schedVars, waitVars
  <2>3. CASE QueuePage(r)
    <3>1. Counts /\ UNCHANGED <<arrival, stopVars>>
      BY <2>3 DEF QueuePage, Counts, counters, waitVars
    <3>2. UNCHANGED outstanding \/ outstanding' = [outstanding EXCEPT ![held[r]] = @ + 1]
      BY <2>3 DEF QueuePage
    <3>3. \A j \in Id : outstanding'[j] \in {outstanding[j], outstanding[j] + 1}
      BY <3>2 DEF TypeInv, JobT
    <3>4. \A j \in Id : outstanding'[j] \in Nat BY <3>3
    <3>5. QED BY <3>1, <3>4
  <2>4. CASE ReaderFails(r)
    BY <2>4, FailCounts DEF ReaderFails, docVars, waitVars
  <2>5. CASE EndOfDocument(r)
    BY <2>5, FinalizeCounts DEF EndOfDocument, waitVars
  <2>6. CASE Finalizer(r) BY <2>6, FinalizerRest
  <2>7. QED BY <1>1, <2>1, <2>2, <2>3, <2>4, <2>5, <2>6 DEF Reader
<1>2. ASSUME NEW w \in PageWorkers, PageWorker(w)
      PROVE  Counts /\ UNCHANGED <<arrival, stopVars>> /\ \A j \in Id : outstanding'[j] \in Nat
  <2> w \in Thread /\ w \in AllThreads BY Kinds
  <2>1. CASE TakePage(w) \/ StartPage(w) \/ WriteAsset(w) \/ ThreadExits(w)
    BY <2>1 DEF TakePage, StartPage, WriteAsset, ThreadExits, Stop, Counts, counters, jobVars,
       docVars,
       schedVars, waitVars
  <2>2. CASE PageFails(w) BY <2>2, FailCounts DEF PageFails, docVars, waitVars
  <2>3. CASE PageDone(w)
    <3>1. PICK j \in Id : held[w] = j BY <2>3, Holds DEF PageDone, TypeInv
    <3>2. UNCHANGED <<arrival, stopVars>> BY <2>3 DEF PageDone, waitVars
    <3>3. CASE Settled(j)
      BY <2>3, <3>1, <3>2, <3>3 DEF PageDone, Counts, counters
    <3>4. CASE ~Settled(j)
      <4>1. outstanding' = [outstanding EXCEPT ![j] = @ - 1]
        BY <2>3, <3>1, <3>4 DEF PageDone
      <4>2. outstanding[j] \in Nat \ {0} BY <2>3, <3>1, <3>4, OutstandingPage DEF PageDone
      <4>3. /\ outstanding'[j] = outstanding[j] - 1
            /\ \A k \in Id \ {j} : outstanding'[k] = outstanding[k]
        BY <4>1 DEF TypeInv, JobT
      <4>4. \A k \in Id : outstanding'[k] \in Nat BY <4>2, <4>3
      <4>5. PICK found : FinalizeLocked(w, j, found) BY <2>3, <3>1, <3>4 DEF PageDone
      <4>6. Counts BY <4>5, FinalizeCounts
      <4>7. QED BY <3>2, <4>4, <4>6
    <3>5. QED BY <3>3, <3>4
  <2>4. CASE Finalizer(w) BY <2>4, FinalizerRest
  <2>5. QED BY <1>2, <2>1, <2>2, <2>3, <2>4 DEF PageWorker
<1>3. CASE CleanupThread
  <2>1. CASE TakeCleanup
    BY <2>1 DEF TakeCleanup, Counts, counters, docVars, schedVars, waitVars
  <2>2. CASE Cleanup BY <2>2 DEF Cleanup, Counts, docVars, schedVars, waitVars
  <2>3. CASE CleanerExits
    BY <2>3 DEF CleanerExits, Stop, Counts, counters, jobVars, docVars, schedVars, waitVars
  <2>4. QED BY <1>3, <2>1, <2>2, <2>3 DEF CleanupThread
<1>4. QED BY <1>1, <1>2, <1>3

LEMMA RestStep == Inv /\ RestT /\ [Next]_vars => RestT'
<1> SUFFICES ASSUME Inv, RestT, [Next]_vars PROVE RestT' OBVIOUS
<1>1. ASSUME NEW j \in Id, Connection(j) PROVE RestT'
  <2>1. CASE Submit(j)
    <3>1. /\ arrival' = [arrival EXCEPT ![j] = sequence] /\ registered' = registered \cup {j}
          /\ UNCHANGED <<succeeded, failed, cancelled, stopVars, outstanding>>
      BY <2>1 DEF Submit, docVars
    <3>2. sequence \in Nat BY DEF Inv, TypeInv, QueueT
    <3>3. QED BY <3>1, <3>2 DEF RestT, stopVars
  <2>2. CASE ~Submit(j)
    <3>1. /\ UNCHANGED <<arrival, succeeded, failed, cancelled, stopVars, outstanding>>
          /\ registered' \subseteq registered
      BY <1>1, <2>2 DEF Connection, Reserve, Receive, Disconnect, Cancel, RemoveBegin, RemoveFails,
         RemoveFiles, RemoveEnd, httpVars, counters, jobVars, docVars, schedVars, waitVars
    <3>2. QED BY <3>1 DEF RestT, stopVars
  <2>3. QED BY <2>1, <2>2
<1>2. ASSUME \/ \E r \in Readers : Reader(r)
             \/ \E w \in PageWorkers : PageWorker(w)
             \/ CleanupThread
      PROVE  RestT'
  <2>1. UNCHANGED httpVars BY <1>2, ThreadHttp
  <2>2. registered' \subseteq Id BY <2>1 DEF httpVars, RestT
  <2>3. QED BY <1>2, <2>2, ThreadRest, RestFrame DEF Inv
<1>3. CASE BeginShutdown \/ BeginCleanupShutdown \/ Ended \/ UNCHANGED vars
  <2>1. /\ UNCHANGED <<arrival, registered, succeeded, failed, cancelled, outstanding>>
        /\ shutdown' \in BOOLEAN /\ cleanupShutdown' \in BOOLEAN
    BY <1>3 DEF BeginShutdown, BeginCleanupShutdown, Ended, vars, httpVars, counters, jobVars,
       docVars,
       schedVars, waitVars, stopVars, RestT
  <2>2. QED BY <2>1 DEF RestT
<1>4. QED BY <1>1, <1>2, <1>3 DEF Next

LEMMA TypesFollow ==
  Inv /\ ResultInv /\ FileInv /\ UploadInv /\ SpaceInv /\ RestT => TypeOK
<1> SUFFICES ASSUME Inv, ResultInv, FileInv, UploadInv, SpaceInv, RestT PROVE TypeOK OBVIOUS
<1>1. JobTypes
  <2>1. pagesRunning \in [Id -> Nat]
    <3>1. ASSUME NEW j \in Id PROVE pagesRunning[j] \in Nat
      BY FiniteSides DEF Inv, RunInv, JobInv, WorkerPart
    <3>2. QED BY <3>1 DEF Inv, TypeInv, JobT
  <2>2. outstanding \in [Id -> Nat] BY DEF Inv, TypeInv, JobT, RestT
  <2>3. QED BY <2>1, <2>2 DEF JobTypes, Inv, TypeInv, JobT, ResultInv, ResultT
<1>2. AdmissionTypes
  <2>1. activeJobs \in Nat BY FiniteLive DEF Inv, AdmissionLedger
  <2>2. inflightUploadBytes \in Nat
    <3>1. IsFiniteSet(Owing) /\ MaxInflightUploadBytes \in Nat
      BY FiniteOwing, SchedulerAssumption DEF Inv, TypeInv
    <3>2. Charged(Owing, uploadBytes) \in Nat BY <3>1, PairsFinite DEF Charged
    <3>3. QED BY <3>2, Uploaded DEF UploadInv, UploadLedger
  <2>3. admitted \in Nat BY <2>1 DEF Inv, AdmissionLedger, RestT
  <2>4. QED BY <2>1, <2>2, <2>3
    DEF AdmissionTypes, Inv, TypeInv, HttpT, RestT, FileInv, FileT, UploadInv, UploadT
<1>3. QueueTypes
  <2>1. IsFiniteSet(pages) /\ pages \in SUBSET Pending BY DEF Inv, TypeInv, QueueT, RunInv, PagesInv
  <2>2. queuedPageBytes \in Nat BY <2>1, BytesNat DEF SpaceInv, QueueLedger
  <2>3. reservedPages \in Nat BY FiniteCopiers DEF SpaceInv, QueueLedger, Copiers
  <2>4. reservedPageBytes \in Nat BY FiniteCopiers, PairsFinite, Limits DEF SpaceInv
  <2>5. QED BY <2>2, <2>3, <2>4 DEF QueueTypes, Inv, TypeInv, QueueT, RestT
<1>4. ThreadTypes BY DEF ThreadTypes, Inv, TypeInv, ThreadT, RestT
<1>5. QED BY <1>1, <1>2, <1>3, <1>4 DEF TypeOK

LEMMA RestInit == Init => RestT
<1> SUFFICES ASSUME Init PROVE RestT OBVIOUS
<1>1. arrival = [j \in Id |-> 0] /\ outstanding = [j \in Id |-> 0] BY DEF Init
<1>2. registered = {} /\ succeeded = 0 /\ failed = 0 /\ cancelled = 0 /\ ~shutdown /\ ~cleanupShutdown
  BY DEF Init
<1>3. shutdown \in BOOLEAN /\ cleanupShutdown \in BOOLEAN BY DEF Init
<1>4. QED BY <1>1, <1>2, <1>3 DEF RestT

(* Every variable keeps the type of its C++ field or local: the unsigned   *)
(* counters, which the critical sections lower in many places, never wrap. *)
THEOREM FieldsKeepTheirTypes == Spec => []TypeOK
  BY RestInit, RestStep, TypesFollow, Invariant, ResultAlways, FileAlways, UploadAlways,
     SpaceAlways,
     PTL DEF Spec
=============================================================================

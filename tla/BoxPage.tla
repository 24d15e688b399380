------------------------------- MODULE BoxPage -------------------------------
(***************************************************************************)
(* One page's recognition (Pipeline::process_page, src/pipeline.cpp): the  *)
(* boxes of several pages share the threads of BoxTaskPool                 *)
(* (src/box_pool.hpp) and, with async_recognition, those of                *)
(* RecognitionTaskPool.  Each page has a thread of its own, which submits  *)
(* the first tasks, sleeps until they are gone and returns the page; its   *)
(* boxes, error, counters and the condition variable it sleeps on live in  *)
(* its stack frame.  A page of one box, or with one BOX worker, is         *)
(* recognised by its own thread.  The command line has no BOX pool: there  *)
(* a page starts its own threads, which the BOX workers then stand for.    *)
(*                                                                         *)
(* An operator Buggy... is its neighbour with a plausible mistake, and is  *)
(* not used (see README.md).                                               *)
(***************************************************************************)
EXTENDS Integers, FiniteSets, Sequences

CONSTANTS
  Page,                   \* pages being processed, each by its own thread
  MaxBoxes,               \* bound of the model: boxes of one page
  BoxCounts,              \* how many boxes a page may have
  BoxWorker,              \* BOX pool threads (box_workers)
  NoPage,                 \* what an idle BOX worker holds
  Modes,                  \* surroundings a behaviour may have: see mode
  RecWorker, NoCrop, Size, MaxRequests, MaxBytes   \* of RecognitionPool

\* A crop is one box of one page.
Crop == Page \X (1 .. MaxBoxes)

ASSUME PageAssumption ==
  /\ IsFiniteSet(Page) /\ IsFiniteSet(BoxWorker) /\ BoxWorker # {}
  /\ MaxBoxes \in Nat /\ Size \in [Crop -> Nat] /\ NoCrop \notin Crop
  /\ NoPage \notin Page /\ Page \cap BoxWorker = {}
  /\ BoxCounts \subseteq 0 .. MaxBoxes
  /\ Modes \subseteq [record : BOOLEAN, refuse : BOOLEAN, async : BOOLEAN, threads : BOOLEAN]

VARIABLES
  pc,                     \* page threads and BOX workers
  onPage, index,          \* the page and box a thread works on
  queue,                  \* BoxTaskPool::tasks_, each the closure of a page
  boxStopping,            \* BoxTaskPool::stopping_
  \* the frame of process_page
  next, stop, error, outstanding, launched, pending,
  box,                    \* what became of each region
  thrown,                 \* the first submissions failed
  result,                 \* what process_page returned
  boxes,                  \* how many boxes the layout model finds on each page
  cancel,                 \* the job's cancellation flag
  mode,                   \* record: execution.on_error = "record"
                          \* refuse: BoxTaskPool::submit or the start of a thread may fail
                          \* async: async_recognition.enabled
                          \* threads: no BOX pool
  \* RecognitionPool
  stage, tasks, requests, bytes, running, submitted, completed, failed,
  cancelled, timeouts, oversized, crop, outcome, stopping, exited

Pool == INSTANCE RecognitionPool WITH
  Worker <- RecWorker,
  abandoned <- {c \in Crop : stop[c[1]] \/ cancel[c[1]]}

poolVars == <<stage, tasks, requests, bytes, running, submitted, completed,
              failed, cancelled, timeouts, oversized, crop, outcome, exited,
              stopping>>
agentVars == <<pc, onPage, index>>
endVars == <<thrown, result>>
control == <<cancel, mode, boxes>>
frameVars == <<next, stop, error, outstanding, launched, pending, box, endVars>>
vars == <<agentVars, queue, boxStopping, frameVars, control, poolVars>>

Agent == BoxWorker \cup Page
RecordErrors == mode.record
CanRefuse == mode.refuse
Async == mode.async
OwnThreads == mode.threads

Stopped(p) == stop[p] \/ cancel[p]

\* min(box_workers, boxes.size())
WorkerCount(p) == IF Cardinality(BoxWorker) < boxes[p] THEN Cardinality(BoxWorker) ELSE boxes[p]

Goto(a, label) == pc' = [pc EXCEPT ![a] = label]
Hold(a, p, i) == /\ onPage' = [onPage EXCEPT ![a] = p]
                 /\ index' = [index EXCEPT ![a] = i]

Init ==
  /\ boxes \in [Page -> BoxCounts]
  /\ pc = [a \in Agent |-> IF a \in Page THEN "new" ELSE "idle"]
  /\ onPage = [a \in Agent |-> IF a \in Page THEN a ELSE NoPage]
  /\ index = [a \in Agent |-> 0]
  /\ queue = <<>> /\ boxStopping = FALSE
  /\ next = [p \in Page |-> 0] /\ stop = [p \in Page |-> FALSE]
  /\ error = [p \in Page |-> "none"]
  /\ outstanding = [p \in Page |-> 0] /\ launched = [p \in Page |-> 0]
  /\ pending = [p \in Page |-> 0]
  /\ box = [p \in Page |-> [i \in 1 .. boxes[p] |-> "todo"]]
  /\ thrown = [p \in Page |-> FALSE] /\ result = [p \in Page |-> "none"]
  /\ cancel = [p \in Page |-> FALSE] /\ mode \in Modes
  /\ Pool!Init

-----------------------------------------------------------------------------
(* work_one: one box, by whichever thread claimed it.                      *)

\* Where a thread goes after a box, and when it finds none: the page's thread and those
\* it has started loop, a task of the pool looks whether to queue its successor.
AfterBox(a) == IF a \in Page \/ OwnThreads THEN "begin" ELSE "again"
NoMore(a) == IF a \in Page THEN "drain" ELSE IF OwnThreads THEN "leave" ELSE "again"

\* A box has an outcome.  record_error keeps the first error of the page and
\* stops it, unless errors are recorded in the box.
BuggyOutcome(p, i, r) ==
  /\ box' = [box EXCEPT ![p][i] = r]
  /\ IF r = "cancelled" \/ (r = "failed" /\ ~RecordErrors)
     THEN /\ error' = [error EXCEPT ![p] = r]
          /\ stop' = [stop EXCEPT ![p] = TRUE]
     ELSE UNCHANGED <<error, stop>>
Outcome(p, i, r) ==
  /\ box' = [box EXCEPT ![p][i] = r]
  /\ IF r = "cancelled" \/ (r = "failed" /\ ~RecordErrors)
     THEN /\ error' = [error EXCEPT ![p] = IF @ = "none" THEN r ELSE @]
          /\ stop' = [stop EXCEPT ![p] = TRUE]
     ELSE UNCHANGED <<error, stop>>

EndBox(a, r) ==
  /\ Outcome(onPage[a], index[a], r)
  /\ Goto(a, AfterBox(a))

restOfFrame == <<next, outstanding, launched, endVars>>

\* The loop of a page's own thread, or the start of a task, looks at the flags ...
Begin(a) ==
  /\ pc[a] = "begin"
  /\ Goto(a, IF ~Stopped(onPage[a]) THEN "claim" ELSE NoMore(a))
  /\ UNCHANGED <<onPage, index, queue, boxStopping, frameVars, control, poolVars>>

\* ... and takes the next box, if there is one.
Claim(a) ==
  /\ pc[a] = "claim"
  /\ LET p == onPage[a] IN
       /\ next' = [next EXCEPT ![p] = @ + 1]
       /\ IF next[p] < boxes[p]
          THEN /\ Goto(a, "box") /\ Hold(a, p, next[p] + 1)
               /\ box' = [box EXCEPT ![p][next[p] + 1] = "working"]
          ELSE /\ Goto(a, NoMore(a))
               /\ UNCHANGED <<onPage, index, box>>
  /\ UNCHANGED <<queue, boxStopping, stop, error, outstanding, launched,
                 pending, endVars, control, poolVars>>

\* A box that is skipped, only stored, or fails before its recognition; a
\* cancelled page fails it at once.
PrepareOnly(a) ==
  /\ pc[a] = "box"
  /\ IF cancel[onPage[a]]
     THEN EndBox(a, "cancelled")
     ELSE \E r \in {"done", "failed"} : EndBox(a, r)
  /\ UNCHANGED <<onPage, index, queue, boxStopping, restOfFrame, pending,
                 control, poolVars>>

\* A box to be recognised by this thread, or handed to the recognition pool.
Prepare(a) ==
  /\ pc[a] = "box" /\ ~cancel[onPage[a]]
  /\ box' = [box EXCEPT ![onPage[a]][index[a]] = "recognizing"]
  /\ IF Async
     THEN /\ pending' = [pending EXCEPT ![onPage[a]] = @ + 1]
          /\ Pool!Submit(<<onPage[a], index[a]>>)
          /\ Goto(a, "admit")
     ELSE /\ Goto(a, "recognize")
          /\ UNCHANGED <<pending, poolVars>>
  /\ UNCHANGED <<onPage, index, queue, boxStopping, stop, error, restOfFrame,
                 control>>

\* recognize(): a last look at the flags, then the model.
Infer(a) ==
  /\ pc[a] = "recognize"
  /\ IF Stopped(onPage[a])
     THEN EndBox(a, "cancelled")
     ELSE /\ box' = [box EXCEPT ![onPage[a]][index[a]] = "inferring"]
          /\ Goto(a, "infer")
          /\ UNCHANGED <<stop, error>>
  /\ UNCHANGED <<onPage, index, queue, boxStopping, restOfFrame, pending,
                 control, poolVars>>

\* What the candidates' models may answer: text, unless the page is cancelled
\* meanwhile; or no candidate succeeds.
Answers(p) == IF cancel[p] THEN {"cancelled", "failed"} ELSE {"done", "failed"}

Answer(a) ==
  /\ pc[a] = "infer"
  /\ \E r \in Answers(onPage[a]) : EndBox(a, r)
  /\ UNCHANGED <<onPage, index, queue, boxStopping, restOfFrame, pending,
                 control, poolVars>>

\* Recognition pool: submit() waits for room, ...
Admission(a) ==
  /\ pc[a] = "admit"
  /\ LET c == <<onPage[a], index[a]>> IN
       \/ Pool!Admit(c) /\ Goto(a, AfterBox(a))
       \/ (Pool!TimeOut(c) \/ Pool!Withdraw(c)) /\ UNCHANGED pc
  /\ UNCHANGED <<onPage, index, queue, boxStopping, frameVars, control>>

\* ... and may throw: the page does not wait for this crop.
BuggyRejected(a) ==
  /\ pc[a] = "admit"
  /\ stage[<<onPage[a], index[a]>>] \in {"refused", "withdrawn"}
  /\ EndBox(a, IF stage[<<onPage[a], index[a]>>] = "refused" THEN "failed" ELSE "cancelled")
  /\ UNCHANGED <<onPage, index, queue, boxStopping, restOfFrame, pending, control, poolVars>>
Rejected(a) ==
  /\ pc[a] = "admit"
  /\ stage[<<onPage[a], index[a]>>] \in {"refused", "withdrawn"}
  /\ pending' = [pending EXCEPT ![onPage[a]] = @ - 1]
  /\ EndBox(a, IF stage[<<onPage[a], index[a]>>] = "refused" THEN "failed" ELSE "cancelled")
  /\ UNCHANGED <<onPage, index, queue, boxStopping, restOfFrame, control, poolVars>>

-----------------------------------------------------------------------------
(* The recognition pool's threads run recognize() of admitted crops.       *)

TakeCrop(v) ==
  /\ Pool!Take(v)
  /\ UNCHANGED <<agentVars, queue, boxStopping, frameVars, control>>

InferCrop(v) ==
  /\ crop[v] # NoCrop /\ stage[crop[v]] = "running"
  /\ LET p == crop[v][1]  i == crop[v][2] IN
       /\ box[p][i] = "recognizing"
       /\ IF Stopped(p)
          THEN Outcome(p, i, "cancelled") /\ Pool!Work(v, "cancelled")
          ELSE /\ box' = [box EXCEPT ![p][i] = "inferring"]
               /\ UNCHANGED <<stop, error, poolVars>>
  /\ UNCHANGED <<agentVars, queue, boxStopping, restOfFrame, pending, control>>

AnswerCrop(v) ==
  /\ crop[v] # NoCrop /\ stage[crop[v]] = "running"
  /\ LET p == crop[v][1]  i == crop[v][2] IN
       /\ box[p][i] = "inferring"
       /\ \E r \in Answers(p) :
            /\ Outcome(p, i, r)
            /\ Pool!Work(v, IF r = "done" THEN "ok" ELSE r)
  /\ UNCHANGED <<agentVars, queue, boxStopping, restOfFrame, pending, control>>

CreditCrop(v) ==
  /\ Pool!Credit(v)
  /\ UNCHANGED <<agentVars, queue, boxStopping, frameVars, control>>

\* PendingRecognition::finish, the last that is done for a crop.
FinishCrop(v) ==
  /\ Pool!Finished(v)
  /\ pending' = [pending EXCEPT ![crop[v][1]] = @ - 1]
  /\ UNCHANGED <<agentVars, queue, boxStopping, stop, error, box, restOfFrame,
                 control>>

-----------------------------------------------------------------------------
(* BOX workers: BoxTaskPool::run and the page's task.                      *)

TakeTask(w) ==
  /\ pc[w] = "idle" /\ queue # <<>>
  /\ queue' = Tail(queue)
  /\ Goto(w, "begin") /\ Hold(w, Head(queue), 0)
  /\ UNCHANGED <<boxStopping, frameVars, control, poolVars>>

\* A task that leaves boxes behind queues its successor: it counts it first.
BuggyAgain(w) ==
  /\ pc[w] = "again"
  /\ LET p == onPage[w] IN
       IF ~Stopped(p) /\ next[p] < boxes[p]
       THEN /\ queue' = Append(queue, p)
            /\ outstanding' = [outstanding EXCEPT ![p] = @ + 1]
            /\ UNCHANGED pc
       ELSE Goto(w, "count") /\ UNCHANGED <<outstanding, queue>>
  /\ UNCHANGED <<onPage, index, boxStopping, next, stop, error, launched,
                 pending, box, endVars, control, poolVars>>
Again(w) ==
  /\ pc[w] = "again"
  /\ LET p == onPage[w] IN
       IF ~Stopped(p) /\ next[p] < boxes[p]
       THEN /\ outstanding' = [outstanding EXCEPT ![p] = @ + 1]
            /\ Goto(w, "resubmit")
       ELSE Goto(w, "count") /\ UNCHANGED outstanding
  /\ UNCHANGED <<onPage, index, queue, boxStopping, next, stop, error, launched,
                 pending, box, endVars, control, poolVars>>

Resubmit(w) ==
  /\ pc[w] = "resubmit"
  /\ queue' = Append(queue, onPage[w])
  /\ Goto(w, "count")
  /\ UNCHANGED <<onPage, index, boxStopping, frameVars, control, poolVars>>

\* The submission threw: the count is taken back, ...
ResubmitFails(w) ==
  /\ pc[w] = "resubmit" /\ CanRefuse
  /\ outstanding' = [outstanding EXCEPT ![onPage[w]] = @ - 1]
  /\ stop' = [stop EXCEPT ![onPage[w]] = TRUE]
  /\ Goto(w, "blame")
  /\ UNCHANGED <<onPage, index, queue, boxStopping, next, error, launched,
                 pending, box, endVars, control, poolVars>>

\* ... and, the page already stopped, the error is noted.
Blame(w) ==
  /\ pc[w] = "blame"
  /\ error' = [error EXCEPT ![onPage[w]] = IF @ = "none" THEN "failed" ELSE @]
  /\ Goto(w, "count")
  /\ UNCHANGED <<onPage, index, queue, boxStopping, next, stop, launched,
                 outstanding, pending, box, endVars, control, poolVars>>

\* The last task of the page, so far, wakes the page's thread ...
Count(w) ==
  /\ pc[w] = "count"
  /\ LET p == onPage[w] IN
       /\ outstanding' = [outstanding EXCEPT ![p] = @ - 1]
       /\ IF outstanding[p] = 1
          THEN Goto(w, "notify") /\ UNCHANGED <<onPage, index>>
          ELSE Goto(w, "idle") /\ Hold(w, NoPage, 0)
  /\ UNCHANGED <<queue, boxStopping, next, stop, error, launched, pending, box,
                 endVars, control, poolVars>>

\* ... under done_mutex.
BuggyNotify(w) ==
  /\ pc[w] = "notify"
  /\ Goto(w, "idle")
  /\ Hold(w, NoPage, 0)
  /\ UNCHANGED <<queue, boxStopping, frameVars, control, poolVars>>
Notify(w) ==
  /\ pc[w] = "notify"
  /\ pc' = [pc EXCEPT ![w] = "idle",
                      ![onPage[w]] = IF @ = "asleep" THEN "check" ELSE @]
  /\ Hold(w, NoPage, 0)
  /\ UNCHANGED <<queue, boxStopping, frameVars, control, poolVars>>

-----------------------------------------------------------------------------
(* The page's thread: process_page.                                        *)

\* The layout model failed or the page was cancelled first: nothing is shared.
LayoutFails(p) ==
  /\ pc[p] = "new"
  /\ result' = [result EXCEPT ![p] = IF cancel[p] THEN "cancelled" ELSE "failed"]
  /\ Goto(p, "returned")
  /\ UNCHANGED <<onPage, index, queue, boxStopping, next, stop, error,
                 outstanding, launched, pending, box, thrown, control, poolVars>>

Layout(p) ==
  /\ pc[p] = "new"
  /\ Goto(p, IF WorkerCount(p) <= 1 THEN "begin" ELSE IF OwnThreads THEN "spawn" ELSE "launch")
  /\ UNCHANGED <<onPage, index, queue, boxStopping, frameVars, control, poolVars>>

Launch(p) ==
  /\ pc[p] = "launch"
  /\ IF launched[p] < WorkerCount(p) /\ ~stop[p]
     THEN outstanding' = [outstanding EXCEPT ![p] = @ + 1] /\ Goto(p, "push")
     ELSE Goto(p, "check") /\ UNCHANGED outstanding
  /\ UNCHANGED <<onPage, index, queue, boxStopping, next, stop, error, launched,
                 pending, box, endVars, control, poolVars>>

Push(p) ==
  /\ pc[p] = "push"
  /\ queue' = Append(queue, p)
  /\ launched' = [launched EXCEPT ![p] = @ + 1]
  /\ Goto(p, "launch")
  /\ UNCHANGED <<onPage, index, boxStopping, next, stop, error, outstanding,
                 pending, box, endVars, control, poolVars>>

PushFails(p) ==
  /\ pc[p] = "push" /\ CanRefuse
  /\ outstanding' = [outstanding EXCEPT ![p] = @ - 1]
  /\ thrown' = [thrown EXCEPT ![p] = TRUE]
  /\ Goto(p, "abort")
  /\ UNCHANGED <<onPage, index, queue, boxStopping, next, stop, error, launched,
                 pending, box, result, control, poolVars>>

Abort(p) ==
  /\ pc[p] = "abort"
  /\ stop' = [stop EXCEPT ![p] = TRUE]
  /\ Goto(p, "check")
  /\ UNCHANGED <<onPage, index, queue, boxStopping, next, error, outstanding,
                 launched, pending, box, endVars, control, poolVars>>

\* done.wait, with done_mutex held: the tasks are gone, or the thread sleeps.
CheckDone(p) ==
  /\ pc[p] = "check"
  /\ Goto(p, IF outstanding[p] = 0 THEN "drain" ELSE "asleep")
  /\ UNCHANGED <<onPage, index, queue, boxStopping, frameVars, control, poolVars>>

SpuriousWakeup(p) ==
  /\ pc[p] = "asleep"
  /\ Goto(p, "check")
  /\ UNCHANGED <<onPage, index, queue, boxStopping, frameVars, control, poolVars>>

\* Without a BOX pool the page starts its threads and joins them, also those it has
\* started before one cannot be.
StartThread(p) ==
  /\ pc[p] = "spawn" /\ launched[p] < WorkerCount(p)
  /\ \E w \in BoxWorker :
       pc[w] = "idle" /\ Goto(w, "begin") /\ Hold(w, p, 0)
  /\ launched' = [launched EXCEPT ![p] = @ + 1]
  /\ UNCHANGED <<queue, boxStopping, next, stop, error, outstanding, pending, box,
                 endVars, control, poolVars>>

StartFails(p) ==
  /\ pc[p] = "spawn" /\ launched[p] < WorkerCount(p) /\ CanRefuse
  /\ thrown' = [thrown EXCEPT ![p] = TRUE] /\ stop' = [stop EXCEPT ![p] = TRUE]
  /\ Goto(p, "join")
  /\ UNCHANGED <<onPage, index, queue, boxStopping, next, error, outstanding, launched,
                 pending, box, result, control, poolVars>>

ThreadEnds(w) ==
  /\ pc[w] = "leave"
  /\ Goto(w, "idle") /\ Hold(w, NoPage, 0)
  /\ UNCHANGED <<queue, boxStopping, frameVars, control, poolVars>>

Join(p) ==
  /\ \/ pc[p] = "spawn" /\ launched[p] = WorkerCount(p)
     \/ pc[p] = "join"
  /\ \A w \in BoxWorker : onPage[w] # p
  /\ Goto(p, "drain")
  /\ UNCHANGED <<onPage, index, queue, boxStopping, frameVars, control, poolVars>>

\* pending.wait(), then the page or its error is returned; finishing the page
\* (composite regions) may fail.
BuggyDrained(p) == TRUE
Drained(p) == pending[p] = 0

Endings(p) ==
  IF thrown[p] THEN {"failed"}
  ELSE IF cancel[p] THEN {"cancelled"}
  ELSE IF error[p] # "none" THEN {error[p]} ELSE {"ok", "failed"}

Return(p) ==
  /\ pc[p] = "drain" /\ Drained(p)
  /\ \E r \in Endings(p) : result' = [result EXCEPT ![p] = r]
  /\ Goto(p, "returned")
  /\ UNCHANGED <<onPage, index, queue, boxStopping, next, stop, error,
                 outstanding, launched, pending, box, thrown, control, poolVars>>

-----------------------------------------------------------------------------
(* The surroundings: a job is cancelled; the pools are destroyed after the *)
(* page threads have ended.                                                *)

Cancel(p) ==
  /\ ~cancel[p] /\ pc[p] # "returned" /\ ~OwnThreads
  /\ cancel' = [cancel EXCEPT ![p] = TRUE]
  /\ UNCHANGED <<agentVars, queue, boxStopping, frameVars, mode, boxes, poolVars>>

StopBoxPool ==
  /\ ~boxStopping /\ \A p \in Page : pc[p] = "returned"
  /\ boxStopping' = TRUE
  /\ UNCHANGED <<agentVars, queue, frameVars, control, poolVars>>

BoxWorkerExits(w) ==
  /\ pc[w] = "idle" /\ boxStopping /\ queue = <<>>
  /\ Goto(w, "exited")
  /\ UNCHANGED <<onPage, index, queue, boxStopping, frameVars, control, poolVars>>

StopRecognition ==
  /\ \A a \in Agent : pc[a] \in {"returned", "exited"}
  /\ Pool!Stop
  /\ UNCHANGED <<agentVars, queue, boxStopping, frameVars, control>>

RecWorkerExits(v) ==
  /\ Pool!WorkerExits(v)
  /\ UNCHANGED <<agentVars, queue, boxStopping, frameVars, control>>

Ended == stopping /\ exited = RecWorker /\ UNCHANGED vars

-----------------------------------------------------------------------------

Box(a) ==
  \/ Begin(a) \/ Claim(a) \/ PrepareOnly(a) \/ Prepare(a) \/ Infer(a) \/ Answer(a)
  \/ Admission(a) \/ Rejected(a)

BoxThread(w) ==
  \/ TakeTask(w) \/ Box(w) \/ Again(w) \/ Resubmit(w) \/ ResubmitFails(w)
  \/ Blame(w) \/ Count(w) \/ Notify(w) \/ BoxWorkerExits(w) \/ ThreadEnds(w)

PageThread(p) ==
  \/ LayoutFails(p) \/ Layout(p) \/ Box(p) \/ Launch(p) \/ Push(p)
  \/ PushFails(p) \/ Abort(p) \/ CheckDone(p) \/ Return(p)
  \/ StartThread(p) \/ StartFails(p) \/ Join(p)

RecThread(v) ==
  \/ TakeCrop(v) \/ InferCrop(v) \/ AnswerCrop(v) \/ CreditCrop(v)
  \/ FinishCrop(v) \/ RecWorkerExits(v)

Next ==
  \/ \E w \in BoxWorker : BoxThread(w)
  \/ \E p \in Page : PageThread(p) \/ SpuriousWakeup(p) \/ Cancel(p)
  \/ \E v \in RecWorker : RecThread(v)
  \/ StopBoxPool \/ StopRecognition \/ Ended

Spec == Init /\ [][Next]_vars

(* Threads run and model calls end; no wakeup comes for nothing.            *)
Fairness ==
  /\ \A w \in BoxWorker : WF_vars(BoxThread(w))
  /\ \A p \in Page : WF_vars(PageThread(p))
  /\ \A v \in RecWorker : WF_vars(RecThread(v))
FairSpec == Spec /\ Fairness

-----------------------------------------------------------------------------
BoxStates == {"todo", "working", "recognizing", "inferring", "done", "failed", "cancelled"}
WorkPlaces == {"begin", "claim", "box", "recognize", "infer", "admit"}

(* Types of the page's frame and of the pool's members.                    *)
TypeOK ==
  /\ \A w \in BoxWorker : pc[w] \in WorkPlaces \cup
       {"idle", "again", "resubmit", "blame", "count", "notify", "exited", "leave"}
  /\ \A p \in Page : pc[p] \in WorkPlaces \cup
       {"new", "launch", "push", "abort", "check", "asleep", "drain", "returned",
        "spawn", "join"}
  /\ onPage \in [Agent -> Page \cup {NoPage}] /\ index \in [Agent -> 0 .. MaxBoxes]
  /\ queue \in Seq(Page) /\ boxStopping \in BOOLEAN
  /\ next \in [Page -> Nat] /\ outstanding \in [Page -> Nat]
  /\ launched \in [Page -> Nat] /\ pending \in [Page -> Nat]
  /\ stop \in [Page -> BOOLEAN] /\ thrown \in [Page -> BOOLEAN]
  /\ error \in [Page -> {"none", "failed", "cancelled"}]
  /\ \A p \in Page : box[p] \in [1 .. boxes[p] -> BoxStates]
  /\ result \in [Page -> {"none", "ok", "failed", "cancelled"}]
  /\ cancel \in [Page -> BOOLEAN] /\ mode \in Modes
  /\ boxes \in [Page -> BoxCounts]

Queued(p) == {k \in DOMAIN queue : queue[k] = p}
At(p, places) == {w \in BoxWorker : onPage[w] = p /\ pc[w] \in places}
Unfinished(p) == {c \in Crop : c[1] = p /\ stage[c] \notin {"new", "done", "refused", "withdrawn"}}

(* While process_page's frame is gone, nothing of the page is left in the  *)
(* BOX queue or the recognition pool, and no thread is inside its task,    *)
(* except on the way out (architecture.md:28: a page's image and models    *)
(* are not released while threads still use them).                         *)
NothingOutlivesPage ==
  \A p \in Page : pc[p] = "returned" =>
    /\ Queued(p) = {} /\ Unfinished(p) = {}
    /\ At(p, WorkPlaces \cup {"again", "resubmit", "blame", "count", "leave"}) = {}

(* What the page reports is what happened.  Without an error, each of its  *)
(* boxes has an outcome: none was skipped by tasks that claim, stop and    *)
(* requeue concurrently.  An error is the cause: a page nobody cancelled   *)
(* does not report a cancellation, although the first failure makes the    *)
(* other boxes end as cancelled, unless a task could not be queued.        *)
PageReportIsTrue ==
  \A p \in Page :
    /\ result[p] = "ok" =>
         \A i \in 1 .. boxes[p] :
           box[p][i] \in {"done"} \cup (IF RecordErrors THEN {"failed"} ELSE {})
    /\ result[p] = "cancelled" => cancel[p] \/ (CanRefuse /\ ~OwnThreads)

(* A page never has more than worker_count tasks queued or at work         *)
(* (pipeline.cpp:193-196), so the other pages take turns.                  *)
TasksBounded ==
  \A p \in Page :
    Cardinality(Queued(p)) + Cardinality(At(p, WorkPlaces \cup {"again", "resubmit"}))
      <= WorkerCount(p)

(* "Page workers wait for their own futures" (box_pool.hpp:13): when a     *)
(* page has been returned, every one of its tasks has ended.               *)
PageWaitsForItsTasks ==
  \A p \in Page : pc[p] = "returned" =>
    /\ Queued(p) = {}
    /\ \A w \in BoxWorker : onPage[w] # p

PoolStages == {"queued", "running", "released", "credited"}
InPool(p) == {c \in Crop : c[1] = p /\ stage[c] \in PoolStages}
Submitting(p) == {a \in Agent : onPage[a] = p /\ pc[a] = "admit"}
Preparing(c) ==
  {a \in Agent : /\ onPage[a] = c[1] /\ index[a] = c[2]
                 /\ pc[a] \in {"box", "recognize", "infer", "admit"}}
Recognizing(c) == {v \in RecWorker : crop[v] = c /\ stage[c] = "running"}

(* A region of the page is written without a lock (page.regions[i],        *)
(* pipeline.cpp:92, 102, 131).  A box that is at work has exactly one      *)
(* owner: a thread of the page, the queue of the recognition pool or one   *)
(* of its threads, and a box with an outcome, or one nobody has claimed,   *)
(* has none.  What the page waits for before it reads the regions          *)
(* (PendingRecognition) is exactly its crops in the pool and its threads   *)
(* that are still in submit(), on whichever path either of them ends.      *)
CropsHandedOver ==
  \A p \in Page :
    /\ pending[p] = Cardinality(InPool(p)) + Cardinality(Submitting(p))
    /\ \A i \in 1 .. boxes[p] :
         Cardinality(Preparing(<<p, i>>)) + Cardinality(Recognizing(<<p, i>>))
             + (IF stage[<<p, i>>] = "queued" THEN 1 ELSE 0)
           = IF box[p][i] \in {"working", "recognizing", "inferring"} THEN 1 ELSE 0

(* process_page returns, also when its boxes fail, crops are refused or    *)
(* its job is cancelled: the last task always wakes the page's thread.     *)
EveryPageReturns == \A p \in Page : pc[p] # "new" ~> pc[p] = "returned"
=============================================================================

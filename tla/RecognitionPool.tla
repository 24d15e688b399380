--------------------------- MODULE RecognitionPool ---------------------------
(***************************************************************************)
(* RecognitionTaskPool (src/recognition_pool.hpp): threads that run the    *)
(* blocking model calls of admitted crops.  Whoever prepares a crop waits  *)
(* in submit() for room, which covers every admitted crop, queued, running *)
(* or waiting for a model.  A crop is submitted once; `abandoned' are the  *)
(* crops whose page stopped or was cancelled, which only the environment   *)
(* changes (BoxPage is that environment).                                  *)
(*                                                                         *)
(* An operator Buggy... is its neighbour with a plausible mistake, and is  *)
(* not used (see README.md).                                               *)
(***************************************************************************)
EXTENDS Integers, FiniteSets, Sequences

CONSTANTS
  Crop,                   \* the crops that can be submitted
  Size,                   \* bytes of each crop's image
  Worker,                 \* the pool's threads
  NoCrop,                 \* what an idle worker holds
  MaxRequests, MaxBytes   \* max_requests, max_bytes

ASSUME PoolAssumption ==
  /\ IsFiniteSet(Crop) /\ NoCrop \notin Crop /\ IsFiniteSet(Worker)
  /\ Size \in [Crop -> Nat]
  /\ MaxRequests \in Nat \ {0} /\ MaxBytes \in Nat \ {0}

VARIABLES
  stage,                  \* how far each crop has come
  tasks,                  \* tasks_
  requests, bytes, running,
  submitted, completed, failed, cancelled, timeouts, oversized,
  crop,                   \* the task each worker has popped
  outcome,                \* how its work ended
  stopping,               \* stopping_
  exited,                 \* the workers that have returned
  abandoned               \* crops whose submitter and work see stop or cancel

totals == <<submitted, completed, failed, cancelled, timeouts, oversized>>
workerVars == <<crop, outcome, exited>>
poolVars == <<stage, tasks, requests, bytes, running, totals, workerVars, stopping>>
vars == <<poolVars, abandoned>>

Init ==
  /\ stage = [c \in Crop |-> "new"]
  /\ tasks = <<>>
  /\ requests = 0 /\ bytes = 0 /\ running = 0
  /\ submitted = 0 /\ completed = 0 /\ failed = 0 /\ cancelled = 0
  /\ timeouts = 0 /\ oversized = 0
  /\ crop = [w \in Worker |-> NoCrop]
  /\ outcome = [w \in Worker |-> "none"]
  /\ stopping = FALSE /\ exited = {}
  /\ abandoned = {}

At(c, s) == stage' = [stage EXCEPT ![c] = s]

-----------------------------------------------------------------------------
(* submit()                                                                *)

BuggyRoom(c) == requests - running < MaxRequests /\ Size[c] <= MaxBytes - bytes
Room(c) == requests < MaxRequests /\ Size[c] <= MaxBytes - bytes

\* A crop that could never fit is refused; any other waits for room.
Submit(c) ==
  /\ stage[c] = "new"
  /\ IF Size[c] > MaxBytes
     THEN At(c, "refused") /\ oversized' = oversized + 1
     ELSE At(c, "waiting") /\ UNCHANGED oversized
  /\ UNCHANGED <<tasks, requests, bytes, running, submitted, completed, failed,
                 cancelled, timeouts, workerVars, stopping>>

Admit(c) ==
  /\ stage[c] = "waiting" /\ Room(c)
  /\ c \notin abandoned /\ ~stopping
  /\ At(c, "queued")
  /\ tasks' = Append(tasks, c)
  /\ requests' = requests + 1 /\ bytes' = bytes + Size[c]
  /\ submitted' = submitted + 1
  /\ UNCHANGED <<running, completed, failed, cancelled, timeouts, oversized,
                 workerVars, stopping>>

\* The deadline passed while there was still no room.
TimeOut(c) ==
  /\ stage[c] = "waiting" /\ ~Room(c)
  /\ c \notin abandoned /\ ~stopping
  /\ At(c, "refused")
  /\ timeouts' = timeouts + 1
  /\ UNCHANGED <<tasks, requests, bytes, running, submitted, completed, failed,
                 cancelled, oversized, workerVars, stopping>>

\* The submitter saw the page stopped or cancelled: submit() throws Cancelled.
Withdraw(c) ==
  /\ stage[c] = "waiting" /\ c \in abandoned
  /\ At(c, "withdrawn")
  /\ UNCHANGED <<tasks, requests, bytes, running, totals, workerVars, stopping>>

-----------------------------------------------------------------------------
(* run()                                                                   *)

Take(w) ==
  /\ crop[w] = NoCrop /\ w \notin exited /\ tasks # <<>>
  /\ crop' = [crop EXCEPT ![w] = Head(tasks)]
  /\ tasks' = Tail(tasks)
  /\ running' = running + 1
  /\ At(Head(tasks), "running")
  /\ UNCHANGED <<requests, bytes, totals, outcome, stopping, exited>>

\* The task's work returned or threw; task.work = {} drops the image.
Work(w, result) ==
  /\ crop[w] # NoCrop /\ stage[crop[w]] = "running"
  /\ At(crop[w], "released")
  /\ outcome' = [outcome EXCEPT ![w] = result]
  /\ UNCHANGED <<tasks, requests, bytes, running, totals, crop, stopping, exited>>

\* Only then are its credits returned, under the lock.
Credit(w) ==
  /\ crop[w] # NoCrop /\ stage[crop[w]] = "released"
  /\ At(crop[w], "credited")
  /\ running' = running - 1 /\ requests' = requests - 1
  /\ bytes' = bytes - Size[crop[w]]
  /\ completed' = completed + 1
  /\ failed' = failed + IF outcome[w] = "failed" THEN 1 ELSE 0
  /\ cancelled' = cancelled + IF outcome[w] = "cancelled" THEN 1 ELSE 0
  /\ UNCHANGED <<tasks, submitted, timeouts, oversized, workerVars, stopping>>

\* task.finished() tells the page, and the worker's loop comes round.
Finished(w) ==
  /\ crop[w] # NoCrop /\ stage[crop[w]] = "credited"
  /\ At(crop[w], "done")
  /\ crop' = [crop EXCEPT ![w] = NoCrop]
  /\ outcome' = [outcome EXCEPT ![w] = "none"]
  /\ UNCHANGED <<tasks, requests, bytes, running, totals, stopping, exited>>

-----------------------------------------------------------------------------
(* The destructor.  The pipeline owns the pool and outlives its pages, and *)
(* every page waits for its crops: nobody is in submit() any more.         *)

Stop ==
  /\ ~stopping
  /\ \A c \in Crop : stage[c] \in {"new", "done", "refused", "withdrawn"}
  /\ stopping' = TRUE
  /\ UNCHANGED <<stage, tasks, requests, bytes, running, totals, workerVars>>

WorkerExits(w) ==
  /\ stopping /\ tasks = <<>> /\ crop[w] = NoCrop /\ w \notin exited
  /\ exited' = exited \cup {w}
  /\ UNCHANGED <<stage, tasks, requests, bytes, running, totals, crop, outcome,
                 stopping>>

Ended == stopping /\ exited = Worker /\ UNCHANGED poolVars

Submitter(c) == Submit(c) \/ Admit(c) \/ TimeOut(c) \/ Withdraw(c)
PoolWorker(w) ==
  \/ Take(w) \/ (\E r \in {"ok", "failed", "cancelled"} : Work(w, r))
  \/ Credit(w) \/ Finished(w) \/ WorkerExits(w)

PoolNext ==
  \/ \E c \in Crop : ~stopping /\ Submitter(c)
  \/ \E w \in Worker : PoolWorker(w)
  \/ Stop \/ Ended

\* A page stops or is cancelled: for good.
Abandon(c) == abandoned' = abandoned \cup {c} /\ c \notin abandoned

Next ==
  \/ PoolNext /\ UNCHANGED abandoned
  \/ \E c \in Crop : Abandon(c) /\ UNCHANGED poolVars

Spec == Init /\ [][Next]_vars

-----------------------------------------------------------------------------
Stages == {"new", "waiting", "queued", "running", "released", "credited",
           "done", "refused", "withdrawn"}

(* Types of the pool's members and of a worker's locals.                   *)
TypeOK ==
  /\ stage \in [Crop -> Stages] /\ tasks \in Seq(Crop)
  /\ {requests, bytes, running, submitted, completed, failed, cancelled,
      timeouts, oversized} \subseteq Nat
  /\ crop \in [Worker -> Crop \cup {NoCrop}]
  /\ outcome \in [Worker -> {"none", "ok", "failed", "cancelled"}]
  /\ stopping \in BOOLEAN /\ exited \subseteq Worker /\ abandoned \subseteq Crop

Admitted == {c \in Crop : stage[c] \in {"queued", "running", "released"}}
Completed == {c \in Crop : stage[c] \in {"credited", "done"}}
Refused == {c \in Crop : stage[c] = "refused"}
Busy == {w \in Worker : crop[w] # NoCrop /\ stage[crop[w]] # "credited"}
ByteSet(S) == {x \in S \X (1 .. MaxBytes) : x[2] <= Size[x[1]]}

(* The credits are exactly those of the crops admitted and not yet         *)
(* released, on whichever path they ended, and stay within both limits     *)
(* while crops are queued, running or waiting for a model                  *)
(* (recognition_pool.hpp:11-12).  The totals of the metrics agree with the *)
(* crops: nothing admitted is lost or completed twice, and every crop has  *)
(* one ending.                                                             *)
CreditsMatch ==
  /\ requests = Cardinality(Admitted) /\ requests <= MaxRequests
  /\ bytes = Cardinality(ByteSet(Admitted)) /\ bytes <= MaxBytes
  /\ submitted = completed + requests
  /\ completed = Cardinality(Completed)
  /\ timeouts + oversized = Cardinality(Refused)
  /\ failed + cancelled <= completed
  /\ running = Cardinality(Busy)
=============================================================================

------------------------------ MODULE BatchQueue ------------------------------
(***************************************************************************)
(* A model's pool with native batching (Pool::batch_worker and the first   *)
(* half of Pool::infer in src/model_pool.cpp).  Callers put requests into  *)
(* one queue; each worker owns an instance, collects requests for a while, *)
(* runs them as one batch and answers each.  A request refers to the image *)
(* in its caller's frame, and a caller may give up while it is queued.     *)
(*                                                                         *)
(* A caller has one request at a time, so the request is named by it.      *)
(* Time is left open: a worker may stop collecting, and a caller may be    *)
(* late or cancelled, at any moment.                                       *)
(*                                                                         *)
(* An operator Buggy... is its neighbour with a plausible mistake, and is  *)
(* not used (see README.md).                                               *)
(***************************************************************************)
EXTENDS Integers, FiniteSets, Sequences

CONSTANTS
  Caller,                  \* threads that call infer()
  Worker,                  \* the slots, each with an instance and a thread
  BatchSize,               \* batch_size of each slot
  MaxPending               \* max_pending_requests

ASSUME BatchAssumption ==
  /\ IsFiniteSet(Caller) /\ IsFiniteSet(Worker)
  /\ BatchSize \in [Worker -> Nat \ {0}]
  /\ MaxPending \in Nat /\ \A w \in Worker : BatchSize[w] <= MaxPending

VARIABLES
  pc,                      \* where each caller is in infer()
  queue,                   \* queue
  started,                 \* Request::started
  answer,                  \* Request::answer
  worker,                  \* where each worker is
  batch,                   \* the requests a worker has taken and not answered
  outcome,                 \* responses or error of the worker's call
  inflight, stopping

callerVars == <<pc, queue, started>>
workerVars == <<worker, batch, outcome, inflight>>
vars == <<callerVars, answer, workerVars, stopping>>

Init ==
  /\ pc = [c \in Caller |-> "out"]
  /\ queue = <<>>
  /\ started = [c \in Caller |-> FALSE]
  /\ answer = [c \in Caller |-> "none"]
  /\ worker = [w \in Worker |-> "idle"]
  /\ batch = [w \in Worker |-> <<>>]
  /\ outcome = [w \in Worker |-> "none"]
  /\ inflight = 0 /\ stopping = FALSE

Elements(s) == {s[k] : k \in 1 .. Len(s)}
Least(m, n) == IF m < n THEN m ELSE n

\* A request is erased where it is found.
Place(s, c) == CHOOSE k \in DOMAIN s : s[k] = c
Erase(s, c) ==
  IF \A k \in DOMAIN s : s[k] # c THEN s
  ELSE [k \in 1 .. Len(s) - 1 |-> IF k < Place(s, c) THEN s[k] ELSE s[k + 1]]

-----------------------------------------------------------------------------
(* infer()                                                                 *)

\* A new request, unless the queue is full.
Enqueue(c) ==
  /\ pc[c] = "out" /\ ~stopping
  /\ Len(queue) < MaxPending
  /\ pc' = [pc EXCEPT ![c] = "waiting"]
  /\ queue' = Append(queue, c)
  /\ started' = [started EXCEPT ![c] = FALSE]
  /\ answer' = [answer EXCEPT ![c] = "none"]
  /\ UNCHANGED <<workerVars, stopping>>

\* Too late, or cancelled: only a request that has not started is withdrawn.
BuggyGiveUp(c) ==
  /\ pc[c] = "waiting"
  /\ queue' = Erase(queue, c)
  /\ pc' = [pc EXCEPT ![c] = "out"]
  /\ UNCHANGED <<started, answer, workerVars, stopping>>
GiveUp(c) ==
  /\ pc[c] = "waiting" /\ ~started[c]
  /\ queue' = Erase(queue, c)
  /\ pc' = [pc EXCEPT ![c] = "out"]
  /\ UNCHANGED <<started, answer, workerVars, stopping>>

\* A started request is waited for, cancelled or not: the worker uses its image.
AwaitAnswer(c) ==
  /\ pc[c] = "waiting" /\ started[c]
  /\ pc' = [pc EXCEPT ![c] = "getting"]
  /\ UNCHANGED <<queue, started, answer, workerVars, stopping>>

GetAnswer(c) ==
  /\ pc[c] = "getting" /\ answer[c] # "none"
  /\ pc' = [pc EXCEPT ![c] = "out"]
  /\ UNCHANGED <<queue, started, answer, workerVars, stopping>>

-----------------------------------------------------------------------------
(* batch_worker()                                                          *)

Collect(w) ==
  /\ worker[w] = "idle" /\ queue # <<>>
  /\ worker' = [worker EXCEPT ![w] = "collecting"]
  /\ UNCHANGED <<callerVars, answer, batch, outcome, inflight, stopping>>

\* Other workers took everything, or it was withdrawn.
CollectNothing(w) ==
  /\ worker[w] = "collecting" /\ queue = <<>>
  /\ worker' = [worker EXCEPT ![w] = "idle"]
  /\ UNCHANGED <<callerVars, answer, batch, outcome, inflight, stopping>>

\* The oldest requests, as many as the batch holds, when there are enough or
\* the first has waited long enough.
Taken(w) == SubSeq(queue, 1, Least(Len(queue), BatchSize[w]))
Take(w) ==
  /\ worker[w] = "collecting" /\ queue # <<>>
  /\ batch' = [batch EXCEPT ![w] = Taken(w)]
  /\ queue' = SubSeq(queue, Len(Taken(w)) + 1, Len(queue))
  /\ started' = [c \in Caller |-> started[c] \/ c \in Elements(Taken(w))]
  /\ inflight' = inflight + Len(Taken(w))
  /\ worker' = [worker EXCEPT ![w] = "calling"]
  /\ UNCHANGED <<pc, answer, outcome, stopping>>

\* The call returns, with an answer for each request or with one error.
BuggyCallEnds(w) ==
  /\ worker[w] = "calling"
  /\ inflight' = inflight - Len(batch[w])
  /\ \E o \in {"value", "error"} :
       /\ outcome' = [outcome EXCEPT ![w] = IF o = "value" THEN o ELSE "none"]
       /\ worker' = [worker EXCEPT ![w] = IF o = "value" THEN "answering" ELSE "idle"]
       /\ batch' = [batch EXCEPT ![w] = IF o = "value" THEN @ ELSE <<>>]
  /\ UNCHANGED <<callerVars, answer, stopping>>
CallEnds(w) ==
  /\ worker[w] = "calling"
  /\ \E o \in {"value", "error"} : outcome' = [outcome EXCEPT ![w] = o]
  /\ inflight' = inflight - Len(batch[w])
  /\ worker' = [worker EXCEPT ![w] = "answering"]
  /\ UNCHANGED <<callerVars, answer, batch, stopping>>

\* Outside the lock, the requests are answered one after the other.
Answer(w) ==
  /\ worker[w] = "answering"
  /\ answer' = [answer EXCEPT ![Head(batch[w])] = outcome[w]]
  /\ batch' = [batch EXCEPT ![w] = Tail(@)]
  /\ worker' = [worker EXCEPT ![w] = IF Len(batch[w]) = 1 THEN "idle" ELSE "answering"]
  /\ outcome' = [outcome EXCEPT ![w] = IF Len(batch[w]) = 1 THEN "none" ELSE @]
  /\ UNCHANGED <<callerVars, inflight, stopping>>

-----------------------------------------------------------------------------
(* ~Pool(), when nobody calls infer() any more.                            *)

Stop ==
  /\ ~stopping /\ \A c \in Caller : pc[c] = "out"
  /\ stopping' = TRUE
  /\ UNCHANGED <<callerVars, answer, workerVars>>

Exit(w) ==
  /\ worker[w] = "idle" /\ stopping /\ queue = <<>>
  /\ worker' = [worker EXCEPT ![w] = "exited"]
  /\ UNCHANGED <<callerVars, answer, batch, outcome, inflight, stopping>>

Next ==
  \/ \E c \in Caller : Enqueue(c) \/ GiveUp(c) \/ AwaitAnswer(c) \/ GetAnswer(c)
  \/ \E w \in Worker :
       Collect(w) \/ CollectNothing(w) \/ Take(w) \/ CallEnds(w) \/ Answer(w) \/ Exit(w)
  \/ Stop

Spec == Init /\ [][Next]_vars

(* Every wait has a bound or is notified, and backend calls end; nobody has *)
(* to be late.                                                             *)
Fairness ==
  /\ \A c \in Caller : WF_vars(AwaitAnswer(c) \/ GetAnswer(c))
  /\ \A w \in Worker :
       WF_vars(Collect(w) \/ CollectNothing(w) \/ Take(w) \/ CallEnds(w) \/ Answer(w) \/ Exit(w))
FairSpec == Spec /\ Fairness

-----------------------------------------------------------------------------
Unanswered(w) == Elements(batch[w])
Calling == {w \in Worker : worker[w] = "calling"}

(* Types of the pool's members; a batch holds at most batch_size requests. *)
TypeOK ==
  /\ pc \in [Caller -> {"out", "waiting", "getting"}]
  /\ queue \in Seq(Caller) /\ Len(queue) <= MaxPending
  /\ started \in [Caller -> BOOLEAN] /\ answer \in [Caller -> {"none", "value", "error"}]
  /\ worker \in [Worker -> {"idle", "collecting", "calling", "answering", "exited"}]
  /\ \A w \in Worker : batch[w] \in Seq(Caller) /\ Len(batch[w]) <= BatchSize[w]
  /\ outcome \in [Worker -> {"none", "value", "error"}]
  /\ inflight \in Nat /\ stopping \in BOOLEAN

(* A request is either in the queue, once, or with one worker, once, or    *)
(* answered: never with two, and none is lost while its caller waits.      *)
(* "Worker still owns the input image until this returns"                  *)
(* (model_pool.cpp:647): while it is with a worker its caller, and with it *)
(* the image, is in infer() and waits.  inflight counts the requests in    *)
(* calls of the backend.                                                   *)
RequestsAccountedFor ==
  /\ \A w \in Worker : \A c \in Unanswered(w) :
       pc[c] \in {"waiting", "getting"} /\ started[c] /\ answer[c] = "none"
  /\ \A v, w \in Worker : v # w => Unanswered(v) \cap Unanswered(w) = {}
  /\ \A w \in Worker : Cardinality(Unanswered(w)) = Len(batch[w])
  /\ Cardinality(Elements(queue)) = Len(queue)
  /\ \A c \in Caller :
       /\ c \in Elements(queue) <=> pc[c] = "waiting" /\ ~started[c]
       /\ pc[c] # "out" /\ started[c] /\ answer[c] = "none" =>
            \E w \in Worker : c \in Unanswered(w)
  /\ inflight = Cardinality(UNION {Unanswered(w) : w \in Calling})

(* Nobody waits for ever: an answer or an error comes, although batches    *)
(* need not fill and requests are withdrawn from under a worker; and the   *)
(* destructor joins every worker.                                          *)
EveryCallReturns ==
  /\ \A c \in Caller : pc[c] # "out" ~> pc[c] = "out"
  /\ stopping ~> \A w \in Worker : worker[w] = "exited"
=============================================================================

----------------------------- MODULE JobLifecycle -----------------------------
(***************************************************************************)
(* What the REST interface promises about a job, whatever threads do the   *)
(* work: which status follows which, when work may start on a job, and     *)
(* that nothing works on a job that is reported cancelled or is deleted.   *)
(* ServerScheduler implements this specification.                          *)
(***************************************************************************)
EXTENDS Naturals

CONSTANT Id

VARIABLES
  status,   \* status of each job; "none" before it is accepted
  work      \* how many threads read, recognise or write the job

vars == <<status, work>>

Running == {"reading", "processing", "finalizing"}
Ended == {"succeeded", "failed", "cancelled"}

Init ==
  /\ status = [j \in Id |-> "none"]
  /\ work = [j \in Id |-> 0]

\* One job moves; the others do not notice.
Move(j, s, n) ==
  /\ status' = [status EXCEPT ![j] = s]
  /\ work' = [work EXCEPT ![j] = n]

Accept(j) == status[j] = "none" /\ Move(j, "queued", 0)

\* A document is read by one thread, page after page ...
Read(j) == status[j] = "queued" /\ Move(j, "reading", 1)
Progress(j) == status[j] \in {"reading", "processing"} /\ Move(j, "processing", work[j])

\* ... which stops when the document ends, while threads come and go for its
\* pages ...
StartWork(j) == status[j] = "processing" /\ Move(j, status[j], work[j] + 1)
StopWork(j) == /\ status[j] \in {"processing", "failed", "cancelling"}
               /\ work[j] > 0
               /\ Move(j, status[j], work[j] - 1)

\* ... until the only thread left writes the result.
Finalize(j) == status[j] = "processing" /\ work[j] = 1 /\ Move(j, "finalizing", 1)
Succeed(j) == status[j] = "finalizing" /\ Move(j, "succeeded", 0)

\* Whoever works on a job may find that it fails; other threads finish later.
Fail(j) == status[j] \in Running /\ Move(j, "failed", work[j] - 1)

RequestCancel(j) ==
  /\ status[j] \in Running \cup {"queued"}
  /\ Move(j, "cancelling", work[j])
FinishCancel(j) == status[j] = "cancelling" /\ work[j] = 0 /\ Move(j, "cancelled", 0)

Delete(j) == status[j] \in Ended /\ work[j] = 0 /\ Move(j, "deleted", 0)

Next == \E j \in Id :
  \/ Accept(j) \/ Read(j) \/ Progress(j) \/ StartWork(j) \/ StopWork(j)
  \/ Finalize(j) \/ Succeed(j) \/ Fail(j)
  \/ RequestCancel(j) \/ FinishCancel(j) \/ Delete(j)

Spec == Init /\ [][Next]_vars
=============================================================================

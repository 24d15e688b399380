------------------------------ MODULE AclStream ------------------------------
(***************************************************************************)
(* One instance of the ACL backend (AclEngine in src/backends/acl.cpp) and *)
(* the batches that LocalModel (src/backends/tensor.cpp) gives it.         *)
(* run() copies its inputs into pinned host buffers and queues copies, the *)
(* model and copies back on the instance's stream, which the device works  *)
(* off meanwhile; it synchronizes once, at the end or after a failure.     *)
(* The buffers are used by call after call.                                *)
(*                                                                         *)
(* A tensor has a part for each place of the exported batch.  The part of  *)
(* an input holds the call and the request its data is from; that of an    *)
(* output, those its model run had at the same place of its inputs.  A     *)
(* stream that fails does nothing more.  Callers lease the instance        *)
(* (ModelPool), so calls do not overlap.                                   *)
(*                                                                         *)
(* An operator Buggy... is its neighbour with a plausible mistake, and is  *)
(* not used (see README.md).                                               *)
(***************************************************************************)
EXTENDS Integers, Sequences, SequencesExt

CONSTANTS
  Inputs, Outputs,         \* how many the model has
  Physical,                \* fixed_batch_size()
  MaxCalls                 \* bound of the number of calls

\* A model has inputs, outputs and places.
ASSUME AclAssumption == {Inputs, Outputs, Physical} \subseteq Nat \ {0}

VARIABLES
  step,                    \* where run() is; "idle" between calls
  asyncStream,             \* async_stream_
  call, next,              \* the call, and the input or output to queue next
  asked,                   \* how many requests the call is for
  hostInput, deviceInput, deviceOutput, hostOutput,
  stream,                  \* tasks the device has not finished
  broken,                  \* the device reported an error on the stream
  streamFailed             \* stream_failed_

buffers == <<hostInput, deviceInput, deviceOutput, hostOutput>>
aclVars == <<step, asyncStream, call, next, asked, buffers, stream, broken, streamFailed>>

Places == 1 .. Physical
Nothing == [p \in Places |-> <<0, 0>>]

AclInit ==
  /\ step = "unloaded" /\ asyncStream = TRUE
  /\ call = 0 /\ next = 0 /\ asked = 0
  /\ hostInput = [i \in 1 .. Inputs |-> Nothing] /\ deviceInput = hostInput
  /\ deviceOutput = [o \in 1 .. Outputs |-> [p \in Places |-> {}]] /\ hostOutput = deviceOutput
  /\ stream = <<>> /\ broken = FALSE /\ streamFailed = FALSE

Load ==
  /\ step = "unloaded" /\ step' = "idle"
  /\ asyncStream' \in BOOLEAN
  /\ UNCHANGED <<call, next, asked, buffers, stream, broken, streamFailed>>

-----------------------------------------------------------------------------
(* The device.                                                             *)

\* The parts of a batch do not affect each other.
ModelRun == [o \in 1 .. Outputs |-> [p \in Places |-> {deviceInput[i][p] : i \in 1 .. Inputs}]]

Device ==
  /\ stream # <<>> /\ ~broken
  /\ LET t == Head(stream) IN
     CASE t.kind = "input" ->
            /\ deviceInput' = [deviceInput EXCEPT ![t.index] = hostInput[t.index]]
            /\ UNCHANGED <<hostInput, deviceOutput, hostOutput>>
       [] t.kind = "model" ->
            /\ deviceOutput' = ModelRun
            /\ UNCHANGED <<hostInput, deviceInput, hostOutput>>
       [] t.kind = "output" ->
            /\ hostOutput' = [hostOutput EXCEPT ![t.index] = deviceOutput[t.index]]
            /\ UNCHANGED <<hostInput, deviceInput, deviceOutput>>
  /\ stream' = Tail(stream)
  /\ UNCHANGED <<step, asyncStream, call, next, asked, broken, streamFailed>>

DeviceFails ==
  /\ stream # <<>> /\ ~broken
  /\ broken' = TRUE
  /\ UNCHANGED <<step, asyncStream, call, next, asked, buffers, stream, streamFailed>>

\* aclrtSynchronizeStream() returns.
Synchronized == stream = <<>> \/ broken

-----------------------------------------------------------------------------
(* run()                                                                   *)

\* infer_batch(): the last request fills the places that are left over.
Combined == [p \in Places |-> <<call, IF p < asked THEN p ELSE asked>>]

\* Too many requests are refused, and so are wrong inputs, before anything is queued; a
\* failed stream takes no more calls.
Call ==
  /\ step = "idle" /\ call < MaxCalls
  /\ call' = call + 1 /\ asked' \in 1 .. Physical
  /\ \/ step' = "idle" /\ UNCHANGED next
     \/ ~streamFailed /\ next' = 1 /\ step' = IF asyncStream THEN "inputs" ELSE "blocking"
  /\ UNCHANGED <<asyncStream, buffers, stream, broken, streamFailed>>

\* A task is queued, or the runtime refuses it.
Enqueue(kind, then) ==
  /\ \/ /\ stream' = Append(stream, [kind |-> kind, index |-> next, call |-> call])
        /\ step' = then
     \/ step' = "draining" /\ UNCHANGED stream
  /\ UNCHANGED <<asyncStream, call, asked, broken, streamFailed>>

CopyInput ==
  /\ step = "inputs"
  /\ hostInput' = [hostInput EXCEPT ![next] = Combined]
  /\ Enqueue("input", IF next = Inputs THEN "model" ELSE "inputs")
  /\ next' = IF next = Inputs THEN 1 ELSE next + 1
  /\ UNCHANGED <<deviceInput, deviceOutput, hostOutput>>

ExecuteModel ==
  /\ step = "model"
  /\ Enqueue("model", "outputs")
  /\ UNCHANGED <<next, buffers>>

CopyOutput ==
  /\ step = "outputs"
  /\ Enqueue("output", IF next = Outputs THEN "synchronizing" ELSE "outputs")
  /\ next' = next + 1
  /\ UNCHANGED buffers

Synchronize ==
  /\ step = "synchronizing" /\ Synchronized
  /\ streamFailed' = broken
  /\ step' = IF broken THEN "idle" ELSE "collect"
  /\ UNCHANGED <<asyncStream, call, next, asked, buffers, stream, broken>>

\* Tasks queued before the failure keep their buffers until they are done.
BuggyDrain ==
  /\ step = "draining"
  /\ step' = "idle"
  /\ UNCHANGED <<asyncStream, call, next, asked, buffers, stream, broken, streamFailed>>
Drain ==
  /\ step = "draining" /\ Synchronized
  /\ streamFailed' = broken
  /\ step' = "idle"
  /\ UNCHANGED <<asyncStream, call, next, asked, buffers, stream, broken>>

\* Without a stream each call of the runtime waits; any of them may fail.
Blocking ==
  /\ step = "blocking"
  /\ \/ /\ next <= Inputs
        /\ deviceInput' = [deviceInput EXCEPT ![next] = Combined]
        /\ next' = next + 1
        /\ UNCHANGED <<step, deviceOutput>>
     \/ /\ next = Inputs + 1
        /\ deviceOutput' = ModelRun
        /\ step' = "collect"
        /\ UNCHANGED <<next, deviceInput>>
     \/ step' = "idle" /\ UNCHANGED <<next, deviceInput, deviceOutput>>
  /\ UNCHANGED <<asyncStream, call, asked, hostInput, hostOutput, stream, broken, streamFailed>>

\* The outputs are copied into the result, or one has a shape that is not supported.
Collect ==
  /\ step = "collect"
  /\ step' = "idle"
  /\ UNCHANGED <<asyncStream, call, next, asked, buffers, stream, broken, streamFailed>>

\* clear(): the stream is synchronized and destroyed before the buffers are freed.
Clear ==
  /\ step = "idle" /\ Synchronized
  /\ step' = "freed" /\ stream' = <<>>
  /\ UNCHANGED <<asyncStream, call, next, asked, buffers, broken, streamFailed>>

AclNext ==
  \/ Load \/ Device \/ DeviceFails
  \/ Call \/ CopyInput \/ ExecuteModel \/ CopyOutput \/ Synchronize \/ Drain
  \/ Blocking \/ Collect \/ Clear

-----------------------------------------------------------------------------

\* The buffer run() takes an output from, and the part of it that answers a request.
Returned(o) == IF asyncStream THEN hostOutput[o] ELSE deviceOutput[o]
Slice(o, request) == Returned(o)[request]

\* A queued copy finds the data of the call that queued it, however that call ended;
\* each result is computed from the inputs of its own request and of no other, nor of
\* another call; and between calls nothing is queued on a stream that works.
CallsDoNotMix ==
  /\ \A t \in Range(stream) : t.kind = "input" => \A p \in Places : hostInput[t.index][p][1] = t.call
  /\ step = "collect" => \A o \in 1 .. Outputs, r \in 1 .. asked : Slice(o, r) = {<<call, r>>}
  /\ step = "idle" /\ stream # <<>> => streamFailed
=============================================================================

------------------------------ MODULE ModelPool ------------------------------
(***************************************************************************)
(* One model's pool of instances (Pool in src/model_pool.cpp) for models   *)
(* without native batching: infer() queues its caller, leases an instance  *)
(* for one backend call and returns it.  The strategy decides who may take *)
(* the next instance: `fixed' in order of arrival, `adaptive' within a     *)
(* budget of estimated tokens in flight that a controller moves; `visual'  *)
(* and `buckets' plan waves of similar images, the first with buckets it   *)
(* finds in the queue, the second with fixed ones.                         *)
(*                                                                         *)
(* Callers call infer() again and again.  Tickets are the positions in the *)
(* queue; a lease's budget epoch is kept as `fresh': it is the current one.*)
(* Which budget the controller chooses, and which images of the queue a    *)
(* wave takes, is left open here.                                          *)
(*                                                                         *)
(* An operator Buggy... is its neighbour with a plausible mistake, and is  *)
(* not used (see README.md).                                               *)
(***************************************************************************)
EXTENDS Integers, FiniteSets, Sequences

CONSTANTS
  Caller,                  \* threads that call infer()
  Instance,                \* the instances in use: max_concurrent_requests
  NoInstance,
  Strategies,              \* strategies a pool may be configured with
  Tokens,                  \* estimates a request can have (prefill, in waves)
  Budgets,                 \* values between min_token_budget and token_budget
  MaxPending,              \* max_pending_requests
  HeadBypasses,            \* 4, or max_bucket_bypasses
  MaxSeqs, BatchedTokens   \* max_num_seqs, max_num_batched_tokens

ASSUME PoolAssumption ==
  /\ IsFiniteSet(Caller) /\ IsFiniteSet(Instance) /\ Instance # {}
  /\ NoInstance \notin Instance
  /\ Strategies \subseteq {"fixed", "adaptive", "visual", "buckets"}
  /\ Tokens \subseteq Nat \ {0}
  /\ Budgets \subseteq Nat \ {0} /\ Budgets # {}
  /\ MaxPending \in Nat \ {0} /\ HeadBypasses \in Nat
  /\ MaxSeqs \in Nat \ {0} /\ BatchedTokens \in Nat \ {0}

VARIABLES
  strategy,                \* the configured one, which never changes
  pc,                      \* where each caller is in infer()
  queue,                   \* scalar_queue
  tokens, bypasses,        \* fields of the caller's ScalarWaiter
  aged,                    \* it was queued long ago: timeout_ms / 2 or visual_wait_ms
  available,               \* available
  lease,                   \* the instance each caller has leased
  inflight, inflightTokens,
  budget,                  \* current_token_budget
  fresh,                   \* the lease was taken in the current control_epoch
  staleInflight,           \* stale_inflight
  wave                     \* dispatch_wave

vars == <<strategy, pc, queue, tokens, bypasses, aged, available, lease, inflight,
          inflightTokens, budget, fresh, staleInflight, wave>>
controlVars == <<strategy, budget, fresh, staleInflight>>

Init ==
  /\ strategy \in Strategies
  /\ pc = [c \in Caller |-> "out"]
  /\ queue = <<>> /\ wave = <<>>
  /\ tokens = [c \in Caller |-> 0] /\ bypasses = [c \in Caller |-> 0]
  /\ aged = [c \in Caller |-> FALSE]
  /\ available = Instance
  /\ lease = [c \in Caller |-> NoInstance]
  /\ inflight = 0 /\ inflightTokens = 0
  /\ budget \in Budgets
  /\ fresh = [c \in Caller |-> FALSE] /\ staleInflight = 0

Waiting == {queue[k] : k \in DOMAIN queue}
Waves == strategy \in {"visual", "buckets"}

\* The ticket is erased where it stands.
Place(s, c) == CHOOSE i \in DOMAIN s : s[i] = c
Remove(s, c) ==
  IF \A i \in DOMAIN s : s[i] # c THEN s
  ELSE [k \in 1 .. Len(s) - 1 |-> IF k < Place(s, c) THEN s[k] ELSE s[k + 1]]

-----------------------------------------------------------------------------
(* Who may take the next instance: next_admissible().                      *)

\* A call fits next to those in flight; the first one always does.
Fits(n) ==
  /\ inflight < Cardinality(Instance)
  /\ inflight = 0 \/ inflightTokens + n <= budget

\* While the head of the queue does not fit, the first that fits goes past it,
\* a few times; then the pool drains for the head.
BuggyBypass(c) ==
  \E k \in 2 .. Len(queue) :
    /\ queue[k] = c /\ Fits(tokens[c])
    /\ \A m \in 1 .. k - 1 : ~Fits(tokens[queue[m]])
Bypass(c) ==
  /\ bypasses[Head(queue)] < HeadBypasses
  /\ \E k \in 2 .. Len(queue) :
       /\ queue[k] = c /\ Fits(tokens[c])
       /\ \A m \in 1 .. k - 1 : ~Fits(tokens[queue[m]])

Admissible(c) ==
  /\ queue # <<>> /\ available # {}
  /\ CASE strategy = "fixed" -> c = Head(queue)
       [] strategy = "adaptive" ->
            IF Fits(tokens[Head(queue)]) THEN c = Head(queue) ELSE Bypass(c)
       [] Waves -> wave # <<>> /\ c = Head(wave)

-----------------------------------------------------------------------------
(* plan_visual_wave(), which whoever looks at an empty wave executes.      *)

\* The sum of the estimates, as the number of the callers' single tokens.
Load(S) == Cardinality(UNION {{c} \X (1 .. tokens[c]) : c \in S})
Upto(s, k) == {s[i] : i \in 1 .. k}

\* As many as there are instances and sequences for, ...
Capacity == {n \in 1 .. Len(queue) : n <= Cardinality(available) /\ n <= MaxSeqs - inflight}

\* ... with the head of the queue first when it has been passed often enough or
\* has waited long enough, ...
HeadIsDue ==
  \/ aged[Head(queue)]
  \/ strategy = "visual" /\ bypasses[Head(queue)] >= HeadBypasses

\* ... each once and within the prefill budget, unless alone.
BuggyIsWave(s) ==
  /\ \A k \in DOMAIN s : s[k] \notin Upto(s, k - 1)
  /\ \A k \in 2 .. Len(s) : Load(Upto(s, k)) <= BatchedTokens
IsWave(s) ==
  /\ \A k \in DOMAIN s : s[k] \notin Upto(s, k - 1)
  /\ \A k \in 2 .. Len(s) : Load(Upto(s, k)) <= BatchedTokens
  /\ HeadIsDue => s[1] = Head(queue)

PlanWave ==
  /\ Waves
  /\ wave = <<>> /\ queue # <<>> /\ available # {} /\ inflight < MaxSeqs
  /\ \E n \in Capacity : \E s \in [1 .. n -> Waiting] : IsWave(s) /\ wave' = s
  /\ UNCHANGED <<pc, queue, tokens, bypasses, aged, available, lease, inflight,
                 inflightTokens, controlVars>>

\* Time passes for a waiting caller.
Age(c) ==
  /\ Waves
  /\ pc[c] = "waiting" /\ ~aged[c]
  /\ aged' = [aged EXCEPT ![c] = TRUE]
  /\ UNCHANGED <<pc, queue, tokens, bypasses, available, lease, inflight,
                 inflightTokens, controlVars, wave>>

-----------------------------------------------------------------------------
(* infer()                                                                 *)

\* The caller queues up, unless the queue is full.
Enter(c) ==
  /\ pc[c] = "out" /\ Len(queue) < MaxPending
  /\ \E n \in Tokens : tokens' = [tokens EXCEPT ![c] = n]
  /\ bypasses' = [bypasses EXCEPT ![c] = 0]
  /\ queue' = Append(queue, c)
  /\ pc' = [pc EXCEPT ![c] = "waiting"]
  /\ UNCHANGED <<aged, available, lease, inflight, inflightTokens, controlVars, wave>>

\* It gives up: its job was cancelled, or its time is over.
BuggyLeave(c) ==
  /\ pc[c] = "waiting"
  /\ queue' = Remove(queue, c)
  /\ UNCHANGED wave
  /\ pc' = [pc EXCEPT ![c] = "out"]
  /\ tokens' = [tokens EXCEPT ![c] = 0] /\ bypasses' = [bypasses EXCEPT ![c] = 0]
  /\ aged' = [aged EXCEPT ![c] = FALSE]
  /\ UNCHANGED <<available, lease, inflight, inflightTokens, controlVars>>
Leave(c) ==
  /\ pc[c] = "waiting"
  /\ queue' = Remove(queue, c)
  /\ wave' = Remove(wave, c)
  /\ pc' = [pc EXCEPT ![c] = "out"]
  /\ tokens' = [tokens EXCEPT ![c] = 0] /\ bypasses' = [bypasses EXCEPT ![c] = 0]
  /\ aged' = [aged EXCEPT ![c] = FALSE]
  /\ UNCHANGED <<available, lease, inflight, inflightTokens, controlVars>>

\* Whoever goes past the head of the queue is counted there.
Passed(c) ==
  IF c # Head(queue) /\ strategy # "buckets" THEN [bypasses EXCEPT ![Head(queue)] = @ + 1]
  ELSE bypasses

\* It takes an instance.
Acquire(c) ==
  /\ pc[c] = "waiting" /\ Admissible(c)
  /\ \E i \in available :
       /\ available' = available \ {i}
       /\ lease' = [lease EXCEPT ![c] = i]
  /\ queue' = Remove(queue, c)
  /\ bypasses' = [Passed(c) EXCEPT ![c] = 0]
  /\ aged' = [aged EXCEPT ![c] = FALSE]
  /\ wave' = IF Waves THEN Tail(wave) ELSE wave
  /\ inflight' = inflight + 1
  /\ inflightTokens' = IF strategy = "adaptive" THEN inflightTokens + tokens[c] ELSE 0
  /\ fresh' = [fresh EXCEPT ![c] = TRUE]
  /\ pc' = [pc EXCEPT ![c] = "calling"]
  /\ UNCHANGED <<strategy, tokens, budget, staleInflight>>

\* A new budget starts a new epoch: what is in flight belongs to an old one.
BuggySetBudget(b) ==
  /\ budget' = b
  /\ fresh' = [c \in Caller |-> FALSE]
  /\ staleInflight' = inflight
SetBudget(b) ==
  /\ budget' = b
  /\ fresh' = [c \in Caller |-> FALSE]
  /\ staleInflight' = inflight'

\* complete(): the call leaves the budget, then the controller may act.  An
\* overloaded backend may shrink the budget at once; the throughput window moves it
\* either way, but only counts calls of the current epoch after the last one
\* of an older epoch has ended.
Complete(c) ==
  /\ strategy = "adaptive"
  /\ pc[c] = "calling"
  /\ inflight' = inflight - 1
  /\ inflightTokens' = inflightTokens - tokens[c]
  /\ pc' = [pc EXCEPT ![c] = "returning"]
  /\ \/ /\ fresh' = [fresh EXCEPT ![c] = FALSE]
        /\ staleInflight' = IF ~fresh[c] /\ staleInflight > 0 THEN staleInflight - 1
                            ELSE staleInflight
        /\ UNCHANGED budget
     \/ \E b \in Budgets \ {budget} :
          /\ b < budget \/ (fresh[c] /\ staleInflight = 0)
          /\ SetBudget(b)
  /\ UNCHANGED <<strategy, queue, tokens, bypasses, aged, available, lease, wave>>

\* ~Lease(): the instance is free again.  Without a budget to give back first
\* this also ends the call.
Return(c) ==
  /\ pc[c] = IF strategy = "adaptive" THEN "returning" ELSE "calling"
  /\ available' = available \cup {lease[c]}
  /\ lease' = [lease EXCEPT ![c] = NoInstance]
  /\ pc' = [pc EXCEPT ![c] = "out"]
  /\ tokens' = [tokens EXCEPT ![c] = 0]
  /\ fresh' = [fresh EXCEPT ![c] = FALSE]
  /\ inflight' = IF strategy = "adaptive" THEN inflight ELSE inflight - 1
  /\ UNCHANGED <<strategy, queue, bypasses, aged, inflightTokens, budget, staleInflight, wave>>

-----------------------------------------------------------------------------

Next ==
  \/ \E c \in Caller : Enter(c) \/ Age(c) \/ Leave(c) \/ Acquire(c) \/ Complete(c) \/ Return(c)
  \/ PlanWave

Spec == Init /\ [][Next]_vars

(* A waiting caller looks at the pool at least every 20 ms, and backend     *)
(* calls end.  Nobody has to give up waiting.                               *)
Fairness ==
  /\ \A c \in Caller :
       WF_vars(Age(c)) /\ WF_vars(Acquire(c)) /\ WF_vars(Complete(c) \/ Return(c))
  /\ WF_vars(PlanWave)
FairSpec == Spec /\ Fairness

-----------------------------------------------------------------------------
InFlight == {c \in Caller : pc[c] = "calling"}

(* Types of the pool's members.                                            *)
TypeOK ==
  /\ strategy \in Strategies
  /\ pc \in [Caller -> {"out", "waiting", "calling", "returning"}]
  /\ queue \in Seq(Caller) /\ wave \in Seq(Caller)
  /\ tokens \in [Caller -> Tokens \cup {0}] /\ bypasses \in [Caller -> Nat]
  /\ aged \in [Caller -> BOOLEAN]
  /\ available \subseteq Instance /\ lease \in [Caller -> Instance \cup {NoInstance}]
  /\ inflight \in Nat /\ inflightTokens \in Nat /\ staleInflight \in Nat
  /\ budget \in Budgets /\ fresh \in [Caller -> BOOLEAN]

(* "No instance is used concurrently" (model_pool.cpp:734): an instance    *)
(* belongs to one caller from its lease until it is available again, also  *)
(* while the caller reads its usage after the call, and none gets lost.  A *)
(* wave holds waiting callers, each once, also after some of them gave up; *)
(* and what is planned always finds its instance and its sequence.         *)
LeasesExclusive ==
  /\ \A c \in Caller : pc[c] \in {"calling", "returning"} <=> lease[c] # NoInstance
  /\ \A c, d \in Caller : lease[c] = lease[d] /\ lease[c] # NoInstance => c = d
  /\ available = {i \in Instance : \A c \in Caller : lease[c] # i}
  /\ \A k \in DOMAIN wave : wave[k] \in Waiting
  /\ \A k, m \in DOMAIN wave : wave[k] = wave[m] => k = m
  /\ Len(wave) <= Cardinality(available)
  /\ Waves => inflight + Len(wave) <= MaxSeqs

(* The budget's accounts are those of the calls in flight, whichever way   *)
(* calls end and however often the budget changes; stale_inflight counts   *)
(* the calls of older epochs, so that windows start when it returns to 0.  *)
(* Calls overlap only within the largest budget: a request estimated       *)
(* larger than the budget runs alone.                                      *)
BudgetLedger ==
  /\ inflight = Cardinality(InFlight)
  /\ strategy = "adaptive" =>
       /\ inflightTokens = Load(InFlight)
       /\ staleInflight = Cardinality({c \in InFlight : ~fresh[c]})
       /\ inflight > 1 => \E b \in Budgets : inflightTokens <= b

(* The head of the queue is passed at most four times before the pool      *)
(* drains for it (model_pool.cpp:350-351).  A wave counts its passes as it *)
(* is dispatched, so that the last one may go on after the limit, but no   *)
(* further one passes the head.                                            *)
MaxWave == IF Cardinality(Instance) < MaxSeqs THEN Cardinality(Instance) ELSE MaxSeqs
HeadBypassedSeldom ==
  \A c \in Caller :
    /\ strategy = "adaptive" => bypasses[c] <= HeadBypasses
    /\ strategy = "visual" => bypasses[c] < HeadBypasses + MaxWave

(* Nobody waits for ever, although others come later and are let past, and *)
(* although nobody has to time out.                                        *)
NoStarvation == \A c \in Caller : pc[c] = "waiting" ~> pc[c] # "waiting"
=============================================================================

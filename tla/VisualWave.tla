----------------------------- MODULE VisualWave -----------------------------
(***************************************************************************)
(* plan_visual_wave() (src/model_pool.cpp) and partition_visual_buckets()  *)
(* (src/visual_buckets.hpp): which requests of the queue the visual        *)
(* scheduler sends next, together.  ModelPool leaves that choice open in   *)
(* its PlanWave; WavePlanned says that the one made here is among them.    *)
(*                                                                         *)
(* A request is the pair of its visual cost and of the other tokens of its *)
(* prompt; it is known by its place in the queue.                          *)
(*                                                                         *)
(* An operator Buggy... is its neighbour with a plausible mistake, and is  *)
(* not used (see README.md).                                               *)
(***************************************************************************)
EXTENDS Integers, FiniteSetsExt, SequencesExt

CONSTANTS
  Visual, Prompt,          \* costs a request can have
  MaxWaiting,              \* bound of the queue
  ScanLimit,               \* bucket_scan_limit
  Captures,                \* possible cudagraph_capture_sizes, as sets
  Edges,                   \* bucket_edges
  Concurrency,             \* the lesser of max_concurrent_requests and max_num_seqs
  TokenBudget              \* max_num_batched_tokens

ASSUME WaveAssumption ==
  /\ Visual \subseteq Nat /\ Prompt \subseteq Nat
  /\ MaxWaiting \in Nat /\ ScanLimit \in Nat \ {0} /\ Concurrency \in Nat \ {0}
  /\ Captures \subseteq SUBSET (Nat \ {0}) /\ TokenBudget \in Nat
  /\ IsFiniteSet(Edges)

VARIABLES
  requests,                \* scalar_queue, in order of arrival
  captures,                \* the configured sizes, once a wave is planned
  free,                    \* instances and sequences to be had then
  due,                     \* the oldest request has been passed or waited too often
  capture, groups,         \* what partition_visual_buckets() returns
  planned                  \* dispatch_wave

waveVars == <<requests, captures, free, due, capture, groups, planned>>

WaveInit ==
  /\ requests = <<>> /\ captures = {} /\ free = 0 /\ due = FALSE
  /\ capture = 0 /\ groups = <<>> /\ planned = <<>>

Prefill(k) == requests[k][1] + requests[k][2]
Prefills(s) ==
  LET sum[k \in 0 .. Len(s)] == IF k = 0 THEN 0 ELSE sum[k - 1] + Prefill(s[k])
  IN  sum
Total(s) == Prefills(s)[Len(s)]

\* The elements of S, each at the place that those before it leave to it.
Sorted(S, Precedes(_, _)) ==
  [k \in 1 .. Cardinality(S) |->
     CHOOSE b \in S : Cardinality({a \in S : Precedes(a, b)}) = k - 1]

Arrive ==
  /\ planned = <<>> /\ Len(requests) < MaxWaiting
  /\ \E v \in Visual, p \in Prompt : requests' = Append(requests, <<v, p>>)
  /\ UNCHANGED <<captures, free, due, capture, groups, planned>>

-----------------------------------------------------------------------------
(* partition_visual_buckets()                                              *)

\* The first requests of the queue, by visual cost and then by arrival.
Pending ==
  Sorted(1 .. Min({ScanLimit, Len(requests)}),
         LAMBDA a, b : \/ requests[a][1] < requests[b][1]
                       \/ requests[a][1] = requests[b][1] /\ a < b)

\* The prefill of each window of w requests, kept up to date as it slides.
BuggySlide(s, w) ==
  LET sum[i \in 0 .. Len(s)] ==
        IF i = 0 THEN 0
        ELSE sum[i - 1] + Prefill(s[i]) - (IF i > w + 1 THEN Prefill(s[i - w]) ELSE 0)
  IN  sum
Slide(s, w) ==
  LET sum[i \in 0 .. Len(s)] ==
        IF i = 0 THEN 0
        ELSE sum[i - 1] + Prefill(s[i]) - (IF i > w THEN Prefill(s[i - w]) ELSE 0)
  IN  sum

\* Where the windows within the token budget end, and the first of the fullest.
Feasible(s, w) == {i \in w .. Len(s) : Slide(s, w)[i] <= TokenBudget}
Best(s, w) ==
  Min({i \in Feasible(s, w) :
         \A j \in Feasible(s, w) : Slide(s, w)[j] <= Slide(s, w)[i]})

\* The largest captured size with such a window; one request alone always goes.
CaptureSize(s, sizes, capacity) ==
  IF sizes = {} THEN capacity
  ELSE Max({1} \cup {w \in sizes : w <= capacity /\ Feasible(s, w) # {}})

Chunks(s, w) ==
  [k \in 1 .. (Len(s) + w - 1) \div w |-> SubSeq(s, (k - 1) * w + 1, Min({k * w, Len(s)}))]

\* The window is a group, and so is every w requests before and after it.
Partition(s, sizes, w) ==
  LET anchor == IF sizes # {} /\ w \in sizes /\ Feasible(s, w) # {}
                THEN Best(s, w) - w ELSE 0
  IN  Chunks(SubSeq(s, 1, anchor), w) \o Chunks(SubSeq(s, anchor + 1, Len(s)), w)

-----------------------------------------------------------------------------
(* plan_visual_wave()                                                      *)

\* The next request joins the wave unless it is full or has no budget left; one
\* alone may be larger than the budget.
Join(wave, k, target) ==
  IF /\ Len(wave) < target /\ k \notin Range(wave)
     /\ wave = <<>> \/ Total(wave) + Prefill(k) <= TokenBudget
  THEN Append(wave, k) ELSE wave
Wave(s, target) ==
  LET wave[k \in 0 .. Len(s)] == IF k = 0 THEN <<>> ELSE Join(wave[k - 1], s[k], target)
  IN  wave[Len(s)]

\* The group that gives the fullest wave, in number and then in prefill: the first
\* of those.
Fuller(s, t) == \/ Len(s) > Len(t)
                \/ Len(s) = Len(t) /\ Total(s) > Total(t)
Densest(gs, limit) ==
  LET packed(b) == Wave(gs[b], limit)
  IN  Min({b \in DOMAIN gs : \A c \in DOMAIN gs : ~Fuller(packed(c), packed(b))})

\* Adaptive buckets.  `due': max_bucket_bypasses or half of timeout_ms is reached.
PlanAdaptive(sizes, n, late) ==
  LET s == Pending
      w == CaptureSize(s, sizes, Min({Concurrency, Len(s)}))
      gs == Partition(s, sizes, w)
      chosen == IF late THEN CHOOSE b \in DOMAIN gs : 1 \in Range(gs[b])
                ELSE Densest(gs, Len(s))
      first == IF late THEN <<1>> ELSE <<>>
      queue == [k \in 1 .. Len(s) |-> k]
  IN  /\ capture' = w /\ groups' = gs
      /\ planned' = Wave(first \o gs[chosen] \o queue, Min({n, Len(requests), w}))

\* Fixed buckets.  `due': max_wait_ms has passed; until then a short queue waits.
Bucket(k) == Cardinality({e \in Edges : e <= requests[k][1]})
Of(bs) == Sorted({k \in DOMAIN requests : Bucket(k) \in bs}, <)

PlanStatic(sizes, n, late) ==
  LET capacity == Min({n, Len(requests)})
      target == IF sizes = {} THEN capacity ELSE Max({1} \cup {w \in sizes : w <= capacity})
      buckets == [b \in 1 .. Cardinality(Edges) + 1 |-> Of({b - 1})]
      chosen == IF late THEN Bucket(1) ELSE Densest(buckets, target) - 1
      others == (0 .. Cardinality(Edges)) \ {chosen}
  IN  /\ late \/ Len(requests) >= n
      /\ capture' = target
      /\ planned' = Wave(Of({chosen}) \o Of(others), target)
      /\ UNCHANGED groups

Plan ==
  /\ planned = <<>> /\ requests # <<>>
  /\ \E sizes \in Captures, n \in 1 .. Concurrency, late \in BOOLEAN :
       /\ captures' = sizes /\ free' = n /\ due' = late
       /\ \/ PlanAdaptive(sizes, n, late)
          \/ PlanStatic(sizes, n, late)
  /\ UNCHANGED requests

WaveNext == Arrive \/ Plan

-----------------------------------------------------------------------------
(* What a plan has to be.                                                  *)

\* Only the variables that a wave depends on have a meaning here.
P == INSTANCE ModelPool WITH
  Caller <- 1 .. MaxWaiting, Instance <- 1 .. Concurrency, NoInstance <- 0,
  Strategies <- {"visual"}, Tokens <- {}, Budgets <- {}, MaxPending <- MaxWaiting,
  HeadBypasses <- 1, MaxSeqs <- Concurrency, BatchedTokens <- TokenBudget,
  strategy <- "visual", pc <- <<>>, queue <- [k \in DOMAIN requests |-> k],
  tokens <- [k \in DOMAIN requests |-> Prefill(k)], bypasses <- [k \in DOMAIN requests |-> 0],
  aged <- [k \in DOMAIN requests |-> due /\ k = 1], available <- 1 .. free,
  lease <- <<>>, inflight <- 0, inflightTokens <- 0, budget <- 0, fresh <- <<>>,
  staleInflight <- 0, wave <- planned

\* The plan is one that ModelPool allows.  With adaptive buckets every scanned
\* request is in one group; and no captured size larger than the chosen one, which a
\* group has, fits the budget with requests of adjacent cost.
WavePlanned == planned # <<>> =>
  /\ P!IsWave(planned) /\ Len(planned) \in P!Capacity
  /\ groups # <<>> =>
       /\ FlattenSeq(groups) = Pending
       /\ \A g \in Range(groups) : Len(g) \in 1 .. capture
       /\ \A w \in captures, i \in DOMAIN Pending :
            LET window == SubSeq(Pending, i, i + w - 1)
            IN  w <= Concurrency /\ i + w - 1 <= Len(Pending) /\ Total(window) <= TokenBudget
                  => /\ w <= capture
                     /\ w = capture => \E g \in Range(groups) :
                          /\ Len(g) = w /\ Total(g) <= TokenBudget
                          /\ Total(g) >= Total(window)
=============================================================================

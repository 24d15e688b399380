--------------------------- MODULE BudgetController ---------------------------
(***************************************************************************)
(* How complete() (src/model_pool.cpp) moves the token budget of an        *)
(* adaptive pool: the choice that ModelPool leaves open.  A step is a      *)
(* window of calls that were all made under the present budget, at its     *)
(* end; an overload, which is acted upon at once; or the end of a cooldown.*)
(*                                                                         *)
(* The backend is turbulent at first: windows report any rate, failures    *)
(* and demand.  It may become calm; then the rate depends on the budget    *)
(* alone, callers keep the pool full and no call fails.  Budgets and rates *)
(* are integers, ratios in percent.                                        *)
(*                                                                         *)
(* An operator Buggy... is its neighbour with a plausible mistake, and is  *)
(* not used (see README.md).                                               *)
(***************************************************************************)
EXTENDS Integers, FiniteSets

CONSTANTS
  MinBudget, MaxBudget,    \* min_token_budget, token_budget
  Curves,                  \* rates of work a calm backend may have, by budget
  WildRates,               \* rates a turbulent one may report
  Growth, Gain,            \* slow_start_gain, probe_gain
  Step, Backoff,           \* probe_step, backoff_ratio
  Patience                 \* windows the search for the best budget may take

ASSUME ControllerAssumption ==
  /\ MinBudget \in Nat \ {0} /\ MaxBudget \in Nat /\ MinBudget <= MaxBudget
  /\ {Growth, Gain, Step, Backoff} \subseteq 1 .. 99

VARIABLES
  curve, calm,             \* of the backend
  tokenBudget,             \* current_token_budget
  phase,                   \* Phase: "SlowStart", "Probe" or "Hold"
  evaluating,              \* evaluating_probe
  ref,                     \* comparison_budget and comparison_work_rate
  overload,                \* window_overload
  cooling,                 \* now < backoff_until
  searching,               \* windows since the calm budget was last a good one
  held                     \* the last budget held in calm times before the present search

controllerVars == <<curve, calm, tokenBudget, phase, evaluating, ref, overload, cooling,
                    searching, held>>

Budget == MinBudget .. MaxBudget

ControllerInit ==
  /\ curve \in Curves /\ calm = FALSE
  /\ tokenBudget \in Budget /\ phase = "SlowStart" /\ evaluating = FALSE
  /\ ref = [budget |-> 0, rate |-> 0]
  /\ overload = FALSE /\ cooling = FALSE /\ searching = 0 /\ held = 0

-----------------------------------------------------------------------------
(* Products of budgets and ratios, rounded up and down.  A product that is  *)
(* an integer may come out next to it in floating point.                    *)

Least(n) == IF n < MinBudget THEN MinBudget ELSE n
Increased(percent) ==
  LET n == tokenBudget * (100 + percent)
      up == {(n + 99) \div 100} \cup (IF n % 100 = 0 THEN {n \div 100 + 1} ELSE {})
  IN  {IF b > MaxBudget THEN MaxBudget ELSE b : b \in {IF m > tokenBudget THEN m ELSE tokenBudget + 1 : m \in up}}
Reduced(percent) ==
  LET n == tokenBudget * percent
  IN  {Least(b) : b \in {n \div 100} \cup (IF n % 100 = 0 THEN {n \div 100 - 1} ELSE {})}

GainAtLeast(rate, percent) == rate * 100 >= ref.rate * (100 + percent)
Loss(rate) == rate * 100 < ref.rate * (100 - Gain)

\* An outcome of a window: the next budget, the phase, and whether a cooldown begins.
Outcome(b, p, c) == [budget |-> b, phase |-> p, cooldown |-> c]
Stay == {Outcome(tokenBudget, phase, FALSE)}

\* A smaller budget than before was tried, below the ceiling.
Downward(rate, demand) ==
  IF Loss(rate) THEN {Outcome(ref.budget, "Hold", TRUE)}
  ELSE IF rate * 100 > ref.rate * (100 + Gain) /\ demand
  THEN {Outcome(b, phase, b = tokenBudget) : b \in Reduced(100 - Step)}
  ELSE {Outcome(tokenBudget, "Hold", TRUE)}

\* A larger one was tried: go on, or give up what brought nothing.
Upward(rate, demand) ==
  IF phase = "SlowStart" /\ GainAtLeast(rate, Growth) /\ demand
  THEN {Outcome(b, phase, FALSE) : b \in Increased(100)}
  ELSE LET p == IF phase = "SlowStart" THEN "Probe" ELSE phase IN
       IF GainAtLeast(rate, Gain) /\ demand THEN {Outcome(b, p, FALSE) : b \in Increased(Step)}
       ELSE IF Loss(rate) THEN {Outcome(b, "Hold", TRUE) : b \in Reduced(Backoff)}
       ELSE {Outcome(Least(ref.budget), "Hold", TRUE)}

Decision(rate, failing, demand, pressed) ==
  CASE overload -> Stay
    [] ~overload /\ failing -> {Outcome(b, "Hold", TRUE) : b \in Reduced(Backoff)}
    [] ~overload /\ ~failing /\ evaluating /\ ref.rate > 0 ->
         IF tokenBudget < ref.budget THEN Downward(rate, demand) ELSE Upward(rate, demand)
    [] ~overload /\ ~failing /\ ~(evaluating /\ ref.rate > 0) ->
         IF demand /\ ~cooling /\ tokenBudget < MaxBudget
         THEN IF phase = "SlowStart" THEN {Outcome(b, phase, FALSE) : b \in Increased(100)}
              ELSE {Outcome(b, "Probe", FALSE) : b \in Increased(Step)}
         ELSE IF pressed /\ ~cooling /\ tokenBudget = MaxBudget /\ ref.rate > 0
         THEN {Outcome(b, "Probe", FALSE) : b \in Reduced(100 - Step)}
         ELSE Stay

-----------------------------------------------------------------------------

BestRate == CHOOSE r \in {curve[b] : b \in Budget} : \A b \in Budget : curve[b] <= r

\* As good as a probe can tell: within a step of the best.
Good(b) == curve[b] * 100 >= BestRate * (100 - Step)

\* The next window is compared with this one if it is to have another budget.
BuggyEvaluates(o) == evaluating \/ (o.budget # tokenBudget /\ o.phase # "Hold")
Evaluates(o) == o.budget # tokenBudget /\ o.phase # "Hold"

WindowCloses ==
  /\ \E rate \in IF calm THEN {curve[tokenBudget]} ELSE WildRates :
     \E failing, demand, pressed \in BOOLEAN :
       /\ calm => ~failing /\ demand
       /\ demand => pressed
       /\ \E o \in Decision(rate, failing, demand, pressed) :
            /\ tokenBudget' = o.budget /\ phase' = o.phase
            /\ cooling' = (cooling \/ o.cooldown)
            /\ evaluating' = Evaluates(o)
       /\ ref' = [budget |-> tokenBudget, rate |-> rate]
  /\ overload' = FALSE
  /\ searching' = IF ~calm \/ Good(tokenBudget') THEN 0 ELSE IF cooling THEN searching ELSE searching + 1
  /\ held' = IF calm /\ phase = "Hold" /\ phase' # "Hold" THEN tokenBudget ELSE held
  /\ UNCHANGED <<curve, calm>>

\* HTTP 429 or 503.
Overloaded ==
  /\ ~calm
  /\ overload' = TRUE /\ tokenBudget' \in Reduced(Backoff)
  /\ phase' = "Hold" /\ evaluating' = FALSE /\ cooling' = TRUE
  /\ UNCHANGED <<curve, calm, ref, searching, held>>

CooldownEnds ==
  /\ cooling /\ cooling' = FALSE
  /\ UNCHANGED <<curve, calm, tokenBudget, phase, evaluating, ref, overload, searching, held>>

CalmsDown ==
  /\ ~calm /\ calm' = TRUE
  /\ searching' = 0
  /\ UNCHANGED <<curve, tokenBudget, phase, evaluating, ref, overload, cooling, held>>

ControllerNext == WindowCloses \/ Overloaded \/ CooldownEnds \/ CalmsDown

-----------------------------------------------------------------------------

\* Whatever a turbulent time has left in its memory, a controller whose backend has
\* become calm comes back to a good budget within so many windows, and again after each
\* probe; and it holds on to a larger budget than before only where that brings a gain.
FindsTheKnee ==
  /\ searching <= Patience
  /\ calm /\ phase = "Hold" /\ held # 0 /\ tokenBudget > held =>
       curve[tokenBudget] * 100 >= curve[held] * (100 + Gain)
=============================================================================

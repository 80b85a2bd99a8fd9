---------------------------- MODULE ChainBudget ----------------------------
(***************************************************************************)
(* What bounds a mold chain: the suspension quota of each mold             *)
(* (SuspensionBudget and run_loop, src/engine.rs), the duration budget of  *)
(* the whole chain, and the cap on injected steps (execute_chain,          *)
(* src/pipeline.rs).  What the steps compute is left out; Chain has it.    *)
(*                                                                         *)
(* Time passes in ticks: in the interpreter, which Monty stops when the    *)
(* mold's feed budget is used up, and in the host while it serves a        *)
(* suspension, which Monty does not count.  The interpreter runs for a     *)
(* tick at least between two suspensions; that makes a tick the shortest   *)
(* time between them.                                                      *)
(***************************************************************************)
EXTENDS Naturals

CONSTANTS
  StaticSteps,      \* steps named on the command line
  MaxDynamicSteps,  \* MAX_DYNAMIC_PIPELINE_STEPS
  Durations,        \* the values max_duration may have, beside Unlimited
  Quotas,           \* the values max_suspensions may have; 0 is no quota
  Horizon,          \* bound of the model: the chain's clock saturates here
  MaxRequests,      \* bound of the model: steps one mold requests
  Unlimited

ASSUME BudgetAssumption ==
  /\ StaticSteps \in Nat \ {0}
  /\ MaxDynamicSteps \in Nat /\ MaxRequests \in Nat /\ Horizon \in Nat
  /\ Durations \subseteq 0..Horizon /\ Quotas \subseteq Nat
  /\ Unlimited \notin Nat

VARIABLES
  policy,     \* the sandbox policy of the invocation
  phase,      \* "start", "run", "absorb", or how the chain ended
  left,       \* steps after the current one
  injected,   \* steps injected so far
  pending,    \* steps the running mold requested
  elapsed,    \* ticks since chain_started_at
  feed,       \* interpreter time the running mold still has
  remaining,  \* suspensions the running mold still has
  worked,     \* the interpreter ran since the last suspension
  served,     \* history: suspensions served for the running mold
  computed    \* history: interpreter time of all molds

budgetVars == <<policy, phase, left, injected, pending, elapsed, feed, remaining,
          worked, served, computed>>

Ended == {"done", "failed", "max_duration", "max_suspensions"}
Timed == policy.duration # Unlimited
Tick(t) == IF t < Horizon THEN t + 1 ELSE t

BudgetInit ==
  /\ policy \in [duration : Durations \cup {Unlimited}, suspensions : Quotas]
  /\ phase = "start" /\ left = StaticSteps - 1
  /\ injected = 0 /\ pending = 0
  /\ elapsed = 0 /\ feed = Unlimited /\ remaining = Unlimited
  /\ worked = FALSE /\ served = 0 /\ computed = 0

----------------------------------------------------------------------------
\* run_loop's head: what is left of the chain's duration is the mold's.

\* Deviation: the budget restarts with every mold.
FeedRestarted(t) == policy.duration
Feed(t) == IF Timed THEN policy.duration - t ELSE Unlimited

\* SuspensionBudget::new: a quota of 0 is none.
Quota == IF policy.suspensions # 0 THEN policy.suspensions ELSE Unlimited

StartMold ==
  /\ phase = "start"
  /\ Timed => elapsed < policy.duration
  /\ phase' = "run"
  /\ feed' = Feed(elapsed) /\ remaining' = Quota
  /\ pending' = 0 /\ served' = 0 /\ worked' = FALSE
  /\ UNCHANGED <<policy, left, injected, elapsed, computed>>

StartTooLate ==
  /\ phase = "start" /\ Timed /\ elapsed >= policy.duration
  /\ phase' = "max_duration"
  /\ UNCHANGED <<policy, left, injected, pending, elapsed, feed, remaining,
                 worked, served, computed>>

----------------------------------------------------------------------------
\* The running mold.

\* Without a limit nobody looks at the clock.
Compute ==
  /\ phase = "run" /\ feed # 0
  /\ worked' = TRUE
  /\ IF Timed
     THEN /\ elapsed' = Tick(elapsed)
          /\ feed' = feed - 1 /\ computed' = computed + 1
     ELSE UNCHANGED <<elapsed, feed, computed>>
  /\ UNCHANGED <<policy, phase, left, injected, pending, remaining, served>>

\* Monty's TimeoutError, which the mold cannot catch.
FeedExpires ==
  /\ phase = "run" /\ Timed /\ feed = 0
  /\ phase' = "max_duration"
  /\ UNCHANGED <<policy, left, injected, pending, elapsed, feed, remaining,
                 worked, served, computed>>

\* SuspensionBudget::charge refuses.  Deviation: only when the quota is overdrawn.
ExhaustedLate == remaining # Unlimited /\ served > policy.suspensions
Exhausted == remaining = 0

Suspends == phase = "run" /\ worked

QuotaExceeded ==
  /\ Suspends /\ Exhausted
  /\ phase' = "max_suspensions"
  /\ UNCHANGED <<policy, left, injected, pending, elapsed, feed, remaining,
                 worked, served, computed>>

\* A suspension is charged, then served; n steps are requested by it (0 or 1).
Suspend(n) ==
  /\ Suspends /\ ~Exhausted
  /\ pending + n <= MaxRequests
  /\ pending' = pending + n
  /\ remaining' = IF remaining \in Nat \ {0} THEN remaining - 1 ELSE remaining
  /\ served' = IF remaining = Unlimited THEN served ELSE served + 1
  /\ worked' = FALSE
  /\ UNCHANGED <<policy, phase, left, injected, elapsed, feed, computed>>

\* Time the host takes to serve a suspension.
HostWait ==
  /\ phase = "run" /\ ~worked /\ Timed
  /\ elapsed' = Tick(elapsed)
  /\ UNCHANGED <<policy, phase, left, injected, pending, feed, remaining,
                 worked, served, computed>>

\* transform() returns; a completed run is not charged.
MoldReturns ==
  /\ phase = "run"
  /\ phase' = "absorb"
  /\ UNCHANGED <<policy, left, injected, pending, elapsed, feed, remaining,
                 worked, served, computed>>

\* A Python error, or a host call that fails.
MoldFails ==
  /\ phase = "run"
  /\ phase' = "failed"
  /\ UNCHANGED <<policy, left, injected, pending, elapsed, feed, remaining,
                 worked, served, computed>>

----------------------------------------------------------------------------
\* execute_chain after the mold.

\* Deviation: each mold's requests are counted on their own.
CountPerMold == pending
Count == injected + pending

CapExceeded ==
  /\ phase = "absorb" /\ Count > MaxDynamicSteps
  /\ phase' = "failed"
  /\ UNCHANGED <<policy, left, injected, pending, elapsed, feed, remaining,
                 worked, served, computed>>

Absorb ==
  /\ phase = "absorb" /\ Count <= MaxDynamicSteps
  /\ injected' = Count
  /\ IF left + pending = 0 THEN phase' = "done" /\ UNCHANGED left
                           ELSE phase' = "start" /\ left' = left + pending - 1
  /\ pending' = 0
  /\ UNCHANGED <<policy, elapsed, feed, remaining, worked, served, computed>>

\* execute_chain has returned.
Stopped == phase \in Ended /\ UNCHANGED budgetVars

RunStep ==
  \/ Compute \/ FeedExpires \/ QuotaExceeded \/ MoldReturns \/ MoldFails
  \/ \E n \in {0, 1} : Suspend(n)

HostStep == StartMold \/ StartTooLate \/ CapExceeded \/ Absorb

BudgetNext == RunStep \/ HostStep \/ HostWait \/ Stopped

\* One thread runs the chain: the host's code goes on, and so does the
\* interpreter, which need not ever return.
Fairness == WF_budgetVars(HostStep) /\ WF_budgetVars(RunStep)

BudgetSpec == BudgetInit /\ [][BudgetNext]_budgetVars /\ Fairness

----------------------------------------------------------------------------
\* Properties

\* All molds together never compute for longer than max_duration: a step gets
\* only what is left of the invocation's budget, whatever the host spent
\* (engine.rs:1018-1028).
ComputeWithinBudget == Timed => computed <= policy.duration

\* A mold has exactly as many suspensions served as its quota before it is
\* stopped, never one more or fewer, and each mold starts afresh
\* (engine.rs:997-1008, 1043-1047).
QuotaExact ==
  /\ policy.suspensions # 0 => served <= policy.suspensions
  /\ phase = "max_suspensions" =>
       policy.suspensions # 0 /\ served = policy.suspensions

\* A chain ends, whatever its molds do, when it has a duration limit; and also
\* without one when each of its molds ends, for injection cannot go on for ever
\* (engine.rs:1018-1028, pipeline.rs:276-284).
ChainEnds == Timed \/ []<>(phase # "run") => <>(phase \in Ended)
=============================================================================

---------------------------- MODULE BreakerPolicy ----------------------------
(***************************************************************************)
(* The circuit breaker as the analysis passes drive it: a pass asks        *)
(* is_open() before the LLM is called and records the outcome of the call  *)
(* afterwards (MonitorLoop.run_analysis_cycle,                             *)
(* Analyzer.analyze_anomalies).  The daemon's own passes are serialised by *)
(* _analysis_lock and count as one member of Passes; callers of            *)
(* trigger_analysis do not take the lock and are members of their own.     *)
(***************************************************************************)
EXTENDS CircuitBreaker

CONSTANTS
    Passes,       \* the analysis passes that can be in progress together
    MaxStreak     \* bound on the history counters

ASSUME MaxStreakAssumption == MaxStreak \in Nat /\ MaxStreak >= SoftThreshold

VARIABLES
    breaker,     \* CircuitBreaker.state
    calling,     \* the passes that are past the gate and await the LLM
    cooling,     \* history: cooldown owed to the last opening, still to run
    softRun      \* history: consecutive failures recorded as soft

vars == << breaker, calling, cooling, softRun >>

Runs == 0..MaxStreak

TypeOK ==
    /\ breaker \in Breakers
    /\ calling \in SUBSET Passes
    /\ cooling \in Nat
    /\ softRun \in Runs

Init ==
    /\ breaker = Closed
    /\ calling = {}
    /\ cooling = 0
    /\ softRun = 0

Longer(n) == IF n < MaxStreak THEN n + 1 ELSE n

(***************************************************************************)
(* The gate of run_analysis_cycle.  A closing breaker ends the soft run:   *)
(* the counters start again.                                               *)
(***************************************************************************)
PassSkipped(p) ==
    /\ p \notin calling /\ IsOpen(breaker)
    /\ UNCHANGED vars

PassAdmitted(p) ==
    /\ p \notin calling /\ ~IsOpen(breaker)
    /\ breaker' = AfterIsOpen(breaker)
    /\ calling' = calling \cup {p}
    /\ softRun' = IF breaker.opened THEN 0 ELSE softRun
    /\ UNCHANGED cooling

\* The cooldown owed after a recording, worked out from the history alone
\* but for the rank of a hard failure.
CoolingAfter(o) ==
    CASE o \in {"ok", "transient"}  -> 0
      [] o = "hard"                 -> HardCooldown(breaker.hard)
      [] o \in {"invalid", "other"} ->
            IF softRun + 1 >= SoftThreshold /\ ~breaker.opened THEN SoftCooldown ELSE cooling

PassEnds(p, o) ==
    /\ p \in calling
    /\ calling' = calling \ {p}
    /\ breaker' = Recorded(breaker, o)
    /\ cooling' = CoolingAfter(o)
    /\ softRun' = CASE o \in {"invalid", "other"} -> Longer(softRun)
                    [] o = "hard"                 -> softRun
                    [] OTHER                      -> 0

\* A unit of time passes.  (Nothing changes with time once no cooldown runs.)
Tick ==
    /\ breaker.left > 0 \/ cooling > 0
    /\ breaker' = Elapse(breaker)
    /\ cooling' = IF cooling > 0 THEN cooling - 1 ELSE 0
    /\ UNCHANGED << calling, softRun >>

Next ==
    \/ \E p \in Passes : PassSkipped(p)
    \/ \E p \in Passes : PassAdmitted(p)
    \/ \E p \in Passes, o \in Outcomes : PassEnds(p, o)
    \/ Tick

(***************************************************************************)
(* Fairness: the analyze job fires again and again, an LLM call ends       *)
(* (every provider call has a timeout), and time passes.                   *)
(***************************************************************************)
Fairness ==
    /\ \A p \in Passes : WF_vars(PassAdmitted(p))
    /\ \A p \in Passes : WF_vars(\E o \in Outcomes : PassEnds(p, o))
    /\ WF_vars(Tick)

Spec == Init /\ [][Next]_vars /\ Fairness
-----------------------------------------------------------------------------
(***************************************************************************)
(* No pass reaches the LLM before the cooldown of the last opening is      *)
(* over: the clock kept by `cooling' is independent of the breaker's own.  *)
(***************************************************************************)
CooldownRespected == [][calling' \ calling # {} => cooling = 0]_vars

(***************************************************************************)
(* The breaker is open exactly when three failures were recorded as soft   *)
(* without a success or an elapsed cooldown between them, whatever hard    *)
(* ones are mixed in, or a hard failure is still counted.                  *)
(***************************************************************************)
ThreeStrikes ==
    breaker.opened <=> (softRun >= SoftThreshold \/ breaker.hard > 0)
=============================================================================

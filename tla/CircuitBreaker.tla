--------------------------- MODULE CircuitBreaker ---------------------------
(***************************************************************************)
(* The LLM circuit breaker of core/monitor.py (CircuitBreakerState and     *)
(* CircuitBreaker).  Its state is a record and its methods are operators   *)
(* from a state to the next one, so that every module that holds a breaker *)
(* uses the same definitions.                                              *)
(*                                                                         *)
(* Time is counted in a unit the constants choose.  Only the part of the   *)
(* cooldown that is still to run is kept: `opened_at + cooldown - now' of  *)
(* the code, floored at zero.  The wall clock is assumed not to run back.  *)
(***************************************************************************)
EXTENDS Integers, Sequences

CONSTANTS
    SoftThreshold,   \* SOFT_THRESHOLD, 3 in the code
    SoftCooldown,    \* SOFT_COOLDOWN, ten minutes
    HardCooldowns    \* HARD_COOLDOWNS: 5, 15 and 60 minutes

ASSUME BreakerAssumption ==
    /\ SoftThreshold \in Nat \ {0}
    /\ SoftCooldown \in Nat \ {0}
    /\ HardCooldowns \in Seq(Nat \ {0}) /\ HardCooldowns # << >>

(***************************************************************************)
(* soft, hard: the failures counted since the last reset; opened: whether  *)
(* opened_at is set; left: the part of the cooldown still to run.          *)
(***************************************************************************)
Breakers == [soft: Nat, hard: Nat, opened: BOOLEAN, left: Nat]

Closed == [soft |-> 0, hard |-> 0, opened |-> FALSE, left |-> 0]

RecordSuccess(b) == Closed

\* Variant: the threshold is passed, not reached.
RecordSoftFailureLate(b) ==
    LET n     == b.soft + 1
        opens == n > SoftThreshold /\ ~b.opened
    IN  [b EXCEPT !.soft   = n,
                  !.opened = @ \/ opens,
                  !.left   = IF opens THEN SoftCooldown ELSE @]

\* record_soft_failure: the third failure opens a breaker that is not open.
RecordSoftFailure(b) ==
    LET n     == b.soft + 1
        opens == n >= SoftThreshold /\ ~b.opened
    IN  [b EXCEPT !.soft   = n,
                  !.opened = @ \/ opens,
                  !.left   = IF opens THEN SoftCooldown ELSE @]

\* The cooldown of the (n + 1)-th hard failure: the last entry is reused.
HardCooldown(n) ==
    HardCooldowns[IF n + 1 <= Len(HardCooldowns) THEN n + 1 ELSE Len(HardCooldowns)]

\* record_hard_failure: opens (again) at once, with the next longer cooldown.
RecordHardFailure(b) ==
    [b EXCEPT !.hard   = @ + 1,
              !.opened = TRUE,
              !.left   = HardCooldown(b.hard)]

\* Variant: an open breaker has no end.
NeverExpires(b) == FALSE

\* is_open() of a breaker whose cooldown has elapsed ...
Expired(b) == b.opened /\ b.left = 0

\* Variant: the last unit is not waited for.
IsOpenTooShort(b) == b.opened /\ b.left > 1

\* ... answers that it is closed ...
IsOpen(b) == b.opened /\ ~Expired(b)

\* ... and forgets every count on the way.
AfterIsOpen(b) == IF Expired(b) THEN Closed ELSE b

\* One unit of time passes.
Elapse(b) == [b EXCEPT !.left = IF @ > 0 THEN @ - 1 ELSE 0]

(***************************************************************************)
(* How Analyzer.analyze_anomalies can end, as its caller sees it:          *)
(*   "ok"        the reply validated                                       *)
(*   "transient" the provider failed softly: a fallback is RETURNED        *)
(*   "invalid"   the reply failed validation: LLMSoftError                 *)
(*   "hard"      auth, quota or oversize prompt: LLMHardError              *)
(*   "other"     any other exception, e.g. from recording the usage        *)
(***************************************************************************)
Outcomes == {"ok", "transient", "invalid", "hard", "other"}

\* What run_analysis_cycle records: a returned fallback counts as a success.
Recorded(b, o) ==
    CASE o \in {"ok", "transient"}  -> RecordSuccess(b)
      [] o = "hard"                 -> RecordHardFailure(b)
      [] o \in {"invalid", "other"} -> RecordSoftFailure(b)
=============================================================================

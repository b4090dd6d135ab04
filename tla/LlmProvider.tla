----------------------------- MODULE LlmProvider -----------------------------
(***************************************************************************)
(* LLMProvider.analyze (agent/llm_provider.py) with those who call it: the *)
(* analysis passes behind the circuit breaker, whose successful calls are  *)
(* recorded in llm_usage, and callers that ask no breaker and record       *)
(* nothing (run_chat_agent and SemanticExtractor call the provider         *)
(* directly).  Two budgets guard a call: the tokens of this process        *)
(* (_check_budget) and those recorded today (_check_daily_token_budget).   *)
(* Tokens are counted in calls: one is what an attempt consumes, and what  *)
(* it is estimated to.                                                     *)
(***************************************************************************)
EXTENDS BreakerPolicy, FiniteSets

CONSTANTS
    Direct,      \* the callers that go to the provider directly
    Budget,      \* daily_token_budget
    MaxDays      \* bound on the days and restarts

ASSUME BudgetAssumption ==
    /\ Budget \in Nat \ {0} /\ MaxDays \in Nat
    /\ Direct \cap Passes = {} /\ IsFiniteSet(Direct \cup Passes)

Callers  == Passes \cup Direct
Attempts == 3
Stages   == {"out", "in", "daily", "attempt", "record"}

VARIABLES
    stage,      \* where each caller is: see Stages
    tries,      \* the number of the attempt each caller makes
    used,       \* _tokens_used: since the process started
    recorded,   \* llm_usage.total_tokens of today, up to the budget
    days        \* days and restarts so far

usage   == << used, recorded >>
allVars == << vars, stage, tries, usage, days >>

LlmTypeOK ==
    /\ TypeOK
    /\ stage \in [Callers -> Stages] /\ tries \in [Callers -> 0..Attempts]
    /\ \A p \in Passes : p \in calling <=> stage[p] # "out"
    /\ used \in Nat /\ recorded \in 0..Budget
    /\ days \in 0..MaxDays

LlmInit ==
    /\ Init
    /\ stage = [c \in Callers |-> "out"] /\ tries = [c \in Callers |-> 0]
    /\ used = 0 /\ recorded = 0 /\ days = 0

To(c, s) == stage' = [stage EXCEPT ![c] = s] /\ UNCHANGED tries
Try(c, n) ==
    /\ stage' = [stage EXCEPT ![c] = "attempt"]
    /\ tries' = [tries EXCEPT ![c] = n]

\* What the caller makes of the end of its call: the passes tell their breaker.
Ends(c, o) ==
    /\ stage' = [stage EXCEPT ![c] = "out"] /\ tries' = [tries EXCEPT ![c] = 0]
    /\ IF c \in Passes THEN PassEnds(c, o) ELSE UNCHANGED vars

\* A pass notes in llm_usage that its call failed (_record_failure); when the
\* store raises there, that error escapes in the place of the provider's.
Fails(c, o) == Ends(c, o) \/ (c \in Passes /\ Ends(c, "other"))
-----------------------------------------------------------------------------
\* A pass that the breaker admits; a direct caller needs nobody's leave.
Enter(c) ==
    /\ stage[c] = "out" /\ To(c, "in")
    /\ IF c \in Passes THEN PassAdmitted(c) ELSE UNCHANGED vars
    /\ UNCHANGED << usage, days >>

\* Variant: only the usage that is recorded is looked at.
NoProcessBudget == FALSE
\* Nobody tells numbers above the budget apart.
UpToBudget(n) == IF n > Budget THEN Budget ELSE n

\* _check_budget
OverProcessBudget == used >= Budget
\* _check_daily_token_budget: what the call is estimated to need is added.
OverDailyBudget == recorded + 1 > Budget

\* analyze up to its first await.
Ask(c) ==
    /\ stage[c] = "in"
    /\ IF OverProcessBudget THEN Fails(c, "hard") ELSE To(c, "daily") /\ UNCHANGED vars
    /\ UNCHANGED << usage, days >>

\* A store that cannot be asked lets the call pass.
AskDaily(c) ==
    /\ stage[c] = "daily"
    /\ \/ OverDailyBudget /\ Fails(c, "hard")
       \/ Try(c, 1) /\ UNCHANGED vars
    /\ UNCHANGED << usage, days >>

\* The next attempt; after the last one the call fails softly.
NextAttempt(n) == n + 1

Again(c) ==
    IF NextAttempt(tries[c]) > Attempts THEN Fails(c, "transient")
    ELSE Try(c, NextAttempt(tries[c])) /\ UNCHANGED vars

Spend == used' = used + 1

\* _classify_provider_error: an error of the provider's client is hard when its
\* text speaks of authorisation, quota or too long a prompt, and soft otherwise.
Errors == {"hard", "soft"}
\* parse_json_response: a reply holds an object, or it does not.
Replies == {"object", "no object"}
\* _call, of either provider.
Answers == Replies \cup Errors

\* An attempt.  A reply has cost its tokens whatever is in it, and an object is,
\* for a pass, then recorded.  A hard error is not repeated.  Nothing asks for
\* the budget between attempts.
Attempt(c) ==
    /\ stage[c] = "attempt"
    /\ \E o \in Answers :
         /\ IF o \in Replies THEN Spend ELSE UNCHANGED used
         /\ CASE o = "object" /\ c \in Passes -> To(c, "record") /\ UNCHANGED vars
              [] o = "object" /\ c \in Direct -> Ends(c, "ok")
              [] o = "hard"                   -> Fails(c, "hard")
              [] o \in {"soft", "no object"}  -> Again(c)
    /\ UNCHANGED << recorded, days >>

\* _record_usage: the tokens of the attempt that succeeded, and then the
\* validation of the reply.
Record(c) ==
    /\ stage[c] = "record"
    /\ \/ recorded' = UpToBudget(recorded + 1) /\ (Ends(c, "ok") \/ Fails(c, "invalid"))
       \/ Ends(c, "other") /\ UNCHANGED recorded
    /\ UNCHANGED << used, days >>
-----------------------------------------------------------------------------
Skipped(p) == PassSkipped(p) /\ UNCHANGED << stage, tries, usage, days >>
Minute     == Tick /\ UNCHANGED << stage, tries, usage, days >>

\* Midnight in UTC: what was recorded before is not asked for any more.
NewDay ==
    /\ days < MaxDays /\ days' = days + 1
    /\ recorded' = 0
    /\ UNCHANGED << vars, stage, tries, used >>

\* The process ends and another starts: calls, breaker and counter are gone.
Restart ==
    /\ days < MaxDays /\ days' = days + 1
    /\ stage' = [c \in Callers |-> "out"] /\ tries' = [c \in Callers |-> 0] /\ used' = 0
    /\ breaker' = Closed /\ calling' = {} /\ cooling' = 0 /\ softRun' = 0
    /\ UNCHANGED recorded

Calling(c) == Ask(c) \/ AskDaily(c) \/ Attempt(c) \/ Record(c)

LlmNext ==
    \/ \E c \in Callers : Enter(c) \/ Calling(c)
    \/ \E p \in Passes : Skipped(p)
    \/ Minute \/ NewDay \/ Restart

\* The analyze job fires again, time passes, and every call of the provider or
\* of the store returns.  Nothing is assumed of direct callers.
LlmSpec ==
    /\ LlmInit /\ [][LlmNext]_allVars
    /\ \A p \in Passes : WF_allVars(Enter(p))
    /\ \A c \in Callers : WF_allVars(Calling(c))
    /\ WF_allVars(Minute)
-----------------------------------------------------------------------------
(***************************************************************************)
(* The budget is asked for once a call and by calls that overlap: what a   *)
(* process consumes beyond it is at most three attempts for each caller.   *)
(***************************************************************************)
OvershootIsBounded == used <= Budget - 1 + Attempts * Cardinality(Callers)

=============================================================================

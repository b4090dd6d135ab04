----------------------------- MODULE Diagnostics -----------------------------
(***************************************************************************)
(* The hypothesis tests of an analysis pass                                *)
(* (MonitorLoop._maybe_run_diagnostics): the LLM proposes queries, the     *)
(* application's database answers those the sandbox lets through, and the  *)
(* evidence goes into the bundle of the pass and, per signature of the     *)
(* anomalies, into the table diagnostic_cooldown.  The daemon's pass holds *)
(* the analysis lock meanwhile; trigger_analysis runs a pass without it.   *)
(***************************************************************************)
EXTENDS Integers, Sequences, SequencesExt

CONSTANTS
    Passes,      \* the passes that can be in progress together
    Sigs,        \* signatures of anomalies
    Tables,      \* the tables of the application
    Ghost,       \* a table only the LLM believes in
    NoModel,     \* _cached_model before the first discovery
    MaxQueries,  \* max_queries_per_cycle
    Cooldown,    \* cooldown_minutes, in units of time
    Retain,      \* events_retention_days, in the same: more than any cooldown
    MaxNow,      \* bound on the time
    MaxEvents    \* bound on what happens around the passes

ASSUME DiagnosticsAssumption ==
    /\ Sigs # {} /\ Ghost \notin Tables /\ \A S \in SUBSET Tables : S # NoModel
    /\ MaxQueries \in Nat /\ Cooldown \in Nat /\ Retain \in Nat /\ Retain >= Cooldown
    /\ MaxNow \in Nat /\ MaxEvents \in Nat

Models    == {NoModel} \cup SUBSET Tables
Questions == SeqOf(Tables \cup {Ghost}, MaxQueries)
\* What became of a query: the sandbox refused it; EXPLAIN did, or it failed or
\* took too long; no database was there; or there are rows.
Results   == {"sandbox", "error", "unavailable", "rows"}
Evidence  == SeqOf([query : Tables \cup {Ghost}, result : Results], MaxQueries)
Never     == -1

Stages == {"out", "context", "lookup", "generate", "execute", "query", "save", "evict"}

VARIABLES
    now,
    model,        \* _cached_model, as discovery leaves it
    connected,    \* _app_db.is_connected
    cooldowns,    \* the table: of each signature the evidence and its cached_at
    pass,         \* the locals of each pass
    saved,        \* history: what was last saved of each signature, and when
    events

world == << model, connected >>
vars  == << now, world, cooldowns, pass, saved, events >>

\* asked: history, the answer of the LLM, or << >> as long as there is none.
Idle == [stage |-> "out", snap |-> NoModel, sig |-> CHOOSE s \in Sigs : TRUE,
         queries |-> << >>, diagnostics |-> << >>, asked |-> << >>]

TypeOK ==
    /\ now \in 0..MaxNow /\ events \in 0..MaxEvents
    /\ model \in Models /\ connected \in BOOLEAN
    /\ \A s \in Sigs : cooldowns[s].at \in Never..MaxNow /\ cooldowns[s].evidence \in Evidence
    /\ \A p \in Passes :
         /\ pass[p].stage \in Stages /\ pass[p].snap \in Models /\ pass[p].sig \in Sigs
         /\ pass[p].queries \in Questions /\ pass[p].diagnostics \in Evidence
         /\ pass[p].asked \in SeqOf(Questions, 1)
    /\ \A s \in Sigs : saved[s].at \in Never..MaxNow /\ saved[s].asked \in SeqOf(Questions, 1)

NoEntry == [at |-> Never, evidence |-> << >>]

Init ==
    /\ now = 0 /\ events = 0
    /\ model = NoModel /\ connected = TRUE
    /\ cooldowns = [s \in Sigs |-> NoEntry]
    /\ pass = [p \in Passes |-> Idle]
    /\ saved = [s \in Sigs |-> [at |-> Never, asked |-> << >>]]

At(p, stage) == pass[p].stage = stage
Becomes(p, locals) == pass' = [pass EXCEPT ![p] = locals]
Leave(p, stage) == Becomes(p, [pass[p] EXCEPT !.stage = stage])
-----------------------------------------------------------------------------
(***************************************************************************)
(* run_analysis_cycle takes its snapshot of the model and then awaits the  *)
(* store; the gates come after that.                                       *)
(***************************************************************************)
Start(p) ==
    /\ At(p, "out")
    /\ Becomes(p, [Idle EXCEPT !.stage = "context", !.snap = model])
    /\ UNCHANGED << now, world, cooldowns, saved, events >>

\* A pass that found no model when it started takes the one of the moment.
Described(p) == IF pass[p].snap = NoModel THEN model ELSE pass[p].snap
GatesOpen(p) == connected /\ Described(p) # NoModel

\* No candidate is trusted, the breaker is open, or another gate is shut: the
\* pass goes on without diagnostics.
GateReturns(p) ==
    /\ At(p, "context")
    /\ Becomes(p, Idle)
    /\ UNCHANGED << now, world, cooldowns, saved, events >>

Gate(p) ==
    /\ At(p, "context") /\ GatesOpen(p)
    /\ \E s \in Sigs :
         Becomes(p, [pass[p] EXCEPT !.stage = "lookup", !.snap = Described(p), !.sig = s])
    /\ UNCHANGED << now, world, cooldowns, saved, events >>

\* get_diagnostic_cooldown_entry: an entry as old as the cooldown still counts.
Fresh(at) == at # Never /\ at >= now - Cooldown

LookUp(p) ==
    /\ At(p, "lookup")
    /\ LET entry == cooldowns[pass[p].sig]
       IN  Becomes(p, IF Fresh(entry.at)
                      THEN [pass[p] EXCEPT !.stage = "evict", !.diagnostics = entry.evidence]
                      ELSE [pass[p] EXCEPT !.stage = "generate"])
    /\ UNCHANGED << now, world, cooldowns, saved, events >>

\* A lookup that raises counts as no entry.
LookupRaises(p) ==
    /\ events < MaxEvents /\ events' = events + 1
    /\ At(p, "lookup") /\ Leave(p, "generate")
    /\ UNCHANGED << now, world, cooldowns, saved >>
-----------------------------------------------------------------------------
\* Variant: an answer that did not come is taken for an empty one.
GenerationErrorAsEmpty(p) == Leave(p, "execute")
\* A generation_error is noted in the bundle; nothing is executed or saved.
GenerationError(p) == Leave(p, "evict")

Answered(p, qs) ==
    Becomes(p, [pass[p] EXCEPT !.stage = "execute", !.queries = qs, !.asked = << qs >>])

(***************************************************************************)
(* generate_diagnostic_queries.  Without tables there is nothing to ask    *)
(* (and the empty list is an answer like any other).  Otherwise the facts  *)
(* are retrieved, which at worst adds a note to the bundle, and the LLM    *)
(* gives queries, of which the first MaxQueries are kept, or fails: hard,  *)
(* softly, with an unexpected exception or with a reply that does not      *)
(* validate.  What raises while that is recorded ends the phase, too.      *)
(***************************************************************************)
RecordRaises(p) == Leave(p, "evict")

Generate(p) ==
    /\ At(p, "generate")
    /\ IF pass[p].snap = {} THEN Answered(p, << >>)
       ELSE (\E qs \in Questions : Answered(p, qs)) \/ GenerationError(p) \/ RecordRaises(p)
    /\ UNCHANGED << now, world, cooldowns, saved, events >>

\* The tables of the snapshot are what the prompt describes and the sandbox
\* allows (queries of PostgreSQL's monitoring views, which it allows whatever
\* the model, are left out).
Allowed(p) == pass[p].snap

\* execute_diagnostics before its loop: no queries, no database, no connection.
Execute(p) ==
    /\ At(p, "execute")
    /\ LET qs == pass[p].queries
       IN  \/ qs = << >> /\ Leave(p, "save")
           \/ /\ qs # << >> /\ ~connected
              /\ Becomes(p, [pass[p] EXCEPT !.stage = "save",
                    !.diagnostics = [i \in 1..Len(qs) |-> [query |-> qs[i], result |-> "unavailable"]]])
           \/ qs # << >> /\ connected /\ Leave(p, "query")
           \/ qs # << >> /\ connected /\ Leave(p, "evict")
    /\ UNCHANGED << now, world, cooldowns, saved, events >>

\* Variant: a refused query leaves no trace.
FoundUnlessRefused(q, r) == IF r = "sandbox" THEN << >> ELSE << [query |-> q, result |-> r] >>
\* Every query has its evidence, whatever became of it.
Found(q, r) == << [query |-> q, result |-> r] >>

\* One query of the loop; `queries' are those still to come.
Query(p) ==
    /\ At(p, "query")
    /\ LET q == Head(pass[p].queries)
       IN  \E r \in IF q \in Allowed(p) THEN {"error", "rows"} ELSE {"sandbox"} :
              Becomes(p, [pass[p] EXCEPT
                 !.stage       = IF Len(pass[p].queries) = 1 THEN "save" ELSE "query",
                 !.queries     = Tail(@),
                 !.diagnostics = @ \o Found(q, r)])
    /\ UNCHANGED << now, world, cooldowns, saved, events >>

\* The evidence is in the bundle; set_diagnostic_cooldown_entry keeps it, too.
Save(p) ==
    /\ At(p, "save") /\ Leave(p, "evict")
    /\ cooldowns' = [cooldowns EXCEPT ![pass[p].sig] = [at |-> now, evidence |-> pass[p].diagnostics]]
    /\ saved' = [saved EXCEPT ![pass[p].sig] = [at |-> now, asked |-> pass[p].asked]]
    /\ UNCHANGED << now, world, events >>

SaveFails(p) ==
    /\ events < MaxEvents /\ events' = events + 1
    /\ At(p, "save") /\ Leave(p, "evict")
    /\ UNCHANGED << now, world, cooldowns, saved >>

\* Variant: the hypothesis alone has a ceiling.
HypothesisOnly == {"generate"}
\* What hypothesis_timeout_s and execution_timeout_s cut.
CutByTimeout == {"generate", "execute", "query"}

\* A ceiling is reached: what was found so far is gone, and nothing is saved.
TimesOut(p) ==
    /\ pass[p].stage \in CutByTimeout
    /\ Becomes(p, [pass[p] EXCEPT !.stage = "evict", !.queries = << >>, !.diagnostics = << >>])
    /\ UNCHANGED << now, world, cooldowns, saved, events >>

\* Variant: an entry of the cooldown's own age and the younger ones go.
Young(at) == at >= now - Cooldown
\* evict_diagnostic_cooldown deletes what can never be looked up again.
Old(at) == at < now - Cooldown

\* The phase ends with the eviction, or without it when the store raises, and
\* the pass goes on to its analysis.
Evict(p) ==
    /\ At(p, "evict") /\ Becomes(p, Idle)
    /\ \/ cooldowns' = [s \in Sigs |-> IF Old(cooldowns[s].at) THEN NoEntry ELSE cooldowns[s]]
       \/ UNCHANGED cooldowns
    /\ UNCHANGED << now, world, saved, events >>
-----------------------------------------------------------------------------
\* The model of the discovery and the connection change at any time.
WorldChanges ==
    /\ events < MaxEvents /\ events' = events + 1
    /\ model' \in Models \ (IF model = NoModel THEN {} ELSE {NoModel})
    /\ connected' \in BOOLEAN
    /\ UNCHANGED << now, cooldowns, pass, saved >>

\* apply_retention, a job of its own.
Retention ==
    /\ \E s \in Sigs : cooldowns[s].at # Never /\ cooldowns[s].at < now - Retain
    /\ cooldowns' = [s \in Sigs |-> IF cooldowns[s].at < now - Retain THEN NoEntry ELSE cooldowns[s]]
    /\ UNCHANGED << now, world, pass, saved, events >>

\* The process ends and starts again; the table is all that stays.
Restart ==
    /\ events < MaxEvents /\ events' = events + 1
    /\ pass' = [p \in Passes |-> Idle]
    /\ UNCHANGED << now, world, cooldowns, saved >>

Tick ==
    /\ now < MaxNow /\ now' = now + 1
    /\ UNCHANGED << world, cooldowns, pass, saved, events >>

\* What the store alone decides.
Bookkeeping(p) == LookUp(p) \/ Save(p) \/ Evict(p)
\* What waits for the LLM or for the database of the application.
Asking(p) == Generate(p) \/ Execute(p) \/ Query(p)

Next ==
    \/ \E p \in Passes :
          \/ Start(p) \/ GateReturns(p) \/ Gate(p)
          \/ Bookkeeping(p) \/ Asking(p) \/ TimesOut(p)
          \/ LookupRaises(p) \/ SaveFails(p)
    \/ WorldChanges \/ Retention \/ Restart \/ Tick

Spec == Init /\ [][Next]_vars

(***************************************************************************)
(* The store answers and the timers of asyncio.wait_for fire.  The LLM and *)
(* the database of the application need never answer.                      *)
(***************************************************************************)
FairSpec ==
    /\ Spec
    /\ \A p \in Passes :
         WF_vars(GateReturns(p)) /\ WF_vars(Bookkeeping(p)) /\ WF_vars(TimesOut(p))
-----------------------------------------------------------------------------
(***************************************************************************)
(* The comment at monitor.py:1127: a failed generation must not poison the *)
(* cooldown with an empty list; and (execute_diagnostics) every query the  *)
(* LLM tried can be reconstructed.  What is in the table accounts, one by  *)
(* one, for the queries of an answer of the LLM.                           *)
(***************************************************************************)
Asked(evidence) == [i \in DOMAIN evidence |-> evidence[i].query]

AuditTrail ==
    \A s \in Sigs : cooldowns[s].at # Never => << Asked(cooldowns[s].evidence) >> = saved[s].asked

(***************************************************************************)
(* A pass turns to the LLM only if no evidence of its signature was saved  *)
(* within the cooldown, across restarts, evictions and other passes, or if *)
(* the table could not be read.                                            *)
(***************************************************************************)
CooldownHolds ==
    [][ \A p \in Passes : (LookUp(p) /\ pass'[p].stage = "generate")
          => saved[pass[p].sig].at = Never \/ saved[pass[p].sig].at < now - Cooldown ]_vars

(***************************************************************************)
(* The phase ends although neither the LLM nor the database ever answers:  *)
(* the daemon's pass holds the analysis lock meanwhile.                    *)
(***************************************************************************)
PhaseEnds == \A p \in Passes : At(p, "lookup") ~> At(p, "out")
=============================================================================

----------------------------- MODULE MonitorLoop -----------------------------
(***************************************************************************)
(* The collection and analysis cycles of core/monitor.py (MonitorLoop),    *)
(* with the rows of monitor_runs they open and close, the insights they    *)
(* store, and the process that runs them starting and ending.              *)
(*                                                                         *)
(* The daemon is one asyncio event loop: code between two awaits is        *)
(* atomic, so an action is the code from one await to the next.  The       *)
(* processes are the "collect" and "analyze" jobs, each with at most one   *)
(* instance, and the external callers of trigger_analysis.                 *)
(***************************************************************************)
EXTENDS CircuitBreaker, FiniteSets

CONSTANTS
    Anomalies,     \* detections of an anomaly; each happens at most once
    Bucket,        \* the metric bucket of a detection: what its signature keeps
    Titles,        \* titles of the insights the LLM may return
    Severities,    \* severities of an insight
    MaxInsights,   \* bound on the insights of one LLM reply
    Triggers,      \* callers of trigger_analysis; none in the daemon
    Faults,        \* the kinds of faults that may happen: "store", "crash"
    NoProc         \* nobody holds the lock

Procs == {"collect", "analyze"} \cup Triggers

ASSUME MonitorAssumption ==
    /\ Triggers \cap {"collect", "analyze"} = {}
    /\ NoProc \notin Procs
    /\ Faults \subseteq {"store", "crash"}

\* The users of _analysis_lock; trigger_analysis does not take it.
LockUsers == {"collect", "analyze"}

VARIABLES
    phase,      \* "down", "starting", "initial" (first collection) or "up"
    pc,         \* where each process is
    holder,     \* the owner of _analysis_lock
    pending,    \* _pending_anomalies
    found,      \* the anomalies of the collection in progress, not pending yet
    taken,      \* the batch of each analysis pass
    reply,      \* the insights each pass has still to save
    saved,      \* the insight each pass has stored and not yet dispatched
    breaker,    \* circuit_breaker.state
    row,        \* the monitor_runs row of each process's cycle, if it is open
    leftOpen,   \* why rows are still "running" though their cycle has ended
    stale,      \* of the rows marked stale: why they were still "running"
    stored,     \* fingerprints stored within the hour, with their dispatches
    detected,   \* history: every anomaly detected so far
    settled,    \* history: anomalies whose pass came to a verdict
    faults      \* history: "store" (a call failed), "crash" (the process ended)

memory == << pc, holder, pending, found, taken, reply, saved, breaker >>
vars   == << phase, memory, row, leftOpen, stale, stored, detected, settled, faults >>
-----------------------------------------------------------------------------
Locations == {"idle", "collecting", "saving", "waiting", "entered", "reading",
              "diagnosing", "calling", "reporting", "alerting", "completing"}

\* A pass is in progress from its gate to its return.
Analysing == {"entered", "reading", "diagnosing", "calling", "reporting", "alerting"}

(***************************************************************************)
(* Insights.  All insights of a pass carry the signature of its batch, and *)
(* the fingerprint is a hash of the source, the severity and the signature *)
(* (Insight.compute_fingerprint, compute_anomaly_signature).               *)
(***************************************************************************)
Signature(batch) == {Bucket[a] : a \in batch}

Signatures == SUBSET {Bucket[a] : a \in Anomalies}

Insights == [source: {"llm", "anomaly"}, title: Titles \cup {"fallback"},
             severity: Severities, sig: Signatures]

Fingerprint(i) == << i.source, i.severity, i.sig >>

Fingerprints == {"llm", "anomaly"} \X Severities \X Signatures

LlmInsight(t, s, batch) ==
    [source |-> "llm", title |-> t, severity |-> s, sig |-> Signature(batch)]

Fallback(s, batch) ==
    [source |-> "anomaly", title |-> "fallback", severity |-> s, sig |-> Signature(batch)]

LlmReplies(batch) ==
    {R \in SUBSET {LlmInsight(t, s, batch) : t \in Titles, s \in Severities} :
        Cardinality(R) <= MaxInsights}

Fallbacks(batch) == {{Fallback(s, batch)} : s \in Severities}

\* What the caller of analyze_anomalies has in hand after each outcome.
RepliesAfter(o, batch) ==
    CASE o = "ok"                             -> LlmReplies(batch)
      [] o \in {"transient", "invalid", "hard"} -> Fallbacks(batch)
      [] o = "other"                          -> {{}}

NoInsight == [source |-> "none"]

\* The reason to note when one of the cycles of P ends with its row open.
OpenRow(P, why) == IF \E p \in P : row[p] = "running" THEN {why} ELSE {}

\* A fault of kind k happens with the step.
Fail(k) ==
    /\ k \in Faults
    /\ faults' = faults \cup {k}
-----------------------------------------------------------------------------
TypeOK ==
    /\ phase \in {"down", "starting", "initial", "up"}
    /\ pc \in [Procs -> Locations]
    /\ holder \in LockUsers \cup {NoProc}
    /\ pending \in SUBSET Anomalies
    /\ found \in SUBSET Anomalies
    /\ taken \in [Procs -> SUBSET Anomalies]
    /\ reply \in [Procs -> SUBSET Insights]
    /\ saved \in [Procs -> Insights \cup {NoInsight}]
    /\ breaker \in Breakers
    /\ row \in [Procs -> {"none", "running"}]
    /\ leftOpen \in SUBSET {"standalone", "finished", "raised", "interrupted"}
    /\ stale \in SUBSET {"standalone", "finished", "raised", "interrupted"}
    /\ DOMAIN stored \in SUBSET Fingerprints
    /\ \A f \in DOMAIN stored : stored[f] \in Nat
    /\ detected \in SUBSET Anomalies
    /\ settled \in SUBSET Anomalies
    /\ faults \in SUBSET {"store", "crash"}

Init ==
    /\ phase = "down"
    /\ pc = [p \in Procs |-> "idle"]
    /\ holder = NoProc
    /\ pending = {} /\ found = {}
    /\ taken = [p \in Procs |-> {}]
    /\ reply = [p \in Procs |-> {}]
    /\ saved = [p \in Procs |-> NoInsight]
    /\ breaker = Closed
    /\ row = [p \in Procs |-> "none"]
    /\ leftOpen = {} /\ stale = {}
    /\ stored = << >>
    /\ detected = {} /\ settled = {}
    /\ faults = {}
-----------------------------------------------------------------------------
(***************************************************************************)
(* The process.  start() marks the rows that are still open as stale (a    *)
(* failure of the update is caught), then runs one collection before the   *)
(* scheduler exists.  ProcessEnds is a crash or a stop: stop() cancels the *)
(* running jobs, whose CancelledError no `except Exception' catches.       *)
(***************************************************************************)
ProcessStarts ==
    /\ phase = "down"
    /\ phase' = "starting"
    /\ \/ stale' = stale \cup leftOpen /\ leftOpen' = {} /\ UNCHANGED faults
       \/ UNCHANGED << stale, leftOpen >> /\ Fail("store")
    /\ UNCHANGED << memory, row, stored, detected, settled >>

SchedulerStarts ==
    /\ phase = "initial" /\ pc["collect"] = "idle"
    /\ phase' = "up"
    /\ UNCHANGED << memory, row, leftOpen, stale, stored, detected, settled, faults >>

ProcessEnds ==
    /\ phase # "down"
    /\ phase' = "down"
    /\ pc' = [p \in Procs |-> "idle"]
    /\ holder' = NoProc
    /\ pending' = {} /\ found' = {}
    /\ taken' = [p \in Procs |-> {}]
    /\ reply' = [p \in Procs |-> {}]
    /\ saved' = [p \in Procs |-> NoInsight]
    /\ breaker' = Closed
    /\ row' = [p \in Procs |-> "none"]
    /\ leftOpen' = leftOpen \cup OpenRow(Procs, "interrupted")
    /\ Fail("crash")
    /\ UNCHANGED << stale, stored, detected, settled >>
-----------------------------------------------------------------------------
(***************************************************************************)
(* run_analysis_cycle up to its first await: is_open(), the swap of the    *)
(* pending list, the return when there is nothing to do.  `queue' is the   *)
(* pending list at that moment.  The lock passes to the other user if it   *)
(* waits (asyncio.Lock is first come, first served).                       *)
(***************************************************************************)
Waiting(p) == {q \in LockUsers \ {p} : pc[q] = "waiting"}

\* Variant: the lock is kept when the other user waits for it.
ReleaseWithoutHandover(p) ==
    holder' = IF p \in LockUsers /\ Waiting(p) = {} THEN NoProc ELSE holder

Release(p) ==
    holder' = IF p \notin LockUsers THEN holder
              ELSE IF Waiting(p) = {} THEN NoProc
              ELSE CHOOSE q \in Waiting(p) : TRUE

\* Where a process goes after its analysis: the collection cycle goes on.
AfterPass(p) == IF p = "collect" THEN "completing" ELSE "idle"

\* Variant: the list is swapped before the breaker is asked.
GateReturnsAfterSwap(p, queue) ==
    /\ IsOpen(breaker) \/ queue = {}
    /\ pending' = {}
    /\ pc' = [pc EXCEPT ![p] = AfterPass(p)]
    /\ Release(p)
    /\ UNCHANGED taken

GateReturns(p, queue) ==
    /\ IsOpen(breaker) \/ queue = {}
    /\ pending' = queue
    /\ pc' = [pc EXCEPT ![p] = AfterPass(p)]
    /\ Release(p)
    /\ UNCHANGED taken

\* Variants: the pending list is not replaced by an empty one; only one
\* anomaly is taken; the breaker is not asked.
GatePassesKeepingPending(p, queue) ==
    /\ ~IsOpen(breaker) /\ queue # {}
    /\ pending' = queue
    /\ taken' = [taken EXCEPT ![p] = queue]
    /\ pc' = [pc EXCEPT ![p] = "entered"]
    /\ holder' = IF p \in LockUsers THEN p ELSE holder

GatePassesTakingOne(p, queue) ==
    /\ ~IsOpen(breaker)
    /\ \E a \in queue :
        /\ pending' = queue \ {a}
        /\ taken' = [taken EXCEPT ![p] = {a}]
    /\ pc' = [pc EXCEPT ![p] = "entered"]
    /\ holder' = IF p \in LockUsers THEN p ELSE holder

GatePassesUnasked(p, queue) ==
    /\ queue # {}
    /\ pending' = {}
    /\ taken' = [taken EXCEPT ![p] = queue]
    /\ pc' = [pc EXCEPT ![p] = "entered"]
    /\ holder' = IF p \in LockUsers THEN p ELSE holder

GatePasses(p, queue) ==
    /\ ~IsOpen(breaker) /\ queue # {}
    /\ pending' = {}
    /\ taken' = [taken EXCEPT ![p] = queue]
    /\ pc' = [pc EXCEPT ![p] = "entered"]
    /\ holder' = IF p \in LockUsers THEN p ELSE holder

Gate(p, queue) ==
    /\ breaker' = AfterIsOpen(breaker)
    /\ GateReturns(p, queue) \/ GatePasses(p, queue)
    /\ UNCHANGED << reply, saved >>

\* Variant: the pass is entered without the lock.
SafeAnalyzeUnlocked(p, queue) == Gate(p, queue)

\* _safe_analyze: an uncontended acquire does not suspend.
SafeAnalyze(p, queue) ==
    IF holder = NoProc
    THEN Gate(p, queue)
    ELSE /\ pending' = queue
         /\ pc' = [pc EXCEPT ![p] = "waiting"]
         /\ UNCHANGED << holder, taken, reply, saved, breaker >>
-----------------------------------------------------------------------------
(***************************************************************************)
(* run_collection_cycle.                                                   *)
(***************************************************************************)
StartCollection ==
    /\ pc["collect"] = "idle"
    /\ \/ phase = "starting" /\ phase' = "initial"
       \/ phase = "up" /\ UNCHANGED phase
    /\ pc' = [pc EXCEPT !["collect"] = "collecting"]
    /\ \/ row' = [row EXCEPT !["collect"] = "running"] /\ UNCHANGED faults
       \/ UNCHANGED row /\ Fail("store")
    /\ UNCHANGED << holder, pending, found, taken, reply, saved, breaker,
                    leftOpen, stale, stored, detected, settled >>

\* The detector reports A; save_metrics and the events are still to come.
Detect(A) ==
    /\ pc["collect"] = "collecting"
    /\ A \cap detected = {}
    /\ detected' = detected \cup A
    /\ found' = A
    /\ pc' = [pc EXCEPT !["collect"] = "saving"]
    /\ UNCHANGED << phase, holder, pending, taken, reply, saved, breaker, row,
                    leftOpen, stale, stored, settled, faults >>

\* A read of the history or save_metrics raises: the row becomes "failed",
\* unless that update raises too, and what was detected is forgotten.
CollectionRaises ==
    /\ pc["collect"] \in {"collecting", "saving"}
    /\ pc' = [pc EXCEPT !["collect"] = "idle"]
    /\ found' = {}
    /\ row' = [row EXCEPT !["collect"] = "none"]
    /\ leftOpen' \in {leftOpen, leftOpen \cup OpenRow({"collect"}, "raised")}
    /\ Fail("store")
    /\ UNCHANGED << phase, holder, pending, taken, reply, saved, breaker,
                    stale, stored, detected, settled >>

\* The metrics are saved.  With anomalies the cycle goes on to the analysis.
MetricsSaved ==
    /\ pc["collect"] = "saving"
    /\ found' = {}
    /\ IF found = {}
       THEN /\ pc' = [pc EXCEPT !["collect"] = "completing"]
            /\ UNCHANGED << holder, pending, taken, reply, saved, breaker >>
       ELSE SafeAnalyze("collect", pending \cup found)
    /\ UNCHANGED << phase, row, leftOpen, stale, stored, detected, settled, faults >>

\* Variant: with the breaker open the cycle returns before it closes its row.
CompleteRunUnlessSkipped ==
    /\ pc["collect"] = "completing"
    /\ pc' = [pc EXCEPT !["collect"] = "idle"]
    /\ row' = [row EXCEPT !["collect"] = "none"]
    /\ leftOpen' = IF IsOpen(breaker)
                   THEN leftOpen \cup OpenRow({"collect"}, "finished") ELSE leftOpen
    /\ UNCHANGED << phase, holder, pending, found, taken, reply, saved, breaker,
                    stale, stored, detected, settled, faults >>

\* complete_monitor_run; its failure is caught and leaves the row open.
CompleteRun ==
    /\ pc["collect"] = "completing"
    /\ pc' = [pc EXCEPT !["collect"] = "idle"]
    /\ row' = [row EXCEPT !["collect"] = "none"]
    /\ \/ UNCHANGED << leftOpen, faults >>
       \/ /\ row["collect"] = "running"
          /\ leftOpen' = leftOpen \cup {"finished"}
          /\ Fail("store")
    /\ UNCHANGED << phase, holder, pending, found, taken, reply, saved, breaker,
                    stale, stored, detected, settled >>
-----------------------------------------------------------------------------
(***************************************************************************)
(* The three ways into run_analysis_cycle: the analyze job, the lock       *)
(* handed to a process that waits for it, and trigger_analysis, which      *)
(* extends the pending list and enters without the lock.                   *)
(***************************************************************************)
StartAnalysis ==
    /\ phase = "up" /\ pc["analyze"] = "idle"
    /\ SafeAnalyze("analyze", pending)
    /\ UNCHANGED << phase, found, row, leftOpen, stale, stored, detected, settled, faults >>

LockHandedOver(p) ==
    /\ pc[p] = "waiting" /\ holder = p
    /\ Gate(p, pending)
    /\ UNCHANGED << phase, found, row, leftOpen, stale, stored, detected, settled, faults >>

TriggerAnalysis(t, A) ==
    /\ phase = "up" /\ pc[t] = "idle"
    /\ A # {} /\ A \cap detected = {}
    /\ detected' = detected \cup A
    /\ Gate(t, pending \cup A)
    /\ UNCHANGED << phase, found, row, leftOpen, stale, stored, settled, faults >>
-----------------------------------------------------------------------------
(***************************************************************************)
(* The rest of run_analysis_cycle.  A pass without a parent opens a row of *)
(* its own that no path closes: Leave notes it when the pass is over.      *)
(***************************************************************************)
Leave(p, why) ==
    /\ pc' = [pc EXCEPT ![p] = AfterPass(p)]
    /\ taken' = [taken EXCEPT ![p] = {}]
    /\ reply' = [reply EXCEPT ![p] = {}]
    /\ saved' = [saved EXCEPT ![p] = NoInsight]
    /\ Release(p)
    /\ IF p = "collect"
       THEN UNCHANGED << row, leftOpen >>
       ELSE /\ row' = [row EXCEPT ![p] = "none"]
            /\ leftOpen' = leftOpen \cup OpenRow({p}, why)

\* create_monitor_run for a pass without a parent; a failure is caught.
CreateRow(p) ==
    /\ pc[p] = "entered"
    /\ pc' = [pc EXCEPT ![p] = "reading"]
    /\ \/ p = "collect" /\ UNCHANGED << row, faults >>
       \/ p # "collect" /\ row' = [row EXCEPT ![p] = "running"] /\ UNCHANGED faults
       \/ p # "collect" /\ UNCHANGED row /\ Fail("store")
    /\ UNCHANGED << phase, holder, pending, found, taken, reply, saved, breaker,
                    leftOpen, stale, stored, detected, settled >>

\* get_recent_change_events and get_all_business_context, neither guarded:
\* when one raises the pass ends and its batch is in no list any more.
ReadContext(p) ==
    /\ pc[p] = "reading"
    /\ pc' = [pc EXCEPT ![p] = "diagnosing"]
    /\ UNCHANGED << phase, holder, pending, found, taken, reply, saved, breaker, row,
                    leftOpen, stale, stored, detected, settled, faults >>

ReadRaises(p) ==
    /\ pc[p] = "reading"
    /\ Leave(p, "raised")
    /\ Fail("store")
    /\ UNCHANGED << phase, pending, found, breaker, stale, stored, detected, settled >>

\* _maybe_run_diagnostics never raises; it asks the breaker again when the
\* diagnostics are configured and the batch has a candidate.
Diagnose(p) ==
    /\ pc[p] = "diagnosing"
    /\ pc' = [pc EXCEPT ![p] = "calling"]
    /\ breaker' \in {breaker, AfterIsOpen(breaker)}
    /\ UNCHANGED << phase, holder, pending, found, taken, reply, saved, row,
                    leftOpen, stale, stored, detected, settled, faults >>

\* analyze_anomalies returns or raises.  Without insights the pass is over:
\* the LLM had nothing to say, or the exception carried no fallback.
AnalyzerEnds(p, o) ==
    /\ pc[p] = "calling"
    /\ breaker' = Recorded(breaker, o)
    /\ \E R \in RepliesAfter(o, taken[p]) :
        IF R = {}
        THEN Leave(p, "standalone")
        ELSE /\ reply' = [reply EXCEPT ![p] = R]
             /\ pc' = [pc EXCEPT ![p] = "reporting"]
             /\ UNCHANGED << holder, taken, saved, row, leftOpen >>
    /\ settled' = IF o = "other" THEN settled ELSE settled \cup taken[p]
    /\ IF o = "other" THEN Fail("store") ELSE UNCHANGED faults
    /\ UNCHANGED << phase, pending, found, stale, stored, detected >>

(***************************************************************************)
(* The loop over the insights.  save_insight refuses a fingerprint stored  *)
(* within the hour; the lookup and the insert are one transaction, taken   *)
(* as one step because only one pass of the daemon is in the loop.         *)
(***************************************************************************)
\* Variant: an insight that save_insight refused is dispatched all the same.
SaveInsightAlways(p) ==
    /\ pc[p] = "reporting"
    /\ \E i \in reply[p] :
        /\ reply' = [reply EXCEPT ![p] = @ \ {i}]
        /\ stored' = [f \in DOMAIN stored \cup {Fingerprint(i)} |->
                        IF f \in DOMAIN stored THEN stored[f] ELSE 0]
        /\ saved' = [saved EXCEPT ![p] = i]
        /\ pc' = [pc EXCEPT ![p] = "alerting"]
    /\ UNCHANGED << phase, holder, pending, found, taken, breaker, row,
                    leftOpen, stale, detected, settled, faults >>

SaveInsight(p) ==
    /\ pc[p] = "reporting"
    /\ \E i \in reply[p] :
        /\ reply' = [reply EXCEPT ![p] = @ \ {i}]
        /\ IF Fingerprint(i) \in DOMAIN stored
           THEN UNCHANGED << pc, saved, stored >>
           ELSE /\ stored' = [f \in DOMAIN stored \cup {Fingerprint(i)} |->
                                 IF f = Fingerprint(i) THEN 0 ELSE stored[f]]
                /\ saved' = [saved EXCEPT ![p] = i]
                /\ pc' = [pc EXCEPT ![p] = "alerting"]
    /\ UNCHANGED << phase, holder, pending, found, taken, breaker, row,
                    leftOpen, stale, detected, settled, faults >>

SaveRaises(p) ==
    /\ pc[p] = "reporting" /\ reply[p] # {}
    /\ Leave(p, "raised")
    /\ Fail("store")
    /\ UNCHANGED << phase, pending, found, breaker, stale, stored, detected, settled >>

\* alert_manager.dispatch; the event before it is emitted on a best effort.
Dispatch(p) ==
    /\ pc[p] = "alerting"
    /\ stored' = [stored EXCEPT ![Fingerprint(saved[p])] = @ + 1]
    /\ saved' = [saved EXCEPT ![p] = NoInsight]
    /\ pc' = [pc EXCEPT ![p] = "reporting"]
    /\ UNCHANGED << phase, holder, pending, found, taken, reply, breaker, row,
                    leftOpen, stale, detected, settled, faults >>

PassReturns(p) ==
    /\ pc[p] = "reporting" /\ reply[p] = {}
    /\ Leave(p, "standalone")
    /\ UNCHANGED << phase, pending, found, breaker, stale, stored, detected, settled, faults >>
-----------------------------------------------------------------------------
\* Time: the cooldown runs, and an hour after it was stored an insight no
\* longer hides another one (an hour does not fit between save and dispatch).
Tick ==
    /\ breaker.left > 0
    /\ breaker' = Elapse(breaker)
    /\ UNCHANGED << phase, pc, holder, pending, found, taken, reply, saved, row,
                    leftOpen, stale, stored, detected, settled, faults >>

HourPasses(f) ==
    /\ f \in DOMAIN stored
    /\ \A p \in Procs : pc[p] = "alerting" => Fingerprint(saved[p]) # f
    /\ stored' = [g \in DOMAIN stored \ {f} |-> stored[g]]
    /\ UNCHANGED << phase, memory, row, leftOpen, stale, detected, settled, faults >>

PassStep(p) ==
    \/ CreateRow(p)
    \/ ReadContext(p)
    \/ ReadRaises(p)
    \/ Diagnose(p)
    \/ \E o \in Outcomes : AnalyzerEnds(p, o)
    \/ SaveInsight(p)
    \/ SaveRaises(p)
    \/ Dispatch(p)
    \/ PassReturns(p)

Next ==
    \/ ProcessStarts \/ SchedulerStarts \/ ProcessEnds
    \/ StartCollection
    \/ \E A \in SUBSET Anomalies : Detect(A)
    \/ CollectionRaises \/ MetricsSaved \/ CompleteRun
    \/ StartAnalysis
    \/ \E p \in LockUsers : LockHandedOver(p)
    \/ \E t \in Triggers, A \in SUBSET Anomalies : TriggerAnalysis(t, A)
    \/ \E p \in Procs : PassStep(p)
    \/ Tick
    \/ \E f \in Fingerprints : HourPasses(f)

Spec == Init /\ [][Next]_vars

(***************************************************************************)
(* Fairness: a job the scheduler has started goes on (every call it makes  *)
(* has a timeout), the analyze job fires again, time passes.  Nothing is   *)
(* assumed of the collections, of the callers or of a restart.             *)
(***************************************************************************)
Fairness ==
    /\ WF_vars(StartCollection /\ phase = "starting")
    /\ WF_vars(\E A \in SUBSET Anomalies : Detect(A))
    /\ WF_vars(MetricsSaved) /\ WF_vars(CompleteRun) /\ WF_vars(SchedulerStarts)
    /\ WF_vars(StartAnalysis)
    /\ \A p \in LockUsers : WF_vars(LockHandedOver(p)) /\ WF_vars(PassStep(p))
    /\ WF_vars(Tick)

FairSpec == Spec /\ Fairness
-----------------------------------------------------------------------------
(***************************************************************************)
(* _analysis_lock: the daemon never has two analysis passes in progress,   *)
(* whatever trigger_analysis does beside it.                               *)
(***************************************************************************)
AnalysisExclusive ==
    \A p, q \in LockUsers : pc[p] \in Analysing /\ pc[q] \in Analysing => p = q

(***************************************************************************)
(* The swap of _pending_anomalies: an anomaly is in one list only, so it   *)
(* is never analysed twice; and as long as no call has failed and the      *)
(* process has not ended, every anomaly ever detected is in a list or its  *)
(* pass came to a verdict.                                                 *)
(***************************************************************************)
AnomalyInOneList ==
    /\ pending \cap found = {}
    /\ \A p \in Procs : taken[p] \cap (pending \cup found) = {}
    /\ \A p, q \in Procs : p # q => taken[p] \cap taken[q] = {}

Listed == pending \cup found \cup UNION {taken[p] : p \in Procs}

NoAnomalyLostWithoutFault == faults = {} => detected = Listed \cup settled

(***************************************************************************)
(* The gate works up to the call: in the daemon, where nobody enters       *)
(* without the lock, no LLM call starts while the breaker is open, however *)
(* long the reads and the diagnostics between the gate and the call take.  *)
(***************************************************************************)
NoCallWhileOpen ==
    Triggers = {} => \A p \in Procs : pc[p] = "calling" => ~IsOpen(breaker)

(***************************************************************************)
(* An insight that is stored is dispatched to the alert manager once, and  *)
(* not again within the hour: never twice, and not at all only if the      *)
(* process ended between the two.                                          *)
(***************************************************************************)
StoredAlertedOnce ==
    \A f \in DOMAIN stored :
        \/ stored[f] = 1
        \/ /\ stored[f] = 0
           /\ \/ "crash" \in faults
              \/ \E p \in Procs : pc[p] = "alerting" /\ Fingerprint(saved[p]) = f

(***************************************************************************)
(* Every path through a collection closes its row, the early returns of    *)
(* the analysis included.  Across restarts, and unless a store call        *)
(* failed, a row that is left open, or was marked stale for it, is that of *)
(* a pass without a parent or of a cycle the end of the process cut short. *)
(***************************************************************************)
CollectionsCloseTheirRows ==
    "store" \notin faults =>
        leftOpen \cup stale \subseteq {"standalone"} \cup
            (IF "crash" \in faults THEN {"interrupted"} ELSE {})

(***************************************************************************)
(* The daemon's analysis implements AnalysisQueue: one batch at a time,    *)
(* always the whole queue, judged as a whole.                              *)
(***************************************************************************)
Queue == INSTANCE AnalysisQueue
    WITH queued <- pending, batch <- UNION {taken[p] : p \in Procs}, judged <- settled

ImplementsQueue == Queue!Spec

(***************************************************************************)
(* A pending anomaly is not left there: it is taken by a pass, after the   *)
(* cooldown if need be, unless the process ends.                           *)
(***************************************************************************)
PendingIsTaken == \A a \in Anomalies : a \in pending ~> a \notin pending

(***************************************************************************)
(* A collection that waits for the analysis lock gets it.                  *)
(***************************************************************************)
CollectionNotBlocked == pc["collect"] = "waiting" ~> pc["collect"] # "waiting"
=============================================================================

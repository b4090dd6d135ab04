---------------------------- MODULE AlertManager ----------------------------
(***************************************************************************)
(* alerting/base.py: AlertManager and RateLimitState.  Insights are        *)
(* buffered for a window, grouped into incidents, rate limited and sent to *)
(* the channels that accept their severity.                                *)
(*                                                                         *)
(* Everything runs on one event loop.  A sender gives way only while a     *)
(* channel is sending: at stage "next" it holds the loop and nobody else   *)
(* may act (LoopFree).  The lock around the buffer is never contended, as  *)
(* no code awaits while it holds it, and is left out.                      *)
(***************************************************************************)
EXTENDS Integers, SequencesExt

CONSTANTS
    Insights,      \* the insights dispatched, each once
    Fp,            \* the fingerprint of each
    Tables,        \* the related tables and metrics of each
    Severity,      \* the severity of each
    Channels,      \* the channels
    Filter,        \* the severities each channel accepts
    Modes,         \* the values of `aggregating' to look at
    MinIncidents,  \* aggregation_min_incidents
    MaxPerHour,    \* max_alerts_per_hour
    Cooldown,      \* cooldown_seconds
    Hour,          \* 3600 seconds
    Callers,       \* tasks that call dispatch when there is no window
    MaxTime        \* bound on the clock

ASSUME AlertAssumption ==
    /\ Modes \subseteq BOOLEAN
    /\ Callers \cap {"flusher", "closer"} = {}
    /\ MinIncidents \in Nat /\ MaxPerHour \in Nat /\ Cooldown \in Nat
    /\ Hour \in Nat /\ MaxTime \in Nat

Senders == {"flusher", "closer"} \cup Callers

VARIABLES
    aggregating, \* aggregation_window_seconds > 0; a configuration
    buffer,      \* _buffer
    flushTask,   \* _flush_task: "none" (or done), "sleeping" or "running"
    closing,     \* "open", "closing" or "closed"
    stage,       \* of each sender: "off", "next" (on the loop) or "sending"
    outbox,      \* the alerts each sender has drained and not begun to send
    alert,       \* the alert each sender is sending
    waiting,     \* the accepting channels it has not heard from
    reached,     \* sent_anywhere
    sentTimes,   \* RateLimitState.sent_times
    lastSent,    \* RateLimitState.last_sent_per_fp
    now,         \* the clock
    dispatched,  \* history: insights given to dispatch
    handled,     \* history: insights whose alert was sent or refused
    delivered,   \* history: successful sends
    cut          \* history: close() cancelled a flush in the middle of a send

limit   == << sentTimes, lastSent >>
sending == << stage, outbox, alert, waiting, reached >>
history == << dispatched, handled, delivered, cut >>
vars    == << aggregating, buffer, flushTask, closing, sending, limit, now, history >>
-----------------------------------------------------------------------------
(***************************************************************************)
(* An alert is one insight or an incident made of several; an incident has *)
(* the worst severity of its parts.  It has no anomaly signature, so its   *)
(* fingerprint is of its severity and all the tables and metrics: two      *)
(* incidents may share it.                                                 *)
(***************************************************************************)
Single(i)   == [parts |-> {i}, incident |-> FALSE]
Incident(I) == [parts |-> I, incident |-> TRUE]
NoAlert     == [parts |-> {}, incident |-> FALSE]

Alerts == {Single(i) : i \in Insights} \cup {Incident(I) : I \in SUBSET Insights}

AlertSeverity(a) ==
    LET S == {Severity[i] : i \in a.parts}
    IN  IF "critical" \in S THEN "critical"
        ELSE IF "warning" \in S THEN "warning" ELSE "info"

AlertFp(a) ==
    IF a.incident
    THEN << "incident", AlertSeverity(a), UNION {Tables[i] : i \in a.parts} >>
    ELSE << "insight", {Fp[i] : i \in a.parts} >>

Accepting(a) == {c \in Channels : AlertSeverity(a) \in Filter[c]}

LoopFree == \A s \in Senders : stage[s] # "next"
-----------------------------------------------------------------------------
TypeOK ==
    /\ aggregating \in Modes
    /\ buffer \in Seq(Insights)
    /\ flushTask \in {"none", "sleeping", "running"}
    /\ closing \in {"open", "closing", "closed"}
    /\ stage \in [Senders -> {"off", "next", "sending"}]
    /\ outbox \in [Senders -> Seq(Alerts)]
    /\ alert \in [Senders -> Alerts \cup {NoAlert}]
    /\ waiting \in [Senders -> SUBSET Channels]
    /\ reached \in [Senders -> BOOLEAN]
    /\ sentTimes \in Seq(0..MaxTime)
    /\ \A f \in DOMAIN lastSent : lastSent[f] \in 0..MaxTime
    /\ now \in 0..MaxTime
    /\ dispatched \in SUBSET Insights /\ handled \in SUBSET Insights
    /\ delivered \in SUBSET [alert : Alerts, channel : Channels, at : 0..MaxTime]
    /\ cut \in BOOLEAN

Init ==
    /\ aggregating \in Modes
    /\ buffer = << >> /\ flushTask = "none" /\ closing = "open"
    /\ stage = [s \in Senders |-> "off"]
    /\ outbox = [s \in Senders |-> << >>]
    /\ alert = [s \in Senders |-> NoAlert]
    /\ waiting = [s \in Senders |-> {}]
    /\ reached = [s \in Senders |-> FALSE]
    /\ sentTimes = << >> /\ lastSent = << >> /\ now = 0
    /\ dispatched = {} /\ handled = {} /\ delivered = {} /\ cut = FALSE
-----------------------------------------------------------------------------
(***************************************************************************)
(* RateLimitState.  allow() forgets what is more than an hour old, up to   *)
(* the first time that is not.                                             *)
(***************************************************************************)
Recent(times) ==
    LET kept == {k \in 1..Len(times) : times[k] >= now - Hour} \cup {Len(times) + 1}
    IN  SubSeq(times, Min(kept), Len(times))

\* Variant: the cap is passed by one.
AllowedOneMore(a) ==
    /\ Len(Recent(sentTimes)) <= MaxPerHour
    /\ AlertFp(a) \in DOMAIN lastSent => now - lastSent[AlertFp(a)] >= Cooldown

Allowed(a) ==
    /\ Len(Recent(sentTimes)) < MaxPerHour
    /\ AlertFp(a) \in DOMAIN lastSent => now - lastSent[AlertFp(a)] >= Cooldown

\* Variant: the fingerprint of an alert is not remembered.
RecordTimeOnly(a) ==
    /\ sentTimes' = Append(sentTimes, now)
    /\ UNCHANGED lastSent

Record(a) ==
    /\ sentTimes' = Append(sentTimes, now)
    /\ lastSent' = [f \in DOMAIN lastSent \cup {AlertFp(a)} |->
                      IF f = AlertFp(a) THEN now ELSE lastSent[f]]
-----------------------------------------------------------------------------
(***************************************************************************)
(* dispatch.  With a window it is one step: append, and start the flush    *)
(* task unless there is one that is not done.                              *)
(***************************************************************************)
Dispatch(i) ==
    /\ aggregating /\ LoopFree /\ closing = "open"
    /\ i \notin dispatched
    /\ dispatched' = dispatched \cup {i}
    /\ buffer' = Append(buffer, i)
    /\ flushTask' = IF flushTask = "none" THEN "sleeping" ELSE flushTask
    /\ UNCHANGED << closing, sending, limit, aggregating, now, handled, delivered, cut >>

\* Without a window the caller sends at once, in its own task.
DispatchDirect(c, i) ==
    /\ ~aggregating /\ LoopFree /\ closing = "open"
    /\ stage[c] = "off" /\ i \notin dispatched
    /\ dispatched' = dispatched \cup {i}
    /\ stage' = [stage EXCEPT ![c] = "next"]
    /\ outbox' = [outbox EXCEPT ![c] = << Single(i) >>]
    /\ UNCHANGED << buffer, flushTask, closing, alert, waiting, reached, limit,
                    aggregating, now, handled, delivered, cut >>

(***************************************************************************)
(* flush, up to its first send: the whole buffer becomes one incident or   *)
(* single alerts.                                                          *)
(***************************************************************************)
Grouped(pending) ==
    IF Len(pending) >= MinIncidents
    THEN IF pending = << >> THEN << >> ELSE << Incident(ToSet(pending)) >>
    ELSE [k \in 1..Len(pending) |-> Single(pending[k])]

\* Variant: the buffer is not cleared.
DrainKeepingBuffer(s) ==
    /\ outbox' = [outbox EXCEPT ![s] = Grouped(buffer)]
    /\ stage' = [stage EXCEPT ![s] = "next"]
    /\ UNCHANGED << buffer, alert, waiting, reached >>

\* Variant: what does not make an incident is dropped.
DrainIncidentsOnly(s) ==
    /\ buffer' = << >>
    /\ outbox' = [outbox EXCEPT ![s] =
                    IF Len(buffer) >= MinIncidents THEN Grouped(buffer) ELSE << >>]
    /\ stage' = [stage EXCEPT ![s] = "next"]
    /\ UNCHANGED << alert, waiting, reached >>

Drain(s) ==
    /\ buffer' = << >>
    /\ outbox' = [outbox EXCEPT ![s] = Grouped(buffer)]
    /\ stage' = [stage EXCEPT ![s] = "next"]
    /\ UNCHANGED << alert, waiting, reached >>

\* _flush_after_window wakes up.
WindowElapses ==
    /\ LoopFree /\ flushTask = "sleeping"
    /\ flushTask' = "running"
    /\ Drain("flusher")
    /\ UNCHANGED << closing, limit, aggregating, now, history >>
-----------------------------------------------------------------------------
(***************************************************************************)
(* _send_one.  The rate limit is asked once, before the first channel; an  *)
(* alert that is refused, or that no channel accepts, is done with.        *)
(***************************************************************************)
NextAlert(s) ==
    /\ stage[s] = "next" /\ outbox[s] # << >>
    /\ outbox' = [outbox EXCEPT ![s] = Tail(@)]
    /\ LET a == Head(outbox[s])
       IN  /\ sentTimes' = IF Channels = {} THEN sentTimes ELSE Recent(sentTimes)
           /\ IF Allowed(a) /\ Accepting(a) # {}
              THEN /\ stage' = [stage EXCEPT ![s] = "sending"]
                   /\ alert' = [alert EXCEPT ![s] = a]
                   /\ waiting' = [waiting EXCEPT ![s] = Accepting(a)]
                   /\ reached' = [reached EXCEPT ![s] = FALSE]
                   /\ UNCHANGED handled
              ELSE /\ handled' = handled \cup a.parts
                   /\ UNCHANGED << stage, alert, waiting, reached >>
    /\ UNCHANGED << aggregating, buffer, flushTask, closing, lastSent, now, dispatched,
                    delivered, cut >>

\* AlertChannel.send: without a URL there is no request; its answer is an error
\* status, an exception takes the place of the answer, or the alert is accepted.
Replies == {"no url", "error status", "exception", "accepted"}

\* A channel replies (other exceptions are caught by _send_one).  The loop over
\* the channels goes on; after the last one a success is recorded.
ChannelReplies(s, c, reply) ==
    /\ LoopFree /\ stage[s] = "sending" /\ c \in waiting[s]
    /\ waiting' = [waiting EXCEPT ![s] = @ \ {c}]
    /\ delivered' = delivered \cup
         (IF reply = "accepted" THEN {[alert |-> alert[s], channel |-> c, at |-> now]} ELSE {})
    /\ IF waiting[s] # {c}
       THEN /\ reached' = [reached EXCEPT ![s] = @ \/ reply = "accepted"]
            /\ UNCHANGED << stage, alert, limit, handled >>
       ELSE /\ stage' = [stage EXCEPT ![s] = "next"]
            /\ alert' = [alert EXCEPT ![s] = NoAlert]
            /\ reached' = [reached EXCEPT ![s] = FALSE]
            /\ handled' = handled \cup alert[s].parts
            /\ IF reply = "accepted" \/ reached[s] THEN Record(alert[s]) ELSE UNCHANGED limit
    /\ UNCHANGED << aggregating, buffer, flushTask, closing, outbox, now, dispatched,
                    cut >>

\* The sender has nothing left: the flush task is done, the caller goes on,
\* close() closes the channels.
SenderEnds(s) ==
    /\ stage[s] = "next" /\ outbox[s] = << >>
    /\ stage' = [stage EXCEPT ![s] = "off"]
    /\ flushTask' = IF s = "flusher" THEN "none" ELSE flushTask
    /\ closing' = IF s = "closer" THEN "closed" ELSE closing
    /\ UNCHANGED << buffer, outbox, alert, waiting, reached, limit, aggregating, now,
                    history >>
-----------------------------------------------------------------------------
(***************************************************************************)
(* close().  stop() has cancelled the jobs that dispatch; a flush task     *)
(* that is not done is cancelled, asleep or in the middle of a send, and   *)
(* what it had drained goes with it.  Then the buffer is flushed.          *)
(***************************************************************************)
\* Variant: the buffer is not flushed before the channels are closed.
CloseWithoutFlush ==
    /\ LoopFree /\ closing = "open"
    /\ closing' = "closing"
    /\ flushTask' = "none"
    /\ stage' = [s \in Senders |-> IF s = "closer" THEN "next" ELSE "off"]
    /\ outbox' = [s \in Senders |-> << >>]
    /\ alert' = [s \in Senders |-> NoAlert]
    /\ waiting' = [s \in Senders |-> {}]
    /\ reached' = [s \in Senders |-> FALSE]
    /\ cut' = (\E s \in Senders : stage[s] = "sending")
    /\ UNCHANGED << buffer, limit, aggregating, now, dispatched, handled, delivered >>

Close ==
    /\ LoopFree /\ closing = "open"
    /\ closing' = "closing"
    /\ flushTask' = "none"
    /\ buffer' = << >>
    /\ stage' = [s \in Senders |-> IF s = "closer" THEN "next" ELSE "off"]
    /\ outbox' = [s \in Senders |-> IF s = "closer" THEN Grouped(buffer) ELSE << >>]
    /\ alert' = [s \in Senders |-> NoAlert]
    /\ waiting' = [s \in Senders |-> {}]
    /\ reached' = [s \in Senders |-> FALSE]
    /\ cut' = (\E s \in Senders : stage[s] = "sending")
    /\ UNCHANGED << limit, aggregating, now, dispatched, handled, delivered >>

Tick ==
    /\ LoopFree /\ now < MaxTime
    /\ now' = now + 1
    /\ UNCHANGED << buffer, flushTask, closing, sending, limit, aggregating, history >>

SenderStep(s) ==
    \/ NextAlert(s)
    \/ \E c \in Channels, reply \in Replies : ChannelReplies(s, c, reply)
    \/ SenderEnds(s)

Next ==
    \/ \E i \in Insights : Dispatch(i)
    \/ \E c \in Callers, i \in Insights : DispatchDirect(c, i)
    \/ WindowElapses
    \/ \E s \in Senders : SenderStep(s)
    \/ Close
    \/ Tick

Spec == Init /\ [][Next]_vars

(***************************************************************************)
(* Fairness: the window elapses and a sender goes on (each channel has a   *)
(* timeout).  Nobody has to dispatch or to close.                          *)
(***************************************************************************)
FairSpec == Spec /\ WF_vars(WindowElapses) /\ \A s \in Senders : WF_vars(SenderStep(s))
-----------------------------------------------------------------------------
(***************************************************************************)
(* docs/CONFIGURATION.md on max_alerts_per_hour: "Hard cap across all      *)
(* channels."  No stretch of an hour sees more alerts delivered, although  *)
(* the limit is asked before and recorded after the sends.  (Not claimed   *)
(* once close() has cancelled a send, whose record is never made.)         *)
(***************************************************************************)
HardCap ==
    ~cut => \A t \in 0..MaxTime :
        Cardinality({d.alert : d \in {e \in delivered : e.at \in t..(t + Hour)}}) <= MaxPerHour

(***************************************************************************)
(* Two alerts of one fingerprint reach the channels at least a cooldown    *)
(* apart, whichever channels they reach and however long the sends take.   *)
(***************************************************************************)
FingerprintCooldown ==
    ~cut => \A d, e \in delivered :
        (d.alert # e.alert /\ AlertFp(d.alert) = AlertFp(e.alert) /\ d.at <= e.at)
            => e.at - d.at >= Cooldown

(***************************************************************************)
(* Until close(), an insight that was dispatched is in one place: the      *)
(* buffer, a drained batch, a send in progress, or done with.  So it is    *)
(* neither lost nor sent twice.                                            *)
(***************************************************************************)
Places(i) ==
    Cardinality({k \in 1..Len(buffer) : buffer[k] = i})
    + Cardinality(UNION {{s} \X {k \in 1..Len(outbox[s]) : i \in outbox[s][k].parts} : s \in Senders})
    + Cardinality({s \in Senders : i \in alert[s].parts})
    + IF i \in handled THEN 1 ELSE 0

InsightInOnePlace == closing = "open" => \A i \in dispatched : Places(i) = 1

(***************************************************************************)
(* close() flushes what is buffered: unless it cancelled a flush in the    *)
(* middle of a send, every insight has been dealt with when it is over.    *)
(***************************************************************************)
ClosedMeansHandled == closing = "closed" /\ ~cut => handled = dispatched

(***************************************************************************)
(* An insight buffered while the window runs is dealt with.                *)
(***************************************************************************)
BufferedIsFlushed ==
    \A i \in Insights :
        (flushTask = "sleeping" /\ i \in ToSet(buffer))
            ~> (i \in handled \/ closing # "open")

=============================================================================

------------------------------ MODULE Discovery ------------------------------
(***************************************************************************)
(* The discovery cycle of core/monitor.py with core/discovery.py: the      *)
(* connectors are asked in parallel, their fragments are merged into a     *)
(* model, the model is compared with the cached one and saved, and drift   *)
(* is reported after the facts and the source code have been extracted.    *)
(*                                                                         *)
(* A table is what it tells the comparison: the names of its columns (a    *)
(* version; 0 is no table) and the rest of what goes into the fingerprint, *)
(* each part of which a query of its own reads.  Services are compared by  *)
(* name, as tables without columns are, and left out.                      *)
(***************************************************************************)
EXTENDS Integers, Sequences, FiniteSets

CONSTANTS
    Connectors,    \* the sequence of the types of the configured connectors
    Tables,        \* qualified table names; two connectors may share one
    Losses,        \* which queries of a connector may fail in one answer
    MaxVersion,    \* bound on the versions of a table
    MaxMoves,      \* bound on the moves of the world and of the command line
    MaxFailures,   \* bound on crashes, failed reads and failed writes
    NoModel,       \* no model cached, saved or told
    Unread         \* a connector that has not answered yet

Index == 1..Len(Connectors)

\* What the queries of a connector tell of each table, and all its queries.
TableParts == {"keys", "values", "comments", "indexes", "policies"}
Parts      == TableParts \cup {"tables", "relationships"}

ASSUME DiscoveryAssumption ==
    /\ MaxVersion \in Nat \ {0} /\ MaxMoves \in Nat /\ MaxFailures \in Nat
    /\ Tables # {}
    /\ Losses \subseteq SUBSET Parts

VARIABLES
    schema,      \* the tables each connector really has
    data,        \* the distribution of the values in them
    phase,       \* of the daemon: "down", "idle", "reading", "saving", "extracting",
                 \* "reporting" or "alerting"
    cli,         \* of `observibot discover': "idle", "reading" or "saving"
    fragments,   \* the answers of the connectors to each of the two
    model,       \* new_model of the daemon's cycle
    baseline,    \* old_model of that cycle
    listed,      \* the model of the command line
    merges,      \* how many models the command line has merged
    cached,      \* _cached_model
    latest,      \* the model get_latest_system_snapshot returns
    stored,      \* fingerprints of the drift insights of the last hour
    told,        \* history: the model that the drift events account for
    moves,       \* history: what the world and the command line have done
    failures,    \* history: how many failures there have been
    broken       \* history: "none", "event" (an event was lost) or "crash"

world   == << schema, data >>
daemon  == << phase, model, baseline, cached, told >>
command == << cli, listed, merges >>
discoveryVars ==
    << world, daemon, command, fragments, latest, stored, moves, failures, broken >>

Readers == {"daemon", "command"}
-----------------------------------------------------------------------------
(***************************************************************************)
(* Fragments, models and their comparison.  A model is the fragments in    *)
(* the order of the connectors, and when they were merged (created_at).    *)
(* A query that failed leaves its part empty, 0, whatever becomes of the   *)
(* others; without the first there are no tables.                          *)
(***************************************************************************)
Fragments == [cols : [Tables -> 0..MaxVersion], rest : [TableParts -> 0..2], related : BOOLEAN]
Models    == [at : Nat, parts : [Index -> Fragments]]

ASSUME NothingAssumption == NoModel \notin Models /\ Unread \notin Fragments

\* What the queries of a connector find, unless they are among the lost.
\* _discover_tables: the columns.
Listed(k, lost)    == IF "tables" \in lost THEN [t \in Tables |-> 0] ELSE schema[k]
\* ... and the primary keys.
Keyed(k, lost)     == IF "keys" \in lost THEN 0 ELSE 1
\* _enrich_with_value_distributions: what only the rows tell.
Sampled(k, lost)   == IF "values" \in lost THEN 0 ELSE data[k]
\* _enrich_with_comments.
Commented(k, lost) == IF "comments" \in lost THEN 0 ELSE 1
\* _discover_relationships: from information_schema, or from pg_constraint.
Related(k, lost)   == "relationships" \notin lost
\* _enrich_with_indexes.
Indexed(k, lost)   == IF "indexes" \in lost THEN 0 ELSE 1
\* _enrich_with_rls, of Supabase alone.
Protected(k, lost) == IF Connectors[k] # "supabase" \/ "policies" \in lost THEN 0 ELSE 1

Partial(k, lost) ==
    [cols    |-> Listed(k, lost),
     rest    |-> [keys     |-> Keyed(k, lost),
                  values   |-> Sampled(k, lost),
                  comments |-> Commented(k, lost),
                  indexes  |-> Indexed(k, lost),
                  policies |-> Protected(k, lost)],
     related |-> Related(k, lost)]
Full(k)   == Partial(k, {})
\* _safe_discover, or a connect that fails.
Failed(k) == Partial(k, Parts)

Owners(m, t) == {k \in Index : m.parts[k].cols[t] # 0}

TablesOf(m) == {t \in Tables : Owners(m, t) # {}}

\* The dictionaries of diff_models: of two tables of one name the last one.
ColumnsOf(m, t) ==
    LET last == CHOOSE k \in Owners(m, t) : \A j \in Owners(m, t) : j <= k
    IN  m.parts[last].cols[t]

\* compute_fingerprint: the tables by name, those of one name in the order
\* of the connectors, without the names of the connectors; and the
\* relationships, which tell their system by what they are.
Fingerprint(m) ==
    << [t \in Tables |->
           [j \in 1..Cardinality(Owners(m, t)) |->
               LET k == CHOOSE i \in Owners(m, t) :
                           Cardinality({h \in Owners(m, t) : h <= i}) = j
               IN  << m.parts[k].cols[t], m.parts[k].rest >>]],
       {k \in Index : m.parts[k].related} >>

Added(old, new)   == TablesOf(new) \ TablesOf(old)
Removed(old, new) == TablesOf(old) \ TablesOf(new)
Changed(old, new) ==
    {t \in TablesOf(old) \cap TablesOf(new) : ColumnsOf(old, t) # ColumnsOf(new, t)}

HasChanges(old, new) ==
    \/ Added(old, new) \cup Removed(old, new) \cup Changed(old, new) # {}
    \/ Fingerprint(old) # Fingerprint(new)

\* Insight.compute_fingerprint of the drift insight: the related tables.
DriftFingerprint(old, new) == Added(old, new) \cup Removed(old, new)

\* Variant: the snapshot that was saved last.
LastSaved(old, new) == new
\* get_latest_system_snapshot, after `new' has been saved beside `old': the
\* one that was merged last.
Newest(old, new) == IF old # NoModel /\ new.at < old.at THEN old ELSE new
-----------------------------------------------------------------------------
DiscoveryTypeOK ==
    /\ schema \in [Index -> [Tables -> 0..MaxVersion]]
    /\ data \in [Index -> 1..2]
    /\ phase \in {"down", "idle", "reading", "saving", "extracting", "reporting", "alerting"}
    /\ cli \in {"idle", "reading", "saving"}
    /\ fragments \in [Readers -> [Index -> Fragments \cup {Unread}]]
    /\ {model, baseline, listed, cached, latest, told} \subseteq Models \cup {NoModel}
    /\ merges \in Nat
    /\ stored \in SUBSET SUBSET Tables
    /\ moves \in 0..MaxMoves /\ failures \in 0..MaxFailures
    /\ broken \in {"none", "event", "crash"}

Nothing == [k \in Index |-> Unread]

DiscoveryInit ==
    /\ schema = [k \in Index |-> [t \in Tables |-> 1]]
    /\ data = [k \in Index |-> 1]
    /\ phase = "down" /\ cli = "idle"
    /\ fragments = [x \in Readers |-> Nothing]
    /\ model = NoModel /\ baseline = NoModel /\ listed = NoModel /\ merges = 0
    /\ cached = NoModel /\ latest = NoModel
    /\ stored = {} /\ told = NoModel
    /\ moves = 0 /\ failures = 0 /\ broken = "none"
-----------------------------------------------------------------------------
\* The world moves: a migration, or rows that change the sampled values.
SchemaMigrates(k, t, v) ==
    /\ moves < MaxMoves /\ schema[k][t] # v
    /\ schema' = [schema EXCEPT ![k][t] = v]
    /\ moves' = moves + 1
    /\ UNCHANGED << data, daemon, command, fragments, latest, stored, failures, broken >>

DataChanges(k) ==
    /\ moves < MaxMoves
    /\ data' = [data EXCEPT ![k] = 3 - @]
    /\ moves' = moves + 1
    /\ UNCHANGED << schema, daemon, command, fragments, latest, stored, failures, broken >>

HourPasses(I) ==
    /\ I \in stored
    /\ stored' = stored \ {I}
    /\ UNCHANGED << world, daemon, command, fragments, latest, moves, failures, broken >>

Fault == failures < MaxFailures /\ failures' = failures + 1

\* DiscoveryEngine.run: the connectors answer in any order, without some parts
\* when queries fail, and without any when the connector does.
Answers(x, k) ==
    /\ fragments[x][k] = Unread
    /\ \/ fragments' = [fragments EXCEPT ![x][k] = Full(k)] /\ UNCHANGED failures
       \/ \E lost \in Losses \cup {Parts} :
             fragments' = [fragments EXCEPT ![x][k] = Partial(k, lost)] /\ Fault
    /\ UNCHANGED << world, daemon, command, latest, stored, moves, broken >>

AllRead(x) == \A k \in Index : fragments[x][k] # Unread
-----------------------------------------------------------------------------
(***************************************************************************)
(* `observibot discover', a process of its own.  The time of a model is    *)
(* that of its merge, counted in merges of the command line: the daemon's  *)
(* models between two of them are saved in the order they are merged in.   *)
(***************************************************************************)
CliStarts ==
    /\ cli = "idle" /\ cli' = "reading"
    /\ moves < MaxMoves /\ moves' = moves + 1
    /\ UNCHANGED << world, daemon, listed, merges, fragments, latest, stored, failures, broken >>

CliMerges ==
    /\ cli = "reading" /\ AllRead("command") /\ cli' = "saving"
    /\ merges' = merges + 1
    /\ listed' = [at |-> 2 * merges + 1, parts |-> fragments["command"]]
    /\ fragments' = [fragments EXCEPT !["command"] = Nothing]
    /\ UNCHANGED << world, daemon, latest, stored, moves, failures, broken >>

CliSaves ==
    /\ cli = "saving" /\ cli' = "idle"
    /\ latest' = Newest(latest, listed)
    /\ listed' = NoModel
    /\ UNCHANGED << world, daemon, merges, fragments, stored, moves, failures, broken >>

\* It is interrupted, or its save raises.
CliEnds ==
    /\ cli # "idle" /\ cli' = "idle" /\ Fault
    /\ fragments' = [fragments EXCEPT !["command"] = Nothing]
    /\ listed' = NoModel
    /\ UNCHANGED << world, daemon, merges, latest, stored, moves, broken >>
-----------------------------------------------------------------------------
\* start(): the saved model, if any, is the first baseline; what is known
\* before the daemon runs for the first time is no drift.
ProcessStarts ==
    /\ phase = "down" /\ phase' = "idle"
    /\ cached' = latest
    /\ told' = IF told = NoModel THEN latest ELSE told
    /\ UNCHANGED << world, model, baseline, command, fragments, latest, stored, moves,
                    failures, broken >>

ProcessEnds ==
    /\ phase # "down" /\ phase' = "down" /\ Fault
    /\ fragments' = [fragments EXCEPT !["daemon"] = Nothing]
    /\ model' = NoModel /\ baseline' = NoModel /\ cached' = NoModel
    /\ broken' = "crash"
    /\ UNCHANGED << world, told, command, latest, stored, moves >>

(***************************************************************************)
(* run_discovery_cycle.  The cycles do not overlap: the first is part of   *)
(* start(), the others are instances of one job.                           *)
(***************************************************************************)
DiscoveryStarts ==
    /\ phase = "idle" /\ phase' = "reading"
    /\ UNCHANGED << world, model, baseline, cached, told, command, fragments, latest, stored,
                    moves, failures, broken >>

ConnectorAnswers(k) == phase = "reading" /\ Answers("daemon", k)
CliAnswers(k)       == cli = "reading" /\ Answers("command", k)

\* merge_fragments and diff_models, up to the await of the save.
ModelMerged ==
    /\ phase = "reading" /\ AllRead("daemon") /\ phase' = "saving"
    /\ model' = [at |-> 2 * merges, parts |-> fragments["daemon"]]
    /\ baseline' = cached
    /\ fragments' = [fragments EXCEPT !["daemon"] = Nothing]
    /\ UNCHANGED << world, cached, told, command, latest, stored, moves, failures, broken >>

\* Variant: the first model stays cached.
SnapshotSavedFirstCached ==
    /\ phase = "saving" /\ phase' = "extracting"
    /\ latest' = Newest(latest, model)
    /\ cached' = IF baseline = NoModel THEN model ELSE cached
    /\ told' = IF baseline = NoModel THEN model ELSE told
    /\ UNCHANGED << world, model, baseline, command, fragments, stored, moves, failures, broken >>

\* The snapshot is saved, then it is cached.  A first model is no drift: there
\* is nothing to tell.
SnapshotSaved ==
    /\ phase = "saving" /\ phase' = "extracting"
    /\ latest' = Newest(latest, model)
    /\ cached' = model
    /\ told' = IF baseline = NoModel THEN model ELSE told
    /\ UNCHANGED << world, model, baseline, command, fragments, stored, moves, failures, broken >>

\* The cycle is over, and with it what it held.
Forgets == model' = NoModel /\ baseline' = NoModel

\* The save raises, whether or not it was committed: the cycle is over.
SaveRaises ==
    /\ phase = "saving" /\ phase' = "idle" /\ Forgets /\ Fault
    /\ latest' \in {latest, Newest(latest, model)}
    /\ UNCHANGED << world, cached, told, command, fragments, stored, moves, broken >>

\* Variant: an extraction that fails or times out ends the cycle.
ExtractionEndsOrRaises ==
    /\ phase = "extracting"
    /\ \/ phase' = "reporting" /\ UNCHANGED << model, baseline >>
       \/ phase' = "idle" /\ Forgets
    /\ UNCHANGED << world, cached, told, command, fragments, latest, stored, moves, failures, broken >>

\* analyze_schema_for_facts and _run_source_extraction: what they raise and
\* the timeout of 120 seconds are caught.
ExtractionEnds ==
    /\ phase = "extracting" /\ phase' = "reporting"
    /\ UNCHANGED << world, model, baseline, cached, told, command, fragments, latest, stored,
                    moves, failures, broken >>

Drift == baseline # NoModel /\ HasChanges(baseline, model)

\* The drift event, emitted on a best effort; without drift the cycle is over.
ReportDrift ==
    /\ phase = "reporting"
    /\ \/ /\ ~Drift /\ phase' = "idle" /\ Forgets
          /\ UNCHANGED << told, failures, broken >>
       \/ /\ Drift /\ phase' = "alerting" /\ told' = model
          /\ UNCHANGED << model, baseline, failures, broken >>
       \/ /\ Drift /\ phase' = "alerting" /\ Fault
          /\ broken' = IF broken = "crash" THEN "crash" ELSE "event"
          /\ UNCHANGED << model, baseline, told >>
    /\ UNCHANGED << world, cached, command, fragments, latest, stored, moves >>

\* save_insight refuses a second insight about the same tables in an hour;
\* what is stored is dispatched.  When the save raises there is no alert.
AlertDrift ==
    /\ phase = "alerting" /\ phase' = "idle" /\ Forgets
    /\ \/ stored' = stored \cup {DriftFingerprint(baseline, model)} /\ UNCHANGED failures
       \/ Fault /\ UNCHANGED stored
    /\ UNCHANGED << world, cached, told, command, fragments, latest, moves, broken >>

Daemon ==
    \/ ProcessStarts \/ DiscoveryStarts
    \/ \E k \in Index : ConnectorAnswers(k)
    \/ ModelMerged \/ SnapshotSaved \/ SaveRaises
    \/ ExtractionEnds \/ ReportDrift \/ AlertDrift

CommandLine ==
    \/ CliStarts \/ CliMerges \/ CliSaves \/ CliEnds
    \/ \E k \in Index : CliAnswers(k)

DiscoveryNext ==
    \/ \E k \in Index, t \in Tables, v \in 0..MaxVersion : SchemaMigrates(k, t, v)
    \/ \E k \in Index : DataChanges(k)
    \/ \E I \in SUBSET Tables : HourPasses(I)
    \/ ProcessEnds \/ Daemon \/ CommandLine

DiscoverySpec == DiscoveryInit /\ [][DiscoveryNext]_discoveryVars

\* While the process runs the discovery job fires again and again, and its
\* calls have timeouts.  Nobody has to start the process again.
DiscoveryFairSpec == DiscoverySpec /\ WF_discoveryVars(phase # "down" /\ Daemon)
-----------------------------------------------------------------------------
(***************************************************************************)
(* Whatever fails in the reads, the save, the extraction and the alert, no *)
(* drift is skipped: between two cycles the events account for the model   *)
(* the next one is compared with.  Only a lost event or the end of the     *)
(* process may break this.                                                 *)
(***************************************************************************)
EventsAccountForCache ==
    (phase = "idle" /\ broken = "none") =>
        IF cached = NoModel THEN told = NoModel
        ELSE told # NoModel /\ Fingerprint(told) = Fingerprint(cached)

(***************************************************************************)
(* No change is told twice.  A drift is reported against a model that is   *)
(* no older than the one of the last report, also by a process that was    *)
(* started again from the saved snapshot, however late the command line    *)
(* saved a model that it had merged before that report.                    *)
(***************************************************************************)
NoDriftToldTwice ==
    [][ phase = "reporting" /\ phase' = "alerting" =>
            told # NoModel /\ told.at <= baseline.at ]_discoveryVars

(***************************************************************************)
(* When the world stands still and the failures are over, the model of a   *)
(* daemon that runs is the world's.                                        *)
(***************************************************************************)
World == [k \in Index |-> Full(k)]

CacheCatchesUp ==
    <>[](phase = "down" \/ (cached # NoModel /\ cached.parts = World))
=============================================================================

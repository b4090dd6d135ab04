# A specification of Observibot

Observibot (`src/src/observibot/`) is an SRE agent: a daemon that discovers the
structure of a system, collects its metrics, detects anomalies, has an LLM
analyse them and sends alerts, and a web API with a chat beside it. This
directory holds TLA+ modules of the daemon's protocols, the TLC configurations
that check them on small instances, and TLAPS proofs. `PROJECT.json` lists the
components, the runs, the source lines of every definition, the hazards of the
code and the theorems. Paths below are relative to `src/src/observibot/`.

The daemon is one `asyncio` event loop: the code between two `await`s that
really suspend is atomic, and everything else interleaves. The modules follow
that: **one action is the code from one await to the next**, and a process may
end at any await, since `stop()` cancels running jobs and no `except Exception`
catches `CancelledError`.

## 1. The system

| Component | State it keeps | Operations | Talks to |
|---|---|---|---|
| Monitor loop (`core/monitor.py`) | `_pending_anomalies`, `_analysis_lock`, `_collection_lock`, `_cached_model`, scheduler; rows of `monitor_runs` | `start`, `stop`, jobs collect / analyze / discover, `trigger_analysis`, retention, maintenance | all others |
| Circuit breaker (`core/monitor.py`) | soft and hard counts, `opened_at`, cooldown | `record_*`, `is_open` | asked by the analysis and the diagnostics, fed by the analysis |
| Analyzer (`agent/analyzer.py`) | none | `analyze_anomalies` (retry, parse, fallback) | LLM provider; raises or returns to the monitor |
| Alert manager (`alerting/base.py`) | buffer, flush task, rate limit | `dispatch`, `flush`, `close` | channels; called by analysis and discovery |
| Discovery (`core/discovery.py`, `core/models.py`) | cached model, snapshots | `run_discovery_cycle`, merge, fingerprint, diff | connectors, store, alert manager |
| Source extraction (`core/monitor.py`, `core/code_intelligence/`) | `last_indexed_commit`, `last_extracted_file_index` | `_run_source_extraction` | git, LLM, store |
| Anomaly detector (`core/anomaly.py`, `core/seasonal.py`) | consecutive counts per bucket; ring buffers per hour and weekday, weeks observed | `evaluate`, `evaluate_seasonal`, seasonal updates | monitor, store |
| Diagnostics (`core/monitor.py`, `core/evidence.py`) | cooldown table | `_maybe_run_diagnostics` | LLM, SQL sandbox, store |
| LLM provider (`agent/llm_provider.py`) | tokens used; usage rows | `analyze` with attempts and budgets | monitor, chat, extraction |
| Semantic facts (`core/store.py`, `core/code_intelligence/`) | fact rows and their full text index | save, search, dedup, correct, edit, delete | discovery, API, chat, diagnostics |
| Connectors (`connectors/`) | pool, last counters, back-off and ETags | `discover`, `collect_metrics`, `get_recent_changes` | discovery, monitor |
| Store (`core/store.py`) | the database | one transaction a call | all |
| Lockfile (`core/monitor.py`) | a file with a pid | acquire, release | command line |
| Chat, sessions, query cache (`agent/chat_agent.py`, `api/`, `core/app_db.py`) | sessions with expiry, pool of connections, cached query results | ask, expire, cache | LLM, application database, store |
| Insight feed (`api/routes/discovery.py`) | ids already sent | poll every 5 seconds | store |

What is hard in it: jobs that share lists and locks; state read before an await
and used after it (the breaker, the rate limit, the baseline model); calls that
raise after memory has been changed; a process that ends between a commit and
the action that belongs to it; timeouts that cut a cycle in the middle;
cooldowns and windows; two values in a table that are written at different
times; requests and jobs that share a pool, a client or a table. `PROJECT.json`
lists each of these at its line ("hazards").

## 2. Modules

| Module | What it models | Composes |
|---|---|---|
| `CircuitBreaker` | the breaker as a value: `RecordSoftFailure`, `RecordHardFailure`, `IsOpen` and `AfterIsOpen` (the query closes the breaker), and `Recorded`, what the monitor records of each outcome of `analyze_anomalies` | |
| `BreakerPolicy` | passes that ask the gate and record outcomes, with a clock | `CircuitBreaker` |
| `LlmProvider` | a call of the provider with its attempts and the two token budgets, by passes and by callers that ask no breaker | `BreakerPolicy` |
| `MonitorLoop` | both jobs, the lock, the pending list, `monitor_runs`, `save_insight`, dispatch, crash and restart, callers of `trigger_analysis` | `CircuitBreaker` |
| `AnalysisQueue` | abstract: what the analysis promises of a batch | implemented by `MonitorLoop` |
| `Diagnostics` | the hypothesis tests of a pass: gates, generation, sandbox, ceilings, cooldown table | |
| `AlertManager` | buffer, window, incidents, rate limit, channels, `close()` | |
| `Discovery` | discovery cycle, merge, drift, snapshots, and `observibot discover` beside the daemon | |
| `ChangePolling` | the windows in which changes are asked for, GitHub's back-off and ETags, and which changes an analysis is shown | |
| `SourceExtraction` | batches and changed files over commits | |
| `SemanticFacts` | the table of facts, its index, those who write it and the contexts made of it | |
| `AnomalyDetector` | both baselines of a reading (last hours, hour of the week), their updates, the counters and severities over cycles | |
| `ChatServer` | chat requests: sessions, tools, pool, corrections, the answer without an LLM and its cache | |
| `MonitorLoopProofs`, `LlmProviderProofs`, `AlertManagerProofs`, `SemanticFactsProofs`, `DiagnosticsProofs`, `ChatServerProofs` | theorems about the module each is named after (section 5) | that module, `TLAPS` |
| `DiscoveryCycleProofs` | theorems about what a discovery cycle does: `Discovery`, then `SourceExtraction` | both, `TLAPS` |
| `CollectionProofs` | theorems about what a collection keeps: `ChangePolling` and `AnomalyDetector` | both, `TLAPS` |

The daemon is cut into modules where its parts meet in little: `MonitorLoop`
stands for the LLM by the outcomes `LlmProvider` can give, `Diagnostics` is what
a pass of `MonitorLoop` does between its gate and its call, and `SemanticFacts`
what `SourceExtraction` calls the extraction of a file.

`MC*` modules hold the constants of the TLC runs. An operator whose comment
starts with "Variant" is not part of a specification: it is a plausible mistake
in the operator that follows it, and shows which property would notice.

**CircuitBreaker, BreakerPolicy.** A breaker is a record `[soft, hard, opened,
left]`; `left` is what remains of the cooldown (`opened_at + cooldown - now`).
The outcomes of a call are those the code tells apart at `core/monitor.py:961`:
`ok`; `transient`, a soft provider failure, for which `analyze_anomalies`
*returns* a fallback and the monitor records a success; `invalid`, a reply that
cannot be used; `hard`; and `other`. `BreakerPolicy` keeps its own clock
`cooling` and its own count `softRun` and compares the breaker with them.

**LlmProvider.** Extends `BreakerPolicy` by what is inside of a call: `Ask` and
`AskDaily` (the two budgets), `Attempt` (`_call`, the classification of errors
and the parsing of the reply), `Record` (the row of `llm_usage`). A pass notes
in the same table that its call failed, and a store that raises there replaces
the error of the provider by its own (`Fails`), which the breaker counts as a
soft failure whatever the first was. Tokens are counted in attempts. The chat and the extraction go to the provider `Direct`:
without breaker, and their tokens are not recorded. A day or a restart changes
one counter and not the other.

**MonitorLoop.** `pc` says where each process is: the collect job, the analyze
job, and callers of `trigger_analysis`, which take no lock. `StartCollection`,
`Detect`, `CollectionRaises`, `MetricsSaved`, `CompleteRun` are
`run_collection_cycle` cut at its awaits; `SafeAnalyze`, `Gate`, `Release` and
`LockHandedOver` are the lock and the part of `run_analysis_cycle` before its
first await; `CreateRow` to `PassReturns` the rest of it. The pending list is a
set: each detection is an event of its own that happens once. An anomaly's
bucket decides the signature, so that two detections of one bucket collide in
`save_insight`. `stored` is the `insights` table restricted to the last hour
with the number of dispatches of each fingerprint. `detected`, `settled` and
`faults` are history.

**AlertManager.** The manager with a window (`aggregating`) and without. A
`sender` is a task inside `_send_one`: the flush task, `close()`, or a caller
of `dispatch` without a window. A sender only gives way while a channel sends
(`LoopFree`). Time is explicit: cap and cooldown are compared with the clock.
What a channel answers are `Replies`; a send whose answer is lost has alerted
somebody and is not counted, as in the code, so "delivered" means acknowledged.

**Discovery.** A table has a version of its columns and a `rest`, which is what
the fingerprint distinguishes: primary keys, sampled values, comments, indexes
and policies, and beside the tables their relationships. Each is read by a query
of its own, and any of them may fail in one answer (`Losses`) and are then
missing from the fragment (`Partial`). Connectors answer in full, in part or
with an empty fragment (they raised). `told` is the model the drift events
account for. `CliStarts` to `CliSaves` are `observibot discover`, a process of
its own that reads, merges and saves in several awaits, perhaps partially, and
perhaps long after the daemon has saved a later model. The latest snapshot is
therefore the one that was merged last (`Newest`, `created_at` in the code) and
not the one that was saved last; `at` counts the merges of the command line,
between which the daemon's models are saved in the order of their merges.

**SourceExtraction.** The two values of `code_intelligence_meta`, the files in
the order of their rank, of which `todo` holds the ranks a cycle has still to
extract, and commits that change some of them; every await may
be the last of a cycle (`Interrupted`: the timeout of 120 seconds, a store call
that raises, the end of the process). A `git rev-parse` that exits with an error
gives an empty commit, which is recorded like any other (`HeadUnread`).

**AnomalyDetector.** A reading is judged by `Baseline`: the samples of the hour
of the week when the bucket is trusted, else those of the window, if there are
enough. `Cycle` is `run_collection_cycle` up to `save_metrics` (the two baselines
are read before the new readings are written), `MetricsSaved` and
`SeasonsUpdated` the two writes. The world has hours, levels of the series and
single readings off them. A cycle may ask for the hour before the one its
samples go to, since the lookup uses the start of the cycle and the update the
time of each sample. `trail` and `weeksAgo` are history.

**Diagnostics.** A pass keeps its locals in a record (`snap` is the model it
found when it started). `Gate` to `Evict` are the awaits of
`_maybe_run_diagnostics`; queries are named by the table they ask, and a table
that is not in the snapshot, or does not exist (`Ghost`), is refused by the
sandbox. `TimesOut` is either ceiling (`asyncio.wait_for`). The model and the
connection change at any time; a restart keeps the table only. `saved` is
history.

**ChangePolling.** Time is counted in collection intervals; a collection asks
for what happened since two intervals before its start, and one that takes
longer misses the firings meanwhile. A commit has two dates, that by which
GitHub filters and sorts (`dated`) and that of its author, with which it is
stored (`occurred`), and is pushed some time after both. `PollDeploys` is
Railway, of which the last `DeployLimit` deployments are asked for, `AskCommits`
and `CommitsReply` GitHub, which answers one page of `CommitLimit` commits, and
whose client discovery uses too (`AskRepository`, `RepositoryReply`). A request
of GitHub succeeds, fails and is counted, is limited (its Retry-After may be 0),
or ends in an error that nobody counts (`Escapes`). `stored` counts the copies of
a change, each of which has a fresh id. `CollectionEnds` reads the last
`RowLimit` rows of the last `Horizon` and shows an analysis those of them that
correlate best. The rows of the connector are pairs of an anomaly and a change;
the module is about one anomaly, for which the score orders the rows by the
date of the change.

**SemanticFacts.** A row has a rowid, an id, a key (source, concept, type) and
a claim, which stands for its words. A save is `Find`, then `Save`; between the
two anyone may write. `SchemaFacts` is what `_analyze_table` tells, in its
order. `FtsReplace` and `FtsDeleteAbsent` do what SQLite does with a table of
external content: an entry is added under the new words, and those of the old
ones stay. `expect` is history. The contexts (`QuestionContext`,
`AnomalyContext`) are evaluated in every state, for every set of words that is
looked up, every rank the index may give, and every state of freshness. Of a
seeding that raises the rest is not saved, no duplicates are removed, and the
source code is extracted all the same (`Fails`).

**ChatServer.** A request is a process; its `pc` names the call it awaits.
`Plan` chooses one of the sequences of tool calls, each tool is an action, and
`query_application` waits for a connection twice (`ApplicationTool`,
`RunQuery`), if the sandbox lets it pass and the application database is
`connected`. A call whose parameters are no object raises out of the tools and
drops their results (`MalformedCall`). `LookUp`, `Fallback` and `SaveCache` answer without an LLM. A
session is named by the request that made it, and a turn by the request that
was answered. `log` is history: of each session, the requests answered in it.

## 3. Runs

| Run | Question | Bounds |
|---|---|---|
| `llm` | does the breaker open after three soft failures or a hard one and admit nobody before its cooldown is over, and how far can the budget be exceeded? | two passes, a direct caller, a budget of two attempts, one midnight or restart; runs of failures counted to 3, cooldowns 2 and 1, 2, 3 |
| `monitor` | lists, lock, rows, insights and refinement of `AnalysisQueue` with crashes and store failures | three detections of one bucket, two titles, one severity, two insights a reply |
| `monitor_live` | is a pending anomaly taken, and does a waiting collection get the lock? | three detections, a caller of `trigger_analysis`, one insight a reply, no symmetry |
| `alerts` | cap, cooldown, no insight lost or sent twice, flush and close | four insights, two of one fingerprint, incidents of two, two channels, clock to 3 |
| `discovery` | do the events account for the cached model, is no drift told twice, and does the model catch up? | two connectors that share a table, two versions, two moves (of the schema, the values or the command line), two faults, one query or three that fail in an answer |
| `extraction` | do the batches leave a gap, do facts go stale, does it settle? | five files in batches of two, three commits, one fault |
| `anomaly` | are reports runs of anomalous readings, is a single spike silent, when is a bucket trusted, and do reports of a shift end? | three hosts of one seasonal key, weeks of two hours, two cycles an hour, buckets of six samples trusted after two weeks, two events (change of level, spike, silence, failure, restart) |
| `facts` | does the last claim stand, are facts found, do corrections come first, do duplicates go? | a schema of one fact, one fact of source code, two corrections of one concept, two chats, six rowids, three events (correction, extraction, edit, failure) |
| `chat` | do turns stay with their owner, are they remembered, does every request end? | three requests of two users, three plans (none, a query that is allowed, calls that are refused, unknown or malformed), a database that may not be connected, a pool of two, sessions of one turn, clock to 2 |
| `diagnostics` | does the evidence account for what was asked, is the cooldown kept, does the phase end? | two passes, one signature, one table and one that does not exist, two queries, clock to 2, two events |
| `polling` | are the latest changes shown, does the client give up after failures, does a back-off end? | two deployments and a commit, of which two happen, replies of one, five rows read and four shown, a window of two, time to 3, a back-off of 1 after two failures, a push up to one interval late |
| `polling_stable` | *violated*: discovery of an unchanged repository is not stable | the same |

Why these bounds are enough to be interesting: three detections are the smallest
case in which a collection meets a pass of the analyze job (one opens the
breaker, one is pending for the analyze job when it closes, one is collected
meanwhile); with two the lock is never contended by a collection. They share a
bucket, so that fingerprints collide. Two titles of one severity make replies
whose insights collide. The kinds of faults are a constant (`Faults`). Long runs
of failures are in `llm`, which puts no bound on the number of passes; a direct
caller and two passes are the least that overlap with a breaker on one side
only. Four insights fill the hour (`MaxPerHour` 2) with incidents and with
single alerts of one fingerprint. Two connectors that share a table are needed
for the merge to choose; two moves of the world for a change in the middle of a
cycle and one after it. Five files in batches of two end in a short batch.
Three hosts are the least of which one can be in the minority of the samples
they share; two cycles an hour and three hosts give a week several chances to be
counted twice; values 20 apart pass the gate of 10, and medians stay exact. Two
chats and discovery are three writers of one table, of which two may save one
key at once, and three events let a row be made twice, be deleted and its rowid
be given away; a context of one fact has a pool of three rows. Three requests
contend for two connections, of two users who may name each other's sessions;
one turn makes a session forget at once, so that the run shows which exchange is
kept; the order of several is `LastTurnsStay` (section 5). Of two deployments a
reply holds one, so that a change in the window may never be stored, and the
rows read and shown hold the copies of one other change and no more; with one
commit its page never binds, nor does the horizon in three intervals. A
collection may last as long as the window is wide, and as four readings of the
clock fit it, three polls may contain one change.
Counters of faults and moves are in the guards (`MaxFaults`, `MaxMoves`,
`MaxCommits`, `MaxTime`, `MaxNow`, `MaxDays`, `MaxVersion`, `MaxStreak`,
`MaxCycles`, `MaxRows`, `MaxEvents`, `MaxChanges`, and `MaxFailures` of
`Discovery`); `MonitorLoop` needs none, since each detection happens once.

Every module has a type invariant, which was checked with TLC while the module
was written; the runs list the properties that could go wrong. All of
them are proved.

**Fairness.** A job the scheduler has started goes on: every call it makes has
a timeout, or is a local database call (`WF` of each step, in `MonitorLoop`,
`AlertManager`, `Discovery`, `SourceExtraction`, `ChatServer`, `LlmProvider`,
`ChangePolling`). In `Diagnostics` less is assumed: only the store answers and
the timers fire, so that `PhaseEnds` rests on the ceilings and not on the LLM.
In `SemanticFacts` the same weak fairness is written with the condition that
enables a step in the place of `ENABLED`. The analyze and discovery
jobs fire again (interval triggers). Time passes (`WF(Tick)` where a cooldown
runs). Nothing is assumed of a collection that has not started, of callers, of
commits, of channels succeeding, or of a restart after a crash: the liveness
properties allow "unless the process ends" or "unless closed". Strong fairness
is used nowhere. `AnomalyDetector` assumes that hours keep passing with at
least one cycle in each (the job fires every few minutes and its cycles end),
stated as infinitely many `HourPasses`. `AlertManager`, `ChatServer` and `SemanticFacts` are checked
without deadlock checking: the first stops after `close()` and at the bound of
the clock, the second when every request is answered, the third at the bound of
the rowids.

## 4. What the runs show

* **Breaker and budget.** Open exactly after three soft failures without a
  success or elapsed cooldown between them, or a hard one (`ThreeStrikes`), with
  two passes recording in any order and what the provider makes of a call;
  nobody is admitted early (`CooldownRespected`). A process may consume three
  attempts of every caller beyond its budget and no more (`OvershootIsBounded`):
  the check is before the call, and nothing asks between attempts.
* **Analysis.** Lock-protected passes exclude each other; an anomaly is in one
  list only and none is lost unless a call failed or the process ended; no LLM
  call starts while the breaker is open although it is asked several awaits
  earlier (`NoCallWhileOpen`; this depends on nobody but the passes recording
  on the breaker, and is not claimed when `trigger_analysis` is called beside
  the daemon); stored insights are dispatched once (`StoredAlertedOnce`); across
  restarts and without a store failure a row left open or marked stale is that
  of an interrupted cycle or of a pass without a parent
  (`CollectionsCloseTheirRows`); the whole refines `AnalysisQueue`. With a caller
  of `trigger_analysis` beside the daemon, a pending anomaly is taken by one or
  the other, and a collection that waits for the lock gets it.
* **Alerts.** With one task that dispatches at a time the cap and the cooldown
  hold even though they are asked before and recorded after the sends, because
  the flush task sends one alert after the other.
* **Discovery.** Failing reads, saves, extraction and alerts do not skip a
  drift; only a lost event or the end of the process does. None is told twice,
  although a process starts from a snapshot that another process may have saved
  (`NoDriftToldTwice`): this rests on the snapshots' dates, since the command
  line may save a model that is older than the daemon's after it. What a failed query
  left out of a fragment is drift, and its return too; once reads succeed the
  cached model is that of the world again (`CacheCatchesUp`).
* **Changes.** The windows overlap, so that a change is stored two or three
  times, and that many copies (`LookBack + 1`) are what `LatestChangesAreShown`
  must leave room for. That every change is stored is not claimed: it is lost
  when no poll whose window holds it is complete, when the next collection starts
  later than the window is wide, when more than twenty deployments or thirty
  commits are newer, and when a commit is pushed later than that after its date.
  After `MaxFailures` failures GitHub is left alone, whichever job met them, but
  for one request that was on its way (`GivesUpAfterFailures`). A back-off, which
  either job renews or clears, does not last for ever.
* **Extraction.** Batches leave no gap; commits at any moment leave no facts of
  an old version; it settles whatever is interrupted.
* **Facts.** Writers that do not overlap leave the last claim as the newest row,
  whatever duplicates there are (`LastSaveStands`), and duplicates, which
  overlapping saves make, are removed by the next discovery. The index holds
  words of rows that are gone, and a reused rowid inherits them: an active row
  is still found by its own words, and corrections come first in both contexts
  as long as they are in the pool.
* **Diagnostics.** What is saved for a signature accounts for each query the LLM
  asked, refused ones included (`AuditTrail`); a failed or cut phase does not
  start a cooldown; evidence that was evicted or pruned was too old to count;
  the phase ends though neither LLM nor database answers.
* **Chat.** A request that names another user's session, or an expired one,
  gets its own; a session remembers its last turns in the order they were
  answered, by whatever path; two acquisitions of a small pool do not deadlock,
  because the first is given back before the second is asked for.
* **Anomalies.** One counter is right over both baselines, silences, failed
  lookups and restarts; a single spike is not reported, nor are the readings
  judged by samples that contain it; a week counts once; after a shift the
  reports end when the samples have turned over. This last is false without its
  condition `OneLevel`: a host whose level differs from the majority of those it
  shares a seasonal bucket with (`core/seasonal.py:90` strips the identity
  labels) is critical in every cycle once the bucket is trusted, although its
  own history is flat.

### Divergences from the documentation, with a run

* `DiscoveryStable` (`polling_stable`): GitHub answers the second discovery of an
  unchanged repository with 304, and the connector returns a fragment without
  the repository (`connectors/github.py:164`, against
  `docs/contributing/CONNECTORS.md:79`).

### Divergences noted while modelling, without a run

Reachable in the models, or seen in code next to what is modelled, and not
among the checked properties:

Breaker, analysis and budget:

* Transient provider failures reach the breaker as successes
  (`agent/analyzer.py:377`) and never open it, against `core/monitor.py:64`.
* A second hard failure starts the first cooldown again: `is_open()` resets the
  whole state when a cooldown elapses (`core/monitor.py:109`), while the
  docstring at `core/monitor.py:65` promises 5, 15, 60 minutes.
* When the store fails while a failed call is noted (`agent/analyzer.py:365`), a
  hard failure counts as a soft one, and the anomalies get no fallback insight.
* A read that raises after the list was swapped (`core/monitor.py:876`) drops
  the batch; `agent/analyzer.py:818` says anomalies are never dropped silently.
* `_check_budget` compares the tokens of the whole life of the process with the
  daily budget (`agent/llm_provider.py:117`, `docs/CONFIGURATION.md:50`). The calls
  of chat and extraction are not recorded in `llm_usage`, nor are attempts that
  failed; when the store cannot be read the call is allowed.
* A pass without a parent creates a `monitor_runs` row that nobody completes
  (`core/monitor.py:854`); the next start marks it stale as "restarted before
  cycle completed" (`core/store.py:1027`): `"standalone" \in stale`.
* While the breaker is open anomalies raise no deterministic alert; they wait
  (`core/monitor.py:839`, `docs/phases/ROADMAP.md:87`).
* Two insights of one reply with one severity share a fingerprint, so the second
  is refused (`agent/analyzer.py:418`).
* A model without tables makes an empty answer that is kept for the cooldown, and
  so is the evidence of a database that was not there; what was found before the
  execution's ceiling is lost without an `EvidenceError`.

Alerts:

* An insight dispatched while the flush task sends waits for another dispatch or
  for `close()` (`alerting/base.py:173`, against the docstring at `:133`).
* An alert whose answer is lost was delivered and is not counted by the limit.
* `close()` cancels a flush that is sending and loses what that one had drained
  (`alerting/base.py:243`): hence `~cut` in the properties of `AlertManager`.
* Two tasks that dispatch at once without a window both pass `allow()`:
  `HardCap` fails with two `Callers` (`alerting/base.py:209`).

Discovery, changes and extraction:

* Sampled values and their counts are part of the structural fingerprint
  (`connectors/postgresql.py:434`, against `core/models.py:248`): in `Discovery`
  a change of `values` alone is drift.
* A process that ends during the extraction has saved the new model and not
  reported its drift (`core/monitor.py:603`): hence `broken` in `Discovery`.
* A connector that fails in one cycle looks like one without tables, and all of
  them are reported as removed (`core/discovery.py:135`).
* A discovery of GitHub that fails or backs off has no services and no errors.
* Each change is stored two or three times under a fresh id; more than twenty
  deployments or thirty commits in a window are cut.
* The path of a request for commits contains its cutoff, so its ETag never fits
  again, and `_etags` grows; `get_file_content` and `list_files` return nothing
  on 304.
* A successful call clears the back-off another one was just given, and a
  Retry-After may shorten it (`connectors/github.py:109`). Errors of a request
  other than those expected, and a Retry-After that is no number, are not
  counted as failures.
* A refused query of Railway disables its resource metrics for the life of the
  process, and Supabase's metrics are off until the next discovery after 403 or
  404.
* Discovery and collection may each make a pool when there is none
  (`connectors/postgresql.py:87`); after a reset of the statistics the counters
  start again (`connectors/postgresql.py:533`).
* A commit between two batches sets the index to "complete" and ends the
  batches that were pending (`core/monitor.py:549`, against the log line at
  `:511`).
* An extraction cut after it recorded the commit counts as complete
  (`core/monitor.py:519`). A `git rev-parse` that failed records an empty commit
  and begins the extraction of all files again (`core/monitor.py:484`).

Facts and chat:

* The index keeps the words of a row that were changed or deleted, since
  SQLite removes from an external-content index what the table says now; a new
  row with a reused rowid is found by them (`core/store.py:1951-1955` says the
  resynchronisation prevents stale rows).
* A correction in a question that the LLM answers without calling tools is not
  stored (`docs/VERIFICATION_PLAN.md:226-228`).
* Facts, corrections included, are withheld from chat until a source extraction
  has ended once (`agent/chat_agent.py:435`, `core/code_intelligence/service.py:379`);
  `index_error` is read there and written nowhere.
* `SET LOCAL` outside of a transaction has no effect (`core/app_db.py:52`), so the
  pool sets no timeout; EXPLAIN and query are two acquisitions, although
  `agent/chat_agent.py:694` speaks of the same pool slot.
* A cache that cannot be written loses the answer and the turn; a slow query may
  replace a newer entry (`api/routes/chat.py:81`). `cleanup_expired` is called by
  nobody.

## 5. Proofs

Eight modules hold theorems, each about one component or two that the same cycle
runs; two modules that meet in one proof module share no variable. They hold
for every set of processes, messages and names, every bound on batches, queues,
replies, faults and moves, and every number of steps; TLC's runs show the same
properties on the instances of section 3. Each proof has the same plan: an
invariant that holds at the start, that every action keeps (a lemma for each
action or for each kind of step), and that implies the property.

**Assumptions.** They are the named `ASSUME`s of the modules, which TLC evaluates
in every run and the code's constants satisfy: the breaker's threshold and
cooldowns are positive (`BreakerAssumption`), the names of processes are distinct
(`MonitorAssumption`, `AlertAssumption`, `FactsAssumption`), what stands for
"nothing" is no model, fragment or table (`NothingAssumption`,
`DiagnosticsAssumption`), there is a file to extract, a table to discover and a
signature to diagnose, what a schema and an extraction tell are sequences of
facts, writers and callers are finitely many where they are counted, and evidence
is retained at least for the cooldown (`Retain >= Cooldown`: ten minutes and days
by default, both configurable), the changes are finitely many and a back-off takes
time (`PollingAssumption`), a severity is critical no sooner than warning and the
readings are whole multiples of 4, so that medians of medians are exact
(`DetectorAssumption`), sizes and limits of a context are numbers
(`LimitsAssumption`). Some hypotheses stand in theorems instead, because the code
breaks the property without them: `Triggers = {}` (nobody calls
`trigger_analysis` beside the daemon: a caller may have a second batch in work),
`OneCaller` (one task dispatches at a time without a window), and, for
`NoReportOfASpike`, `Warning`, `MinWeeks` and `MaxSamples` of two or more: a
threshold of one reports a single reading, and of a bucket that is trusted after
one week, or keeps one sample, the spike itself may be the whole baseline. The
defaults are 2, 4 and 30 (`core/config.py:67-72`).

**MonitorLoop** (`MonitorLoopProofs`)

* `Types`, and `Exclusive`: `[]AnalysisExclusive`. Mutual exclusion does not speak
  of the lock and is not inductive: `LockInv` adds that a user of the lock is
  between entering and leaving exactly when it is the holder, or is waiting and
  has been handed the lock.
* `OneList` and `NothingLost`: from `Ledger`, which adds that only detected
  anomalies are listed and that each stage holds only its own list (`found` while
  saving, `taken` while analysing); otherwise a step from a stage that should be
  empty would overwrite anomalies. The argument goes through lemmas about moves
  (`MoveLedger`, `QueueLedger`, `LeaveLedger`): an action moves anomalies from
  one list to another, to a verdict, or out of the ledger with a fault recorded.
* `AlertedOnce`: `[]StoredAlertedOnce`. `AlertsInv` adds that what a pass is about
  to dispatch is stored with no dispatch yet, and that no two passes are about to
  dispatch the same fingerprint.
* `GateWorks`: `[]NoCallWhileOpen`. Once past the gate, the breaker stays shut up
  to the call (`GateInv`): while a pass is between the two nobody else is there
  to record a failure, by `LockInv`.
* `RowsAreClosed`: `[]CollectionsCloseTheirRows`, inductive as it stands.
* `AnalysisIsAQueue`: `Spec => ImplementsQueue` when `Triggers = {}`. Every step
  takes the whole queue, judges what is in work, drops it with a fault, or is a
  stutter of `AnalysisQueue`. That only one pass holds a batch is `LockInv`, that
  the mapping `UNION {taken[p]}` is that pass's batch is `Ledger`.

**LlmProvider and BreakerPolicy** (`LlmProviderProofs`)

* `BreakerCountsStrikes` (`[]ThreeStrikes`) and `CooldownIsRespected`: from
  `Agreement`, which ties the breaker's record to the clock and the count kept
  beside it, whatever the order in which overlapping calls record.
* `OvershootBounded`: `[]OvershootIsBounded`. The bound is over all callers, so the
  invariant is about what is still to come: `Ahead` is the set of attempts (of
  each caller, at most three) that calls past the check may still make, and what
  is used and the size of `Ahead` together stay below the budget and three
  attempts of each caller (`Accounted`). An attempt leaves `Ahead` when it is
  paid; a caller enters only while the budget is not used up.

**AlertManager** (`AlertManagerProofs`)

* `NeitherLostNorRepeated` and `CloseFlushes`: from `PlacesInv`. Each insight is
  buffered, drained, being sent or done with, never in two of them nor twice in
  one, and in one of them if it was dispatched and no flush was cut (`InPlace`);
  `Control` says which senders exist before and after `close()`. Filtering,
  grouping into incidents and draining are lemmas.
* `CapHolds` and `CooldownHolds`, with one caller: from `LimitsInv`, which relates
  the deliveries to the rate limiter's two tables although it is asked before and
  told after a send: what was delivered is recorded or is with its sender
  (`Recorded`), an alert that is being sent is still below both limits
  (`Cleared`), and `sent_times`, pruned from the front, holds at least as many
  times as there were deliveries since any moment of the last hour (`Counted`).

**Discovery** (`DiscoveryCycleProofs`)

* `NoDriftSkipped`: `[]EventsAccountForCache`. Between the save of a model and the
  report of its drift the property is false of the cache; `EventsInv` says what
  was told accounts for the baseline then, and for the cache otherwise.
* `NoDriftIsToldTwice`: the action property `NoDriftToldTwice`. The property
  compares a report with the last one, which another process may have made and
  the saved snapshot alone remembers. `OrderInv` orders the models by their
  merges: what was told is no newer than the latest snapshot, a process caches
  nothing older than what was told, and what it merges is no older than what it
  caches; saving an older model of the command line keeps all of this.

**SourceExtraction** (`DiscoveryCycleProofs`)

* `NoGap`: `[]BatchesLeaveNoGap`. Of a first commit, the files below the saved
  index have been extracted, or are those of the batch in progress that are
  still to do (`BatchesInv`); the index is saved before its batch.
* `NothingStale`: `[]NoStaleFile`. A file that is out of date was changed after
  the recorded commit, or is on the list of this cycle (`StaleInv`). Both need
  `Progress`, which says what is recorded at each await.

**SemanticFacts** (`SemanticFactsProofs`)

* `LastSave`: `[]LastSaveStands`. `Core` holds what makes it inductive: an id
  belongs to one row and to the key of whoever saves under it (`OwnIds`), two
  saves of one key that overlap are both marked (`Races`), and a save that
  overlaps with none is later than every row of its key and updates one of them
  if there is one (`Fresh`). Removing duplicates keeps the newest row.
* `FactsAreFound`: `[]ActiveFactsAreFound`. The index leads to each row by its
  words though entries of old words stay, and rowids are used again (`Indexed`).
* `CorrectionsFirst`: `[]CorrectionsComeFirst`, for every question, every order in
  which the index returns what it finds, and both limits. The sort is defined by
  how many positions go before each one (`Ahead`), so that `Placed` and `Sorted`
  follow from counting, and what the budget leaves is a prefix of it, of one fact
  at least where one fits.
* The model renumbers its time stamps after every step, so that there are
  finitely many states. `StoreKeeps` proves that this changes no comparison,
  from facts about ranks in a finite set of numbers; `Dense` says a new stamp is
  later than all others. The invariant has the set of facts as its parameter,
  as the provers take an operator over constants for one that may change.

**Diagnostics** (`DiagnosticsProofs`)

* `EvidenceIsComplete`: `[]AuditTrail`. At each await the evidence found so far
  and the queries still to run make up the answer of the LLM (`Accounted`).
* `CooldownIsKept`: the action property `CooldownHolds`, from `Kept`: the entry of
  a signature is the one last saved, or that one is older than the cooldown.

**ChatServer** (`ChatServerProofs`)

* `TurnsStay`: `[]TurnsBelongToOwner`. `Own` says that a session's user is that of
  the request it is named after, `Mine` that a request's session has the
  request's user; the step that needs both is the answer, which adds a turn to
  a session that was looked up many awaits ago.
* `LastTurnsStay`: `[]SessionRemembers`. Cutting the turns after each one leaves
  the end of the whole history (`TurnsEnd`), and a name whose session is gone is
  never used for another one (`Begun`).
* `Types`: with it, that the pool is never overdrawn.

**ChangePolling** (`CollectionProofs`)

* `FailuresAreFew`: `[]GivesUpAfterFailures`. `BackOffInv` adds that a count that
  has reached the limit has set a back-off: a job asks when there is none or it
  is over, and the count begins again then, so that a request can only be on its
  way beside a full count when it was sent before the last failure.
* `LatestAreShown`: the action property `LatestChangesAreShown`. That copies do not
  crowd others out needs a bound on them, `CopiesInv` (`CopiesAreFew`): each
  collection stores a change once at most, those that reach back to it started
  at `LookBack + 1` moments, and one that started before the change and polled
  after it takes the place of the first of them. The evidence is a set of rows;
  when a row of the change is left out, those shown are rows of rivals
  (`TopShowsLatest`), and there are not enough of them.

**AnomalyDetector** (`CollectionProofs`)

* `SeverityOfARun`: `[]SeverityIsSustained`. `TrailInv` says the counter is the
  length of the run of anomalous verdicts that the trail ends in, as far as
  comparisons with `Critical` tell, and the severity agrees with both. A cycle
  that does not judge a series changes neither.
* `TrustTakesWeeks`: `[]TrustNeedsWeeks`. `WeeksInv` relates the weeks counted in a
  bucket to those since its first sample by the week of its last update: equal to
  that week, a bucket has counted it; before it, it has not.
* `NoReportOfASpike`: `[]SingleSpikeNotReported`. The medians need no induction:
  a sample of rank k is chosen by how many are smaller and how many greater, so
  that of samples all but one of which are at a level, two at least, the median
  is that level or within half of the distance to the one that is off, and a
  reading at the level is not anomalous (`NormalAmongEquals`, `NormalButForOne`).
  `SpikeInv` follows the spike: before it everything stored is at the level;
  after it one sample of the history and one in the buckets of its key may be
  off, and until the spike is written none is. The counter never passes one.
  `GrownInv` says that a bucket that counts two weeks holds two samples, so that
  the spike is never the whole of a trusted baseline.

**Only model-checked.** Liveness under fairness (`PendingIsTaken`,
`CollectionNotBlocked`, `BufferedIsFlushed`, `CacheCatchesUp`,
`ExtractionSettles`, `ShiftBecomesBaseline`, `DuplicatesGo`, `RequestsEnd`,
`PhaseEnds`, `BackOffEnds`) and `ENABLED` are out of the prover's reach. Every
invariant and every property of a single step that a passing run checks is proved.
No module declares a `RECURSIVE` operator.

## 6. Not modelled, and the plan

Left out of the models on purpose: texts, prompts, formatting, and HTTP and SQL
but for their outcomes; what the words of a claim mean and which correction wins
an argument; the wall
clock except for cooldowns and windows; the sizes of lists and prompts. A
failure of a store call is one that raises without effect. The length of a
bucket matters in practice: 30 samples hold only two and a half visits of an
hour when a cycle runs every five minutes, so a bucket trusted after four weeks
need not contain samples of four weeks; `TrustNeedsWeeks` speaks of the weeks
that were counted.

Planned, in this order:

1. `Lockfile` and `InsightFeed`: two processes and a stale lock, a burst that is
   longer than a poll.
2. `ConnectorPool` and `TableCounters`: a pool made twice, counters that are
   reset; the rest of retention, which prunes the tables of other modules by age.

Components that will stay out: redaction and parsers (functions of strings),
the channels' formatting, the web frontend and the generated migrations, and
the API routes that read or write one row.

---------------------------- MODULE ChangePolling ----------------------------
(***************************************************************************)
(* How changes of the observed systems reach change_events: every          *)
(* collection asks Railway for deployments and GitHub for commits since    *)
(* two intervals before it started (MonitorLoop.run_collection_cycle,      *)
(* RailwayConnector, GitHubConnector), and stores what they answer.  What  *)
(* is stored shortly before an anomaly becomes evidence of its analysis.   *)
(* Discoveries ask GitHub for the repository meanwhile: both jobs share    *)
(* its client, which backs off after failures and keeps ETags.             *)
(*                                                                         *)
(* Time is counted in collection intervals.  A collection that takes       *)
(* longer than one misses the firings meanwhile (max_instances=1).  A      *)
(* commit has two dates, and is pushed some time after both.               *)
(***************************************************************************)
EXTENDS Integers, FiniteSets

CONSTANTS
    Deploys, Commits,  \* the changes at Railway and at GitHub
    LookBack,          \* how far back a poll looks: 2
    DeployLimit,       \* how many deployments Railway is asked for
    CommitLimit,       \* per_page of the commits
    Horizon,           \* how far back an analysis reads change_events: two hours
    RowLimit,          \* limit of get_recent_change_events
    Proximity,         \* correlation_proximity_minutes
    TopN,              \* correlation_top_n_for_evidence
    Retries,           \* max_retries of Railway's GraphQL calls
    MaxFailures,       \* MAX_CONSECUTIVE_FAILURES
    BackOff,           \* BACKOFF_INTERVAL_SECONDS; a Retry-After is shorter
    MaxNow,            \* bound on the time
    MaxLag,            \* bound on the time between the two dates of a commit and its push
    MaxChanges         \* bound on what happens in the observed systems

ASSUME PollingAssumption ==
    /\ IsFiniteSet(Deploys) /\ IsFiniteSet(Commits) /\ Deploys \cap Commits = {}
    /\ LookBack \in Nat /\ Horizon \in Nat /\ Proximity \in Nat
    /\ DeployLimit \in Nat /\ CommitLimit \in Nat /\ RowLimit \in Nat /\ TopN \in Nat
    /\ Retries \in Nat \ {0} /\ MaxFailures \in Nat \ {0}
    /\ BackOff \in Nat \ {0} /\ MaxNow \in Nat /\ MaxLag \in Nat /\ MaxChanges \in Nat

Changes == Deploys \cup Commits
Never   == -1
ETags   == {"none", "current", "old"}
Stages  == {"idle", "deploys", "commits", "commits reply", "analysis"}

VARIABLES
    now, events,
    due,         \* the collection has fired and not started yet
    collect,     \* where the collection is
    start,       \* when it started; its cutoff counts from there
    tries,       \* the attempts of its GraphQL call that failed
    repo,        \* the discovery's call: "idle", or "reply" while it awaits GitHub
    failures,    \* _consecutive_failures
    pause,       \* what is left until _backed_off_until, or Never
    etag,        \* what _etags has for the repository: "none", "current" or "old"
    sent,        \* the ETag that went with the discovery's request
    fragment,    \* what the last discovery found: the repository, or errors
    dated,       \* the date of each change its source filters and sorts by, or Never
    occurred,    \* the date it is stored with (occurred_at): of a commit, the author's
    stored,      \* how often it is in change_events
    shown        \* the changes the last analysis was shown

client     == << failures, pause >>
repository == << repo, etag, sent, fragment >>
dates      == << dated, occurred >>
changes    == << dates, stored >>
pollingVars ==
    << now, events, due, collect, start, tries, client, repository, changes, shown >>

PollingTypeOK ==
    /\ now \in 0..MaxNow /\ events \in 0..MaxChanges
    /\ due \in BOOLEAN /\ collect \in Stages
    /\ start \in Never..MaxNow /\ tries \in 0..Retries - 1
    /\ repo \in {"idle", "reply"}
    /\ failures \in Nat /\ pause \in Never..BackOff
    /\ etag \in ETags /\ sent \in ETags
    /\ fragment \subseteq {"repository", "errors"}
    /\ dated \in [Changes -> Never..MaxNow] /\ occurred \in [Changes -> Never..MaxNow]
    /\ stored \in [Changes -> Nat]
    /\ shown \subseteq Changes

PollingInit ==
    /\ now = 0 /\ events = 0
    /\ due = TRUE /\ collect = "idle" /\ start = Never /\ tries = 0
    /\ repo = "idle" /\ etag = "none" /\ sent = "none"
    /\ fragment = {"repository"}
    /\ failures = 0 /\ pause = Never
    /\ dated = [c \in Changes |-> Never] /\ occurred = [c \in Changes |-> Never]
    /\ stored = [c \in Changes |-> 0]
    /\ shown = {}
-----------------------------------------------------------------------------
CollectionStarts ==
    /\ collect = "idle" /\ due /\ due' = FALSE
    /\ collect' = "deploys" /\ start' = now /\ shown' = {}
    /\ UNCHANGED << now, events, tries, client, repository, changes >>

\* Variant: a poll looks back further than it need.
SinceThreeFirings(c) == dated[c] # Never /\ dated[c] >= start - 3
\* cutoff: what is dated since two intervals before the collection started.
InWindow(c) == dated[c] # Never /\ dated[c] >= start - LookBack

\* The first n of S, the latest first, those of one date in any order; all of S
\* if there are not more.
NewestOf(S, n, date) ==
    {top \in SUBSET S :
        /\ Cardinality(top) = IF Cardinality(S) < n THEN Cardinality(S) ELSE n
        /\ \A x \in top, y \in S \ top : date[y] <= date[x]}

\* Railway is asked for the last deployments, and the old ones are left out.
DeployReplies ==
    {{c \in top : InWindow(c)} :
        top \in NewestOf({c \in Deploys : dated[c] # Never}, DeployLimit, dated)}

\* GitHub is asked for the commits since the cutoff, and answers the first page.
CommitReplies == NewestOf({c \in Commits : InWindow(c)}, CommitLimit, dated)

\* A reply is stored change by change, each under an id of its own; when the
\* store raises, or a commit cannot be parsed, the rest of it is dropped.
Store(replies) ==
    \E reply \in replies : \E kept \in SUBSET reply :
        stored' = [c \in Changes |-> IF c \in kept THEN stored[c] + 1 ELSE stored[c]]

\* _graphql: a transient error, a 429 included, is repeated.
GiveUp(n) == n + 1 = Retries

\* RailwayConnector.get_recent_changes.  A permanent error ends the call at once.
PollDeploys ==
    /\ collect = "deploys"
    /\ \/ Store(DeployReplies) /\ collect' = "commits" /\ tries' = 0
       \/ ~GiveUp(tries) /\ tries' = tries + 1 /\ UNCHANGED << collect, stored >>
       \/ collect' = "commits" /\ tries' = 0 /\ UNCHANGED stored
    /\ UNCHANGED << now, events, due, start, client, repository, dates, shown >>
-----------------------------------------------------------------------------
\* Variant: a back-off that was set stays.
BackedForGood == pause # Never
\* _should_back_off
Backed == pause > 0

\* Variant: the count goes on.
ElapsedCounting == pause' = Never /\ UNCHANGED failures
\* ... which ends a back-off that is over, and with it the count.
Elapsed ==
    /\ failures' = IF pause # Never THEN 0 ELSE failures
    /\ pause' = Never

RecordSuccess == failures' = 0 /\ pause' = Never

RecordFailure ==
    /\ failures' = failures + 1
    /\ pause' = IF failures + 1 >= MaxFailures THEN BackOff ELSE pause

\* A 429 is no failure; its Retry-After, which may be 0, replaces whatever
\* back-off there is.
RateLimited ==
    /\ pause' \in 0..BackOff
    /\ UNCHANGED failures

\* Other errors of the request, and a Retry-After that is no number, escape from
\* _api_get before it records anything.
Escapes == UNCHANGED client

\* GitHubConnector.get_recent_changes: the path of the request contains the
\* cutoff, so no ETag of an earlier one ever fits.
AskCommits ==
    /\ collect = "commits"
    /\ IF Backed THEN collect' = "analysis" /\ UNCHANGED client
                 ELSE collect' = "commits reply" /\ Elapsed
    /\ UNCHANGED << now, events, due, start, tries, repository, changes, shown >>

CommitsReply ==
    /\ collect = "commits reply" /\ collect' = "analysis"
    /\ \/ RecordSuccess /\ Store(CommitReplies)
       \/ (RecordFailure \/ RateLimited \/ Escapes) /\ UNCHANGED stored
    /\ UNCHANGED << now, events, due, start, tries, repository, dates, shown >>

\* A change is in change_events as often as it was stored.
Copies(c) == {c} \X (1..stored[c])
Recent(c) == occurred[c] >= now - Horizon
Rows      == UNION {Copies(c) : c \in {d \in Changes : Recent(d)}}
RowDates  == [row \in Rows |-> occurred[row[1]]]

\* detect_correlations: a change shortly before the anomaly.
Correlated(c) == occurred[c] # Never /\ now - occurred[c] \in 1..Proximity

\* top_correlations, of what get_recent_change_events returns: for one anomaly,
\* _compute_severity_score is the higher the later the change, and of equal
\* scores those of the later changes stay first.
Top(read) == NewestOf({row \in read : Correlated(row[1])}, TopN, RowDates)

\* The analysis of an anomaly found now, if there is one.  What else a
\* collection does may take any time.
CollectionEnds ==
    /\ collect = "analysis" /\ collect' = "idle"
    /\ \E read \in NewestOf(Rows, RowLimit, RowDates) : \E top \in Top(read) :
          shown' = {row[1] : row \in top}
    /\ UNCHANGED << now, events, due, start, tries, client, repository, changes >>

\* GitHubConnector.discover, whose path is always the same.
AskRepository ==
    /\ repo = "idle"
    /\ IF Backed THEN fragment' = {} /\ UNCHANGED << repo, sent, client >>
                 ELSE repo' = "reply" /\ sent' = etag /\ Elapsed /\ UNCHANGED fragment
    /\ UNCHANGED << now, events, due, collect, start, tries, etag, changes, shown >>

\* 304 is a success without a body, and no service comes of it; a body that
\* cannot be parsed is an error of the fragment, as what escapes is.
RepositoryReply ==
    /\ repo = "reply" /\ repo' = "idle" /\ sent' = "none"
    /\ \/ /\ sent # "current" /\ etag' = "current"
          /\ fragment' \in {{"repository"}, {"errors"}} /\ RecordSuccess
       \/ /\ sent = "current" /\ UNCHANGED etag
          /\ fragment' = {} /\ RecordSuccess
       \/ /\ UNCHANGED etag
          /\ \/ fragment' = {} /\ (RecordFailure \/ RateLimited)
             \/ fragment' = {"errors"} /\ Escapes
    /\ UNCHANGED << now, events, due, collect, start, tries, changes, shown >>
-----------------------------------------------------------------------------
\* A deployment, or the push of a commit made and committed before.
ChangeHappens ==
    /\ events < MaxChanges /\ events' = events + 1
    /\ \E c \in Changes, lag \in 0..MaxLag, age \in 0..MaxLag :
          /\ dated[c] = Never /\ lag + age <= now
          /\ c \in Deploys => lag = 0 /\ age = 0
          /\ dated' = [dated EXCEPT ![c] = now - lag]
          /\ occurred' = [occurred EXCEPT ![c] = now - lag - age]
    /\ UNCHANGED << now, due, collect, start, tries, client, repository, stored, shown >>

Aged(tag) == IF tag = "current" THEN "old" ELSE tag
RepositoryChanges ==
    /\ etag' = Aged(etag) /\ sent' = Aged(sent)
    /\ UNCHANGED << now, events, due, collect, start, tries, client, repo, fragment, changes, shown >>

\* The collection fires once an interval, in vain while the last one runs.
\* After MaxNow there are no collections, and the back-off alone goes on.
Tick ==
    /\ now' = IF now < MaxNow THEN now + 1 ELSE now
    /\ due' = (now < MaxNow /\ collect = "idle")
    /\ pause' = IF pause > 0 THEN pause - 1 ELSE pause
    /\ UNCHANGED << events, collect, start, tries, failures, repository, changes, shown >>

Collection == CollectionStarts \/ PollDeploys \/ AskCommits \/ CommitsReply \/ CollectionEnds
Repository == AskRepository \/ RepositoryReply
PollingNext == Collection \/ Repository \/ ChangeHappens \/ RepositoryChanges \/ Tick

\* The jobs run, every request has a timeout, and time passes.
PollingSpec == PollingInit /\ [][PollingNext]_pollingVars
PollingFairSpec ==
    PollingSpec /\ WF_pollingVars(Collection) /\ WF_pollingVars(Repository) /\ WF_pollingVars(Tick)
-----------------------------------------------------------------------------
(***************************************************************************)
(* After MaxFailures failures in a row the client asks GitHub for nothing  *)
(* until its back-off is over, whichever of the two jobs met them, set,    *)
(* shortened or ended the back-off, and asked before: at most one request  *)
(* that was on its way then fails after them.                              *)
(***************************************************************************)
InFlight ==
    (IF collect = "commits reply" THEN 1 ELSE 0) + (IF repo = "reply" THEN 1 ELSE 0)

GivesUpAfterFailures == failures + InFlight <= MaxFailures + 1

(***************************************************************************)
(* The windows of consecutive polls overlap and no id tells a change that  *)
(* is stored again, but its copies (three at most for a window of two      *)
(* intervals) do not crowd the others out: of those shortly before an      *)
(* anomaly, the latest that are stored are shown, as many as have room for *)
(* that many copies each, in the rows read and among those correlated.     *)
(***************************************************************************)
Room(n, rivals) == (LookBack + 1) * Cardinality(rivals) < n

LatestChangesAreShown ==
    [][ collect = "analysis" /\ collect' = "idle" =>
          \A c \in Changes :
             LET rivals == {d \in Changes \ {c} : Recent(d) /\ occurred[d] >= occurred[c]}
             IN  (/\ stored[c] > 0 /\ Recent(c) /\ Correlated(c)
                  /\ Room(RowLimit, rivals) /\ Room(TopN, {d \in rivals : Correlated(d)}))
                 => c \in shown' ]_pollingVars

(***************************************************************************)
(* A back-off, however often it is renewed, does not last for ever.        *)
(***************************************************************************)
BackOffEnds == pause # Never ~> pause = Never

(***************************************************************************)
(* docs/contributing/CONNECTORS.md:79: "Discovery output must be stable    *)
(* across calls so drift detection works."  A repository that GitHub       *)
(* answers for stays in the fragment.                                      *)
(***************************************************************************)
DiscoveryStable ==
    [][ (repo = "reply" /\ repo' = "idle" /\ failures' = 0 /\ pause' = Never)
          => fragment' # {} ]_pollingVars
=============================================================================

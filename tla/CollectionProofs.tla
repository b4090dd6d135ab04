-------------------------- MODULE CollectionProofs --------------------------
(***************************************************************************)
(* Theorems about what a collection keeps: the changes polled from Railway *)
(* and GitHub (ChangePolling), then the baselines and the verdicts of the  *)
(* detector (AnomalyDetector).                                             *)
(***************************************************************************)
EXTENDS ChangePolling, AnomalyDetector, FiniteSetTheorems, SequenceTheorems, TLAPS

(***************************************************************************)
(* Types.  A step of the collection, of the discovery or of the world      *)
(* leaves every variable of ChangePolling in its set.                      *)
(***************************************************************************)
LEMMA StoreTypes ==
  ASSUME PollingTypeOK, NEW replies, Store(replies)
  PROVE  stored' \in [Changes -> Nat]
  <1>1. PICK reply \in replies : \E kept \in SUBSET reply :
            stored' = [c \in Changes |-> IF c \in kept THEN stored[c] + 1 ELSE stored[c]]
    BY Zenon DEF Store
  <1>2. PICK kept \in SUBSET reply :
            stored' = [c \in Changes |-> IF c \in kept THEN stored[c] + 1 ELSE stored[c]]
    BY Zenon, <1>1
  <1> QED BY <1>2 DEF PollingTypeOK

LEMMA ElapsedTypes ==
  ASSUME PollingTypeOK, UNCHANGED client \/ Elapsed
  PROVE  failures' \in Nat /\ pause' \in Never..BackOff
  BY PollingAssumption DEF client, Elapsed, PollingTypeOK, Never

LEMMA ReplyTypes ==
  ASSUME PollingTypeOK, RecordSuccess \/ RecordFailure \/ RateLimited \/ Escapes
  PROVE  failures' \in Nat /\ pause' \in Never..BackOff
  BY PollingAssumption
     DEF RecordSuccess, RecordFailure, RateLimited, Escapes, client, PollingTypeOK, Never

LEMMA PollingTypesInit == PollingInit => PollingTypeOK
  BY PollingAssumption DEF PollingInit, PollingTypeOK, Never, ETags, Stages

LEMMA PollingTypesStep == PollingTypeOK /\ [PollingNext]_pollingVars => PollingTypeOK'
  <1> SUFFICES ASSUME PollingTypeOK, [PollingNext]_pollingVars PROVE PollingTypeOK'
    OBVIOUS
  <1> USE PollingAssumption DEF client, repository, changes, dates
  <1>1. CASE CollectionStarts
    <2>1. /\ due' = FALSE /\ collect' = "deploys" /\ start' = now /\ shown' = {}
          /\ UNCHANGED << now, events, tries, client, repository, changes >>
      BY Zenon, <1>1 DEF CollectionStarts
    <2>2. start' \in Never..MaxNow
      BY <2>1 DEF PollingTypeOK, Never
    <2> QED BY <2>1, <2>2 DEF PollingTypeOK, Stages
  <1>2. CASE PollDeploys
    <2>1. stored' \in [Changes -> Nat]
      <3>1. CASE Store(DeployReplies)
        BY <3>1, StoreTypes
      <3>2. CASE UNCHANGED stored
        BY <3>2 DEF PollingTypeOK
      <3> QED BY Zenon, <1>2, <3>1, <3>2 DEF PollDeploys
    <2>2. /\ collect' \in {"commits", collect}
          /\ tries' = 0 \/ (tries' = tries + 1 /\ tries + 1 # Retries)
      BY Zenon, <1>2 DEF PollDeploys, GiveUp
    <2>3. UNCHANGED << now, events, due, start, client, repository, dates, shown >>
      BY Zenon, <1>2 DEF PollDeploys
    <2>4. tries' \in 0..Retries - 1
      <3>1. tries \in 0..Retries - 1 /\ Retries \in Nat \ {0}
        BY DEF PollingTypeOK
      <3>2. tries' = 0 \/ (tries' = tries + 1 /\ tries + 1 # Retries)
        BY <2>2
      <3> HIDE PollingAssumption
      <3> QED BY <3>1, <3>2
    <2>5. collect' \in Stages
      BY Zenon, <2>2 DEF PollingTypeOK, Stages
    <2> QED BY <2>1, <2>3, <2>4, <2>5 DEF PollingTypeOK
  <1>3. CASE AskCommits
    <2>1. /\ collect' \in {"analysis", "commits reply"}
          /\ UNCHANGED client \/ Elapsed
          /\ UNCHANGED << now, events, due, start, tries, repository, changes, shown >>
      BY Zenon, <1>3 DEF AskCommits
    <2>2. failures' \in Nat /\ pause' \in Never..BackOff
      BY <2>1, ElapsedTypes
    <2> QED BY <2>1, <2>2 DEF PollingTypeOK, Stages
  <1>4. CASE CommitsReply
    <2>1. stored' \in [Changes -> Nat]
      <3>1. CASE Store(CommitReplies)
        BY <3>1, StoreTypes
      <3>2. CASE UNCHANGED stored
        BY <3>2 DEF PollingTypeOK
      <3> QED BY Zenon, <1>4, <3>1, <3>2 DEF CommitsReply
    <2>2. /\ collect' = "analysis"
          /\ RecordSuccess \/ RecordFailure \/ RateLimited \/ Escapes
      BY Zenon, <1>4 DEF CommitsReply
    <2>3. failures' \in Nat /\ pause' \in Never..BackOff
      BY <2>2, ReplyTypes
    <2>4. UNCHANGED << now, events, due, start, tries, repository, dates, shown >>
      BY Zenon, <1>4 DEF CommitsReply
    <2> QED BY <2>1, <2>2, <2>3, <2>4 DEF PollingTypeOK, Stages
  <1>5. CASE CollectionEnds
    <2>0. PICK read \in NewestOf(Rows, RowLimit, RowDates) :
            \E top \in Top(read) : shown' = {row[1] : row \in top}
      BY Zenon, <1>5 DEF CollectionEnds
    <2>1. PICK top \in Top(read) : shown' = {row[1] : row \in top}
      BY Zenon, <2>0
    <2>2. top \subseteq UNION {Copies(c) : c \in Changes}
      <3>1. top \subseteq read /\ read \subseteq Rows
        BY Zenon, <2>0, <2>1 DEF Top, NewestOf
      <3> QED BY Zenon, <3>1 DEF Rows
    <2>3. shown' \subseteq Changes
      BY <2>1, <2>2 DEF Copies
    <2>4. /\ collect' = "idle"
          /\ UNCHANGED << now, events, due, start, tries, client, repository, changes >>
      BY Zenon, <1>5 DEF CollectionEnds
    <2> QED BY <2>3, <2>4 DEF PollingTypeOK, Stages
  <1>6. CASE AskRepository
    <2>1. /\ repo' \in {"reply", repo} /\ sent' \in {etag, sent} /\ fragment' \in {{}, fragment}
          /\ UNCHANGED client \/ Elapsed
          /\ UNCHANGED << now, events, due, collect, start, tries, etag, changes, shown >>
      BY Zenon, <1>6 DEF AskRepository
    <2>2. failures' \in Nat /\ pause' \in Never..BackOff
      BY <2>1, ElapsedTypes
    <2>3. repo' \in {"idle", "reply"} /\ sent' \in ETags
          /\ fragment' \subseteq {"repository", "errors"}
      BY <2>1 DEF PollingTypeOK
    <2> QED BY <2>1, <2>2, <2>3 DEF PollingTypeOK
  <1>7. CASE RepositoryReply
    <2>1. /\ repo' = "idle" /\ sent' = "none"
          /\ fragment' \in {{}, {"repository"}, {"errors"}}
          /\ etag' \in {"current", etag}
          /\ RecordSuccess \/ RecordFailure \/ RateLimited \/ Escapes
      BY Zenon, <1>7 DEF RepositoryReply
    <2>2. failures' \in Nat /\ pause' \in Never..BackOff
      BY <2>1, ReplyTypes
    <2>3. UNCHANGED << now, events, due, collect, start, tries, changes, shown >>
      BY Zenon, <1>7 DEF RepositoryReply
    <2> QED BY <2>1, <2>2, <2>3 DEF PollingTypeOK, ETags
  <1>8. CASE ChangeHappens
    <2>1. PICK c \in Changes, lag \in 0..MaxLag, age \in 0..MaxLag :
            /\ lag + age <= now
            /\ dated' = [dated EXCEPT ![c] = now - lag]
            /\ occurred' = [occurred EXCEPT ![c] = now - lag - age]
      BY Zenon, <1>8 DEF ChangeHappens
    <2>2. dated' \in [Changes -> Never..MaxNow] /\ occurred' \in [Changes -> Never..MaxNow]
      <3>1. now - lag \in Never..MaxNow /\ now - lag - age \in Never..MaxNow
        BY <2>1 DEF PollingTypeOK, Never
      <3> QED BY <2>1, <3>1 DEF PollingTypeOK
    <2>3. events' \in 0..MaxChanges
      BY <1>8 DEF ChangeHappens, PollingTypeOK
    <2>4. UNCHANGED << now, due, collect, start, tries, client, repository, stored, shown >>
      BY Zenon, <1>8 DEF ChangeHappens
    <2> QED BY <2>2, <2>3, <2>4 DEF PollingTypeOK
  <1>9. CASE RepositoryChanges
    BY <1>9 DEF RepositoryChanges, Aged, PollingTypeOK, ETags
  <1>10. CASE Tick
    BY <1>10 DEF Tick, PollingTypeOK, Never
  <1>11. CASE UNCHANGED pollingVars
    BY <1>11 DEF pollingVars, PollingTypeOK
  <1> QED BY Zenon, <1>1, <1>2, <1>3, <1>4, <1>5, <1>6, <1>7, <1>8, <1>9, <1>10, <1>11
          DEF PollingNext, Collection, Repository

(***************************************************************************)
(* Every variable of the polls keeps its type, whatever Railway and GitHub *)
(* answer and however long a collection takes.                             *)
(***************************************************************************)
THEOREM PollingTypes == PollingSpec => []PollingTypeOK
  BY PollingTypesInit, PollingTypesStep, PTL DEF PollingSpec
-----------------------------------------------------------------------------
(***************************************************************************)
(* The back-off of the client.  As long as no back-off is set, fewer than  *)
(* MaxFailures failures are counted, and only then, or when one is over    *)
(* and the count begins again, does a job ask; each of the two jobs has at *)
(* most one request on its way, which may add one failure to the count.    *)
(***************************************************************************)
BackOffInv == (failures >= MaxFailures => pause # Never) /\ GivesUpAfterFailures

\* The steps of the client, r requests being on their way: a job asks, it does
\* not because of the back-off, it is answered, and time passes.
LEMMA ClientSteps ==
  ASSUME PollingTypeOK, NEW r \in {0, 1, 2},
         failures >= MaxFailures => pause # Never, failures + r <= MaxFailures + 1
  PROVE  /\ ~Backed /\ Elapsed /\ r < 2 =>
               /\ failures' >= MaxFailures => pause' # Never
               /\ failures' + (r + 1) <= MaxFailures + 1
         /\ (RecordSuccess \/ RecordFailure \/ RateLimited \/ Escapes) /\ r > 0 =>
               /\ failures' >= MaxFailures => pause' # Never
               /\ failures' + (r - 1) <= MaxFailures + 1
  <1> USE PollingAssumption DEF PollingTypeOK, Never
  <1>1. ASSUME ~Backed, Elapsed, r < 2
        PROVE  /\ failures' >= MaxFailures => pause' # Never
               /\ failures' + (r + 1) <= MaxFailures + 1
    BY <1>1 DEF Elapsed
  <1>2. ASSUME RecordSuccess \/ RecordFailure \/ RateLimited \/ Escapes, r > 0
        PROVE  /\ failures' >= MaxFailures => pause' # Never
               /\ failures' + (r - 1) <= MaxFailures + 1
    <2>1. CASE RecordSuccess
      BY <1>2, <2>1 DEF RecordSuccess
    <2>2. CASE RecordFailure
      BY <1>2, <2>2 DEF RecordFailure
    <2>3. CASE RateLimited
      BY <1>2, <2>3 DEF RateLimited
    <2>4. CASE Escapes
      BY <1>2, <2>4 DEF Escapes, client
    <2> QED BY <1>2, <2>1, <2>2, <2>3, <2>4
  <1> QED BY <1>1, <1>2

LEMMA BackOffStep ==
  PollingTypeOK /\ BackOffInv /\ [PollingNext]_pollingVars => BackOffInv'
  <1> SUFFICES ASSUME PollingTypeOK, BackOffInv, [PollingNext]_pollingVars PROVE BackOffInv'
    OBVIOUS
  <1> DEFINE c == IF collect = "commits reply" THEN 1 ELSE 0
             d == IF repo = "reply" THEN 1 ELSE 0
  <1>0. BackOffInv' <=> /\ failures' >= MaxFailures => pause' # Never
                        /\ failures' + (c' + d') <= MaxFailures + 1
    BY DEF BackOffInv, GivesUpAfterFailures, InFlight, Never
  <1>1. /\ failures >= MaxFailures => pause # Never
        /\ failures + (c + d) <= MaxFailures + 1
    BY DEF BackOffInv, GivesUpAfterFailures, InFlight
  <1>2. c \in {0, 1} /\ d \in {0, 1} /\ c + d \in {0, 1, 2} /\ failures \in Nat
    <2>1. c \in {0, 1} /\ d \in {0, 1}
      OBVIOUS
    <2>2. failures \in Nat
      BY DEF PollingTypeOK
    <2> HIDE DEF c, d
    <2> QED BY <2>1, <2>2
  <1>3. CASE AskCommits
    <2>1. collect = "commits" /\ repo' = repo
      BY Zenon, <1>3 DEF AskCommits, repository
    <2>2. CASE Backed
      <3>1. collect' = "analysis" /\ failures' = failures /\ pause' = pause
        BY Zenon, <1>3, <2>2 DEF AskCommits, client
      <3> QED BY <1>0, <1>1, <2>1, <3>1
    <2>3. CASE ~Backed
      <3>1. collect' = "commits reply" /\ Elapsed
        BY Zenon, <1>3, <2>3 DEF AskCommits
      <3>2. c = 0 /\ c' = 1 /\ d' = d
        BY <2>1, <3>1
      <3> HIDE DEF c, d
      <3>3. c + d < 2 /\ (c + d) + 1 = c' + d'
        BY <1>2, <3>2
      <3> QED BY <1>0, <1>1, <1>2, <2>3, <3>1, <3>3, ClientSteps
    <2> QED BY <2>2, <2>3
  <1>4. CASE CommitsReply
    <2>1. /\ collect = "commits reply" /\ collect' = "analysis" /\ repo' = repo
          /\ RecordSuccess \/ RecordFailure \/ RateLimited \/ Escapes
      BY Zenon, <1>4 DEF CommitsReply, repository
    <2>2. c = 1 /\ c' = 0 /\ d' = d
      BY <2>1
    <2> HIDE DEF c, d
    <2>3. c + d > 0 /\ (c + d) - 1 = c' + d'
      BY <1>2, <2>2
    <2> QED BY <1>0, <1>1, <1>2, <2>1, <2>3, ClientSteps
  <1>5. CASE AskRepository
    <2>1. repo = "idle" /\ collect' = collect
      BY Zenon, <1>5 DEF AskRepository
    <2>2. CASE Backed
      <3>1. repo' = repo /\ failures' = failures /\ pause' = pause
        BY Zenon, <1>5, <2>2 DEF AskRepository, client
      <3> QED BY <1>0, <1>1, <2>1, <3>1
    <2>3. CASE ~Backed
      <3>1. repo' = "reply" /\ Elapsed
        BY Zenon, <1>5, <2>3 DEF AskRepository
      <3>2. d = 0 /\ d' = 1 /\ c' = c
        BY <2>1, <3>1
      <3> HIDE DEF c, d
      <3>3. c + d < 2 /\ (c + d) + 1 = c' + d'
        BY <1>2, <3>2
      <3> QED BY <1>0, <1>1, <1>2, <2>3, <3>1, <3>3, ClientSteps
    <2> QED BY <2>2, <2>3
  <1>6. CASE RepositoryReply
    <2>1. /\ repo = "reply" /\ repo' = "idle" /\ collect' = collect
          /\ RecordSuccess \/ RecordFailure \/ RateLimited \/ Escapes
      BY Zenon, <1>6 DEF RepositoryReply
    <2>2. d = 1 /\ d' = 0 /\ c' = c
      BY <2>1
    <2> HIDE DEF c, d
    <2>3. c + d > 0 /\ (c + d) - 1 = c' + d'
      BY <1>2, <2>2
    <2> QED BY <1>0, <1>1, <1>2, <2>1, <2>3, ClientSteps
  <1>7. CASE CollectionStarts \/ PollDeploys \/ CollectionEnds
    <2>1. /\ collect \in {"idle", "deploys", "analysis"}
          /\ collect' \in {"idle", "deploys", "commits"}
          /\ UNCHANGED << failures, pause, repo >>
      BY <1>7 DEF CollectionStarts, PollDeploys, CollectionEnds, client, repository
    <2> QED BY <1>0, <1>1, <2>1
  <1>8. CASE ChangeHappens \/ RepositoryChanges \/ UNCHANGED pollingVars
    <2>1. UNCHANGED << failures, pause, repo, collect >>
      BY Zenon, <1>8 DEF ChangeHappens, RepositoryChanges, pollingVars, client, repository
    <2> QED BY <1>0, <1>1, <2>1
  <1>9. CASE Tick
    <2>1. /\ UNCHANGED << failures, repo, collect >>
          /\ pause' = IF pause > 0 THEN pause - 1 ELSE pause
      BY Zenon, <1>9 DEF Tick, repository
    <2>2. pause # Never => pause' # Never
      BY <2>1 DEF PollingTypeOK, Never
    <2> QED BY <1>0, <1>1, <2>1, <2>2
  <1> QED BY Zenon, <1>3, <1>4, <1>5, <1>6, <1>7, <1>8, <1>9
          DEF PollingNext, Collection, Repository

(***************************************************************************)
(* However the discovery and the collection interleave on the one client,  *)
(* and whatever Retry-After GitHub gives: after MaxFailures failures in a  *)
(* row nothing is asked until the back-off is over, and what was asked     *)
(* before adds at most one failure to them.                                *)
(***************************************************************************)
THEOREM FailuresAreFew == PollingSpec => []GivesUpAfterFailures
  <1>1. PollingInit => BackOffInv
    BY PollingAssumption DEF PollingInit, BackOffInv, GivesUpAfterFailures, InFlight
  <1>2. BackOffInv => GivesUpAfterFailures
    BY DEF BackOffInv
  <1> QED BY <1>1, <1>2, BackOffStep, PollingTypes, PTL DEF PollingSpec
-----------------------------------------------------------------------------
(***************************************************************************)
(* The copies of a change.  A change dated h is stored by collections that *)
(* started at h..h+LookBack, once by each; by one that started before it   *)
(* and polled after it only when none starts at h.  n is how often it was  *)
(* stored, s the start of the last collection, t the time, d whether the   *)
(* next collection is due, and p is 1 when the last one has polled the     *)
(* change's source.                                                        *)
(***************************************************************************)
CopiesBound(h, n, s, t, d, p) ==
    /\ h <= t
    /\ h = Never => n = 0
    /\ h # Never =>
         /\ n <= LookBack + 1
         /\ h <= s => n <= s - h + p
         /\ s < h => n <= p /\ (n > 0 /\ d => h < t)

Polled(c) ==
    IF c \in Deploys THEN collect # "deploys" ELSE collect \in {"idle", "analysis"}

Polls(c) == IF Polled(c) THEN 1 ELSE 0

CopiesInv ==
    /\ start <= now /\ (due => start < now) /\ (collect # "idle" => ~due)
    /\ \A c \in Changes : CopiesBound(dated[c], stored[c], start, now, due, Polls(c))

\* A poll that stores nothing, one that stores the change, the start of the next
\* collection, and the time.
LEMMA BoundSteps ==
  ASSUME NEW h \in Int, Never <= h, NEW n \in Nat, NEW s \in Int, NEW t \in Int,
         NEW d \in BOOLEAN, NEW p \in {0, 1}, NEW q \in {0, 1}, p <= q,
         CopiesBound(h, n, s, t, d, p)
  PROVE  /\ CopiesBound(h, n, s, t, d, q)
         /\ p = 0 /\ q = 1 /\ ~d /\ h # Never /\ h >= s - LookBack
              => CopiesBound(h, n + 1, s, t, d, q)
         /\ p = 1 /\ d /\ s < t => CopiesBound(h, n, t, t, FALSE, 0)
         /\ CopiesBound(h, n, s, t + 1, TRUE, p) /\ CopiesBound(h, n, s, t, FALSE, p)
         /\ CopiesBound(h, n, s, t + 1, FALSE, p)
  <1> USE PollingAssumption DEF CopiesBound, Never
  <1>1. CopiesBound(h, n, s, t, d, q)
    OBVIOUS
  <1>2. p = 0 /\ q = 1 /\ ~d /\ h # Never /\ h >= s - LookBack
              => CopiesBound(h, n + 1, s, t, d, q)
    OBVIOUS
  <1>3. p = 1 /\ d /\ s < t => CopiesBound(h, n, t, t, FALSE, 0)
    OBVIOUS
  <1>4. CopiesBound(h, n, s, t + 1, TRUE, p) /\ CopiesBound(h, n, s, t, FALSE, p)
    OBVIOUS
  <1>5. CopiesBound(h, n, s, t + 1, FALSE, p)
    OBVIOUS
  <1> QED BY Zenon, <1>1, <1>2, <1>3, <1>4, <1>5

LEMMA CopiesInit == PollingInit => CopiesInv
  <1> SUFFICES ASSUME PollingInit PROVE CopiesInv
    OBVIOUS
  <1>1. /\ now = 0 /\ start = Never /\ collect = "idle"
        /\ \A c \in Changes : dated[c] = Never /\ stored[c] = 0
    BY DEF PollingInit
  <1>2. \A c \in Changes : CopiesBound(Never, 0, Never, 0, due, Polls(c))
    BY DEF CopiesBound, Never, Polls
  <1>3. start <= now /\ (due => start < now)
    BY <1>1 DEF Never
  <1> QED BY Zenon, <1>1, <1>2, <1>3 DEF CopiesInv

\* The same of a change in the state reached.
LEMMA CopiesMove ==
  ASSUME PollingTypeOK, CopiesInv, NEW c \in Changes, NEW q \in {0, 1}, Polls(c) <= q
  PROVE  /\ CopiesBound(dated[c], stored[c], start, now, due, q)
         /\ Polls(c) = 1 /\ due => CopiesBound(dated[c], stored[c], now, now, FALSE, 0)
         /\ CopiesBound(dated[c], stored[c], start, now + 1, TRUE, Polls(c))
         /\ CopiesBound(dated[c], stored[c], start, now + 1, FALSE, Polls(c))
         /\ CopiesBound(dated[c], stored[c], start, now, FALSE, Polls(c))
  <1>1. /\ dated[c] \in Int /\ Never <= dated[c] /\ stored[c] \in Nat
        /\ start \in Int /\ now \in Int /\ due \in BOOLEAN /\ Polls(c) \in {0, 1}
    BY PollingAssumption DEF PollingTypeOK, Never, Polls
  <1>2. CopiesBound(dated[c], stored[c], start, now, due, Polls(c))
    BY Zenon DEF CopiesInv
  <1>3. due => start < now
    BY Zenon DEF CopiesInv
  <1>4. /\ CopiesBound(dated[c], stored[c], start, now, due, q)
        /\ Polls(c) = 1 /\ due /\ start < now
             => CopiesBound(dated[c], stored[c], now, now, FALSE, 0)
    BY <1>1, <1>2, PollingAssumption DEF CopiesBound, Never
  <1>5. /\ CopiesBound(dated[c], stored[c], start, now + 1, TRUE, Polls(c))
        /\ CopiesBound(dated[c], stored[c], start, now, FALSE, Polls(c))
        /\ CopiesBound(dated[c], stored[c], start, now + 1, FALSE, Polls(c))
    BY <1>1, <1>2, PollingAssumption DEF CopiesBound, Never
  <1> QED BY Zenon, <1>3, <1>4, <1>5

\* A source answers with changes of the window.
LEMMA RepliesInWindow ==
  /\ \A reply \in DeployReplies : \A c \in reply : c \in Deploys /\ InWindow(c)
  /\ \A reply \in CommitReplies : \A c \in reply : c \in Commits /\ InWindow(c)
  <1>1. ASSUME NEW reply \in DeployReplies, NEW c \in reply PROVE c \in Deploys /\ InWindow(c)
    <2>1. PICK top \in NewestOf({d \in Deploys : dated[d] # Never}, DeployLimit, dated) :
            reply = {d \in top : InWindow(d)}
      BY Zenon DEF DeployReplies
    <2> QED BY Zenon, <2>1 DEF NewestOf
  <1>2. ASSUME NEW reply \in CommitReplies, NEW c \in reply PROVE c \in Commits /\ InWindow(c)
    BY Zenon DEF CommitReplies, NewestOf
  <1> QED BY Zenon, <1>1, <1>2

LEMMA StoreCopies ==
  ASSUME PollingTypeOK, CopiesInv, NEW replies, NEW cs \in SUBSET Changes, Store(replies),
         \A reply \in replies : \A d \in reply : d \in cs /\ InWindow(d),
         ~due, NEW p \in {0, 1}, NEW q \in {0, 1},
         p <= q, NEW c \in Changes, Polls(c) = p, c \in cs => p = 0 /\ q = 1
  PROVE  CopiesBound(dated[c], stored'[c], start, now, due, q)
  <1>0. PICK reply \in replies : \E kept \in SUBSET reply :
            stored' = [d \in Changes |-> IF d \in kept THEN stored[d] + 1 ELSE stored[d]]
    BY Zenon DEF Store
  <1>1. PICK kept \in SUBSET reply :
            stored' = [d \in Changes |-> IF d \in kept THEN stored[d] + 1 ELSE stored[d]]
    BY Zenon, <1>0
  <1>2. /\ dated[c] \in Int /\ Never <= dated[c] /\ stored[c] \in Nat
        /\ start \in Int /\ now \in Int /\ due \in BOOLEAN
    BY PollingAssumption DEF PollingTypeOK, Never
  <1>3. CopiesBound(dated[c], stored[c], start, now, due, p)
    BY Zenon DEF CopiesInv
  <1>4. CASE c \in kept
    <2>1. stored'[c] = stored[c] + 1 /\ c \in cs /\ InWindow(c)
      BY Zenon, <1>0, <1>1, <1>4
    <2>2. CopiesBound(dated[c], stored[c] + 1, start, now, due, q)
      BY <1>2, <1>3, <2>1, BoundSteps DEF InWindow
    <2> QED BY <2>1, <2>2
  <1>5. CASE c \notin kept
    <2>1. stored'[c] = stored[c]
      BY Zenon, <1>1, <1>5
    <2>2. CopiesBound(dated[c], stored[c], start, now, due, q)
      BY <1>2, <1>3, PollingAssumption DEF CopiesBound, Never
    <2> QED BY Zenon, <2>1, <2>2
  <1> QED BY <1>4, <1>5

LEMMA CopiesStep == PollingTypeOK /\ CopiesInv /\ [PollingNext]_pollingVars => CopiesInv'
  <1> SUFFICES ASSUME PollingTypeOK, CopiesInv, [PollingNext]_pollingVars PROVE CopiesInv'
    OBVIOUS
  <1>0. CopiesInv' <=>
          /\ start' <= now' /\ (due' => start' < now') /\ (collect' # "idle" => ~due')
          /\ \A c \in Changes :
                CopiesBound(dated'[c], stored'[c], start', now', due', Polls(c)')
    BY Zenon DEF CopiesInv, CopiesBound, Changes
  <1>types. /\ start \in Int /\ now \in Int /\ due \in BOOLEAN
            /\ \A c \in Changes : /\ dated[c] \in Int /\ Never <= dated[c]
                                   /\ stored[c] \in Nat /\ Polls(c) \in {0, 1}
    BY PollingAssumption DEF PollingTypeOK, Never, Polls
  <1>now. /\ start <= now /\ (due => start < now) /\ (collect # "idle" => ~due)
          /\ \A c \in Changes :
               CopiesBound(dated[c], stored[c], start, now, due, Polls(c))
    BY Zenon DEF CopiesInv
  <1>1. CASE CollectionStarts
    <2>1. /\ collect = "idle" /\ due /\ due' = FALSE /\ collect' = "deploys" /\ start' = now
          /\ now' = now /\ dated' = dated /\ stored' = stored
      BY Zenon, <1>1 DEF CollectionStarts, changes, dates
    <2>2. ASSUME NEW c \in Changes
          PROVE  CopiesBound(dated'[c], stored'[c], start', now', due', Polls(c)')
      <3>0. 1 \in {0, 1} /\ 1 <= 1
        OBVIOUS
      <3>1. Polls(c) = 1 /\ Polls(c)' = 0
        BY <2>1 DEF Polls, Polled
      <3>2. CopiesBound(dated[c], stored[c], now, now, FALSE, 0)
        BY Zenon, <2>1, <3>0, <3>1, CopiesMove
      <3> QED BY Zenon, <2>1, <3>1, <3>2
    <2> QED BY <1>0, <1>types, <2>1, <2>2
  <1>2. CASE PollDeploys
    <2>1. /\ collect = "deploys" /\ collect' \in {"deploys", "commits"}
          /\ UNCHANGED << now, due, start, dated >>
          /\ \/ Store(DeployReplies) /\ collect' = "commits"
             \/ stored' = stored
      BY Zenon, <1>2 DEF PollDeploys, dates
    <2>2. ASSUME NEW c \in Changes
          PROVE  CopiesBound(dated'[c], stored'[c], start', now', due', Polls(c)')
      <3>1. Polls(c)' \in {0, 1} /\ Polls(c) <= Polls(c)'
        BY <2>1 DEF Polls, Polled
      <3>2. CASE Store(DeployReplies) /\ collect' = "commits"
        <4>0. Deploys \in SUBSET Changes /\ ~due
          BY <1>now, <2>1 DEF Changes
        <4>1. c \in Deploys => Polls(c) = 0 /\ Polls(c)' = 1
          BY <2>1, <3>2 DEF Polls, Polled
        <4>2. CopiesBound(dated[c], stored'[c], start, now, due, Polls(c)')
          BY ZenonT(60), <1>types, <4>0, <3>1, <3>2, <4>1, StoreCopies, RepliesInWindow
        <4> QED BY Zenon, <2>1, <4>2
      <3>3. CASE stored' = stored
        <4>1. CopiesBound(dated[c], stored[c], start, now, due, Polls(c)')
          BY Zenon, <3>1, CopiesMove
        <4> QED BY Zenon, <2>1, <3>3, <4>1
      <3> QED BY <2>1, <3>2, <3>3
    <2> QED BY Zenon, <1>0, <1>now, <2>1, <2>2
  <1>3. CASE CommitsReply
    <2>1. /\ collect = "commits reply" /\ collect' = "analysis"
          /\ UNCHANGED << now, due, start, dated >>
          /\ Store(CommitReplies) \/ stored' = stored
      BY Zenon, <1>3 DEF CommitsReply, dates
    <2>2. ASSUME NEW c \in Changes
          PROVE  CopiesBound(dated'[c], stored'[c], start', now', due', Polls(c)')
      <3>0. 0 \in {0, 1} /\ 1 \in {0, 1} /\ 0 <= 0 /\ 0 <= 1 /\ 1 <= 1
        OBVIOUS
      <3>1. Polls(c)' \in {0, 1} /\ Polls(c) <= Polls(c)'
        <4>1. CASE c \in Deploys
          BY Zenon, <2>1, <3>0, <4>1 DEF Polls, Polled
        <4>2. CASE c \notin Deploys
          BY Zenon, <2>1, <3>0, <4>2 DEF Polls, Polled
        <4> QED BY <4>1, <4>2
      <3>2. CASE Store(CommitReplies)
        <4>0. Commits \in SUBSET Changes /\ ~due
          BY <1>now, <2>1 DEF Changes
        <4>1. c \in Commits => Polls(c) = 0 /\ Polls(c)' = 1
          BY <2>1, PollingAssumption DEF Polls, Polled
        <4>2. CopiesBound(dated[c], stored'[c], start, now, due, Polls(c)')
          BY ZenonT(60), <1>types, <4>0, <3>1, <3>2, <4>1, StoreCopies, RepliesInWindow
        <4> QED BY Zenon, <2>1, <4>2
      <3>3. CASE stored' = stored
        <4>1. CopiesBound(dated[c], stored[c], start, now, due, Polls(c)')
          BY Zenon, <3>1, CopiesMove
        <4> QED BY Zenon, <2>1, <3>3, <4>1
      <3> QED BY <2>1, <3>2, <3>3
    <2> QED BY Zenon, <1>0, <1>now, <2>1, <2>2
  <1>4. CASE AskCommits \/ CollectionEnds
    <2>1. /\ collect # "idle" /\ collect # "deploys" /\ collect' # "deploys"
          /\ collect = "commits" \/ collect' = "idle"
          /\ collect = "commits" => collect' \in {"analysis", "commits reply"}
          /\ UNCHANGED << now, due, start, dated, stored >>
      BY Zenon, <1>4 DEF AskCommits, CollectionEnds, changes, dates
    <2>2. ASSUME NEW c \in Changes
          PROVE  CopiesBound(dated'[c], stored'[c], start', now', due', Polls(c)')
      <3>0. 0 \in {0, 1} /\ 1 \in {0, 1} /\ 0 <= 0 /\ 0 <= 1 /\ 1 <= 1
        OBVIOUS
      <3>1. Polls(c)' \in {0, 1} /\ Polls(c) <= Polls(c)'
        <4>1. CASE c \in Deploys
          BY Zenon, <2>1, <3>0, <4>1 DEF Polls, Polled
        <4>2. CASE c \notin Deploys
          BY Zenon, <2>1, <3>0, <4>2 DEF Polls, Polled
        <4> QED BY <4>1, <4>2
      <3>2. CopiesBound(dated[c], stored[c], start, now, due, Polls(c)')
        BY Zenon, <3>1, CopiesMove
      <3> QED BY Zenon, <2>1, <3>2
    <2> QED BY Zenon, <1>0, <1>now, <2>1, <2>2
  <1>5. CASE ChangeHappens
    <2>0. PICK e \in Changes, lag \in 0..MaxLag, age \in 0..MaxLag :
            /\ dated[e] = Never /\ lag + age <= now
            /\ dated' = [dated EXCEPT ![e] = now - lag]
      BY Zenon, <1>5 DEF ChangeHappens
    <2>1. now - lag \in 0..now
      BY <1>types, <2>0, PollingAssumption
    <2>2. UNCHANGED << now, due, collect, start, stored >>
      BY Zenon, <1>5 DEF ChangeHappens
    <2>3. ASSUME NEW c \in Changes
          PROVE  CopiesBound(dated'[c], stored'[c], start', now', due', Polls(c)')
      <3>1. Polls(c)' = Polls(c)
        BY Zenon, <2>2 DEF Polls, Polled
      <3>2. CASE c = e
        <4>1. stored[c] = 0
          BY <1>now, <2>0, <3>2 DEF CopiesBound
        <4>2. dated'[c] = now - lag
          BY <2>0, <3>2 DEF PollingTypeOK
        <4>3. CopiesBound(now - lag, 0, start, now, due, Polls(c))
          BY <1>types, <1>now, <2>1, PollingAssumption DEF CopiesBound, Never
        <4> QED BY Zenon, <2>2, <3>1, <4>1, <4>2, <4>3
      <3>3. CASE c # e
        <4>1. dated'[c] = dated[c]
          BY <2>0, <3>3 DEF PollingTypeOK
        <4> QED BY Zenon, <1>now, <2>2, <3>1, <4>1
      <3> QED BY <3>2, <3>3
    <2> QED BY Zenon, <1>0, <1>now, <2>2, <2>3
  <1>6. CASE Tick
    <2>1. /\ UNCHANGED << collect, start, dated, stored >>
          /\ now' = (IF now < MaxNow THEN now + 1 ELSE now)
          /\ due' = (now < MaxNow /\ collect = "idle")
      BY Zenon, <1>6 DEF Tick, changes, dates
    <2>2. ASSUME NEW c \in Changes
          PROVE  CopiesBound(dated'[c], stored'[c], start', now', due', Polls(c)')
      <3>1. Polls(c)' = Polls(c)
        BY Zenon, <2>1 DEF Polls, Polled
      <3>2. \/ now' = now + 1 /\ due' \in BOOLEAN
            \/ now' = now /\ due' = FALSE
        BY Zenon, <2>1
      <3>0. Polls(c) <= Polls(c)
        BY <1>types
      <3>3. /\ CopiesBound(dated[c], stored[c], start, now + 1, TRUE, Polls(c))
            /\ CopiesBound(dated[c], stored[c], start, now + 1, FALSE, Polls(c))
            /\ CopiesBound(dated[c], stored[c], start, now, FALSE, Polls(c))
        BY Zenon, <1>types, <3>0, CopiesMove
      <3>4. CopiesBound(dated[c], stored[c], start, now', due', Polls(c))
        BY Zenon, <3>2, <3>3
      <3> QED BY Zenon, <2>1, <3>1, <3>4
    <2>3. start' <= now' /\ (due' => start' < now') /\ (collect' # "idle" => ~due')
      BY <1>types, <1>now, <2>1, PollingAssumption
    <2> QED BY Zenon, <1>0, <2>2, <2>3
  <1>7. CASE \/ AskRepository \/ RepositoryReply \/ RepositoryChanges \/ UNCHANGED pollingVars
    <2>1. UNCHANGED << now, due, collect, start, dated, stored >>
      BY Zenon, <1>7
         DEF AskRepository, RepositoryReply, RepositoryChanges, changes, dates, pollingVars
    <2>2. \A c \in Changes : Polls(c)' = Polls(c)
      BY Zenon, <2>1 DEF Polls, Polled
    <2> QED BY Zenon, <1>0, <1>now, <2>1, <2>2
  <1> QED BY Zenon, <1>1, <1>2, <1>3, <1>4, <1>5, <1>6, <1>7 DEF PollingNext, Collection, Repository
-----------------------------------------------------------------------------
(***************************************************************************)
(* The overlapping windows store a change again and again, with no         *)
(* identity to compare, but once by each collection that reaches back to   *)
(* it, and collections start apart: it never has more than LookBack + 1    *)
(* rows, nor more than collections can have polled it so far.              *)
(***************************************************************************)
THEOREM CopiesAreFew == PollingSpec => [](PollingTypeOK /\ CopiesInv)
  <1> QED BY CopiesInit, CopiesStep, PollingTypes, PTL DEF PollingSpec

\* Changes stored more than once have few rows.
LEMMA CopiesOf ==
  ASSUME PollingTypeOK, CopiesInv, NEW d \in Changes
  PROVE  Copies(d) \subseteq {d} \X (1..(LookBack + 1))
  <1>1. stored[d] \in Nat
    BY DEF PollingTypeOK
  <1>2. stored[d] <= LookBack + 1
    <2>1. CopiesBound(dated[d], stored[d], start, now, due, Polls(d))
      BY Zenon DEF CopiesInv
    <2> QED BY <2>1, PollingAssumption DEF CopiesBound
  <1>3. 1..stored[d] \subseteq 1..(LookBack + 1)
    BY <1>1, <1>2, PollingAssumption
  <1> QED BY Zenon, <1>3 DEF Copies

\* Of n rows taken the latest first, one is of c when there is room for all that
\* are as late: were none, they would all be of rivals.
LEMMA NewestShow ==
  ASSUME PollingTypeOK, CopiesInv, NEW c \in Changes, NEW S \in SUBSET Rows,
         NEW row \in S, row[1] = c, NEW n \in Nat, NEW R \in SUBSET Changes,
         \A other \in S : other[1] # c /\ occurred[other[1]] >= occurred[c] => other[1] \in R,
         Room(n, R), NEW top \in NewestOf(S, n, RowDates)
  PROVE  \E other \in top : other[1] = c
  <1> DEFINE copies == 1..(LookBack + 1)
  <1>1. /\ top \subseteq S
        /\ Cardinality(top) = IF Cardinality(S) < n THEN Cardinality(S) ELSE n
        /\ \A x \in top, y \in S \ top : RowDates[y] <= RowDates[x]
    BY Zenon DEF NewestOf
  <1>2. \A x \in S : x \in Changes \X copies /\ RowDates[x] = occurred[x[1]]
    <2> SUFFICES ASSUME NEW x \in S
                 PROVE  x \in Changes \X copies /\ RowDates[x] = occurred[x[1]]
      OBVIOUS
    <2>1. PICK d \in Changes : x \in Copies(d)
      BY Zenon DEF Rows
    <2>2. x \in {d} \X copies
      BY Zenon, <2>1, CopiesOf
    <2>3. x \in Changes \X copies
      BY <2>2
    <2>4. RowDates[x] = occurred[x[1]]
      BY Zenon DEF RowDates
    <2> QED BY Zenon, <2>3, <2>4
  <1>3. IsFiniteSet(copies) /\ Cardinality(copies) = LookBack + 1
    BY FS_Interval, PollingAssumption
  <1>4. IsFiniteSet(Changes) /\ IsFiniteSet(R)
    <2>1. IsFiniteSet(Changes)
      BY FS_Union, PollingAssumption DEF Changes
    <2> QED BY <2>1, FS_Subset
  <1> HIDE DEF copies
  <1>5. IsFiniteSet(S)
    <2>1. IsFiniteSet(Changes \X copies)
      BY <1>3, <1>4, FS_Product
    <2>2. S \in SUBSET (Changes \X copies)
      BY Zenon, <1>2
    <2> QED BY <2>1, <2>2, FS_Subset
  <1> SUFFICES ASSUME \A other \in top : other[1] # c PROVE FALSE
    OBVIOUS
  <1>6. row \in S \ top
    OBVIOUS
  <1>7. Cardinality(top) = n
    <2>1. Cardinality(top) \in Nat /\ Cardinality(S) \in Nat
      BY <1>1, <1>5, FS_Subset, FS_CardinalityType
    <2>2. Cardinality(S) # Cardinality(top)
      BY <1>1, <1>5, <1>6, FS_Subset
    <2> QED BY <1>1, <2>1, <2>2
  <1>8. top \in SUBSET (R \X copies)
    <2> SUFFICES ASSUME NEW other \in top PROVE other \in R \X copies
      OBVIOUS
    <2>1. RowDates[row] <= RowDates[other] /\ other \in S
      BY Zenon, <1>1, <1>6
    <2>2. other \in Changes \X copies /\ occurred[c] <= occurred[other[1]] /\ other[1] # c
      BY Zenon, <1>2, <2>1
    <2>3. occurred[c] \in Int /\ occurred[other[1]] \in Int
      BY <2>2 DEF PollingTypeOK, Never
    <2>4. occurred[other[1]] >= occurred[c]
      BY <2>2, <2>3
    <2>5. other[1] \in R
      BY Zenon, <2>1, <2>2, <2>4
    <2> QED BY <2>2, <2>5
  <1>9. IsFiniteSet(R \X copies) /\ Cardinality(R \X copies) = Cardinality(R) * Cardinality(copies)
    BY <1>3, <1>4, FS_Product
  <1>10. Cardinality(top) <= Cardinality(R \X copies)
    BY <1>8, <1>9, FS_Subset
  <1>11. Cardinality(R) \in Nat /\ LookBack \in Nat
    BY <1>4, FS_CardinalityType, PollingAssumption
  <1>12. ASSUME NEW r \in Nat, NEW k \in Nat PROVE r * (k + 1) = (k + 1) * r
    OBVIOUS
  <1>13. Cardinality(R) * (LookBack + 1) = (LookBack + 1) * Cardinality(R)
    BY Zenon, <1>11, <1>12
  <1> QED BY <1>3, <1>7, <1>9, <1>10, <1>11, <1>13 DEF Room

Rivals(c) == {d \in Changes \ {c} : Recent(d) /\ occurred[d] >= occurred[c]}

\* A row of the change is read, and then one is among the correlated.
LEMMA TopShowsLatest ==
  ASSUME PollingTypeOK, CopiesInv, NEW c \in Changes, stored[c] > 0, Recent(c), Correlated(c),
         Room(RowLimit, Rivals(c)), Room(TopN, {d \in Rivals(c) : Correlated(d)}),
         NEW read \in NewestOf(Rows, RowLimit, RowDates), NEW top \in Top(read)
  PROVE  \E row \in top : row[1] = c
  <1>1. \A row \in Rows : row[1] \in Changes /\ Recent(row[1])
    BY DEF Rows, Copies
  <1>2. << c, 1 >> \in Rows /\ << c, 1 >>[1] = c
    <2>1. stored[c] \in Nat
      BY DEF PollingTypeOK
    <2>2. << c, 1 >> \in Copies(c)
      BY <2>1 DEF Copies
    <2> QED BY <2>2 DEF Rows
  <1>3. RowLimit \in Nat /\ TopN \in Nat
    BY PollingAssumption
  <1>4. Rows \in SUBSET Rows /\ Rivals(c) \in SUBSET Changes
        /\ {d \in Rivals(c) : Correlated(d)} \in SUBSET Changes
    BY DEF Rivals
  <1>5. \A other \in Rows :
           other[1] # c /\ occurred[other[1]] >= occurred[c] => other[1] \in Rivals(c)
    BY Zenon, <1>1 DEF Rivals
  <1>6. PICK row \in read : row[1] = c
    BY Zenon, <1>2, <1>3, <1>4, <1>5, NewestShow
  <1> DEFINE S == {other \in read : Correlated(other[1])}
  <1>7. read \subseteq Rows
    BY Zenon DEF NewestOf
  <1>8. S \in SUBSET Rows /\ row \in S
    BY Zenon, <1>6, <1>7
  <1>9. \A other \in S : other[1] # c /\ occurred[other[1]] >= occurred[c]
           => other[1] \in {d \in Rivals(c) : Correlated(d)}
    BY Zenon, <1>5, <1>7
  <1>10. top \in NewestOf(S, TopN, RowDates)
    BY Zenon DEF Top
  <1> HIDE DEF S
  <1> QED BY Zenon, <1>3, <1>4, <1>6, <1>8, <1>9, <1>10, NewestShow

(***************************************************************************)
(* However often the overlapping windows store a change again, its copies  *)
(* do not keep another out: a stored change shortly before an anomaly is   *)
(* shown when LookBack + 1 rows for each change at least as late fit       *)
(* beside it, in what is read and in what is correlated.                   *)
(***************************************************************************)
THEOREM LatestAreShown == PollingSpec => LatestChangesAreShown
  <1>1. PollingTypeOK /\ CopiesInv /\ [PollingNext]_pollingVars =>
          [collect = "analysis" /\ collect' = "idle" =>
            \A c \in Changes :
               LET rivals == {d \in Changes \ {c} : Recent(d) /\ occurred[d] >= occurred[c]}
               IN  (/\ stored[c] > 0 /\ Recent(c) /\ Correlated(c)
                    /\ Room(RowLimit, rivals) /\ Room(TopN, {d \in rivals : Correlated(d)}))
                   => c \in shown']_pollingVars
    <2> SUFFICES ASSUME PollingTypeOK, CopiesInv, PollingNext, NEW c \in Changes,
                        collect = "analysis", collect' = "idle",
                        stored[c] > 0, Recent(c), Correlated(c),
                        Room(RowLimit, Rivals(c)),
                        Room(TopN, {d \in Rivals(c) : Correlated(d)})
                 PROVE  c \in shown'
      BY Zenon DEF Rivals, pollingVars
    <2>1. CollectionEnds
      <3>1. /\ "analysis" # "idle" /\ "analysis" # "deploys" /\ "analysis" # "commits"
            /\ "analysis" # "commits reply"
        OBVIOUS
      <3>2. collect # collect' /\ collect # "idle" /\ collect # "deploys"
            /\ collect # "commits" /\ collect # "commits reply"
        BY Zenon, <3>1
      <3> QED BY Zenon, <3>2
           DEF PollingNext, Collection, Repository, CollectionStarts, PollDeploys, AskCommits,
               CommitsReply, AskRepository, RepositoryReply, ChangeHappens, RepositoryChanges, Tick
    <2>2. PICK read \in NewestOf(Rows, RowLimit, RowDates) :
            \E top \in Top(read) : shown' = {row[1] : row \in top}
      BY Zenon, <2>1 DEF CollectionEnds
    <2>3. PICK top \in Top(read) : shown' = {row[1] : row \in top}
      BY Zenon, <2>2
    <2>4. PICK row \in top : row[1] = c
      BY Zenon, <2>2, <2>3, TopShowsLatest
    <2> QED BY <2>3, <2>4
  <1> QED BY <1>1, CopiesAreFew, PTL DEF PollingSpec, LatestChangesAreShown
-----------------------------------------------------------------------------
(***************************************************************************)
(* The elements at some positions of a sequence.                           *)
(***************************************************************************)
UpTo(positions, p) == {j \in positions : j <= p}

LEMMA NthPosition ==
  ASSUME NEW L \in Nat, NEW S \in SUBSET (1..L), NEW n \in 1..Cardinality(S)
  PROVE  Nth(S, n) \in S /\ Cardinality(UpTo(S, Nth(S, n))) = n
  <1> DEFINE rank == [p \in S |-> Cardinality(UpTo(S, p))]
  <1>1. IsFiniteSet(S) /\ Cardinality(S) \in Nat
    <2>1. IsFiniteSet(1..L)
      BY FS_Interval
    <2> QED BY Zenon, <2>1, FS_Subset, FS_CardinalityType
  <1>2. \A p \in S : IsFiniteSet(UpTo(S, p)) /\ UpTo(S, p) \in SUBSET S /\ p \in UpTo(S, p)
    BY <1>1, FS_Subset DEF UpTo
  <1>3. rank \in [S -> 1..Cardinality(S)]
    <2> SUFFICES ASSUME NEW p \in S PROVE Cardinality(UpTo(S, p)) \in 1..Cardinality(S)
      BY Zenon
    <2>1. Cardinality(UpTo(S, p)) # 0
      BY <1>2, FS_EmptySet
    <2>2. Cardinality(UpTo(S, p)) \in Nat /\ Cardinality(UpTo(S, p)) <= Cardinality(S)
      BY <1>1, <1>2, FS_Subset, FS_CardinalityType
    <2> QED BY <1>1, <2>1, <2>2
  <1>4. ASSUME NEW p \in S, NEW q \in S, p < q
        PROVE  Cardinality(UpTo(S, p)) # Cardinality(UpTo(S, q))
    <2>0. p \in Int /\ q \in Int /\ \A j \in S : j \in Int
      OBVIOUS
    <2>1. UpTo(S, p) \in SUBSET UpTo(S, q)
      <3>1. ASSUME NEW j \in S, j <= p PROVE j <= q
        BY <1>4, <2>0, <3>1
      <3> QED BY Zenon, <3>1 DEF UpTo
    <2>2. q \notin UpTo(S, p) /\ q \in UpTo(S, q)
      BY <1>4 DEF UpTo
    <2> QED BY <1>2, <2>1, <2>2, FS_Subset
  <1>5. rank \in Injection(S, 1..Cardinality(S))
    <2>1. ASSUME NEW p \in S, NEW q \in S, rank[p] = rank[q] PROVE p = q
      BY <1>4, <2>1
    <2> HIDE DEF rank
    <2> QED BY <1>3, <2>1 DEF Injection, IsInjective
  <1>6. rank \in Surjection(S, 1..Cardinality(S))
    <2>1. IsFiniteSet(1..Cardinality(S)) /\ Cardinality(1..Cardinality(S)) = Cardinality(S)
      BY <1>1, FS_Interval
    <2> HIDE DEF rank
    <2> QED BY <1>5, <2>1, FS_Injection
  <1>7. \E p \in S : Cardinality(UpTo(S, p)) = n
    <2>1. PICK p \in S : rank[p] = n
      BY <1>6 DEF Surjection
    <2> QED BY <2>1
  <1> QED BY Zenon, <1>7 DEF Nth, UpTo

\* They are elements of the sequence, each at a position of its own.
LEMMA ChosenElements ==
  ASSUME NEW L \in Nat, NEW S \in SUBSET (1..L), NEW q
  PROVE  /\ Len(Chosen(q, S)) = Cardinality(S) /\ Cardinality(S) \in Nat
         /\ DOMAIN Chosen(q, S) = 1..Cardinality(S)
         /\ \A n \in 1..Cardinality(S) : Chosen(q, S)[n] = q[Nth(S, n)] /\ Nth(S, n) \in S
         /\ \A m, n \in 1..Cardinality(S) : Nth(S, m) = Nth(S, n) => m = n
         /\ \A T : (\A p \in S : q[p] \in T) => Chosen(q, S) \in Seq(T)
         /\ Cardinality(S) = 0 <=> S = {}
  <1>1. IsFiniteSet(S) /\ Cardinality(S) \in Nat
    <2>1. IsFiniteSet(1..L)
      BY FS_Interval
    <2> QED BY Zenon, <2>1, FS_Subset, FS_CardinalityType
  <1>2. Chosen(q, S) = [n \in 1..Cardinality(S) |-> q[Nth(S, n)]]
    BY DEF Chosen
  <1>3. \A n \in 1..Cardinality(S) :
            Nth(S, n) \in S /\ Cardinality(UpTo(S, Nth(S, n))) = n
    BY NthPosition
  <1>4. \A m, n \in 1..Cardinality(S) : Nth(S, m) = Nth(S, n) => m = n
    BY Zenon, <1>3
  <1>5. Len(Chosen(q, S)) = Cardinality(S) /\ DOMAIN Chosen(q, S) = 1..Cardinality(S)
    BY <1>1, <1>2
  <1>6. ASSUME NEW T, \A p \in S : q[p] \in T PROVE Chosen(q, S) \in Seq(T)
    <2>1. \A n \in 1..Cardinality(S) : q[Nth(S, n)] \in T
      BY Zenon, <1>3, <1>6
    <2> QED BY <1>1, <1>2, <2>1, IsASeq
  <1>7. Cardinality(S) = 0 <=> S = {}
    BY <1>1, FS_EmptySet
  <1>8. \A n \in 1..Cardinality(S) : Chosen(q, S)[n] = q[Nth(S, n)]
    BY Zenon, <1>2
  <1> QED BY Zenon, <1>1, <1>3, <1>4, <1>5, <1>6, <1>7, <1>8
-----------------------------------------------------------------------------
LEMMA VerdictTypes ==
  ASSUME NEW v, NEW baseline
  PROVE  Anomalous(v, baseline) \in BOOLEAN
  <1>1. \A median, mad : Statistical(v, median, mad) \in BOOLEAN
    BY DEF Statistical
  <1>2. \A median, mad : Meaningful(v, median, mad) \in BOOLEAN
    BY DEF Meaningful
  <1> QED BY Zenon, <1>1, <1>2 DEF Anomalous

LEMMA DetectorTypesInit == Init => TypeOK
  <1> USE DetectorAssumption DEF Index
  <1> SUFFICES ASSUME Init PROVE TypeOK
    OBVIOUS
  <1>1. NoBucket \in Buckets /\ Len(NoBucket.samples) <= MaxSamples
    BY DEF NoBucket, Buckets
  <1>2. /\ bucket \in [Keys \X (0..Slots - 1) -> Buckets]
        /\ \A b \in DOMAIN bucket : Len(bucket[b].samples) <= MaxSamples
    BY Zenon, <1>1 DEF Init
  <1>3. batch \in [Index -> Values \cup {NoReading}]
    BY Zenon DEF Init, NoBatch
  <1>4. /\ level \in [Index -> Values]
        /\ severity \in [Index -> {"none", "warning", "critical"}]
    BY DEF Init
  <1>5. slot \in 0..Slots - 1 /\ cycles \in 0..MaxCycles /\ moves + spikes + faults <= MaxEvents
    BY DEF Init
  <1>6. history \in [Index -> Seq([value : Values, age : 0..Window])]
    BY DEF Init
  <1>7. /\ count \in [Index -> Nat] /\ trail \in [Index -> Seq(BOOLEAN)]
        /\ weeksAgo \in [Keys \X (0..Slots - 1) -> -1..MinWeeks]
    BY DEF Init
  <1>8. /\ stage \in {"idle", "saving", "updating"}
        /\ moves \in Nat /\ spikes \in Nat /\ faults \in Nat
    BY DEF Init
  <1> QED BY Zenon, <1>2, <1>3, <1>4, <1>5, <1>6, <1>7, <1>8 DEF TypeOK
-----------------------------------------------------------------------------
Readings == [value : Values, age : 0..Window]

LEMMA OlderTypes ==
  ASSUME NEW h \in Seq(Readings)
  PROVE  /\ Older(h) \in Seq(Readings)
         /\ \A m, n \in 1..Len(Older(h)) : \E o, p \in 1..Len(h) :
               /\ Older(h)[m].value = h[o].value /\ Older(h)[n].value = h[p].value
               /\ o = p => m = n
  <1> DEFINE kept == {n \in 1..Len(h) : h[n].age < Window}
             aged == [n \in 1..Len(h) |-> [value |-> h[n].value, age |-> h[n].age + 1]]
  <1>1. Len(h) \in Nat /\ kept \in SUBSET (1..Len(h)) /\ Older(h) = Chosen(aged, kept)
    BY DEF Older
  <1>2. \A p \in kept : p \in 1..Len(h) /\ aged[p].value = h[p].value /\ aged[p] \in Readings
    <2> SUFFICES ASSUME NEW p \in kept
                 PROVE  p \in 1..Len(h) /\ aged[p].value = h[p].value /\ aged[p] \in Readings
      OBVIOUS
    <2>1. p \in 1..Len(h) /\ h[p].age < Window
      OBVIOUS
    <2>2. h[p].value \in Values /\ h[p].age \in 0..Window
      <3>1. h[p] \in Readings
        BY <2>1, <1>1, ElementOfSeq
      <3> QED BY <3>1 DEF Readings
    <2>3. aged[p] = [value |-> h[p].value, age |-> h[p].age + 1]
      BY Zenon, <2>1
    <2>4. h[p].age + 1 \in 0..Window
      BY <2>1, <2>2, DetectorAssumption
    <2> QED BY <2>1, <2>2, <2>3, <2>4 DEF Readings
  <1> HIDE DEF kept, aged
  <1>3. Chosen(aged, kept) \in Seq(Readings)
    BY Zenon, <1>1, <1>2, ChosenElements
  <1>len. Len(Older(h)) = Cardinality(kept)
    BY Zenon, <1>1, ChosenElements
  <1>4. \A n \in 1..Cardinality(kept) :
            Older(h)[n] = aged[Nth(kept, n)] /\ Nth(kept, n) \in kept
    <2>1. \A n \in 1..Cardinality(kept) :
              Chosen(aged, kept)[n] = aged[Nth(kept, n)] /\ Nth(kept, n) \in kept
      BY Zenon, <1>1, ChosenElements
    <2> QED BY Zenon, <1>1, <2>1
  <1>5. \A n \in 1..Cardinality(kept) : Older(h)[n].value = h[Nth(kept, n)].value
    BY Zenon, <1>2, <1>4
  <1>6. \A n \in 1..Cardinality(kept) : Nth(kept, n) \in 1..Len(h)
    BY Zenon, <1>2, <1>4
  <1>7. \A m, n \in 1..Cardinality(kept) : Nth(kept, m) = Nth(kept, n) => m = n
    BY Zenon, <1>1, ChosenElements
  <1>8. ASSUME NEW m \in 1..Len(Older(h)), NEW n \in 1..Len(Older(h))
        PROVE  \E o, p \in 1..Len(h) :
                  /\ Older(h)[m].value = h[o].value /\ Older(h)[n].value = h[p].value
                  /\ o = p => m = n
    <2>1. m \in 1..Cardinality(kept) /\ n \in 1..Cardinality(kept)
      BY Zenon, <1>len
    <2> QED BY Zenon, <1>5, <1>6, <1>7, <2>1
  <1> QED BY Zenon, <1>1, <1>3, <1>8

LEMMA NewTypes ==
  ASSUME batch \in [Index -> Values \cup {NoReading}], NEW key
  PROVE  New(key) \in Seq(Values)
  <1> DEFINE read == {k \in Index : Shared[k] = key /\ batch[k] # NoReading}
  <1>1. read \in SUBSET (1..Len(Series)) /\ Len(Series) \in Nat
    BY DetectorAssumption DEF Index
  <1>2. \A k \in read : batch[k] \in Values
    OBVIOUS
  <1> HIDE DEF read
  <1>3. Chosen(batch, read) \in Seq(Values)
    BY Zenon, <1>1, <1>2, ChosenElements
  <1> QED BY <1>3 DEF New, read

\* The latest of the samples, in their order.
LEMMA LastOnesOf ==
  ASSUME NEW T, NEW q \in Seq(T)
  PROVE  /\ LastOnes(q) \in Seq(T) /\ Len(LastOnes(q)) <= MaxSamples
         /\ Len(LastOnes(q)) = IF Len(q) > MaxSamples THEN MaxSamples ELSE Len(q)
         /\ \A n \in 1..Len(LastOnes(q)) :
               /\ n + (Len(q) - Len(LastOnes(q))) \in 1..Len(q)
               /\ LastOnes(q)[n] = q[n + (Len(q) - Len(LastOnes(q)))]
  <1> USE DetectorAssumption
  <1> DEFINE first == IF Len(q) > MaxSamples THEN Len(q) - MaxSamples + 1 ELSE 1
  <1>1. Len(q) \in Nat /\ first \in Nat /\ first >= 1 /\ first <= Len(q) + 1
    OBVIOUS
  <1>2. LastOnes(q) = SubSeq(q, first, Len(q))
    BY DEF LastOnes
  <1>3. Len(q) - first + 1 = IF Len(q) > MaxSamples THEN MaxSamples ELSE Len(q)
    OBVIOUS
  <1> HIDE DEF first
  <1>4. /\ SubSeq(q, first, Len(q)) \in Seq(T)
        /\ Len(SubSeq(q, first, Len(q))) = Len(q) - first + 1
        /\ \A n \in 1..Len(q) - first + 1 :
              SubSeq(q, first, Len(q))[n] = q[first + n - 1] /\ first + n - 1 \in 1..Len(q)
    BY <1>1
  <1> QED BY <1>1, <1>2, <1>3, <1>4

LEMMA UpdatedTypes ==
  ASSUME batch \in [Index -> Values \cup {NoReading}], NEW key, NEW old \in Buckets
  PROVE  /\ Updated(key, old) \in Buckets /\ Len(Updated(key, old).samples) <= MaxSamples
         /\ Updated(key, old).samples = LastOnes(old.samples \o New(key))
         /\ Updated(key, old).weeks = IF old.last # "this" /\ old.weeks < MinWeeks
                                      THEN old.weeks + 1 ELSE old.weeks
         /\ Updated(key, old).last = "this"
  <1>1. old.samples \in Seq(Values) /\ old.weeks \in 0..MinWeeks
    BY DEF Buckets
  <1>2. old.samples \o New(key) \in Seq(Values)
    BY <1>1, NewTypes
  <1>3. /\ LastOnes(old.samples \o New(key)) \in Seq(Values)
        /\ Len(LastOnes(old.samples \o New(key))) <= MaxSamples
    BY <1>2, LastOnesOf
  <1> DEFINE weeks == IF old.last # "this" /\ old.weeks < MinWeeks
                      THEN old.weeks + 1 ELSE old.weeks
  <1>4. weeks \in 0..MinWeeks
    BY <1>1, DetectorAssumption
  <1> HIDE DEF weeks
  <1>5. Updated(key, old) = [samples |-> LastOnes(old.samples \o New(key)),
                             weeks |-> weeks, last |-> "this"]
    BY DEF Updated, weeks
  <1> QED BY <1>3, <1>4, <1>5 DEF Buckets, weeks

LEMMA EarlierBucket ==
  ASSUME NEW old \in Buckets
  PROVE  LET new == [old EXCEPT !.last = "earlier"]
         IN  /\ new \in Buckets /\ new.samples = old.samples
             /\ new.weeks = old.weeks /\ new.last = "earlier"
  BY DEF Buckets
-----------------------------------------------------------------------------
\* The verdict on a reading.
Verdict(k, at, readings) == Anomalous(readings[k], Baseline(k, at))

\* The latest verdicts: all of them, or all but the first.
LEMMA LatestOf ==
  ASSUME NEW T, NEW q \in Seq(T)
  PROVE  /\ Latest(q) \in Seq(T)
         /\ Len(q) <= Critical + 1 => Len(Latest(q)) <= Critical
         /\ Len(q) > Critical => Latest(q) = Tail(q) /\ Len(Latest(q)) = Len(q) - 1
         /\ Len(q) <= Critical => Latest(q) = q
  <1>1. Critical \in Nat /\ Critical >= 1 /\ Len(q) \in Nat
    BY DetectorAssumption
  <1>2. CASE Len(q) > Critical
    <2>1. q # << >>
      BY <1>1, <1>2
    <2>2. Tail(q) \in Seq(T) /\ Len(Tail(q)) = Len(q) - 1
      BY <2>1, HeadTailProperties
    <2>3. Latest(q) = Tail(q)
      BY <1>2 DEF Latest
    <2>4. Latest(q) \in Seq(T) /\ Len(Latest(q)) = Len(q) - 1
      BY Zenon, <2>2, <2>3
    <2>5. ~(Len(q) <= Critical) /\ (Len(q) <= Critical + 1 => Len(q) - 1 <= Critical)
      BY <1>1, <1>2
    <2> QED BY Zenon, <1>2, <2>3, <2>4, <2>5
  <1>3. CASE Len(q) <= Critical
    <2>1. Latest(q) = q
      BY <1>1, <1>3 DEF Latest
    <2> QED BY <1>1, <1>3, <2>1
  <1> QED BY <1>1, <1>2, <1>3

\* What an evaluation does to one series.
Outcome(k, at, readings) ==
    /\ ~Judged(k, at, readings) =>
         count'[k] = Followed(count[k]) /\ severity'[k] = "none" /\ trail'[k] = trail[k]
    /\ Judged(k, at, readings) =>
         /\ Verdict(k, at, readings) => count'[k] = Followed(count[k] + 1)
         /\ ~Verdict(k, at, readings) => count'[k] = Followed(0)
         /\ severity'[k] = (IF count'[k] > 0 THEN Returned(count'[k]) ELSE "none")
         /\ trail'[k] = Latest(Append(trail[k], Verdict(k, at, readings)))

LEMMA Evaluated ==
  ASSUME NEW at, NEW readings, Evaluate(at, readings), NEW k \in Index
  PROVE  Outcome(k, at, readings)
  <1>1. /\ count' = [j \in Index |-> Followed(CountAfter(j, at, readings))]
        /\ severity' = [j \in Index |->
                          IF Judged(j, at, readings) /\ count'[j] > 0
                          THEN Returned(count'[j]) ELSE "none"]
        /\ trail' = [j \in Index |->
                       IF Judged(j, at, readings)
                       THEN Latest(Append(trail[j], Anomalous(readings[j], Baseline(j, at))))
                       ELSE trail[j]]
    BY Zenon DEF Evaluate
  <1>2. /\ count'[k] = Followed(CountAfter(k, at, readings))
        /\ severity'[k] = IF Judged(k, at, readings) /\ count'[k] > 0
                          THEN Returned(count'[k]) ELSE "none"
        /\ trail'[k] = IF Judged(k, at, readings)
                       THEN Latest(Append(trail[k], Verdict(k, at, readings))) ELSE trail[k]
    BY Zenon, <1>1 DEF Verdict
  <1>3. CASE Judged(k, at, readings)
    BY Zenon, <1>2, <1>3 DEF CountAfter, Verdict, Outcome
  <1>4. CASE ~Judged(k, at, readings)
    BY Zenon, <1>2, <1>4 DEF CountAfter, Outcome
  <1> QED BY Zenon, <1>3, <1>4

LEMMA EvaluateTypes ==
  ASSUME TypeOK, NEW at, NEW readings \in [Index -> Values \cup {NoReading}],
         Evaluate(at, readings)
  PROVE  /\ cycles' \in 0..MaxCycles
         /\ count' \in [Index -> Nat] /\ count' \in [Index -> 0..Critical]
         /\ severity' \in [Index -> {"none", "warning", "critical"}]
         /\ trail' \in [Index -> Seq(BOOLEAN)]
         /\ batch' \in [Index -> Values \cup {NoReading}] /\ batch' = readings
         /\ stage' \in {"idle", "saving"}
  <1>1. /\ cycles < MaxCycles /\ cycles' = cycles + 1 /\ batch' = readings
        /\ stage' = IF \A k \in Index : readings[k] = NoReading THEN "idle" ELSE "saving"
    BY Zenon DEF Evaluate
  <1>maps. /\ count' = [k \in Index |-> count'[k]]
           /\ severity' = [k \in Index |-> severity'[k]]
           /\ trail' = [k \in Index |-> trail'[k]]
    <2>1. /\ count' = [j \in Index |-> Followed(CountAfter(j, at, readings))]
          /\ severity' = [j \in Index |->
                            IF Judged(j, at, readings) /\ count'[j] > 0
                            THEN Returned(count'[j]) ELSE "none"]
          /\ trail' = [j \in Index |->
                         IF Judged(j, at, readings)
                         THEN Latest(Append(trail[j], Anomalous(readings[j], Baseline(j, at))))
                         ELSE trail[j]]
      BY Zenon DEF Evaluate
    <2> QED BY <2>1
  <1>2. cycles' \in 0..MaxCycles
    BY <1>1, DetectorAssumption DEF TypeOK
  <1>3. stage' \in {"idle", "saving"}
    BY <1>1
  <1> DEFINE Counts == 0..Critical
             States == {"none", "warning", "critical"}
             Trails == Seq(BOOLEAN)
  <1>4. \A n \in Nat : Followed(n) \in Counts
    BY DetectorAssumption DEF Followed
  <1>c. Counts \subseteq Nat /\ Counts = 0..Critical
    BY DetectorAssumption
  <1> HIDE DEF Counts, States, Trails
  <1>5. ASSUME NEW k \in Index
        PROVE  /\ count'[k] \in Counts
               /\ severity'[k] \in States
               /\ trail'[k] \in Trails
    <2>0. Outcome(k, at, readings)
      BY Zenon, Evaluated
    <2>1. count[k] \in Nat /\ trail[k] \in Trails
      BY DEF TypeOK, Trails
    <2>2. count[k] + 1 \in Nat /\ 0 \in Nat
      BY <2>1
    <2>3. count'[k] \in Counts
      <3>1. \/ count'[k] = Followed(count[k]) \/ count'[k] = Followed(count[k] + 1)
            \/ count'[k] = Followed(0)
        BY Zenon, <2>0 DEF Outcome
      <3>2. /\ Followed(count[k]) \in Counts /\ Followed(count[k] + 1) \in Counts
            /\ Followed(0) \in Counts
        BY Zenon, <1>4, <2>1, <2>2
      <3> QED BY Zenon, <3>1, <3>2
    <2>4. \A n : Returned(n) \in States
      BY DEF Returned, States
    <2>5. severity'[k] \in States
      <3>1. severity'[k] = Returned(count'[k]) \/ severity'[k] = "none"
        BY Zenon, <2>0 DEF Outcome
      <3> QED BY <2>4, <3>1 DEF States
    <2>6. \A b \in BOOLEAN : Latest(Append(trail[k], b)) \in Trails
      BY Zenon, <2>1, AppendProperties, LatestOf DEF Trails
    <2>7. trail'[k] \in Trails
      <3>1. \/ trail'[k] = Latest(Append(trail[k], Verdict(k, at, readings)))
            \/ trail'[k] = trail[k]
        BY Zenon, <2>0 DEF Outcome
      <3>2. Verdict(k, at, readings) \in BOOLEAN
        BY Zenon, VerdictTypes DEF Verdict
      <3> QED BY Zenon, <2>1, <2>6, <3>1, <3>2
    <2> QED BY <2>3, <2>5, <2>7
  <1>6. count' \in [Index -> Counts] /\ trail' \in [Index -> Trails]
        /\ severity' \in [Index -> States]
    BY Zenon, <1>maps, <1>5
  <1>7. count' \in [Index -> Nat]
    BY <1>6, <1>c
  <1> QED BY Zenon, <1>1, <1>2, <1>3, <1>6, <1>7, <1>c DEF States, Trails

\* The readings of a cycle: at the levels, but for one.
AtLevels(readings) == \A k \in Index : readings[k] = NoReading \/ readings[k] = level[k]
OneApartIn(readings) == \E k \in Index : \A j \in Index \ {k} : readings[j] = level[j]

Reads(at, readings) ==
    /\ at \in SUBSET (0..Slots - 1) /\ \A g, h \in at : g = h
    /\ readings \in [Index -> Values \cup {NoReading}]
    /\ Evaluate(at, readings)
    /\ \/ UNCHANGED << spikes, faults >> /\ AtLevels(readings)
       \/ Eventful /\ spikes' = spikes + 1 /\ UNCHANGED faults /\ OneApartIn(readings)
       \/ Eventful /\ faults' = faults + 1 /\ UNCHANGED spikes /\ AtLevels(readings)

LEMMA CycleReads ==
  ASSUME TypeOK, Cycle
  PROVE  /\ UNCHANGED << level, moves, slot, history, bucket, weeksAgo >>
         /\ \E at, readings : Reads(at, readings)
  <1>1. UNCHANGED << level, moves, slot, history, bucket, weeksAgo >>
    BY Zenon DEF Cycle
  <1>2. /\ {slot} \in SUBSET (0..Slots - 1) /\ {(slot - 1) % Slots} \in SUBSET (0..Slots - 1)
        /\ {} \in SUBSET (0..Slots - 1)
        /\ \A x : \A g, h \in {x} : g = h
        /\ \A g, h \in {} : g = h
        /\ level \in [Index -> Values \cup {NoReading}]
    BY DetectorAssumption DEF TypeOK
  <1>3. \A k \in Index, v \in Values \cup {NoReading} :
            /\ [level EXCEPT ![k] = v] \in [Index -> Values \cup {NoReading}]
            /\ [level EXCEPT ![k] = v][k] = v
            /\ \A j \in Index \ {k} : [level EXCEPT ![k] = v][j] = level[j]
    BY <1>2
  <1>4. AtLevels(level)
    BY Zenon DEF AtLevels
  <1>5. CASE /\ \/ Evaluate({slot}, level)
                \/ cycles = 0 /\ Evaluate({(slot - 1) % Slots}, level)
             /\ UNCHANGED << spikes, faults >>
    <2>1. CASE Evaluate({slot}, level)
      <3>1. Reads({slot}, level)
        BY Zenon, <1>2, <1>4, <1>5, <2>1 DEF Reads
      <3> QED BY Zenon, <1>1, <3>1
    <2>2. CASE Evaluate({(slot - 1) % Slots}, level)
      <3>1. Reads({(slot - 1) % Slots}, level)
        BY Zenon, <1>2, <1>4, <1>5, <2>2 DEF Reads
      <3> QED BY Zenon, <1>1, <3>1
    <2> QED BY Zenon, <1>5, <2>1, <2>2
  <1>6. CASE /\ Eventful /\ spikes' = spikes + 1
             /\ \E k \in Index : \E v \in Values \ {level[k]} :
                   Evaluate({slot}, [level EXCEPT ![k] = v])
             /\ UNCHANGED faults
    <2>1. PICK k \in Index, v \in Values : Evaluate({slot}, [level EXCEPT ![k] = v])
      BY Zenon, <1>6
    <2>2. v \in Values \cup {NoReading}
      OBVIOUS
    <2>3. OneApartIn([level EXCEPT ![k] = v])
      BY Zenon, <1>3, <2>2 DEF OneApartIn
    <2>4. Reads({slot}, [level EXCEPT ![k] = v])
      BY Zenon, <1>2, <1>3, <1>6, <2>1, <2>2, <2>3 DEF Reads
    <2> QED BY Zenon, <1>1, <2>4
  <1>7. CASE /\ Eventful /\ faults' = faults + 1
             /\ \/ Evaluate({}, level)
                \/ \E k \in Index : Evaluate({slot}, [level EXCEPT ![k] = NoReading])
             /\ UNCHANGED spikes
    <2>1. CASE Evaluate({}, level)
      <3>1. Reads({}, level)
        BY Zenon, <1>2, <1>4, <1>7, <2>1 DEF Reads
      <3> QED BY Zenon, <1>1, <3>1
    <2>2. CASE \E k \in Index : Evaluate({slot}, [level EXCEPT ![k] = NoReading])
      <3>1. PICK k \in Index : Evaluate({slot}, [level EXCEPT ![k] = NoReading])
        BY Zenon, <2>2
      <3>2. NoReading \in Values \cup {NoReading}
        OBVIOUS
      <3>3. AtLevels([level EXCEPT ![k] = NoReading])
        <4> SUFFICES ASSUME NEW j \in Index
                     PROVE  \/ [level EXCEPT ![k] = NoReading][j] = NoReading
                            \/ [level EXCEPT ![k] = NoReading][j] = level[j]
          BY Zenon DEF AtLevels
        <4>1. CASE j = k
          BY Zenon, <1>3, <3>2, <4>1
        <4>2. CASE j # k
          BY <1>3, <3>2, <4>2
        <4> QED BY <4>1, <4>2
      <3>4. Reads({slot}, [level EXCEPT ![k] = NoReading])
        BY Zenon, <1>2, <1>3, <1>7, <3>1, <3>2, <3>3 DEF Reads
      <3> QED BY Zenon, <1>1, <3>4
    <2> QED BY <1>7, <2>1, <2>2
  <1>8. \/ /\ \/ Evaluate({slot}, level)
              \/ cycles = 0 /\ Evaluate({(slot - 1) % Slots}, level)
           /\ UNCHANGED << spikes, faults >>
        \/ /\ Eventful /\ spikes' = spikes + 1
           /\ \E k \in Index : \E v \in Values \ {level[k]} :
                 Evaluate({slot}, [level EXCEPT ![k] = v])
           /\ UNCHANGED faults
        \/ /\ Eventful /\ faults' = faults + 1
           /\ \/ Evaluate({}, level)
              \/ \E k \in Index : Evaluate({slot}, [level EXCEPT ![k] = NoReading])
           /\ UNCHANGED spikes
    BY Zenon DEF Cycle
  <1> QED BY Zenon, <1>5, <1>6, <1>7, <1>8
-----------------------------------------------------------------------------
LEMMA DetectorTypesStep == TypeOK /\ [Next]_vars => TypeOK'
  <1> SUFFICES ASSUME TypeOK, [Next]_vars PROVE TypeOK'
    OBVIOUS
  <1> DEFINE B == Keys \X (0..Slots - 1)
  <1>0. TypeOK' <=>
          /\ level' \in [Index -> Values]
          /\ slot' \in 0..Slots - 1 /\ cycles' \in 0..MaxCycles
          /\ history' \in [Index -> Seq(Readings)]
          /\ bucket' \in [B -> Buckets]
          /\ \A b \in DOMAIN bucket' : Len(bucket'[b].samples) <= MaxSamples
          /\ count' \in [Index -> Nat]
          /\ severity' \in [Index -> {"none", "warning", "critical"}]
          /\ stage' \in {"idle", "saving", "updating"}
          /\ batch' \in [Index -> Values \cup {NoReading}]
          /\ trail' \in [Index -> Seq(BOOLEAN)]
          /\ weeksAgo' \in [B -> -1..MinWeeks]
          /\ moves' \in Nat /\ spikes' \in Nat /\ faults' \in Nat
          /\ moves' + spikes' + faults' <= MaxEvents
    BY Zenon DEF TypeOK, Readings, Keys, Index, Buckets
  <1>types. /\ level \in [Index -> Values]
            /\ slot \in 0..Slots - 1 /\ cycles \in 0..MaxCycles
            /\ history \in [Index -> Seq(Readings)]
            /\ bucket \in [B -> Buckets]
            /\ \A b \in DOMAIN bucket : Len(bucket[b].samples) <= MaxSamples
            /\ count \in [Index -> Nat]
            /\ severity \in [Index -> {"none", "warning", "critical"}]
            /\ stage \in {"idle", "saving", "updating"}
            /\ batch \in [Index -> Values \cup {NoReading}]
            /\ trail \in [Index -> Seq(BOOLEAN)]
            /\ weeksAgo \in [B -> -1..MinWeeks]
            /\ moves \in Nat /\ spikes \in Nat /\ faults \in Nat
            /\ moves + spikes + faults <= MaxEvents
    BY Zenon DEF TypeOK, Readings
  <1> HIDE DEF B
  <1>idle. /\ NoBatch \in [Index -> Values \cup {NoReading}]
           /\ "idle" \in {"idle", "saving", "updating"}
           /\ "updating" \in {"idle", "saving", "updating"}
    BY DEF NoBatch
  <1>events. ASSUME Eventful
             PROVE  /\ moves + 1 \in Nat /\ moves + 1 + spikes + faults <= MaxEvents
                    /\ spikes + 1 \in Nat /\ moves + (spikes + 1) + faults <= MaxEvents
                    /\ faults + 1 \in Nat /\ moves + spikes + (faults + 1) <= MaxEvents
    BY <1>types, <1>events, DetectorAssumption DEF Eventful
  <1>1. ASSUME NEW k \in Index, NEW v \in Values, LevelMoves(k, v) PROVE TypeOK'
    <2>1. /\ Eventful /\ moves' = moves + 1 /\ level' = [level EXCEPT ![k] = v]
          /\ UNCHANGED << spikes, slot, cycles, history, bucket, count, severity, stage,
                          batch, trail, weeksAgo, faults >>
      BY Zenon, <1>1 DEF LevelMoves
    <2>2. level' \in [Index -> Values]
      BY <1>types, <2>1
    <2> QED BY Zenon, <1>0, <1>types, <1>events, <2>1, <2>2
  <1>2. CASE HourPasses
    <2>1. /\ slot' = (slot + 1) % Slots /\ cycles' = 0
          /\ history' = [k \in Index |-> Older(history[k])]
          /\ bucket' = [b \in DOMAIN bucket |->
                          IF NewWeek /\ bucket[b].last = "this"
                          THEN [bucket[b] EXCEPT !.last = "earlier"] ELSE bucket[b]]
          /\ weeksAgo' = [b \in DOMAIN weeksAgo |->
                            IF NewWeek /\ weeksAgo[b] \in 0..MinWeeks - 1
                            THEN weeksAgo[b] + 1 ELSE weeksAgo[b]]
          /\ UNCHANGED << level, moves, spikes, count, severity, stage, batch, trail, faults >>
      BY Zenon, <1>2 DEF HourPasses, world
    <2>2. slot' \in 0..Slots - 1 /\ cycles' \in 0..MaxCycles
      <3>1. slot \in 0..Slots - 1 /\ slot' = (slot + 1) % Slots /\ cycles' = 0
        BY Zenon, <1>types, <2>1
      <3>2. Slots \in Nat \ {0} /\ MaxCycles \in Nat
        BY DetectorAssumption
      <3> QED BY <3>1, <3>2
    <2>3. history' \in [Index -> Seq(Readings)]
      BY Zenon, <1>types, <2>1, OlderTypes
    <2>4. \A b \in B : /\ bucket'[b] \in Buckets /\ Len(bucket'[b].samples) <= MaxSamples
      <3> SUFFICES ASSUME NEW b \in B
                   PROVE  bucket'[b] \in Buckets /\ Len(bucket'[b].samples) <= MaxSamples
        OBVIOUS
      <3>1. bucket[b] \in Buckets /\ Len(bucket[b].samples) <= MaxSamples /\ b \in DOMAIN bucket
        BY <1>types
      <3>2. bucket'[b] = bucket[b] \/ bucket'[b] = [bucket[b] EXCEPT !.last = "earlier"]
        BY Zenon, <2>1, <3>1
      <3> QED BY Zenon, <3>1, <3>2, EarlierBucket
    <2>5. DOMAIN bucket' = B /\ bucket' \in [B -> Buckets]
      <3>1. bucket' = [b \in B |-> bucket'[b]]
        BY <1>types, <2>1
      <3> QED BY Zenon, <2>4, <3>1
    <2>6. weeksAgo' \in [B -> -1..MinWeeks]
      <3>1. \A b \in B : weeksAgo[b] \in -1..MinWeeks
        BY <1>types
      <3>2. \A a \in -1..MinWeeks :
                (IF NewWeek /\ a \in 0..MinWeeks - 1 THEN a + 1 ELSE a) \in -1..MinWeeks
        BY DetectorAssumption
      <3>3. weeksAgo' = [b \in B |-> IF NewWeek /\ weeksAgo[b] \in 0..MinWeeks - 1
                                     THEN weeksAgo[b] + 1 ELSE weeksAgo[b]]
        BY <1>types, <2>1
      <3> QED BY Zenon, <3>1, <3>2, <3>3
    <2> QED BY Zenon, <1>0, <1>types, <2>1, <2>2, <2>3, <2>4, <2>5, <2>6
  <1>3. CASE Cycle
    <2>1. UNCHANGED << level, moves, slot, history, bucket, weeksAgo >>
      BY Zenon, <1>3, CycleReads
    <2>2. PICK at, readings : Reads(at, readings)
      BY Zenon, <1>3, CycleReads
    <2>3. Evaluate(at, readings) /\ readings \in [Index -> Values \cup {NoReading}]
      BY Zenon, <2>2 DEF Reads
    <2>4. /\ cycles' \in 0..MaxCycles /\ count' \in [Index -> Nat]
          /\ severity' \in [Index -> {"none", "warning", "critical"}]
          /\ trail' \in [Index -> Seq(BOOLEAN)]
          /\ batch' \in [Index -> Values \cup {NoReading}]
          /\ stage' \in {"idle", "saving"}
      BY Zenon, <2>3, EvaluateTypes
    <2>5. stage' \in {"idle", "saving", "updating"}
      BY <2>4
    <2>6. \/ UNCHANGED << spikes, faults >>
          \/ Eventful /\ spikes' = spikes + 1 /\ UNCHANGED faults
          \/ Eventful /\ faults' = faults + 1 /\ UNCHANGED spikes
      BY Zenon, <2>2 DEF Reads
    <2>7. /\ moves' \in Nat /\ spikes' \in Nat /\ faults' \in Nat
          /\ moves' + spikes' + faults' <= MaxEvents
      BY Zenon, <1>types, <1>events, <2>1, <2>6
    <2> QED BY Zenon, <1>0, <1>types, <2>1, <2>4, <2>5, <2>7
  <1>4. CASE MetricsSaved
    <2>1. UNCHANGED << level, moves, spikes, slot, cycles, bucket, count, severity, trail,
                       weeksAgo >>
      BY Zenon, <1>4 DEF MetricsSaved, world
    <2>2. \/ /\ history' = [k \in Index |->
                             IF batch[k] = NoReading THEN history[k]
                             ELSE Append(history[k], [value |-> batch[k], age |-> 0])]
             /\ stage' = "updating" /\ UNCHANGED << batch, faults >>
          \/ /\ Eventful /\ faults' = faults + 1
             /\ stage' = "idle" /\ batch' = NoBatch /\ UNCHANGED history
      BY Zenon, <1>4 DEF MetricsSaved
    <2>3. CASE /\ history' = [k \in Index |->
                               IF batch[k] = NoReading THEN history[k]
                               ELSE Append(history[k], [value |-> batch[k], age |-> 0])]
               /\ stage' = "updating" /\ UNCHANGED << batch, faults >>
      <3>1. \A k \in Index :
                (IF batch[k] = NoReading THEN history[k]
                 ELSE Append(history[k], [value |-> batch[k], age |-> 0])) \in Seq(Readings)
        <4> SUFFICES ASSUME NEW k \in Index, batch[k] # NoReading
                     PROVE  Append(history[k], [value |-> batch[k], age |-> 0]) \in Seq(Readings)
          BY <1>types
        <4>1. [value |-> batch[k], age |-> 0] \in Readings
          BY <1>types, DetectorAssumption DEF Readings
        <4>2. history[k] \in Seq(Readings)
          BY <1>types
        <4> QED BY Zenon, <4>1, <4>2, AppendProperties
      <3>2. history' \in [Index -> Seq(Readings)]
        BY Zenon, <2>3, <3>1
      <3> QED BY Zenon, <1>0, <1>types, <1>idle, <2>1, <2>3, <3>2
    <2>4. CASE /\ Eventful /\ faults' = faults + 1
               /\ stage' = "idle" /\ batch' = NoBatch /\ UNCHANGED history
      BY Zenon, <1>0, <1>types, <1>idle, <1>events, <2>1, <2>4
    <2> QED BY Zenon, <2>2, <2>3, <2>4
  <1>5. CASE SeasonsUpdated
    <2> DEFINE touched == {key \in Keys : New(key) # << >>} \X {slot}
    <2>1. /\ UNCHANGED << level, moves, spikes, slot, cycles, history, count, severity, trail >>
          /\ stage' = "idle" /\ batch' = NoBatch
          /\ \/ /\ bucket' = [b \in DOMAIN bucket |->
                                IF b \in touched THEN Updated(b[1], bucket[b]) ELSE bucket[b]]
                /\ weeksAgo' = [b \in DOMAIN weeksAgo |->
                                  IF b \in touched /\ weeksAgo[b] = -1 THEN 0 ELSE weeksAgo[b]]
                /\ UNCHANGED faults
             \/ Eventful /\ faults' = faults + 1 /\ UNCHANGED << bucket, weeksAgo >>
      BY Zenon, <1>5 DEF SeasonsUpdated, world
    <2> HIDE DEF touched
    <2>2. CASE /\ bucket' = [b \in DOMAIN bucket |->
                               IF b \in touched THEN Updated(b[1], bucket[b]) ELSE bucket[b]]
               /\ weeksAgo' = [b \in DOMAIN weeksAgo |->
                                 IF b \in touched /\ weeksAgo[b] = -1 THEN 0 ELSE weeksAgo[b]]
               /\ UNCHANGED faults
      <3>1. \A b \in B : bucket'[b] \in Buckets /\ Len(bucket'[b].samples) <= MaxSamples
        <4> SUFFICES ASSUME NEW b \in B
                     PROVE  bucket'[b] \in Buckets /\ Len(bucket'[b].samples) <= MaxSamples
          OBVIOUS
        <4>1. /\ bucket[b] \in Buckets /\ Len(bucket[b].samples) <= MaxSamples
              /\ b \in DOMAIN bucket
          BY <1>types
        <4>2. bucket'[b] = bucket[b] \/ bucket'[b] = Updated(b[1], bucket[b])
          BY Zenon, <2>2, <4>1
        <4>3. batch \in [Index -> Values \cup {NoReading}]
          BY Zenon, <1>types
        <4>4. /\ Updated(b[1], bucket[b]) \in Buckets
              /\ Len(Updated(b[1], bucket[b]).samples) <= MaxSamples
          BY Zenon, <4>1, <4>3, UpdatedTypes
        <4> QED BY Zenon, <4>1, <4>2, <4>4
      <3>2. DOMAIN bucket' = B /\ bucket' \in [B -> Buckets]
        <4>1. bucket' = [b \in B |-> bucket'[b]]
          BY <1>types, <2>2
        <4> QED BY Zenon, <3>1, <4>1
      <3>3. weeksAgo' \in [B -> -1..MinWeeks]
        <4>1. weeksAgo' = [b \in B |-> IF b \in touched /\ weeksAgo[b] = -1 THEN 0
                                       ELSE weeksAgo[b]]
          BY Zenon, <1>types, <2>2
        <4>2. 0 \in -1..MinWeeks /\ \A b \in B : weeksAgo[b] \in -1..MinWeeks
          BY <1>types, DetectorAssumption
        <4> QED BY Zenon, <4>1, <4>2
      <3> QED BY Zenon, <1>0, <1>types, <1>idle, <2>1, <2>2, <3>1, <3>2, <3>3
    <2>3. CASE Eventful /\ faults' = faults + 1 /\ UNCHANGED << bucket, weeksAgo >>
      BY Zenon, <1>0, <1>types, <1>idle, <1>events, <2>1, <2>3
    <2> QED BY Zenon, <2>1, <2>2, <2>3
  <1>6. CASE Restarts
    <2>1. /\ UNCHANGED << level, moves, spikes, slot, cycles, history, bucket, weeksAgo >>
          /\ Eventful /\ faults' = faults + 1
          /\ count' = [k \in Index |-> 0] /\ severity' = [k \in Index |-> "none"]
          /\ trail' = [k \in Index |-> << >>] /\ stage' = "idle" /\ batch' = NoBatch
      BY Zenon, <1>6 DEF Restarts, world
    <2>2. /\ count' \in [Index -> Nat] /\ severity' \in [Index -> {"none", "warning", "critical"}]
          /\ trail' \in [Index -> Seq(BOOLEAN)]
      BY <2>1
    <2> QED BY Zenon, <1>0, <1>types, <1>idle, <1>events, <2>1, <2>2
  <1>7. CASE UNCHANGED vars
    <2>1. UNCHANGED << level, moves, spikes, slot, cycles, history, bucket, count, severity,
                       stage, batch, trail, weeksAgo, faults >>
      BY Zenon, <1>7 DEF vars, world
    <2> QED BY Zenon, <1>0, <1>types, <2>1
  <1> QED BY Zenon, <1>1, <1>2, <1>3, <1>4, <1>5, <1>6, <1>7 DEF Next

(***************************************************************************)
(* The histories, the buckets, the counters and the verdicts keep their    *)
(* types through every cycle, failed write, clean-up and restart.          *)
(***************************************************************************)
THEOREM DetectorTypes == Spec => []TypeOK
  <1> QED BY DetectorTypesInit, DetectorTypesStep, PTL DEF Spec
-----------------------------------------------------------------------------
(***************************************************************************)
(* A bucket has been updated in no more weeks than have passed since its   *)
(* first sample, in this one included when it was updated in it.           *)
(***************************************************************************)
WeeksOf(last, weeks, ago) ==
    /\ last = "never" <=> ago = -1
    /\ last = "never" => weeks = 0
    /\ last = "this" => weeks <= ago + 1
    /\ last = "earlier" => weeks <= ago

WeeksInv ==
    \A b \in Keys \X (0..Slots - 1) :
        WeeksOf(bucket[b].last, bucket[b].weeks, weeksAgo[b])

WeekLater(ago) == IF ago \in 0..MinWeeks - 1 THEN ago + 1 ELSE ago

LEMMA WeeksMove ==
  ASSUME NEW last \in {"never", "earlier", "this"}, NEW weeks \in 0..MinWeeks,
         NEW ago \in -1..MinWeeks, WeeksOf(last, weeks, ago)
  PROVE  /\ WeeksOf("this", IF last # "this" /\ weeks < MinWeeks THEN weeks + 1 ELSE weeks,
                    IF ago = -1 THEN 0 ELSE ago)
         /\ last = "this" => WeeksOf("earlier", weeks, WeekLater(ago))
         /\ last # "this" => WeeksOf(last, weeks, WeekLater(ago))
         /\ weeks <= ago + 1
  <1> USE DetectorAssumption DEF WeeksOf, WeekLater
  <1>1. CASE last = "never"
    BY <1>1
  <1>2. CASE last = "earlier"
    BY <1>2
  <1>3. CASE last = "this"
    BY <1>3
  <1> QED BY <1>1, <1>2, <1>3

LEMMA WeeksInit == Init => WeeksInv
  <1> SUFFICES ASSUME Init, NEW b \in Keys \X (0..Slots - 1)
               PROVE  WeeksOf(bucket[b].last, bucket[b].weeks, weeksAgo[b])
    BY Zenon DEF WeeksInv
  <1>1. bucket[b] = NoBucket /\ weeksAgo[b] = -1
    BY Zenon DEF Init
  <1> QED BY <1>1 DEF NoBucket, WeeksOf

LEMMA WeeksStep == TypeOK /\ WeeksInv /\ [Next]_vars => WeeksInv'
  <1> SUFFICES ASSUME TypeOK, WeeksInv, [Next]_vars, NEW b \in Keys \X (0..Slots - 1)
               PROVE  WeeksOf(bucket'[b].last, bucket'[b].weeks, weeksAgo'[b])
    BY Zenon DEF WeeksInv, WeeksOf, Keys, Index
  <1>0. /\ bucket[b] \in Buckets /\ weeksAgo[b] \in -1..MinWeeks
        /\ b \in DOMAIN bucket /\ b \in DOMAIN weeksAgo
        /\ batch \in [Index -> Values \cup {NoReading}]
    BY DEF TypeOK
  <1>1. /\ bucket[b].last \in {"never", "earlier", "this"} /\ bucket[b].weeks \in 0..MinWeeks
        /\ WeeksOf(bucket[b].last, bucket[b].weeks, weeksAgo[b])
    BY <1>0 DEF Buckets, WeeksInv
  <1>2. CASE HourPasses
    <2>1. /\ bucket'[b] = IF NewWeek /\ bucket[b].last = "this"
                          THEN [bucket[b] EXCEPT !.last = "earlier"] ELSE bucket[b]
          /\ weeksAgo'[b] = IF NewWeek /\ weeksAgo[b] \in 0..MinWeeks - 1
                            THEN weeksAgo[b] + 1 ELSE weeksAgo[b]
      BY Zenon, <1>0, <1>2 DEF HourPasses
    <2>2. CASE NewWeek /\ bucket[b].last = "this"
      <3>1. /\ bucket'[b].last = "earlier" /\ bucket'[b].weeks = bucket[b].weeks
            /\ weeksAgo'[b] = WeekLater(weeksAgo[b])
        BY Zenon, <1>0, <2>1, <2>2, EarlierBucket DEF WeekLater
      <3> QED BY Zenon, <1>0, <1>1, <2>2, <3>1, WeeksMove
    <2>3. CASE NewWeek /\ bucket[b].last # "this"
      <3>1. bucket'[b] = bucket[b] /\ weeksAgo'[b] = WeekLater(weeksAgo[b])
        BY Zenon, <2>1, <2>3 DEF WeekLater
      <3> QED BY Zenon, <1>0, <1>1, <2>3, <3>1, WeeksMove
    <2>4. CASE ~NewWeek
      BY Zenon, <1>1, <2>1, <2>4
    <2> QED BY Zenon, <2>2, <2>3, <2>4
  <1>3. CASE SeasonsUpdated
    <2> DEFINE touched == {key \in Keys : New(key) # << >>} \X {slot}
    <2>1. \/ /\ bucket'[b] = IF b \in touched THEN Updated(b[1], bucket[b]) ELSE bucket[b]
             /\ weeksAgo'[b] = IF b \in touched /\ weeksAgo[b] = -1 THEN 0 ELSE weeksAgo[b]
          \/ UNCHANGED << bucket, weeksAgo >>
      BY Zenon, <1>0, <1>3 DEF SeasonsUpdated
    <2> HIDE DEF touched
    <2>2. CASE UNCHANGED << bucket, weeksAgo >>
      BY Zenon, <1>1, <2>2
    <2>3. CASE /\ bucket'[b] = IF b \in touched THEN Updated(b[1], bucket[b]) ELSE bucket[b]
               /\ weeksAgo'[b] = IF b \in touched /\ weeksAgo[b] = -1 THEN 0 ELSE weeksAgo[b]
      <3>1. CASE b \in touched
        <4>1. /\ bucket'[b] = Updated(b[1], bucket[b])
              /\ weeksAgo'[b] = IF weeksAgo[b] = -1 THEN 0 ELSE weeksAgo[b]
          BY Zenon, <2>3, <3>1
        <4>2. /\ bucket'[b].last = "this"
              /\ bucket'[b].weeks = IF bucket[b].last # "this" /\ bucket[b].weeks < MinWeeks
                                    THEN bucket[b].weeks + 1 ELSE bucket[b].weeks
          <5>1. /\ Updated(b[1], bucket[b]).last = "this"
                /\ Updated(b[1], bucket[b]).weeks =
                     IF bucket[b].last # "this" /\ bucket[b].weeks < MinWeeks
                     THEN bucket[b].weeks + 1 ELSE bucket[b].weeks
            BY Zenon, <1>0, UpdatedTypes
          <5> QED BY Zenon, <4>1, <5>1
        <4>3. WeeksOf("this", IF bucket[b].last # "this" /\ bucket[b].weeks < MinWeeks
                              THEN bucket[b].weeks + 1 ELSE bucket[b].weeks,
                      IF weeksAgo[b] = -1 THEN 0 ELSE weeksAgo[b])
          BY Zenon, <1>0, <1>1, WeeksMove
        <4>4. WeeksOf(bucket'[b].last, bucket'[b].weeks, weeksAgo'[b])
          BY <4>1, <4>2, <4>3
        <4> QED BY <4>4
      <3>2. CASE b \notin touched
        BY Zenon, <1>1, <2>3, <3>2
      <3> QED BY Zenon, <3>1, <3>2
    <2> QED BY Zenon, <2>1, <2>2, <2>3
  <1>4. CASE \/ \E k \in Index, v \in Values : LevelMoves(k, v)
             \/ Cycle \/ MetricsSaved \/ Restarts \/ UNCHANGED vars
    <2>1. UNCHANGED << bucket, weeksAgo >>
      BY Zenon, <1>4 DEF LevelMoves, Cycle, MetricsSaved, Restarts, vars
    <2> QED BY Zenon, <1>1, <2>1
  <1> QED BY Zenon, <1>2, <1>3, <1>4 DEF Next

(***************************************************************************)
(* A seasonal bucket is trusted only after that many weeks: the weeks      *)
(* counted in it are never more than those since its first sample, this    *)
(* one included, however many cycles and series contribute to it in one.   *)
(***************************************************************************)
THEOREM TrustTakesWeeks == Spec => []TrustNeedsWeeks
  <1>1. TypeOK /\ WeeksInv => TrustNeedsWeeks
    <2> SUFFICES ASSUME TypeOK, WeeksInv, NEW b \in DOMAIN bucket
                 PROVE  bucket[b].weeks <= weeksAgo[b] + 1
      BY Zenon DEF TrustNeedsWeeks
    <2>1. /\ b \in Keys \X (0..Slots - 1)
          /\ bucket[b] \in Buckets /\ weeksAgo[b] \in -1..MinWeeks
      BY DEF TypeOK
    <2>2. /\ bucket[b].last \in {"never", "earlier", "this"} /\ bucket[b].weeks \in 0..MinWeeks
          /\ WeeksOf(bucket[b].last, bucket[b].weeks, weeksAgo[b])
      BY <2>1 DEF Buckets, WeeksInv
    <2> QED BY Zenon, <2>1, <2>2, WeeksMove
  <1> QED BY <1>1, WeeksInit, WeeksStep, DetectorTypes, PTL DEF Spec
-----------------------------------------------------------------------------
(***************************************************************************)
(* The counter of a series is the length of the run of anomalous verdicts  *)
(* that ends its trail, as far as it is followed.                          *)
(***************************************************************************)
LEMMA AllOfAppend ==
  ASSUME NEW q \in Seq(BOOLEAN), NEW b \in BOOLEAN, NEW m \in Nat \ {0}
  PROVE  AllOf(Append(q, b), m) <=> b /\ (m = 1 \/ AllOf(q, m - 1))
  <1> DEFINE r == Append(q, b)
  <1>1. /\ Len(q) \in Nat /\ Len(r) = Len(q) + 1 /\ r[Len(r)] = b
        /\ \A i \in 1..Len(q) : r[i] = q[i]
    OBVIOUS
  <1> HIDE DEF r
  <1>2. ASSUME AllOf(r, m) PROVE b /\ (m = 1 \/ AllOf(q, m - 1))
    <2>1. Len(r) >= m /\ \A i \in Len(r) - m + 1..Len(r) : r[i]
      BY Zenon, <1>2 DEF AllOf
    <2>2. b
      <3>1. Len(r) \in Len(r) - m + 1..Len(r)
        BY <1>1
      <3> QED BY Zenon, <1>1, <2>1, <3>1
    <2>3. ASSUME m # 1, NEW i \in Len(q) - (m - 1) + 1..Len(q) PROVE q[i]
      <3>1. i \in Len(r) - m + 1..Len(r) /\ i \in 1..Len(q)
        BY <1>1, <2>1, <2>3
      <3> QED BY Zenon, <1>1, <2>1, <3>1
    <2>4. Len(q) >= m - 1
      BY <1>1, <2>1
    <2> QED BY Zenon, <2>2, <2>3, <2>4 DEF AllOf
  <1>3. ASSUME b, m = 1 \/ AllOf(q, m - 1) PROVE AllOf(r, m)
    <2>1. Len(r) >= m
      BY <1>1, <1>3 DEF AllOf
    <2>2. ASSUME NEW i \in Len(r) - m + 1..Len(r) PROVE r[i]
      <3>1. CASE i = Len(r)
        BY Zenon, <1>1, <1>3, <3>1
      <3>2. CASE i # Len(r)
        <4>1. /\ m # 1 /\ i \in Len(q) - (m - 1) + 1..Len(q) /\ i \in 1..Len(q)
          BY <1>1, <2>1, <3>2
        <4> QED BY Zenon, <1>1, <1>3, <4>1 DEF AllOf
      <3> QED BY <3>1, <3>2
    <2> QED BY Zenon, <2>1, <2>2 DEF AllOf
  <1> QED BY Zenon, <1>2, <1>3 DEF r

LEMMA AllOfTail ==
  ASSUME NEW q \in Seq(BOOLEAN), NEW m \in Nat, Len(q) > m
  PROVE  AllOf(Tail(q), m) <=> AllOf(q, m)
  <1> DEFINE r == Tail(q)
  <1>1. /\ Len(q) \in Nat /\ Len(r) = Len(q) - 1
        /\ \A i \in 1..Len(r) : r[i] = q[i + 1]
    <2>1. q # << >>
      OBVIOUS
    <2> QED BY <2>1, HeadTailProperties
  <1> HIDE DEF r
  <1>2. ASSUME AllOf(r, m), NEW i \in Len(q) - m + 1..Len(q) PROVE q[i]
    <2>1. /\ i - 1 \in Len(r) - m + 1..Len(r) /\ i - 1 \in 1..Len(r) /\ (i - 1) + 1 = i
      BY <1>1
    <2> QED BY <1>1, <1>2, <2>1 DEF AllOf
  <1>3. ASSUME AllOf(q, m), NEW i \in Len(r) - m + 1..Len(r) PROVE r[i]
    <2>1. i + 1 \in Len(q) - m + 1..Len(q) /\ i \in 1..Len(r)
      BY <1>1
    <2> QED BY <1>1, <1>3, <2>1 DEF AllOf
  <1>4. Len(r) >= m /\ Len(q) >= m
    BY <1>1
  <1> QED BY Zenon, <1>2, <1>3, <1>4 DEF AllOf, r

TrailOf(q, n) ==
    /\ Len(q) <= Critical /\ n \in 0..Critical
    /\ \A m \in 1..Critical : AllOf(q, m) <=> m <= n

\* A verdict follows; the counter as it is followed.
LEMMA TrailMove ==
  ASSUME NEW q \in Seq(BOOLEAN), NEW n \in Nat, TrailOf(q, n)
  PROVE  /\ TrailOf(q, Followed(n))
         /\ TrailOf(Latest(Append(q, TRUE)), Followed(n + 1))
         /\ TrailOf(Latest(Append(q, FALSE)), Followed(0))
  <1>1. /\ Critical \in Nat /\ Critical >= 1 /\ Len(q) \in Nat /\ Len(q) <= Critical
        /\ n <= Critical
    BY DetectorAssumption DEF TrailOf
  <1>2. /\ Followed(n) = n /\ Followed(0) = 0 /\ Followed(n + 1) \in 0..Critical
        /\ \A m \in 1..Critical : m <= Followed(n + 1) <=> m - 1 <= n
    BY <1>1 DEF Followed
  <1>3. ASSUME NEW b \in BOOLEAN
        PROVE  /\ Len(Latest(Append(q, b))) <= Critical
               /\ \A m \in 1..Critical :
                     AllOf(Latest(Append(q, b)), m) <=> b /\ (m = 1 \/ AllOf(q, m - 1))
    <2> DEFINE r == Append(q, b)
    <2>1. r \in Seq(BOOLEAN) /\ Len(r) = Len(q) + 1
      BY AppendProperties
    <2>2. Len(r) <= Critical + 1 /\ Len(r) \in Nat
      BY <1>1, <2>1
    <2>3. \A m \in 1..Critical : AllOf(r, m) <=> b /\ (m = 1 \/ AllOf(q, m - 1))
      <3>1. \A m \in 1..Critical : m \in Nat \ {0}
        BY <1>1
      <3> QED BY Zenon, <3>1, AllOfAppend
    <2> HIDE DEF r
    <2>4. Len(Latest(r)) <= Critical
      BY Zenon, <2>1, <2>2, LatestOf
    <2>5. \A m \in 1..Critical : AllOf(Latest(r), m) <=> AllOf(r, m)
      <3>1. CASE Len(r) > Critical
        <4>1. Latest(r) = Tail(r)
          BY Zenon, <2>1, <3>1, LatestOf
        <4>2. \A m \in 1..Critical : m \in Nat /\ Len(r) > m
          BY <1>1, <2>2, <3>1
        <4> QED BY Zenon, <2>1, <4>1, <4>2, AllOfTail
      <3>2. CASE Len(r) <= Critical
        BY Zenon, <2>1, <3>2, LatestOf
      <3> QED BY <1>1, <2>2, <3>1, <3>2
    <2> QED BY Zenon, <2>3, <2>4, <2>5 DEF r
  <1>4. \A m \in 1..Critical : AllOf(q, m) <=> m <= n
    BY Zenon DEF TrailOf
  <1>5. ASSUME NEW m \in 1..Critical PROVE (m = 1 \/ AllOf(q, m - 1)) <=> m - 1 <= n
    <2>1. CASE m = 1
      BY <2>1
    <2>2. CASE m # 1
      <3>1. m - 1 \in 1..Critical
        BY <1>1, <2>2
      <3> QED BY Zenon, <1>4, <2>2, <3>1
    <2> QED BY <2>1, <2>2
  <1>6. TrailOf(q, Followed(n))
    BY Zenon, <1>2
  <1>7. TrailOf(Latest(Append(q, TRUE)), Followed(n + 1))
    <2>1. TRUE \in BOOLEAN
      OBVIOUS
    <2> QED BY Zenon, <1>2, <1>3, <1>5, <2>1 DEF TrailOf
  <1>8. TrailOf(Latest(Append(q, FALSE)), Followed(0))
    <2>1. FALSE \in BOOLEAN /\ 0 \in 0..Critical /\ \A m \in 1..Critical : ~(m <= 0)
      BY <1>1
    <2> QED BY Zenon, <1>2, <1>3, <2>1 DEF TrailOf
  <1> QED BY Zenon, <1>6, <1>7, <1>8

SeverityOf(s, n) ==
    /\ s = "critical" => Critical <= n
    /\ s = "warning" => Warning <= n /\ n < Critical

TrailInv ==
    \A k \in Index : TrailOf(trail[k], count[k]) /\ SeverityOf(severity[k], count[k])

LEMMA TrailStart == TrailOf(<< >>, 0) /\ \A n : SeverityOf("none", n)
  <1>1. \A m \in 1..Critical : ~AllOf(<< >>, m) /\ ~(m <= 0)
    BY DetectorAssumption DEF AllOf
  <1>2. Len(<< >>) <= Critical /\ 0 \in 0..Critical
    BY DetectorAssumption
  <1> QED BY Zenon, <1>1, <1>2 DEF TrailOf, SeverityOf

LEMMA TrailInit == Init => TrailInv
  <1> SUFFICES ASSUME Init, NEW k \in Index
               PROVE  TrailOf(trail[k], count[k]) /\ SeverityOf(severity[k], count[k])
    BY Zenon DEF TrailInv
  <1>1. trail[k] = << >> /\ count[k] = 0 /\ severity[k] = "none"
    BY Zenon DEF Init
  <1> QED BY Zenon, <1>1, TrailStart

LEMMA TrailStep == TypeOK /\ TrailInv /\ [Next]_vars => TrailInv'
  <1> SUFFICES ASSUME TypeOK, TrailInv, [Next]_vars, NEW k \in Index
               PROVE  TrailOf(trail'[k], count'[k]) /\ SeverityOf(severity'[k], count'[k])
    BY Zenon DEF TrailInv, TrailOf, SeverityOf, AllOf, Index
  <1>1. /\ TrailOf(trail[k], count[k]) /\ SeverityOf(severity[k], count[k])
        /\ trail[k] \in Seq(BOOLEAN) /\ count[k] \in Nat
    BY DEF TrailInv, TypeOK
  <1>2. CASE Cycle
    <2>1. PICK at, readings : Reads(at, readings)
      BY Zenon, <1>2, CycleReads
    <2>2. Evaluate(at, readings) /\ readings \in [Index -> Values \cup {NoReading}]
      BY Zenon, <2>1 DEF Reads
    <2>3. Outcome(k, at, readings)
      BY Zenon, <2>2, Evaluated
    <2>4. TrailOf(trail'[k], count'[k])
      <3>1. CASE ~Judged(k, at, readings)
        BY Zenon, <1>1, <2>3, <3>1, TrailMove DEF Outcome
      <3>2. CASE Judged(k, at, readings) /\ Verdict(k, at, readings)
        <4>1. Verdict(k, at, readings) = TRUE
          BY Zenon, <3>2, VerdictTypes DEF Verdict
        <4>2. /\ trail'[k] = Latest(Append(trail[k], TRUE))
              /\ count'[k] = Followed(count[k] + 1)
          BY Zenon, <2>3, <3>2, <4>1 DEF Outcome
        <4> QED BY Zenon, <1>1, <4>2, TrailMove
      <3>3. CASE Judged(k, at, readings) /\ ~Verdict(k, at, readings)
        <4>1. Verdict(k, at, readings) = FALSE
          BY Zenon, <3>3, VerdictTypes DEF Verdict
        <4>2. trail'[k] = Latest(Append(trail[k], FALSE)) /\ count'[k] = Followed(0)
          BY Zenon, <2>3, <3>3, <4>1 DEF Outcome
        <4> QED BY Zenon, <1>1, <4>2, TrailMove
      <3> QED BY Zenon, <3>1, <3>2, <3>3
    <2>5. SeverityOf(severity'[k], count'[k])
      <3>1. severity'[k] = Returned(count'[k]) \/ severity'[k] = "none"
        BY Zenon, <2>3 DEF Outcome
      <3>2. count'[k] \in Nat
        BY Zenon, <2>2, EvaluateTypes
      <3>3. \A n \in Nat : SeverityOf(Returned(n), n)
        BY DetectorAssumption DEF SeverityOf, Returned
      <3> QED BY Zenon, <3>1, <3>2, <3>3, TrailStart
    <2> QED BY Zenon, <2>4, <2>5
  <1>3. CASE Restarts
    <2>1. trail'[k] = << >> /\ count'[k] = 0 /\ severity'[k] = "none"
      BY Zenon, <1>3 DEF Restarts
    <2> QED BY Zenon, <2>1, TrailStart
  <1>4. CASE \/ \E j \in Index, v \in Values : LevelMoves(j, v)
             \/ HourPasses \/ MetricsSaved \/ SeasonsUpdated \/ UNCHANGED vars
    <2>1. UNCHANGED << count, severity, trail >>
      BY Zenon, <1>4 DEF LevelMoves, HourPasses, MetricsSaved, SeasonsUpdated, vars
    <2> QED BY Zenon, <1>1, <2>1
  <1> QED BY Zenon, <1>2, <1>3, <1>4 DEF Next

(***************************************************************************)
(* What is returned of a series says how many of its latest readings were  *)
(* judged anomalous without another one between them: critical after       *)
(* Critical in a row, warning after fewer but Warning of them, whichever   *)
(* baseline judged them and however many readings were not judged at all.  *)
(***************************************************************************)
THEOREM SeverityOfARun == Spec => []SeverityIsSustained
  <1>1. TypeOK /\ TrailInv => SeverityIsSustained
    <2> SUFFICES ASSUME TypeOK, TrailInv, NEW k \in Index
                 PROVE  /\ severity[k] = "critical" => AllOf(trail[k], Critical)
                        /\ severity[k] = "warning" =>
                              AllOf(trail[k], Warning) /\ ~AllOf(trail[k], Critical)
                        /\ count[k] > 0 <=> AllOf(trail[k], 1)
      BY Zenon DEF SeverityIsSustained
    <2>1. /\ \A m \in 1..Critical : AllOf(trail[k], m) <=> m <= count[k]
          /\ SeverityOf(severity[k], count[k])
      BY Zenon DEF TrailInv, TrailOf
    <2>2. /\ Critical \in 1..Critical /\ Warning \in 1..Critical /\ 1 \in 1..Critical
          /\ count[k] \in Nat
      BY DetectorAssumption DEF TypeOK
    <2>3. /\ AllOf(trail[k], Critical) <=> Critical <= count[k]
          /\ AllOf(trail[k], Warning) <=> Warning <= count[k]
          /\ AllOf(trail[k], 1) <=> 1 <= count[k]
      BY Zenon, <2>1, <2>2
    <2>4. /\ severity[k] = "critical" => Critical <= count[k]
          /\ severity[k] = "warning" => Warning <= count[k] /\ ~(Critical <= count[k])
          /\ count[k] > 0 <=> 1 <= count[k]
      BY <2>1, <2>2, DetectorAssumption DEF SeverityOf
    <2> QED BY Zenon, <2>3, <2>4
  <1> QED BY <1>1, TrailInit, TrailStep, DetectorTypes, PTL DEF Spec
-----------------------------------------------------------------------------
(***************************************************************************)
(* Samples of which all, or all but one, have the same value: a reading of *)
(* that value is not anomalous among them.                                 *)
(***************************************************************************)
AllAt(q, x)  == \A n \in 1..Len(q) : q[n] = x
OneOff(q, x) == \A m, n \in 1..Len(q) : q[m] # x /\ q[n] # x => m = n

LEMMA FewAre ==
  ASSUME NEW L \in Nat, NEW S \in SUBSET (1..L)
  PROVE  /\ IsFiniteSet(S) /\ Cardinality(S) \in Nat
         /\ S = {} => Cardinality(S) = 0
         /\ (\A a, b \in S : a = b) => Cardinality(S) <= 1
         /\ \A j \in 1..L : S = (1..L) \ {j} => Cardinality(S) = L - 1
         /\ \A j \in 1..L : (1..L) \ {j} \subseteq S => Cardinality(S) >= L - 1
  <1>1. IsFiniteSet(1..L) /\ Cardinality(1..L) = L
    BY FS_Interval
  <1>2. IsFiniteSet(S) /\ Cardinality(S) \in Nat
    BY Zenon, <1>1, FS_Subset, FS_CardinalityType
  <1>3. S = {} => Cardinality(S) = 0
    BY FS_EmptySet
  <1>4. (\A a, b \in S : a = b) => Cardinality(S) <= 1
    <2>1. CASE S = {}
      BY <1>3, <2>1
    <2>2. CASE S # {} /\ \A a, b \in S : a = b
      <3>1. PICK a \in S : S = {a}
        BY <2>2
      <3>2. Cardinality({a}) = 1
        BY Zenon, FS_Singleton
      <3> QED BY <3>1, <3>2
    <2> QED BY <2>1, <2>2
  <1>5. \A j \in 1..L : IsFiniteSet((1..L) \ {j}) /\ Cardinality((1..L) \ {j}) = L - 1
    BY <1>1, FS_RemoveElement
  <1>6. ASSUME NEW j \in 1..L, (1..L) \ {j} \subseteq S PROVE Cardinality(S) >= L - 1
    <2>1. Cardinality((1..L) \ {j}) <= Cardinality(S)
      BY Zenon, <1>2, <1>6, FS_Subset
    <2> QED BY <1>2, <1>5, <2>1
  <1> QED BY Zenon, <1>2, <1>3, <1>4, <1>5, <1>6

LEMMA RankedOfOneValue ==
  ASSUME NEW q \in Seq(Int), NEW x \in Int, AllAt(q, x), NEW k \in 1..Len(q)
  PROVE  Ranked(q, k) = x
  <1>1. Len(q) \in Nat /\ \A n \in 1..Len(q) : q[n] = x
    BY DEF AllAt
  <1>2. {n \in 1..Len(q) : q[n] < x} = {} /\ {n \in 1..Len(q) : q[n] > x} = {}
    BY <1>1
  <1>3. Smaller(q, x) = 0 /\ Greater(q, x) = 0
    BY <1>2, FS_EmptySet DEF Smaller, Greater
  <1>4. x \in {q[n] : n \in 1..Len(q)} /\ \A y \in {q[n] : n \in 1..Len(q)} : y = x
    BY <1>1
  <1>5. Smaller(q, x) < k /\ k <= Len(q) - Greater(q, x)
    BY <1>1, <1>3
  <1> QED BY Zenon, <1>4, <1>5 DEF Ranked

LEMMA RankedOfMajority ==
  ASSUME NEW q \in Seq(Int), NEW x \in Int, OneOff(q, x), NEW k \in 2..Len(q) - 1
  PROVE  Ranked(q, k) = x
  <1> DEFINE L == Len(q)
             Off == {n \in 1..L : q[n] # x}
  <1>1. L \in Nat /\ L >= 3 /\ k \in Int /\ 2 <= k /\ k <= L - 1
    OBVIOUS
  <1>2. \A n \in 1..L : q[n] \in Int
    OBVIOUS
  <1>3. \A a, b \in Off : a = b
    BY DEF OneOff
  <1>4. x \in {q[n] : n \in 1..L}
    <2>1. 1 \in 1..L /\ 2 \in 1..L /\ 1 # 2
      BY <1>1
    <2> QED BY <1>3, <2>1
  <1>5. Smaller(q, x) < k /\ k <= L - Greater(q, x)
    <2>1. /\ {n \in 1..L : q[n] < x} \subseteq Off
          /\ {n \in 1..L : q[n] > x} \subseteq Off
      BY <1>2
    <2>2. /\ \A a, b \in {n \in 1..L : q[n] < x} : a = b
          /\ \A a, b \in {n \in 1..L : q[n] > x} : a = b
      BY Zenon, <1>3, <2>1
    <2>3. /\ Cardinality({n \in 1..L : q[n] < x}) \in Nat
          /\ Cardinality({n \in 1..L : q[n] < x}) <= 1
          /\ Cardinality({n \in 1..L : q[n] > x}) \in Nat
          /\ Cardinality({n \in 1..L : q[n] > x}) <= 1
      <3>1. /\ {n \in 1..L : q[n] < x} \in SUBSET (1..L)
            /\ {n \in 1..L : q[n] > x} \in SUBSET (1..L)
        OBVIOUS
      <3> HIDE DEF L
      <3> QED BY Zenon, <1>1, <2>2, <3>1, FewAre
    <2>4. Smaller(q, x) \in Nat /\ Smaller(q, x) <= 1 /\ Greater(q, x) \in Nat /\ Greater(q, x) <= 1
      BY Zenon, <2>3 DEF Smaller, Greater
    <2> QED BY <1>1, <2>4
  <1>6. ASSUME NEW y \in {q[n] : n \in 1..L}, y # x,
               Smaller(q, y) < k, k <= L - Greater(q, y)
        PROVE  FALSE
    <2>1. PICK j \in 1..L : q[j] = y
      OBVIOUS
    <2>2. \A n \in (1..L) \ {j} : q[n] = x
      BY <1>3, <1>6, <2>1
    <2>3. y \in Int
      BY <1>2, <2>1
    <2> HIDE DEF L
    <2>4. CASE y < x
      <3>1. (1..L) \ {j} \subseteq {n \in 1..L : q[n] > y}
        BY <2>2, <2>3, <2>4
      <3>2. {n \in 1..L : q[n] > y} \in SUBSET (1..L)
        OBVIOUS
      <3>3. /\ Cardinality({n \in 1..L : q[n] > y}) >= L - 1
            /\ Cardinality({n \in 1..L : q[n] > y}) \in Nat
        BY Zenon, <1>1, <2>1, <3>1, <3>2, FewAre
      <3>4. Greater(q, y) >= L - 1 /\ Greater(q, y) \in Nat
        BY Zenon, <3>3 DEF Greater, L
      <3> QED BY <1>1, <1>6, <3>4
    <2>5. CASE y > x
      <3>1. (1..L) \ {j} \subseteq {n \in 1..L : q[n] < y}
        BY <2>2, <2>3, <2>5
      <3>2. {n \in 1..L : q[n] < y} \in SUBSET (1..L)
        OBVIOUS
      <3>3. /\ Cardinality({n \in 1..L : q[n] < y}) >= L - 1
            /\ Cardinality({n \in 1..L : q[n] < y}) \in Nat
        BY Zenon, <1>1, <2>1, <3>1, <3>2, FewAre
      <3>4. Smaller(q, y) >= L - 1 /\ Smaller(q, y) \in Nat
        BY Zenon, <3>3 DEF Smaller, L
      <3> QED BY <1>1, <1>6, <3>4
    <2> QED BY <1>6, <2>3, <2>4, <2>5
  <1> QED BY Zenon, <1>4, <1>5, <1>6 DEF Ranked

\* Of two samples the smaller is the first and the other the second.
LEMMA RankedOfTwo ==
  ASSUME NEW q \in Seq(Int), Len(q) = 2, NEW lo \in Int, NEW hi \in Int, lo < hi,
         \/ q[1] = lo /\ q[2] = hi
         \/ q[1] = hi /\ q[2] = lo
  PROVE  Ranked(q, 1) = lo /\ Ranked(q, 2) = hi
  <1> DEFINE i == IF q[1] = lo THEN 1 ELSE 2
             j == IF q[1] = lo THEN 2 ELSE 1
  <1>1. /\ i \in 1..2 /\ j \in 1..2 /\ q[i] = lo /\ q[j] = hi
        /\ \A n \in 1..2 : n = i \/ n = j
    OBVIOUS
  <1> HIDE DEF i, j
  <1>2. /\ {n \in 1..Len(q) : q[n] < lo} = {} /\ {n \in 1..Len(q) : q[n] > hi} = {}
        /\ {n \in 1..Len(q) : q[n] > lo} = {j} /\ {n \in 1..Len(q) : q[n] < hi} = {i}
    BY <1>1
  <1>3. /\ Smaller(q, lo) = 0 /\ Greater(q, hi) = 0
        /\ Greater(q, lo) = 1 /\ Smaller(q, hi) = 1
    BY <1>2, FS_EmptySet, FS_Singleton DEF Smaller, Greater
  <1>4. /\ lo \in {q[n] : n \in 1..Len(q)} /\ hi \in {q[n] : n \in 1..Len(q)}
        /\ \A y \in {q[n] : n \in 1..Len(q)} : y = lo \/ y = hi
    BY <1>1
  <1>5. /\ Smaller(q, lo) < 1 /\ 1 <= Len(q) - Greater(q, lo) /\ ~(Smaller(q, hi) < 1)
        /\ Smaller(q, hi) < 2 /\ 2 <= Len(q) - Greater(q, hi) /\ ~(2 <= Len(q) - Greater(q, lo))
    BY <1>3
  <1>6. Ranked(q, 1) = lo
    BY Zenon, <1>4, <1>5 DEF Ranked
  <1>7. Ranked(q, 2) = hi
    BY Zenon, <1>4, <1>5 DEF Ranked
  <1> QED BY <1>6, <1>7

LEMMA MedianOfOneValue ==
  ASSUME NEW q \in Seq(Int), Len(q) >= 1, NEW x \in Int, AllAt(q, x)
  PROVE  Median(q) = x
  <1>1. (Len(q) + 1) \div 2 \in 1..Len(q) /\ Len(q) \div 2 + 1 \in 1..Len(q)
    OBVIOUS
  <1>2. Ranked(q, (Len(q) + 1) \div 2) = x /\ Ranked(q, Len(q) \div 2 + 1) = x
    BY Zenon, <1>1, RankedOfOneValue
  <1>3. (x + x) \div 2 = x
    OBVIOUS
  <1> QED BY Zenon, <1>2, <1>3 DEF Median

LEMMA MedianOfMajority ==
  ASSUME NEW q \in Seq(Int), Len(q) >= 3, NEW x \in Int, OneOff(q, x)
  PROVE  Median(q) = x
  <1>1. /\ (Len(q) + 1) \div 2 \in 2..Len(q) - 1 /\ Len(q) \div 2 + 1 \in 2..Len(q) - 1
    OBVIOUS
  <1>2. Ranked(q, (Len(q) + 1) \div 2) = x /\ Ranked(q, Len(q) \div 2 + 1) = x
    BY Zenon, <1>1, RankedOfMajority
  <1>3. (x + x) \div 2 = x
    OBVIOUS
  <1> QED BY Zenon, <1>2, <1>3 DEF Median

Distances(q, median) == [k \in 1..Len(q) |-> Distance(q[k], median)]

LEMMA DistancesOf ==
  ASSUME NEW q \in Seq(Int), NEW median \in Int
  PROVE  /\ Distances(q, median) \in Seq(Int) /\ Len(Distances(q, median)) = Len(q)
         /\ \A k \in 1..Len(q) : Distances(q, median)[k] = Distance(q[k], median)
         /\ \A k \in 1..Len(q) : Distances(q, median)[k] # 0 => q[k] # median
  <1>1. Len(q) \in Nat /\ \A k \in 1..Len(q) : q[k] \in Int
    OBVIOUS
  <1>2. \A k \in 1..Len(q) : /\ Distance(q[k], median) \in Int
                             /\ Distance(q[k], median) # 0 => q[k] # median
    BY <1>1 DEF Distance
  <1>3. Distances(q, median) \in Seq(Int) /\ Len(Distances(q, median)) = Len(q)
    BY <1>1, <1>2, IsASeq DEF Distances
  <1>4. \A k \in 1..Len(q) : Distances(q, median)[k] = Distance(q[k], median)
    BY Zenon DEF Distances
  <1> QED BY Zenon, <1>2, <1>3, <1>4

LEMMA ValuesAreIntegers == Values \subseteq Int /\ \A v \in Values : \E n \in Int : 4 * n = v
  <1> SUFFICES ASSUME NEW v \in Values PROVE v \in Int /\ \E n \in Int : 4 * n = v
    OBVIOUS
  <1>1. v \in Int /\ v % 4 = 0
    BY DetectorAssumption
  <1>2. v \div 4 \in Int /\ 4 * (v \div 4) = v
    BY <1>1
  <1> QED BY Zenon, <1>1, <1>2

LEMMA AtTheMedian ==
  ASSUME NEW v, NEW q, Median(q) = v, Mad(q) = 0
  PROVE  ~Anomalous(v, q)
  <1>1. ~Statistical(v, v, 0)
    BY DEF Statistical
  <1>2. ~Statistical(v, Median(q), Mad(q))
    BY <1>1
  <1> QED BY Zenon, <1>2 DEF Anomalous

LEMMA AsFarAsMost ==
  ASSUME NEW v, NEW q, NEW d \in Int, d > 0, Distance(v, Median(q)) = d, Mad(q) = d
  PROVE  ~Anomalous(v, q)
  <1>1. d # 0 /\ ~(6745 * d >= 30000 * d)
    OBVIOUS
  <1>2. ~Statistical(v, Median(q), Mad(q))
    <2> DEFINE m == Median(q)
    <2>1. Distance(v, m) = d
      OBVIOUS
    <2> HIDE DEF m
    <2>2. ~Statistical(v, m, d)
      BY <1>1, <2>1, SMTT(30) DEF Statistical
    <2> QED BY <2>2 DEF m
  <1> QED BY Zenon, <1>2 DEF Anomalous

\* Nothing is anomalous among its like ...
LEMMA NormalAmongEquals ==
  ASSUME NEW q \in Seq(Int), Len(q) >= 1, NEW x \in Int, AllAt(q, x)
  PROVE  ~Anomalous(x, q)
  <1>1. Median(q) = x
    BY Zenon, MedianOfOneValue
  <1>2. AllAt(Distances(q, x), 0)
    BY Zenon, DistancesOf DEF AllAt
  <1>3. Mad(q) = 0
    <2>1. 0 \in Int
      OBVIOUS
    <2>2. Median(Distances(q, x)) = 0
      <3>1. Distances(q, x) \in Seq(Int) /\ Len(Distances(q, x)) >= 1
        BY DistancesOf
      <3> QED BY Zenon, <1>2, <2>1, <3>1, MedianOfOneValue
    <2> QED BY Zenon, <1>1, <2>2 DEF Mad, Distances
  <1> QED BY Zenon, <1>1, <1>3, AtTheMedian

\* ... nor among samples of which one is off: from three on the one decides
\* neither the median nor the deviation, and of two it is as far from the
\* median as the other.
LEMMA NormalButForOne ==
  ASSUME NEW q \in Seq(Values), Len(q) >= 2, NEW x \in Values, OneOff(q, x)
  PROVE  ~Anomalous(x, q)
  <1>1. q \in Seq(Int) /\ x \in Int
    BY ValuesAreIntegers, SeqMonotonic
  <1>2. CASE Len(q) >= 3
    <2>1. Median(q) = x
      BY Zenon, <1>1, <1>2, MedianOfMajority
    <2>2. OneOff(Distances(q, x), 0)
      <3>1. /\ Len(Distances(q, x)) = Len(q)
            /\ \A k \in 1..Len(q) : Distances(q, x)[k] # 0 => q[k] # x
        BY Zenon, <1>1, DistancesOf
      <3> QED BY Zenon, <3>1 DEF OneOff
    <2>3. Mad(q) = 0
      <3>1. 0 \in Int
        OBVIOUS
      <3>2. Distances(q, x) \in Seq(Int) /\ Len(Distances(q, x)) >= 3
        BY <1>1, <1>2, DistancesOf
      <3>3. Median(Distances(q, x)) = 0
        BY Zenon, <2>2, <3>1, <3>2, MedianOfMajority
      <3> QED BY Zenon, <2>1, <3>3 DEF Mad, Distances
    <2> QED BY Zenon, <2>1, <2>3, AtTheMedian
  <1>3. CASE Len(q) = 2 /\ AllAt(q, x)
    <2>1. Len(q) >= 1
      BY <1>3
    <2> QED BY Zenon, <1>1, <1>3, <2>1, NormalAmongEquals
  <1>4. CASE Len(q) = 2 /\ ~AllAt(q, x)
    <2>1. PICK j \in 1..2 : q[j] # x /\ \A n \in 1..2 : n # j => q[n] = x
      BY <1>4 DEF AllAt, OneOff
    <2>2. q[j] \in Values
      BY <1>4, ElementOfSeq
    <2>3. PICK a \in Int, b \in Int : 4 * a = x /\ 4 * b = q[j]
      BY Zenon, <2>2, ValuesAreIntegers
    <2> DEFINE lo == IF x < q[j] THEN x ELSE q[j]
               hi == IF x < q[j] THEN q[j] ELSE x
               d  == IF a < b THEN 2 * (b - a) ELSE 2 * (a - b)
    <2>4. /\ lo \in Int /\ hi \in Int /\ lo < hi /\ q[j] \in Int
          /\ \/ q[1] = lo /\ q[2] = hi
             \/ q[1] = hi /\ q[2] = lo
      BY <1>1, <1>4, <2>1, <2>2, <2>3
    <2>5. Median(q) = 2 * (a + b)
      <3>1. Ranked(q, 1) = lo /\ Ranked(q, 2) = hi
        <4> HIDE DEF lo, hi
        <4> QED BY Zenon, <1>1, <1>4, <2>4, RankedOfTwo
      <3>2. (2 + 1) \div 2 = 1 /\ 2 \div 2 + 1 = 2
        OBVIOUS
      <3>3. Median(q) = (lo + hi) \div 2
        <4> HIDE DEF lo, hi
        <4> QED BY Zenon, <1>4, <3>1, <3>2 DEF Median
      <3>4. (lo + hi) \div 2 = 2 * (a + b)
        BY <1>1, <2>3
      <3> QED BY <3>3, <3>4
    <2>6. AllAt(Distances(q, 2 * (a + b)), d)
      <3>1. /\ Distance(x, 2 * (a + b)) = d /\ Distance(q[j], 2 * (a + b)) = d
        BY <1>1, <2>3 DEF Distance
      <3>2. \A k \in 1..2 : Distance(q[k], 2 * (a + b)) = d
        <4> HIDE DEF d
        <4> QED BY <2>1, <3>1
      <3>3. 2 * (a + b) \in Int
        BY <2>3
      <3> HIDE DEF d
      <3>4. /\ Len(Distances(q, 2 * (a + b))) = 2
            /\ \A k \in 1..2 : Distances(q, 2 * (a + b))[k] = Distance(q[k], 2 * (a + b))
        BY Zenon, <1>1, <1>4, <3>3, DistancesOf
      <3> QED BY Zenon, <3>2, <3>4 DEF AllAt
    <2>7. d \in Int /\ d > 0 /\ 2 * (a + b) \in Int
      BY <1>1, <2>1, <2>3
    <2>8. Mad(q) = d
      <3> HIDE DEF d
      <3>1. /\ Distances(q, 2 * (a + b)) \in Seq(Int) /\ Len(Distances(q, 2 * (a + b))) >= 1
        BY <1>1, <1>4, <2>7, DistancesOf
      <3>2. Median(Distances(q, 2 * (a + b))) = d
        BY Zenon, <2>6, <2>7, <3>1, MedianOfOneValue
      <3> QED BY Zenon, <2>5, <3>2 DEF Mad, Distances
    <2>9. Distance(x, 2 * (a + b)) = d
      BY <1>1, <2>3 DEF Distance
    <2> HIDE DEF d
    <2>10. Distance(x, Median(q)) = d
      BY Zenon, <2>5, <2>9
    <2> QED BY <2>7, <2>8, <2>10, AsFarAsMost
  <1>5. Len(q) >= 3 \/ Len(q) = 2
    <2>1. Len(q) \in Nat
      BY Zenon, LenProperties
    <2>2. \A n \in Nat : n >= 2 => n >= 3 \/ n = 2
      OBVIOUS
    <2> QED BY Zenon, <2>1, <2>2
  <1> QED BY Zenon, <1>2, <1>3, <1>4, <1>5
-----------------------------------------------------------------------------
(***************************************************************************)
(* What the writes do to samples that are all, or all but one, at a level. *)
(***************************************************************************)
LEMMA AllAtIsOneOff == \A q, x : AllAt(q, x) => OneOff(q, x)
  BY Zenon DEF AllAt, OneOff

LEMMA JoinedSamples ==
  ASSUME NEW T, NEW q \in Seq(T), NEW r \in Seq(T), NEW x
  PROVE  /\ AllAt(q, x) /\ AllAt(r, x) => AllAt(q \o r, x)
         /\ AllAt(q, x) /\ OneOff(r, x) => OneOff(q \o r, x)
         /\ OneOff(q, x) /\ AllAt(r, x) => OneOff(q \o r, x)
  <1>1. /\ Len(q) \in Nat /\ Len(r) \in Nat /\ Len(q \o r) = Len(q) + Len(r)
        /\ \A n \in 1..Len(q) : (q \o r)[n] = q[n]
        /\ \A n \in 1..Len(q \o r) : n \notin 1..Len(q) =>
              n - Len(q) \in 1..Len(r) /\ (q \o r)[n] = r[n - Len(q)]
    OBVIOUS
  <1> DEFINE j == q \o r
  <1> HIDE DEF j
  <1>2. ASSUME AllAt(q, x) PROVE \A n \in 1..Len(j) : j[n] # x => n \notin 1..Len(q)
    BY Zenon, <1>1, <1>2 DEF AllAt, j
  <1>3. ASSUME AllAt(r, x) PROVE \A n \in 1..Len(j) : j[n] # x => n \in 1..Len(q)
    BY Zenon, <1>1, <1>3 DEF AllAt, j
  <1>4. ASSUME AllAt(q, x), AllAt(r, x) PROVE AllAt(j, x)
    BY Zenon, <1>2, <1>3, <1>4 DEF AllAt
  <1>5. ASSUME AllAt(q, x), OneOff(r, x), NEW m \in 1..Len(j), NEW n \in 1..Len(j),
               j[m] # x, j[n] # x
        PROVE  m = n
    <2>1. /\ m - Len(q) \in 1..Len(r) /\ r[m - Len(q)] # x
          /\ n - Len(q) \in 1..Len(r) /\ r[n - Len(q)] # x
      BY Zenon, <1>1, <1>2, <1>5 DEF j
    <2>2. m - Len(q) = n - Len(q)
      BY Zenon, <1>5, <2>1 DEF OneOff
    <2>3. m \in Int /\ n \in Int
      OBVIOUS
    <2> QED BY <1>1, <2>2, <2>3
  <1>6. ASSUME OneOff(q, x), AllAt(r, x), NEW m \in 1..Len(j), NEW n \in 1..Len(j),
               j[m] # x, j[n] # x
        PROVE  m = n
    <2>1. m \in 1..Len(q) /\ n \in 1..Len(q) /\ q[m] # x /\ q[n] # x
      BY Zenon, <1>1, <1>3, <1>6 DEF j
    <2> QED BY Zenon, <1>6, <2>1 DEF OneOff
  <1> QED BY Zenon, <1>4, <1>5, <1>6 DEF OneOff, j

LEMMA LatestSamples ==
  ASSUME NEW T, NEW q \in Seq(T), NEW x
  PROVE  /\ AllAt(q, x) => AllAt(LastOnes(q), x)
         /\ OneOff(q, x) => OneOff(LastOnes(q), x)
  <1> DEFINE r == LastOnes(q)
             d == Len(q) - Len(LastOnes(q))
  <1>1. /\ r \in Seq(T) /\ \A n \in 1..Len(r) : n + d \in 1..Len(q) /\ r[n] = q[n + d]
    BY Zenon, LastOnesOf
  <1>2. d \in Int
    BY <1>1
  <1> HIDE DEF r, d
  <1>3. \A m, n \in 1..Len(r) : m + d = n + d => m = n
    BY <1>2
  <1> QED BY Zenon, <1>1, <1>3 DEF AllAt, OneOff, r

ValuesOf(h) == [n \in 1..Len(h) |-> h[n].value]

LEMMA SamplesAre == \A k : Samples(k) = ValuesOf(history[k])
  BY Zenon DEF Samples, ValuesOf

LEMMA ValuesOfHistory ==
  ASSUME NEW h \in Seq(Readings)
  PROVE  /\ ValuesOf(h) \in Seq(Values) /\ Len(ValuesOf(h)) = Len(h)
         /\ \A n \in 1..Len(h) : ValuesOf(h)[n] = h[n].value
  <1>1. \A n \in 1..Len(h) : h[n].value \in Values
    <2> SUFFICES ASSUME NEW n \in 1..Len(h) PROVE h[n].value \in Values
      OBVIOUS
    <2>1. h[n] \in Readings
      BY ElementOfSeq
    <2> QED BY <2>1 DEF Readings
  <1>2. Len(h) \in Nat
    OBVIOUS
  <1>3. ValuesOf(h) \in Seq(Values) /\ Len(ValuesOf(h)) = Len(h)
    BY <1>1, <1>2, IsASeq DEF ValuesOf
  <1>4. \A n \in 1..Len(h) : ValuesOf(h)[n] = h[n].value
    BY Zenon DEF ValuesOf
  <1> QED BY Zenon, <1>3, <1>4

LEMMA OlderSamples ==
  ASSUME NEW h \in Seq(Readings), NEW x
  PROVE  /\ AllAt(ValuesOf(h), x) => AllAt(ValuesOf(Older(h)), x)
         /\ OneOff(ValuesOf(h), x) => OneOff(ValuesOf(Older(h)), x)
  <1>1. /\ Older(h) \in Seq(Readings)
        /\ \A m, n \in 1..Len(Older(h)) : \E o, p \in 1..Len(h) :
              /\ Older(h)[m].value = h[o].value /\ Older(h)[n].value = h[p].value
              /\ o = p => m = n
    BY Zenon, OlderTypes
  <1>2. /\ Len(ValuesOf(h)) = Len(h) /\ \A n \in 1..Len(h) : ValuesOf(h)[n] = h[n].value
    BY Zenon, ValuesOfHistory
  <1>3. /\ Len(ValuesOf(Older(h))) = Len(Older(h))
        /\ \A n \in 1..Len(Older(h)) : ValuesOf(Older(h))[n] = Older(h)[n].value
    BY Zenon, <1>1, ValuesOfHistory
  <1>4. ASSUME NEW m \in 1..Len(Older(h)), NEW n \in 1..Len(Older(h))
        PROVE  \E o, p \in 1..Len(h) :
                  /\ ValuesOf(Older(h))[m] = ValuesOf(h)[o]
                  /\ ValuesOf(Older(h))[n] = ValuesOf(h)[p]
                  /\ o = p => m = n
    <2>1. PICK o \in 1..Len(h), p \in 1..Len(h) :
             /\ Older(h)[m].value = h[o].value /\ Older(h)[n].value = h[p].value
             /\ o = p => m = n
      BY Zenon, <1>1
    <2>2. /\ ValuesOf(Older(h))[m] = ValuesOf(h)[o]
          /\ ValuesOf(Older(h))[n] = ValuesOf(h)[p]
      BY Zenon, <1>2, <1>3, <2>1
    <2> QED BY Zenon, <2>1, <2>2
  <1>5. ASSUME AllAt(ValuesOf(h), x), NEW n \in 1..Len(Older(h))
        PROVE  ValuesOf(Older(h))[n] = x
    <2>1. PICK o \in 1..Len(h) : ValuesOf(Older(h))[n] = ValuesOf(h)[o]
      BY Zenon, <1>4
    <2> QED BY Zenon, <1>2, <1>5, <2>1 DEF AllAt
  <1>6. ASSUME OneOff(ValuesOf(h), x), NEW m \in 1..Len(Older(h)), NEW n \in 1..Len(Older(h)),
               ValuesOf(Older(h))[m] # x, ValuesOf(Older(h))[n] # x
        PROVE  m = n
    <2>1. PICK o \in 1..Len(h), p \in 1..Len(h) :
             /\ ValuesOf(Older(h))[m] = ValuesOf(h)[o]
             /\ ValuesOf(Older(h))[n] = ValuesOf(h)[p]
             /\ o = p => m = n
      BY Zenon, <1>4
    <2> QED BY Zenon, <1>2, <1>6, <2>1 DEF OneOff
  <1>7. AllAt(ValuesOf(h), x) => AllAt(ValuesOf(Older(h)), x)
    BY Zenon, <1>3, <1>5 DEF AllAt
  <1>8. OneOff(ValuesOf(h), x) => OneOff(ValuesOf(Older(h)), x)
    BY Zenon, <1>3, <1>6 DEF OneOff
  <1> QED BY Zenon, <1>7, <1>8

LEMMA AppendedSample ==
  ASSUME NEW h \in Seq(Readings), NEW v \in Values, NEW x
  PROVE  LET after == ValuesOf(Append(h, [value |-> v, age |-> 0]))
         IN  /\ AllAt(ValuesOf(h), x) /\ v = x => AllAt(after, x)
             /\ AllAt(ValuesOf(h), x) => OneOff(after, x)
             /\ OneOff(ValuesOf(h), x) /\ v = x => OneOff(after, x)
  <1> DEFINE r == [value |-> v, age |-> 0]
             g == Append(h, r)
  <1>1. r \in Readings /\ r.value = v
    BY DetectorAssumption DEF Readings
  <1> HIDE DEF r
  <1>2. /\ g \in Seq(Readings) /\ Len(g) = Len(h) + 1 /\ Len(h) \in Nat
        /\ g[Len(g)] = r /\ \A n \in 1..Len(h) : g[n] = h[n]
    BY <1>1
  <1> HIDE DEF g
  <1>3. \A n \in 1..Len(g) : n \notin 1..Len(h) => n = Len(g)
    BY <1>2
  <1>4. /\ Len(ValuesOf(h)) = Len(h) /\ \A n \in 1..Len(h) : ValuesOf(h)[n] = h[n].value
        /\ Len(ValuesOf(g)) = Len(g) /\ \A n \in 1..Len(g) : ValuesOf(g)[n] = g[n].value
    BY Zenon, <1>2, ValuesOfHistory
  <1>5. \A n \in 1..Len(g) : \/ n = Len(g) /\ ValuesOf(g)[n] = v
                             \/ n \in 1..Len(h) /\ ValuesOf(g)[n] = ValuesOf(h)[n]
    BY Zenon, <1>1, <1>2, <1>3, <1>4
  <1>6. /\ AllAt(ValuesOf(h), x) /\ v = x => AllAt(ValuesOf(g), x)
        /\ AllAt(ValuesOf(h), x) => OneOff(ValuesOf(g), x)
        /\ OneOff(ValuesOf(h), x) /\ v = x => OneOff(ValuesOf(g), x)
    BY Zenon, <1>4, <1>5 DEF AllAt, OneOff
  <1> QED BY Zenon, <1>6 DEF g, r

LEMMA NewSamples ==
  ASSUME NEW key, NEW x
  PROVE  /\ (\A j \in Index : Shared[j] = key /\ batch[j] # NoReading => batch[j] = x)
               => AllAt(New(key), x)
         /\ (\A i, j \in Index : /\ Shared[i] = key /\ batch[i] # NoReading /\ batch[i] # x
                                 /\ Shared[j] = key /\ batch[j] # NoReading /\ batch[j] # x
                                 => i = j)
               => OneOff(New(key), x)
  <1> DEFINE read == {k \in Index : Shared[k] = key /\ batch[k] # NoReading}
             new  == Chosen(batch, read)
  <1>1. read \in SUBSET (1..Len(Series)) /\ Len(Series) \in Nat
    BY DetectorAssumption DEF Index
  <1>2. \A j \in read : j \in Index /\ Shared[j] = key /\ batch[j] # NoReading
    BY Zenon
  <1> HIDE DEF read
  <1>3. /\ Len(new) = Cardinality(read)
        /\ \A n \in 1..Cardinality(read) : new[n] = batch[Nth(read, n)] /\ Nth(read, n) \in read
        /\ \A m, n \in 1..Cardinality(read) : Nth(read, m) = Nth(read, n) => m = n
    BY Zenon, <1>1, ChosenElements
  <1> HIDE DEF new
  <1>4. ASSUME \A j \in Index : Shared[j] = key /\ batch[j] # NoReading => batch[j] = x
        PROVE  AllAt(new, x)
    BY Zenon, <1>2, <1>3, <1>4 DEF AllAt
  <1>5. ASSUME \A i, j \in Index : /\ Shared[i] = key /\ batch[i] # NoReading /\ batch[i] # x
                                   /\ Shared[j] = key /\ batch[j] # NoReading /\ batch[j] # x
                                   => i = j
        PROVE  OneOff(new, x)
    <2> SUFFICES ASSUME NEW m \in 1..Cardinality(read), NEW n \in 1..Cardinality(read),
                        new[m] # x, new[n] # x
                 PROVE  m = n
      BY Zenon, <1>3 DEF OneOff
    <2>1. Nth(read, m) = Nth(read, n)
      BY Zenon, <1>2, <1>3, <1>5
    <2> QED BY Zenon, <1>3, <2>1
  <1>6. New(key) = new
    BY Zenon DEF New, new, read
  <1> QED BY Zenon, <1>4, <1>5, <1>6
-----------------------------------------------------------------------------
(***************************************************************************)
(* A bucket that was updated in two weeks has two samples.                 *)
(***************************************************************************)
Hours == 0..Slots - 1

GrownWith(samples, weeks) == Len(samples) >= 2 \/ Len(samples) >= weeks

GrownInv ==
    \A b \in Keys \X Hours : GrownWith(bucket[b].samples, bucket[b].weeks)

LEMMA GrownInit == Init => GrownInv
  <1> SUFFICES ASSUME Init, NEW b \in Keys \X Hours
               PROVE  GrownWith(bucket[b].samples, bucket[b].weeks)
    BY Zenon DEF GrownInv
  <1>1. bucket[b] = NoBucket
    BY Zenon DEF Init, Hours
  <1> QED BY <1>1 DEF NoBucket, GrownWith

LEMMA GrownStep ==
  ASSUME MaxSamples >= 2
  PROVE  TypeOK /\ GrownInv /\ [Next]_vars => GrownInv'
  <1> SUFFICES ASSUME TypeOK, GrownInv, [Next]_vars, NEW b \in Keys \X Hours
               PROVE  GrownWith(bucket'[b].samples, bucket'[b].weeks)
    BY Zenon DEF GrownInv, GrownWith, Keys, Index, Hours
  <1>0. /\ bucket[b] \in Buckets /\ b \in DOMAIN bucket
        /\ batch \in [Index -> Values \cup {NoReading}]
    BY DEF TypeOK, Hours
  <1>1. /\ bucket[b].samples \in Seq(Values) /\ bucket[b].weeks \in 0..MinWeeks
        /\ GrownWith(bucket[b].samples, bucket[b].weeks)
    BY <1>0 DEF Buckets, GrownInv
  <1>2. CASE HourPasses
    <2>1. bucket'[b] = bucket[b] \/ bucket'[b] = [bucket[b] EXCEPT !.last = "earlier"]
      BY Zenon, <1>0, <1>2 DEF HourPasses
    <2>2. bucket'[b].samples = bucket[b].samples /\ bucket'[b].weeks = bucket[b].weeks
      BY Zenon, <1>0, <2>1, EarlierBucket
    <2> QED BY Zenon, <1>1, <2>2
  <1>3. CASE SeasonsUpdated
    <2>1. \/ bucket'[b] = bucket[b]
          \/ bucket'[b] = Updated(b[1], bucket[b]) /\ New(b[1]) # << >>
      <3> DEFINE touched == {key \in Keys : New(key) # << >>} \X {slot}
      <3>1. \/ bucket'[b] = IF b \in touched THEN Updated(b[1], bucket[b]) ELSE bucket[b]
            \/ bucket'[b] = bucket[b]
        BY Zenon, <1>0, <1>3 DEF SeasonsUpdated
      <3>2. b \in touched => New(b[1]) # << >>
        OBVIOUS
      <3> HIDE DEF touched
      <3> QED BY Zenon, <3>1, <3>2
    <2>2. CASE bucket'[b] = bucket[b]
      BY Zenon, <1>1, <2>2
    <2>3. CASE bucket'[b] = Updated(b[1], bucket[b]) /\ New(b[1]) # << >>
      <3> DEFINE old == bucket[b].samples
                 new == New(b[1])
      <3>1. /\ Updated(b[1], bucket[b]).samples = LastOnes(old \o new)
            /\ Updated(b[1], bucket[b]).weeks =
                  IF bucket[b].last # "this" /\ bucket[b].weeks < MinWeeks
                  THEN bucket[b].weeks + 1 ELSE bucket[b].weeks
        BY Zenon, <1>0, UpdatedTypes
      <3>2. new \in Seq(Values) /\ old \in Seq(Values)
        BY Zenon, <1>0, <1>1, NewTypes
      <3>3. new # << >>
        BY Zenon, <2>3
      <3> HIDE DEF old, new
      <3>4. /\ old \o new \in Seq(Values) /\ Len(old \o new) = Len(old) + Len(new)
            /\ Len(new) \in Nat /\ Len(new) >= 1 /\ Len(old) \in Nat
        BY <3>2, <3>3
      <3>5. Len(LastOnes(old \o new)) = IF Len(old \o new) > MaxSamples THEN MaxSamples
                                        ELSE Len(old \o new)
        BY Zenon, <3>4, LastOnesOf
      <3>6. Len(old) >= 2 \/ Len(old) >= bucket[b].weeks
        BY Zenon, <1>1 DEF GrownWith, old
      <3>7. /\ Updated(b[1], bucket[b]).weeks <= bucket[b].weeks + 1
            /\ Updated(b[1], bucket[b]).weeks \in Int
        BY <1>1, <3>1
      <3>8. \/ Len(LastOnes(old \o new)) >= 2
            \/ Len(LastOnes(old \o new)) >= Updated(b[1], bucket[b]).weeks
        BY <1>1, <3>4, <3>5, <3>6, <3>7, DetectorAssumption
      <3> QED BY Zenon, <2>3, <3>1, <3>8 DEF GrownWith
    <2> QED BY Zenon, <2>1, <2>2, <2>3
  <1>4. CASE \/ \E k \in Index, v \in Values : LevelMoves(k, v)
             \/ Cycle \/ MetricsSaved \/ Restarts \/ UNCHANGED vars
    <2>1. UNCHANGED bucket
      BY Zenon, <1>4 DEF LevelMoves, Cycle, MetricsSaved, Restarts, vars
    <2> QED BY Zenon, <1>1, <2>1
  <1> QED BY Zenon, <1>2, <1>3, <1>4 DEF Next

\* The samples a reading is judged by are those of its history, or those of a
\* bucket, and are two at least.
SeasonOf(k, h) == bucket[<< Shared[k], h >>].samples

LEMMA BaselineIs ==
  ASSUME TypeOK, GrownInv, MinWeeks >= 2, NEW k \in Index, NEW at \in SUBSET Hours,
         \A g, h \in at : g = h, Baseline(k, at) # << >>
  PROVE  /\ Baseline(k, at) \in Seq(Values) /\ Len(Baseline(k, at)) >= 2
         /\ \/ Baseline(k, at) = Samples(k)
            \/ \E h \in Hours : Baseline(k, at) = SeasonOf(k, h)
  <1>1. CASE Trusted(k, at)
    <2>1. PICK h \in at : bucket[<< Shared[k], h >>].weeks >= MinWeeks
      BY Zenon, <1>1 DEF Trusted
    <2>2. h \in Hours /\ (CHOOSE g \in at : TRUE) = h
      BY Zenon, <2>1
    <2>3. Baseline(k, at) = SeasonOf(k, h)
      BY Zenon, <1>1, <2>2 DEF Baseline, SeasonOf
    <2>4. << Shared[k], h >> \in Keys \X Hours
      BY <2>2 DEF Keys
    <2>5. bucket[<< Shared[k], h >>] \in Buckets
      BY Zenon, <2>4 DEF TypeOK, Hours
    <2>6. /\ SeasonOf(k, h) \in Seq(Values)
          /\ bucket[<< Shared[k], h >>].weeks \in Int
      BY <2>5, DetectorAssumption DEF Buckets, SeasonOf
    <2>7. Len(SeasonOf(k, h)) >= 2 \/ Len(SeasonOf(k, h)) >= bucket[<< Shared[k], h >>].weeks
      BY Zenon, <2>4 DEF GrownInv, GrownWith, SeasonOf
    <2>8. Len(SeasonOf(k, h)) >= 2
      BY <2>1, <2>6, <2>7, DetectorAssumption
    <2> QED BY Zenon, <2>2, <2>3, <2>6, <2>8
  <1>2. CASE ~Trusted(k, at)
    <2>1. Baseline(k, at) = Samples(k) /\ Len(history[k]) >= MinSamples
      BY Zenon, <1>2 DEF Baseline
    <2>2. history[k] \in Seq(Readings)
      BY DEF TypeOK, Readings
    <2>3. Samples(k) \in Seq(Values) /\ Len(Samples(k)) = Len(history[k])
      BY Zenon, <2>2, ValuesOfHistory, SamplesAre
    <2>4. Len(history[k]) >= 2
      BY <2>1, <2>2, DetectorAssumption
    <2> QED BY Zenon, <2>1, <2>3, <2>4
  <1> QED BY Zenon, <1>1, <1>2

Marred(k) ==
    /\ OneOff(ValuesOf(history[k]), level[k])
    /\ \A h \in Hours : OneOff(SeasonOf(k, h), level[k])

\* With one sample off at most, a reading at the level ends a run; a first
\* anomalous reading is not reported.
LEMMA EvaluatedAtLevel ==
  ASSUME TypeOK, GrownInv, MinWeeks >= 2, NEW k \in Index, NEW at \in SUBSET Hours,
         \A g, h \in at : g = h, NEW readings, Evaluate(at, readings),
         readings[k] = NoReading \/ readings[k] = level[k], Marred(k), count[k] <= 1
  PROVE  /\ count[k] = 0 => count'[k] = 0
         /\ count'[k] <= 1 /\ severity'[k] = "none"
  <1>1. Outcome(k, at, readings)
    BY Zenon, Evaluated
  <1>2. /\ count[k] \in Nat /\ Critical \in Nat /\ Critical >= 1
    BY DetectorAssumption DEF TypeOK
  <1>3. Followed(count[k]) = count[k] /\ Followed(0) = 0 /\ ~(0 > 0) /\ 0 <= 1
    BY <1>2 DEF Followed
  <1>4. CASE ~Judged(k, at, readings)
    BY Zenon, <1>1, <1>3, <1>4 DEF Outcome
  <1>5. CASE Judged(k, at, readings)
    <2>1. readings[k] = level[k] /\ Baseline(k, at) # << >>
      BY Zenon, <1>5 DEF Judged
    <2>2. /\ Baseline(k, at) \in Seq(Values) /\ Len(Baseline(k, at)) >= 2
          /\ \/ Baseline(k, at) = Samples(k)
             \/ \E h \in Hours : Baseline(k, at) = SeasonOf(k, h)
      BY Zenon, <2>1, BaselineIs
    <2>3. OneOff(Baseline(k, at), level[k])
      BY Zenon, <2>2, SamplesAre DEF Marred
    <2>4. level[k] \in Values
      BY DEF TypeOK
    <2>5. ~Anomalous(level[k], Baseline(k, at))
      BY Zenon, <2>2, <2>3, <2>4, NormalButForOne
    <2>6. ~Verdict(k, at, readings)
      BY Zenon, <2>1, <2>5 DEF Verdict
    <2>7. count'[k] = 0
      BY Zenon, <1>1, <1>3, <1>5, <2>6 DEF Outcome
    <2>8. severity'[k] = "none"
      BY Zenon, <1>1, <1>3, <1>5, <2>7 DEF Outcome
    <2> QED BY Zenon, <1>3, <2>7, <2>8
  <1> QED BY Zenon, <1>4, <1>5

LEMMA EvaluatedFirst ==
  ASSUME TypeOK, Warning >= 2, NEW k \in Index, NEW at, NEW readings,
         Evaluate(at, readings), count[k] = 0
  PROVE  count'[k] <= 1 /\ severity'[k] = "none"
  <1>1. Outcome(k, at, readings)
    BY Zenon, Evaluated
  <1>2. Followed(0) = 0 /\ Followed(0 + 1) = 1 /\ 0 <= 1 /\ 1 <= 1
    BY DetectorAssumption DEF Followed
  <1>3. Returned(0) = "none" /\ Returned(1) = "none"
    BY DetectorAssumption DEF Returned
  <1>4. count'[k] = 0 \/ count'[k] = 1
    <2>1. count'[k] = Followed(0) \/ count'[k] = Followed(0 + 1)
      BY Zenon, <1>1 DEF Outcome
    <2> QED BY Zenon, <1>2, <2>1
  <1>5. severity'[k] = "none" \/ severity'[k] = Returned(count'[k])
    BY Zenon, <1>1 DEF Outcome
  <1> QED BY Zenon, <1>2, <1>3, <1>4, <1>5
-----------------------------------------------------------------------------
(***************************************************************************)
(* While no level has moved, and for a series that shares its bucket with  *)
(* none at another level: before the spike everything is at the level;     *)
(* after it one sample of the history and one of the buckets may be off.   *)
(* Until the spike is written, all that is stored is at the level.         *)
(***************************************************************************)
Off(j) == batch[j] # NoReading /\ batch[j] # level[j]

NoneOff(k) ==
    /\ count[k] = 0 /\ AllAt(ValuesOf(history[k]), level[k])
    /\ \A h \in Hours : AllAt(SeasonOf(k, h), level[k])
    /\ \A j \in Index : ~Off(j)

OnceOff(k) ==
    /\ count[k] <= 1 /\ OneOff(ValuesOf(history[k]), level[k])
    /\ \A h \in Hours : OneOff(SeasonOf(k, h), level[k])
    /\ \A i, j \in Index : Off(i) /\ Off(j) => i = j
    /\ \A j \in Index : Off(j) /\ Shared[j] = Shared[k] =>
          \A h \in Hours : AllAt(SeasonOf(k, h), level[k])
    /\ stage = "saving" /\ Off(k) => AllAt(ValuesOf(history[k]), level[k])

SpikeInv ==
    \A k \in Index : moves = 0 /\ OneLevel(k) =>
        /\ spikes = 0 => NoneOff(k)
        /\ spikes = 1 => OnceOff(k)
        /\ spikes = 0 \/ spikes = 1 => severity[k] = "none"

LEMMA SpikeInit == Init => SpikeInv
  <1> SUFFICES ASSUME Init, NEW k \in Index PROVE NoneOff(k) /\ spikes # 1 /\ severity[k] = "none"
    BY Zenon DEF SpikeInv
  <1>1. spikes = 0 /\ 0 # 1
    BY DEF Init
  <1>2. /\ count[k] = 0 /\ severity[k] = "none" /\ history[k] = << >>
        /\ \A j \in Index : batch[j] = NoReading
    BY Zenon DEF Init, NoBatch
  <1>3. \A x : AllAt(ValuesOf(<< >>), x) /\ AllAt(<< >>, x)
    BY DEF AllAt, ValuesOf
  <1>4. \A h \in Hours : SeasonOf(k, h) = << >>
    <2> SUFFICES ASSUME NEW h \in Hours PROVE SeasonOf(k, h) = << >>
      OBVIOUS
    <2>1. << Shared[k], h >> \in Keys \X (0..Slots - 1)
      BY DEF Keys, Hours
    <2>2. bucket[<< Shared[k], h >>] = NoBucket
      BY Zenon, <2>1 DEF Init
    <2> QED BY <2>2 DEF SeasonOf, NoBucket
  <1>5. AllAt(ValuesOf(history[k]), level[k])
    BY Zenon, <1>2, <1>3
  <1>6. \A h \in Hours : AllAt(SeasonOf(k, h), level[k])
    BY Zenon, <1>3, <1>4
  <1> QED BY Zenon, <1>1, <1>2, <1>5, <1>6 DEF NoneOff, Off

Before(k) ==
    /\ spikes = 0 => NoneOff(k)
    /\ spikes = 1 => OnceOff(k)
    /\ spikes = 0 \/ spikes = 1 => severity[k] = "none"

LEMMA SpikeBatchGone ==
  ASSUME NEW k \in Index, Before(k), batch' = NoBatch,
         UNCHANGED << level, spikes, history, bucket >>,
         \/ UNCHANGED << count, severity >>
         \/ count'[k] = 0 /\ severity'[k] = "none"
  PROVE  Before(k)'
  <1>1. \A j \in Index : batch'[j] = NoReading
    BY Zenon DEF NoBatch
  <1>2. 0 <= 1
    OBVIOUS
  <1>3. spikes = 0 => NoneOff(k)'
    BY Zenon, <1>1 DEF Before, NoneOff, Off, SeasonOf, ValuesOf, AllAt, Index, Hours
  <1>4. ASSUME OnceOff(k) PROVE OnceOff(k)'
    <2>1. /\ count'[k] <= 1 /\ OneOff(ValuesOf(history'[k]), level'[k])
          /\ \A h \in Hours : OneOff(bucket'[<< Shared[k], h >>].samples, level'[k])
      BY Zenon, <1>2, <1>4 DEF OnceOff, SeasonOf
    <2>2. \A j \in Index : ~Off(j)'
      BY Zenon, <1>1 DEF Off
    <2> QED BY Zenon, <2>1, <2>2 DEF OnceOff, SeasonOf, ValuesOf, AllAt, OneOff, Index, Hours
  <1> QED BY Zenon, <1>3, <1>4 DEF Before

LEMMA SpikeHour ==
  ASSUME TypeOK, NEW k \in Index, Before(k), HourPasses
  PROVE  Before(k)'
  <1>1. UNCHANGED << level, spikes, count, severity, batch, stage >>
    BY Zenon DEF HourPasses, world
  <1>2. history'[k] = Older(history[k]) /\ history[k] \in Seq(Readings)
    BY Zenon DEF HourPasses, TypeOK, Readings
  <1>3. \A x : /\ AllAt(ValuesOf(history[k]), x) => AllAt(ValuesOf(history'[k]), x)
               /\ OneOff(ValuesOf(history[k]), x) => OneOff(ValuesOf(history'[k]), x)
    BY Zenon, <1>2, OlderSamples
  <1>4. \A h \in Hours : bucket'[<< Shared[k], h >>].samples = bucket[<< Shared[k], h >>].samples
    <2> SUFFICES ASSUME NEW h \in Hours
                 PROVE bucket'[<< Shared[k], h >>].samples = bucket[<< Shared[k], h >>].samples
      OBVIOUS
    <2> DEFINE b == << Shared[k], h >>
    <2>1. b \in Keys \X (0..Slots - 1)
      BY DEF Keys, Hours
    <2> HIDE DEF b
    <2>2. bucket[b] \in Buckets /\ b \in DOMAIN bucket
      BY <2>1 DEF TypeOK
    <2>3. bucket'[b] = bucket[b] \/ bucket'[b] = [bucket[b] EXCEPT !.last = "earlier"]
      BY Zenon, <2>2 DEF HourPasses
    <2>4. bucket'[b].samples = bucket[b].samples
      BY Zenon, <2>2, <2>3, EarlierBucket
    <2> QED BY Zenon, <2>4 DEF b
  <1>5. ASSUME NoneOff(k) PROVE NoneOff(k)'
    <2>1. /\ count[k] = 0 /\ AllAt(ValuesOf(history[k]), level[k])
          /\ \A h \in Hours : AllAt(bucket[<< Shared[k], h >>].samples, level[k])
          /\ \A j \in Index : ~(batch[j] # NoReading /\ batch[j] # level[j])
      BY Zenon, <1>5 DEF NoneOff, SeasonOf, Off
    <2>2. /\ count'[k] = 0 /\ AllAt(ValuesOf(history'[k]), level'[k])
          /\ \A h \in Hours : AllAt(bucket'[<< Shared[k], h >>].samples, level'[k])
          /\ \A j \in Index : ~(batch'[j] # NoReading /\ batch'[j] # level'[j])
      BY Zenon, <1>1, <1>3, <1>4, <2>1
    <2> QED BY Zenon, <2>2 DEF NoneOff, SeasonOf, Off, ValuesOf, AllAt, Index, Hours
  <1>6. ASSUME OnceOff(k) PROVE OnceOff(k)'
    <2>1. /\ count[k] <= 1 /\ OneOff(ValuesOf(history[k]), level[k])
          /\ \A h \in Hours : OneOff(bucket[<< Shared[k], h >>].samples, level[k])
          /\ \A i, j \in Index : Off(i) /\ Off(j) => i = j
          /\ \A j \in Index : Off(j) /\ Shared[j] = Shared[k] =>
                \A h \in Hours : AllAt(bucket[<< Shared[k], h >>].samples, level[k])
          /\ stage = "saving" /\ Off(k) => AllAt(ValuesOf(history[k]), level[k])
      BY Zenon, <1>6 DEF OnceOff, SeasonOf
    <2>2. \A j \in Index : Off(j)' <=> Off(j)
      BY Zenon, <1>1 DEF Off
    <2>3. /\ count'[k] <= 1 /\ OneOff(ValuesOf(history'[k]), level'[k])
          /\ \A h \in Hours : OneOff(bucket'[<< Shared[k], h >>].samples, level'[k])
          /\ \A i, j \in Index : Off(i)' /\ Off(j)' => i = j
          /\ \A j \in Index : Off(j)' /\ Shared[j] = Shared[k] =>
                \A h \in Hours : AllAt(bucket'[<< Shared[k], h >>].samples, level'[k])
          /\ stage' = "saving" /\ Off(k)' => AllAt(ValuesOf(history'[k]), level'[k])
      BY Zenon, <1>1, <1>3, <1>4, <2>1, <2>2
    <2> QED BY Zenon, <2>3 DEF OnceOff, SeasonOf, ValuesOf, AllAt, OneOff, Index, Hours
  <1> QED BY Zenon, <1>1, <1>5, <1>6 DEF Before

LEMMA SpikeCycle ==
  ASSUME TypeOK, GrownInv, MinWeeks >= 2, Warning >= 2, NEW k \in Index, Before(k), Cycle
  PROVE  Before(k)'
  <1>1. UNCHANGED << level, history, bucket >>
    BY Zenon, CycleReads
  <1>2. PICK at, readings : Reads(at, readings)
    BY Zenon, CycleReads
  <1>3. /\ at \in SUBSET Hours /\ \A g, h \in at : g = h
        /\ Evaluate(at, readings) /\ batch' = readings
    BY Zenon, <1>2 DEF Reads, Hours, Evaluate
  <1>4. \A j \in Index : Off(j)' <=> readings[j] # NoReading /\ readings[j] # level[j]
    BY Zenon, <1>1, <1>3 DEF Off
  <1>5. spikes \in Nat /\ 0 <= 1
    BY DEF TypeOK
  <1>6. CASE spikes' = spikes /\ AtLevels(readings)
    <2>1. \A j \in Index : ~Off(j)'
      BY Zenon, <1>4, <1>6 DEF AtLevels
    <2>2. readings[k] = NoReading \/ readings[k] = level[k]
      BY Zenon, <1>6 DEF AtLevels
    <2>3. ASSUME NoneOff(k) PROVE NoneOff(k)' /\ severity'[k] = "none"
      <3>1. Marred(k) /\ count[k] = 0
        BY Zenon, <2>3, AllAtIsOneOff DEF NoneOff, Marred
      <3>2. count'[k] = 0 /\ severity'[k] = "none"
        BY Zenon, <1>3, <1>5, <2>2, <3>1, EvaluatedAtLevel
      <3>3. /\ AllAt(ValuesOf(history'[k]), level'[k])
            /\ \A h \in Hours : AllAt(bucket'[<< Shared[k], h >>].samples, level'[k])
        BY Zenon, <1>1, <2>3 DEF NoneOff, SeasonOf
      <3> QED BY Zenon, <2>1, <3>2, <3>3
               DEF NoneOff, SeasonOf, ValuesOf, AllAt, Index, Hours
    <2>4. ASSUME OnceOff(k) PROVE OnceOff(k)' /\ severity'[k] = "none"
      <3>1. Marred(k) /\ count[k] <= 1
        BY Zenon, <2>4 DEF OnceOff, Marred
      <3>2. count'[k] <= 1 /\ severity'[k] = "none"
        BY Zenon, <1>3, <2>2, <3>1, EvaluatedAtLevel
      <3>3. /\ OneOff(ValuesOf(history'[k]), level'[k])
            /\ \A h \in Hours : OneOff(bucket'[<< Shared[k], h >>].samples, level'[k])
        BY Zenon, <1>1, <2>4 DEF OnceOff, SeasonOf
      <3> QED BY Zenon, <2>1, <3>2, <3>3
               DEF OnceOff, SeasonOf, ValuesOf, AllAt, OneOff, Index, Hours
    <2> QED BY Zenon, <1>6, <2>3, <2>4 DEF Before
  <1>7. CASE spikes' = spikes + 1 /\ OneApartIn(readings)
    <2>1. spikes' # 0 /\ (spikes' = 1 => spikes = 0)
      BY <1>5, <1>7
    <2>2. ASSUME NoneOff(k) PROVE OnceOff(k)' /\ severity'[k] = "none"
      <3>1. count'[k] <= 1 /\ severity'[k] = "none"
        BY Zenon, <1>3, <2>2, EvaluatedFirst DEF NoneOff
      <3>2. \A i, j \in Index : Off(i)' /\ Off(j)' => i = j
        <4>1. PICK p \in Index : \A j \in Index \ {p} : readings[j] = level[j]
          BY Zenon, <1>7 DEF OneApartIn
        <4>2. \A j \in Index : Off(j)' => j = p
          BY <1>4, <4>1
        <4> QED BY Zenon, <4>2
      <3>3. /\ AllAt(ValuesOf(history'[k]), level'[k])
            /\ \A h \in Hours : AllAt(bucket'[<< Shared[k], h >>].samples, level'[k])
        BY Zenon, <1>1, <2>2 DEF NoneOff, SeasonOf
      <3>4. /\ OneOff(ValuesOf(history'[k]), level'[k])
            /\ \A h \in Hours : OneOff(bucket'[<< Shared[k], h >>].samples, level'[k])
        BY Zenon, <3>3, AllAtIsOneOff
      <3> QED BY Zenon, <3>1, <3>2, <3>3, <3>4
               DEF OnceOff, SeasonOf, ValuesOf, AllAt, OneOff, Index, Hours
    <2> QED BY Zenon, <2>1, <2>2 DEF Before
  <1>8. \/ spikes' = spikes /\ AtLevels(readings)
        \/ spikes' = spikes + 1 /\ OneApartIn(readings)
    BY Zenon, <1>2 DEF Reads
  <1> QED BY Zenon, <1>6, <1>7, <1>8

LEMMA SpikeSaved ==
  ASSUME TypeOK, NEW k \in Index, Before(k), MetricsSaved
  PROVE  Before(k)'
  <1>1. UNCHANGED << level, spikes, bucket, count, severity >> /\ stage = "saving"
    BY Zenon DEF MetricsSaved, world
  <1>2. CASE batch' = NoBatch /\ UNCHANGED history
    BY Zenon, <1>1, <1>2, SpikeBatchGone
  <1>3. CASE /\ history' = [j \in Index |->
                             IF batch[j] = NoReading THEN history[j]
                             ELSE Append(history[j], [value |-> batch[j], age |-> 0])]
             /\ stage' = "updating" /\ UNCHANGED batch
    <2>1. \/ batch[k] = NoReading /\ history'[k] = history[k]
          \/ /\ batch[k] # NoReading
             /\ history'[k] = Append(history[k], [value |-> batch[k], age |-> 0])
      BY Zenon, <1>3
    <2>2. /\ history[k] \in Seq(Readings)
          /\ batch[k] # NoReading => batch[k] \in Values
      BY DEF TypeOK, Readings
    <2>3. /\ AllAt(ValuesOf(history[k]), level[k]) /\ ~Off(k)
               => AllAt(ValuesOf(history'[k]), level[k])
          /\ AllAt(ValuesOf(history[k]), level[k]) => OneOff(ValuesOf(history'[k]), level[k])
          /\ OneOff(ValuesOf(history[k]), level[k]) /\ ~Off(k)
               => OneOff(ValuesOf(history'[k]), level[k])
      <3>1. CASE batch[k] = NoReading /\ history'[k] = history[k]
        BY Zenon, <3>1, AllAtIsOneOff
      <3>2. CASE /\ batch[k] # NoReading
                 /\ history'[k] = Append(history[k], [value |-> batch[k], age |-> 0])
        BY Zenon, <2>2, <3>2, AppendedSample DEF Off
      <3> QED BY Zenon, <2>1, <3>1, <3>2
    <2>4. /\ \A j \in Index : Off(j)' <=> Off(j)
          /\ stage' # "saving"
      BY <1>1, <1>3 DEF Off
    <2>5. ASSUME NoneOff(k) PROVE NoneOff(k)'
      <3>1. /\ count'[k] = 0 /\ AllAt(ValuesOf(history'[k]), level'[k])
            /\ \A h \in Hours : AllAt(bucket'[<< Shared[k], h >>].samples, level'[k])
            /\ \A j \in Index : ~Off(j)'
        BY Zenon, <1>1, <2>3, <2>4, <2>5 DEF NoneOff, SeasonOf
      <3> QED BY Zenon, <3>1 DEF NoneOff, SeasonOf, ValuesOf, AllAt, Index, Hours
    <2>6. ASSUME OnceOff(k) PROVE OnceOff(k)'
      <3>1. /\ count[k] <= 1 /\ OneOff(ValuesOf(history[k]), level[k])
            /\ \A h \in Hours : OneOff(bucket[<< Shared[k], h >>].samples, level[k])
            /\ \A i, j \in Index : Off(i) /\ Off(j) => i = j
            /\ \A j \in Index : Off(j) /\ Shared[j] = Shared[k] =>
                  \A h \in Hours : AllAt(bucket[<< Shared[k], h >>].samples, level[k])
            /\ Off(k) => AllAt(ValuesOf(history[k]), level[k])
        BY Zenon, <1>1, <2>6 DEF OnceOff, SeasonOf
      <3>2. OneOff(ValuesOf(history'[k]), level'[k])
        BY Zenon, <1>1, <2>3, <3>1
      <3>3. /\ count'[k] <= 1
            /\ \A h \in Hours : OneOff(bucket'[<< Shared[k], h >>].samples, level'[k])
            /\ \A i, j \in Index : Off(i)' /\ Off(j)' => i = j
            /\ \A j \in Index : Off(j)' /\ Shared[j] = Shared[k] =>
                  \A h \in Hours : AllAt(bucket'[<< Shared[k], h >>].samples, level'[k])
        BY Zenon, <1>1, <2>4, <3>1
      <3> QED BY Zenon, <2>4, <3>2, <3>3
               DEF OnceOff, SeasonOf, ValuesOf, AllAt, OneOff, Index, Hours
    <2> QED BY Zenon, <1>1, <2>5, <2>6 DEF Before
  <1>4. \/ batch' = NoBatch /\ UNCHANGED history
        \/ /\ history' = [j \in Index |->
                           IF batch[j] = NoReading THEN history[j]
                           ELSE Append(history[j], [value |-> batch[j], age |-> 0])]
           /\ stage' = "updating" /\ UNCHANGED batch
    BY Zenon DEF MetricsSaved
  <1> QED BY Zenon, <1>2, <1>3, <1>4

LEMMA SpikeSeasons ==
  ASSUME TypeOK, NEW k \in Index, Before(k), OneLevel(k), SeasonsUpdated
  PROVE  Before(k)'
  <1>1. UNCHANGED << level, spikes, history, count, severity >> /\ batch' = NoBatch
    BY Zenon DEF SeasonsUpdated, world
  <1>2. CASE UNCHANGED bucket
    BY Zenon, <1>1, <1>2, SpikeBatchGone
  <1>3. CASE bucket' = [b \in DOMAIN bucket |->
                          IF b \in {key \in Keys : New(key) # << >>} \X {slot}
                          THEN Updated(b[1], bucket[b]) ELSE bucket[b]]
    <2> DEFINE new == New(Shared[k])
    <2>1. ASSUME NEW h \in Hours
          PROVE  /\ SeasonOf(k, h) \in Seq(Values) /\ new \in Seq(Values)
                 /\ \/ bucket'[<< Shared[k], h >>].samples = SeasonOf(k, h)
                    \/ bucket'[<< Shared[k], h >>].samples = LastOnes(SeasonOf(k, h) \o new)
      <3> DEFINE b == << Shared[k], h >>
      <3>1. b \in Keys \X (0..Slots - 1) /\ b[1] = Shared[k]
        BY DEF Keys, Hours
      <3>2. SeasonOf(k, h) = bucket[b].samples
        BY Zenon DEF SeasonOf
      <3> HIDE DEF b
      <3>3. /\ bucket[b] \in Buckets /\ b \in DOMAIN bucket
            /\ batch \in [Index -> Values \cup {NoReading}]
        BY <3>1 DEF TypeOK
      <3>4. bucket[b].samples \in Seq(Values)
        BY <3>3 DEF Buckets
      <3>5. bucket'[b] = bucket[b] \/ bucket'[b] = Updated(b[1], bucket[b])
        BY Zenon, <1>3, <3>3
      <3>6. Updated(b[1], bucket[b]).samples = LastOnes(bucket[b].samples \o New(b[1]))
        BY Zenon, <3>3, UpdatedTypes
      <3>7. new \in Seq(Values)
        BY Zenon, <3>3, NewTypes
      <3>8. \/ bucket'[b].samples = bucket[b].samples
            \/ bucket'[b].samples = LastOnes(bucket[b].samples \o new)
        BY Zenon, <3>1, <3>5, <3>6
      <3> QED BY Zenon, <3>2, <3>4, <3>7, <3>8 DEF b
    <2>2. /\ (\A j \in Index : Shared[j] = Shared[k] => ~Off(j)) => AllAt(new, level[k])
          /\ (\A i, j \in Index : Off(i) /\ Off(j) => i = j) => OneOff(new, level[k])
      <3>1. \A j \in Index : Shared[j] = Shared[k] => level[j] = level[k]
        BY Zenon DEF OneLevel
      <3>2. ASSUME \A j \in Index : Shared[j] = Shared[k] => ~Off(j)
            PROVE  AllAt(new, level[k])
        <4>1. \A j \in Index : Shared[j] = Shared[k] /\ batch[j] # NoReading => batch[j] = level[k]
          BY Zenon, <3>1, <3>2 DEF Off
        <4> QED BY Zenon, <4>1, NewSamples
      <3>3. ASSUME \A i, j \in Index : Off(i) /\ Off(j) => i = j
            PROVE  OneOff(new, level[k])
        <4>1. \A j \in Index : /\ Shared[j] = Shared[k] /\ batch[j] # NoReading
                                /\ batch[j] # level[k] => Off(j)
          BY Zenon, <3>1 DEF Off
        <4>2. \A i, j \in Index :
                 /\ Shared[i] = Shared[k] /\ batch[i] # NoReading /\ batch[i] # level[k]
                 /\ Shared[j] = Shared[k] /\ batch[j] # NoReading /\ batch[j] # level[k]
                 => i = j
          BY Zenon, <3>3, <4>1
        <4> QED BY <4>2, NewSamples
      <3> QED BY Zenon, <3>2, <3>3
    <2> HIDE DEF new
    <2>3. ASSUME NEW x, NEW h \in Hours
          PROVE  /\ AllAt(SeasonOf(k, h), x) /\ AllAt(new, x)
                      => AllAt(bucket'[<< Shared[k], h >>].samples, x)
                 /\ AllAt(SeasonOf(k, h), x) /\ OneOff(new, x)
                      => OneOff(bucket'[<< Shared[k], h >>].samples, x)
                 /\ OneOff(SeasonOf(k, h), x) /\ AllAt(new, x)
                      => OneOff(bucket'[<< Shared[k], h >>].samples, x)
      <3> DEFINE q == SeasonOf(k, h)
                 r == q \o new
      <3>1. q \in Seq(Values) /\ new \in Seq(Values)
        BY Zenon, <2>1
      <3>2. /\ AllAt(q, x) /\ AllAt(new, x) => AllAt(r, x)
            /\ AllAt(q, x) /\ OneOff(new, x) => OneOff(r, x)
            /\ OneOff(q, x) /\ AllAt(new, x) => OneOff(r, x)
        BY Zenon, <3>1, JoinedSamples
      <3>3. r \in Seq(Values)
        BY <3>1
      <3>4. bucket'[<< Shared[k], h >>].samples = q
              \/ bucket'[<< Shared[k], h >>].samples = LastOnes(r)
        BY Zenon, <2>1
      <3> HIDE DEF q, r
      <3>5. /\ AllAt(r, x) => AllAt(LastOnes(r), x)
            /\ OneOff(r, x) => OneOff(LastOnes(r), x)
        BY Zenon, <3>3, LatestSamples
      <3> QED BY Zenon, <3>2, <3>4, <3>5, AllAtIsOneOff DEF q
    <2>4. \A j \in Index : ~Off(j)'
      BY Zenon, <1>1 DEF NoBatch, Off
    <2>5. ASSUME NoneOff(k) PROVE NoneOff(k)'
      <3>1. AllAt(new, level[k]) /\ \A h \in Hours : AllAt(SeasonOf(k, h), level[k])
        BY Zenon, <2>2, <2>5 DEF NoneOff
      <3>2. \A h \in Hours : AllAt(bucket'[<< Shared[k], h >>].samples, level[k])
        BY Zenon, <2>3, <3>1
      <3>3. /\ count'[k] = 0 /\ AllAt(ValuesOf(history'[k]), level'[k])
            /\ \A h \in Hours : AllAt(bucket'[<< Shared[k], h >>].samples, level'[k])
        BY Zenon, <1>1, <2>5, <3>2 DEF NoneOff
      <3> QED BY Zenon, <2>4, <3>3 DEF NoneOff, SeasonOf, ValuesOf, AllAt, Index, Hours
    <2>6. ASSUME OnceOff(k) PROVE OnceOff(k)'
      <3>1. \A h \in Hours : OneOff(bucket'[<< Shared[k], h >>].samples, level[k])
        <4>1. CASE \E j \in Index : Off(j) /\ Shared[j] = Shared[k]
          <5>1. /\ OneOff(new, level[k])
                /\ \A h \in Hours : AllAt(SeasonOf(k, h), level[k])
            BY Zenon, <2>2, <2>6, <4>1 DEF OnceOff
          <5> QED BY Zenon, <2>3, <5>1
        <4>2. CASE \A j \in Index : Shared[j] = Shared[k] => ~Off(j)
          <5>1. /\ AllAt(new, level[k])
                /\ \A h \in Hours : OneOff(SeasonOf(k, h), level[k])
            BY Zenon, <2>2, <2>6, <4>2 DEF OnceOff
          <5> QED BY Zenon, <2>3, <5>1
        <4> QED BY Zenon, <4>1, <4>2
      <3>2. /\ count'[k] <= 1 /\ OneOff(ValuesOf(history'[k]), level'[k])
            /\ \A h \in Hours : OneOff(bucket'[<< Shared[k], h >>].samples, level'[k])
        BY Zenon, <1>1, <2>6, <3>1 DEF OnceOff
      <3> QED BY Zenon, <2>4, <3>2 DEF OnceOff, SeasonOf, ValuesOf, AllAt, OneOff, Index, Hours
    <2> QED BY Zenon, <1>1, <2>5, <2>6 DEF Before
  <1>4. \/ bucket' = [b \in DOMAIN bucket |->
                        IF b \in {key \in Keys : New(key) # << >>} \X {slot}
                        THEN Updated(b[1], bucket[b]) ELSE bucket[b]]
        \/ UNCHANGED bucket
    BY Zenon DEF SeasonsUpdated
  <1> QED BY Zenon, <1>2, <1>3, <1>4

LEMMA SpikeStep ==
  ASSUME MinWeeks >= 2, Warning >= 2
  PROVE  TypeOK /\ GrownInv /\ SpikeInv /\ [Next]_vars => SpikeInv'
  <1> SUFFICES ASSUME TypeOK, GrownInv, SpikeInv, [Next]_vars, NEW k \in Index,
                      moves' = 0, OneLevel(k)'
               PROVE  Before(k)'
    BY Zenon DEF SpikeInv, Before, NoneOff, OnceOff, Off, SeasonOf, ValuesOf, AllAt, OneOff,
                 Index, Hours
  <1>1. ASSUME UNCHANGED << level, moves >> PROVE OneLevel(k) /\ Before(k)
    <2>1. moves = 0 /\ OneLevel(k)
      BY Zenon, <1>1 DEF OneLevel, Index
    <2> QED BY Zenon, <2>1 DEF SpikeInv, Before
  <1>2. ASSUME NEW j \in Index, NEW v \in Values, LevelMoves(j, v) PROVE FALSE
    <2>1. moves' = moves + 1
      BY Zenon, <1>2 DEF LevelMoves
    <2> QED BY <2>1 DEF TypeOK
  <1>3. CASE HourPasses
    BY Zenon, <1>1, <1>3, SpikeHour DEF HourPasses, world
  <1>4. CASE Cycle
    BY Zenon, <1>1, <1>4, SpikeCycle DEF Cycle
  <1>5. CASE MetricsSaved
    BY Zenon, <1>1, <1>5, SpikeSaved DEF MetricsSaved, world
  <1>6. CASE SeasonsUpdated
    BY Zenon, <1>1, <1>6, SpikeSeasons DEF SeasonsUpdated, world
  <1>7. CASE Restarts
    <2>1. UNCHANGED << level, moves, spikes, history, bucket >> /\ batch' = NoBatch
      BY Zenon, <1>7 DEF Restarts, world
    <2>2. count'[k] = 0 /\ severity'[k] = "none"
      BY Zenon, <1>7 DEF Restarts
    <2> QED BY Zenon, <1>1, <2>1, <2>2, SpikeBatchGone
  <1>8. CASE UNCHANGED vars
    <2>1. UNCHANGED << level, moves, spikes, history, bucket, count, severity, batch, stage >>
      BY Zenon, <1>8 DEF vars, world
    <2>2. Before(k)
      BY Zenon, <1>1, <2>1
    <2>3. NoneOff(k) => NoneOff(k)'
      BY Zenon, <2>1 DEF NoneOff, Off, SeasonOf, ValuesOf, AllAt, Index, Hours
    <2>4. ASSUME OnceOff(k) PROVE OnceOff(k)'
      <3>1. /\ count'[k] <= 1 /\ OneOff(ValuesOf(history'[k]), level'[k])
            /\ \A h \in Hours : OneOff(bucket'[<< Shared[k], h >>].samples, level'[k])
            /\ \A i, j \in Index : Off(i)' /\ Off(j)' => i = j
        BY Zenon, <2>1, <2>4 DEF OnceOff, Off, SeasonOf
      <3>2. /\ \A j \in Index : Off(j)' /\ Shared[j] = Shared[k] =>
                  \A h \in Hours : AllAt(bucket'[<< Shared[k], h >>].samples, level'[k])
            /\ stage' = "saving" /\ Off(k)' => AllAt(ValuesOf(history'[k]), level'[k])
        BY Zenon, <2>1, <2>4 DEF OnceOff, Off, SeasonOf
      <3> QED BY Zenon, <3>1, <3>2
               DEF OnceOff, SeasonOf, ValuesOf, AllAt, OneOff, Index, Hours
    <2> QED BY Zenon, <2>1, <2>2, <2>3, <2>4 DEF Before
  <1> QED BY Zenon, <1>2, <1>3, <1>4, <1>5, <1>6, <1>7, <1>8 DEF Next

(***************************************************************************)
(* A single reading off the level of a series is never reported.           *)
(***************************************************************************)
THEOREM NoReportOfASpike ==
  ASSUME Warning >= 2, MinWeeks >= 2, MaxSamples >= 2
  PROVE  Spec => []SingleSpikeNotReported
  <1>1. TypeOK /\ SpikeInv => SingleSpikeNotReported
    <2> SUFFICES ASSUME TypeOK, SpikeInv, NEW k \in Index, moves = 0, spikes <= 1, OneLevel(k)
                 PROVE  severity[k] = "none"
      BY Zenon DEF SingleSpikeNotReported
    <2>1. spikes = 0 \/ spikes = 1
      BY DEF TypeOK
    <2> QED BY Zenon, <2>1 DEF SpikeInv
  <1>2. Init => GrownInv /\ SpikeInv
    BY GrownInit, SpikeInit
  <1>3. TypeOK /\ GrownInv /\ SpikeInv /\ [Next]_vars => (GrownInv /\ SpikeInv)'
    BY Zenon, GrownStep, SpikeStep
  <1> QED BY <1>1, <1>2, <1>3, DetectorTypes, PTL DEF Spec
=============================================================================

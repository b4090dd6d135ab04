--------------------------- MODULE AnomalyDetector ---------------------------
(***************************************************************************)
(* core/anomaly.py and core/seasonal.py with the part of                   *)
(* run_collection_cycle that drives them: the readings of a cycle are      *)
(* judged against the history of the last hours or, once it is trusted,    *)
(* against the samples of the same hour of the week; then they become part *)
(* of both.  A series that is judged anomalous several times running is    *)
(* reported.                                                               *)
(*                                                                         *)
(* Cycles do not overlap (_collection_lock), and between the evaluation    *)
(* and the two writes the process may end or a write may raise.  Values    *)
(* are integers, chosen so that medians are exact.                         *)
(***************************************************************************)
EXTENDS Integers, FiniteSets, Sequences

CONSTANTS
    Series,        \* the sequence of the series (bucket keys)
    Shared,        \* the seasonal key of each: identity labels are stripped
    Values,        \* the values readings may have
    Levels,        \* where the series may stand at first
    Slots,         \* hours of a week: 168
    Window,        \* baseline_window_hours
    MinSamples,    \* min_samples
    MaxSamples,    \* max_seasonal_samples
    MinWeeks,      \* min_seasonal_weeks
    MinAbsolute,   \* min_absolute_diff
    MinPercent,    \* min_relative_diff, in percent
    Warning,       \* sustained_intervals_warning
    Critical,      \* sustained_intervals_critical
    NoReading,     \* the connector did not answer
    MaxCycles,     \* bound on the cycles of an hour
    MaxEvents      \* bound on changes of level, spikes and failures together

Index == 1..Len(Series)
Keys  == {Shared[k] : k \in Index}

ASSUME DetectorAssumption ==
    /\ Len(Series) \in Nat
    /\ Values \subseteq Int /\ \A v \in Values : v % 4 = 0
    /\ Levels \subseteq [Index -> Values]
    /\ Slots \in Nat \ {0} /\ Window \in Nat /\ MaxSamples \in Nat \ {0}
    /\ MinSamples \in Nat \ {0, 1} /\ MinWeeks \in Nat
    /\ MinAbsolute \in Nat /\ MinPercent \in Nat
    /\ Warning \in Nat \ {0} /\ Critical \in Nat /\ Critical >= Warning
    /\ NoReading \notin Values
    /\ MaxCycles \in Nat \ {0} /\ MaxEvents \in Nat

VARIABLES
    level,      \* where each series stands
    slot,       \* the hour of the week
    cycles,     \* run in this hour
    history,    \* metric_snapshots of each series in the window, with their age
    bucket,     \* seasonal_baselines: of each key and hour of the week
    count,      \* _consecutive
    severity,   \* what the last evaluation returned of each series
    stage,      \* of the cycle: "idle", "saving" or "updating"
    batch,      \* its readings
    trail,      \* history: the latest verdicts on each series since the start
    weeksAgo,   \* history: how long ago each bucket got its first sample
    moves,      \* history: changes of level
    spikes,     \* history: readings off their level
    faults      \* history: failures

Eventful == moves + spikes + faults < MaxEvents

world == << level, moves, spikes >>
vars  == << world, slot, cycles, history, bucket, count, severity, stage, batch,
            trail, weeksAgo, faults >>
-----------------------------------------------------------------------------
(***************************************************************************)
(* Median and median absolute deviation, and the gates of a reading.       *)
(***************************************************************************)
Smaller(q, x) == Cardinality({n \in 1..Len(q) : q[n] < x})
Greater(q, x) == Cardinality({n \in 1..Len(q) : q[n] > x})

\* The k-th smallest element.
Ranked(q, k) ==
    CHOOSE x \in {q[n] : n \in 1..Len(q)} :
        Smaller(q, x) < k /\ k <= Len(q) - Greater(q, x)

Median(q) == (Ranked(q, (Len(q) + 1) \div 2) + Ranked(q, Len(q) \div 2 + 1)) \div 2

Distance(x, y) == IF x > y THEN x - y ELSE y - x

Mad(q) == LET median == Median(q) IN Median([k \in 1..Len(q) |-> Distance(q[k], median)])

\* 0.6745 * |v - median| / mad >= 3.0; a flat baseline has no spread to scale
\* by and needs a relative difference instead.
Statistical(v, median, mad) ==
    /\ mad = 0 => v # median
    /\ mad # 0 => 6745 * Distance(v, median) >= 30000 * mad

Meaningful(v, median, mad) ==
    /\ Distance(v, median) >= MinAbsolute
    /\ mad = 0 => 100 * Distance(v, median) >= MinPercent * Distance(median, 0)

Anomalous(v, baseline) ==
    LET median == Median(baseline)
        mad    == Mad(baseline)
    IN  Statistical(v, median, mad) /\ Meaningful(v, median, mad)
-----------------------------------------------------------------------------
NoBucket == [samples |-> << >>, weeks |-> 0, last |-> "never"]

\* weeks_observed matters up to MinWeeks; last is last_week seen from now.
Buckets == [samples : Seq(Values), weeks : 0..MinWeeks,
            last : {"never", "earlier", "this"}]

TypeOK ==
    /\ level \in [Index -> Values]
    /\ slot \in 0..Slots - 1 /\ cycles \in 0..MaxCycles
    /\ history \in [Index -> Seq([value : Values, age : 0..Window])]
    /\ bucket \in [Keys \X (0..Slots - 1) -> Buckets]
    /\ \A b \in DOMAIN bucket : Len(bucket[b].samples) <= MaxSamples
    /\ count \in [Index -> Nat]
    /\ severity \in [Index -> {"none", "warning", "critical"}]
    /\ stage \in {"idle", "saving", "updating"}
    /\ batch \in [Index -> Values \cup {NoReading}]
    /\ trail \in [Index -> Seq(BOOLEAN)]
    /\ weeksAgo \in [Keys \X (0..Slots - 1) -> -1..MinWeeks]
    /\ moves \in Nat /\ spikes \in Nat /\ faults \in Nat
    /\ moves + spikes + faults <= MaxEvents

NoBatch == [k \in Index |-> NoReading]

Init ==
    /\ level \in Levels
    /\ slot = 0 /\ cycles = 0
    /\ history = [k \in Index |-> << >>]
    /\ bucket = [b \in Keys \X (0..Slots - 1) |-> NoBucket]
    /\ count = [k \in Index |-> 0]
    /\ severity = [k \in Index |-> "none"]
    /\ stage = "idle" /\ batch = NoBatch
    /\ trail = [k \in Index |-> << >>]
    /\ weeksAgo = [b \in Keys \X (0..Slots - 1) |-> -1]
    /\ moves = 0 /\ spikes = 0 /\ faults = 0
-----------------------------------------------------------------------------
(***************************************************************************)
(* The world: a series changes its level; an hour passes.  (Cycles are     *)
(* short: one that straddles the hour is an Evaluate whose lookup is that  *)
(* of the hour before.)                                                    *)
(***************************************************************************)
LevelMoves(k, v) ==
    /\ Eventful /\ v # level[k]
    /\ moves' = moves + 1
    /\ level' = [level EXCEPT ![k] = v]
    /\ UNCHANGED << spikes, slot, cycles, history, bucket, count, severity, stage,
                    batch, trail, weeksAgo, faults >>

\* The elements of a sequence at some of its positions, in their order.
Nth(positions, n) == CHOOSE p \in positions : Cardinality({j \in positions : j <= p}) = n
Chosen(q, positions) == [n \in 1..Cardinality(positions) |-> q[Nth(positions, n)]]

Older(h) ==
    Chosen([n \in 1..Len(h) |-> [value |-> h[n].value, age |-> h[n].age + 1]],
           {n \in 1..Len(h) : h[n].age < Window})

NewWeek == slot = Slots - 1

HourPasses ==
    /\ stage = "idle" /\ cycles > 0
    /\ slot' = (slot + 1) % Slots
    /\ cycles' = 0
    /\ history' = [k \in Index |-> Older(history[k])]
    /\ bucket' = [b \in DOMAIN bucket |->
                    IF NewWeek /\ bucket[b].last = "this"
                    THEN [bucket[b] EXCEPT !.last = "earlier"] ELSE bucket[b]]
    /\ weeksAgo' = [b \in DOMAIN weeksAgo |->
                      IF NewWeek /\ weeksAgo[b] \in 0..MinWeeks - 1
                      THEN weeksAgo[b] + 1 ELSE weeksAgo[b]]
    /\ UNCHANGED << world, count, severity, stage, batch, trail, faults >>
-----------------------------------------------------------------------------
(***************************************************************************)
(* evaluate_seasonal, which delegates to evaluate.  `at' is the hour of    *)
(* the lookup, that of the start of the cycle; it is empty when the lookup *)
(* failed.                                                                 *)
(***************************************************************************)
Samples(k) == [n \in 1..Len(history[k]) |-> history[k][n].value]

Trusted(k, at) == \E h \in at : bucket[<< Shared[k], h >>].weeks >= MinWeeks

\* Variant: a baseline of fewer samples will do.
BaselineOfAny(k, at) ==
    IF Trusted(k, at) THEN bucket[<< Shared[k], CHOOSE h \in at : TRUE >>].samples
    ELSE Samples(k)

\* The samples a reading is judged by; none when it is not judged (a bucket
\* that is trusted is not empty).
Baseline(k, at) ==
    IF Trusted(k, at) THEN bucket[<< Shared[k], CHOOSE h \in at : TRUE >>].samples
    ELSE IF Len(history[k]) >= MinSamples THEN Samples(k)
    ELSE << >>

Judged(k, at, readings) == readings[k] # NoReading /\ Baseline(k, at) # << >>

\* Variant: only the rolling path clears the counter.
CountAfterKeptBySeasons(k, at, readings) ==
    IF ~Judged(k, at, readings) THEN count[k]
    ELSE IF Anomalous(readings[k], Baseline(k, at)) THEN count[k] + 1
    ELSE IF Trusted(k, at) THEN count[k] ELSE 0

\* _consecutive after the cycle; a reading that is not judged leaves it.
CountAfter(k, at, readings) ==
    IF ~Judged(k, at, readings) THEN count[k]
    ELSE IF Anomalous(readings[k], Baseline(k, at)) THEN count[k] + 1
    ELSE 0

Returned(n) ==
    IF n >= Critical THEN "critical" ELSE IF n >= Warning THEN "warning" ELSE "none"

Latest(q) == IF Len(q) > Critical THEN Tail(q) ELSE q

\* The counter is followed up to what its comparisons tell apart.
Followed(n) == IF n > Critical THEN Critical ELSE n

Evaluate(at, readings) ==
    /\ stage = "idle" /\ cycles < MaxCycles
    /\ cycles' = cycles + 1
    /\ count' = [k \in Index |-> Followed(CountAfter(k, at, readings))]
    /\ severity' = [k \in Index |->
                      IF Judged(k, at, readings) /\ count'[k] > 0
                      THEN Returned(count'[k]) ELSE "none"]
    /\ trail' = [k \in Index |->
                   IF Judged(k, at, readings)
                   THEN Latest(Append(trail[k], Anomalous(readings[k], Baseline(k, at))))
                   ELSE trail[k]]
    /\ batch' = readings
    /\ stage' = IF \A k \in Index : readings[k] = NoReading THEN "idle" ELSE "saving"

\* Every series is read at its level, but for a spike or a silent connector.
Cycle ==
    /\ \/ /\ \/ Evaluate({slot}, level)
             \/ cycles = 0 /\ Evaluate({(slot - 1) % Slots}, level)
          /\ UNCHANGED << spikes, faults >>
       \/ /\ Eventful /\ spikes' = spikes + 1
          /\ \E k \in Index : \E v \in Values \ {level[k]} :
                Evaluate({slot}, [level EXCEPT ![k] = v])
          /\ UNCHANGED faults
       \/ /\ Eventful /\ faults' = faults + 1
          /\ \/ Evaluate({}, level)
             \/ \E k \in Index : Evaluate({slot}, [level EXCEPT ![k] = NoReading])
          /\ UNCHANGED spikes
    /\ UNCHANGED << level, moves, slot, history, bucket, weeksAgo >>
-----------------------------------------------------------------------------
\* save_metrics.  When it raises the cycle is over.
MetricsSaved ==
    /\ stage = "saving"
    /\ \/ /\ history' = [k \in Index |->
                           IF batch[k] = NoReading THEN history[k]
                           ELSE Append(history[k], [value |-> batch[k], age |-> 0])]
          /\ stage' = "updating"
          /\ UNCHANGED << batch, faults >>
       \/ /\ Eventful /\ faults' = faults + 1
          /\ stage' = "idle" /\ batch' = NoBatch
          /\ UNCHANGED history
    /\ UNCHANGED << world, slot, cycles, bucket, count, severity, trail, weeksAgo >>

(***************************************************************************)
(* compute_seasonal_updates: the readings of all series with the same key  *)
(* are appended, the oldest samples go, and a week not seen last is a new  *)
(* one.  A failure is caught.                                              *)
(***************************************************************************)
LastOnes(q) == SubSeq(q, IF Len(q) > MaxSamples THEN Len(q) - MaxSamples + 1 ELSE 1, Len(q))

New(key) == Chosen(batch, {k \in Index : Shared[k] = key /\ batch[k] # NoReading})

\* Variants: every cycle counts as a week; the oldest samples are kept, so that
\* they stay the majority.
UpdatedPerCycle(key, old) ==
    [samples |-> LastOnes(old.samples \o New(key)),
     weeks   |-> IF old.weeks < MinWeeks THEN old.weeks + 1 ELSE old.weeks,
     last    |-> "this"]

UpdatedFirstOnes(key, old) ==
    [samples |-> IF Len(old.samples \o New(key)) > MaxSamples
                 THEN old.samples ELSE old.samples \o New(key),
     weeks   |-> IF old.last # "this" /\ old.weeks < MinWeeks
                 THEN old.weeks + 1 ELSE old.weeks,
     last    |-> "this"]

Updated(key, old) ==
    [samples |-> LastOnes(old.samples \o New(key)),
     weeks   |-> IF old.last # "this" /\ old.weeks < MinWeeks
                 THEN old.weeks + 1 ELSE old.weeks,
     last    |-> "this"]

SeasonsUpdated ==
    /\ stage = "updating"
    /\ stage' = "idle" /\ batch' = NoBatch
    /\ \/ LET touched == {key \in Keys : New(key) # << >>} \X {slot}
          IN  /\ bucket' = [b \in DOMAIN bucket |->
                              IF b \in touched THEN Updated(b[1], bucket[b]) ELSE bucket[b]]
              /\ weeksAgo' = [b \in DOMAIN weeksAgo |->
                                IF b \in touched /\ weeksAgo[b] = -1 THEN 0 ELSE weeksAgo[b]]
              /\ UNCHANGED faults
       \/ /\ Eventful /\ faults' = faults + 1
          /\ UNCHANGED << bucket, weeksAgo >>
    /\ UNCHANGED << world, slot, cycles, history, count, severity, trail >>

\* The process ends and is started again: the counters were in memory.
Restarts ==
    /\ Eventful /\ faults' = faults + 1
    /\ count' = [k \in Index |-> 0]
    /\ severity' = [k \in Index |-> "none"]
    /\ trail' = [k \in Index |-> << >>]
    /\ stage' = "idle" /\ batch' = NoBatch
    /\ UNCHANGED << world, slot, cycles, history, bucket, weeksAgo >>

Next ==
    \/ \E k \in Index, v \in Values : LevelMoves(k, v)
    \/ HourPasses \/ Cycle \/ MetricsSaved \/ SeasonsUpdated \/ Restarts

Spec == Init /\ [][Next]_vars

\* Hours keep passing, and each passes only after a cycle in it: the collection
\* job fires every few minutes, and its cycles end.
FairSpec == Spec /\ []<><< HourPasses >>_slot
-----------------------------------------------------------------------------
(***************************************************************************)
(* "Consecutive anomalous readings": what is returned of a series says     *)
(* exactly how many of its latest readings were judged anomalous without   *)
(* another one between them, whichever of the two baselines each was       *)
(* judged by and whatever was not judged in between.                       *)
(***************************************************************************)
AllOf(q, n) == Len(q) >= n /\ \A m \in Len(q) - n + 1..Len(q) : q[m]

SeverityIsSustained ==
    \A k \in Index :
        /\ severity[k] = "critical" => AllOf(trail[k], Critical)
        /\ severity[k] = "warning" =>
              AllOf(trail[k], Warning) /\ ~AllOf(trail[k], Critical)
        /\ count[k] > 0 <=> AllOf(trail[k], 1)

(***************************************************************************)
(* evaluate: "First-time spikes are tracked internally but not returned    *)
(* until they persist."  A single reading off the level of a series is     *)
(* never reported, although it becomes part of both baselines: not when it *)
(* happens, nor when the readings after it are judged by it.  (For series  *)
(* that share a seasonal bucket with none at another level.)               *)
(***************************************************************************)
OneLevel(k) == \A j \in Index : Shared[j] = Shared[k] => level[j] = level[k]

SingleSpikeNotReported ==
    \A k \in Index :
        (moves = 0 /\ spikes <= 1 /\ OneLevel(k)) => severity[k] = "none"

(***************************************************************************)
(* A seasonal bucket is trusted only if it has existed for that many       *)
(* weeks, however many cycles and series contribute to it in one.          *)
(***************************************************************************)
TrustNeedsWeeks ==
    \A b \in DOMAIN bucket : bucket[b].weeks <= weeksAgo[b] + 1

(***************************************************************************)
(* A shift that stays becomes the baseline: once nothing moves any more    *)
(* the reports end, except for series that share a seasonal bucket with    *)
(* one at another level.                                                   *)
(***************************************************************************)
ShiftBecomesBaseline ==
    \A k \in Index : <>[](OneLevel(k) => severity[k] = "none")
=============================================================================

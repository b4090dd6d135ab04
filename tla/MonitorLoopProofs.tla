-------------------------- MODULE MonitorLoopProofs --------------------------
(***************************************************************************)
(* Theorems about MonitorLoop, for every set of anomalies, buckets, titles *)
(* and severities, every bound on the replies and every set of callers of  *)
(* trigger_analysis.                                                       *)
(***************************************************************************)
EXTENDS MonitorLoop, TLAPS

(***************************************************************************)
(* The breaker keeps its type, whatever is recorded.                       *)
(***************************************************************************)
LEMMA HardCooldownNat == \A n \in Nat : HardCooldown(n) \in Nat \ {0}
  <1> TAKE n \in Nat
  <1>1. HardCooldowns \in Seq(Nat \ {0}) /\ Len(HardCooldowns) \in Nat \ {0}
    BY BreakerAssumption
  <1>2. CASE n + 1 <= Len(HardCooldowns)
    BY <1>1, <1>2 DEF HardCooldown
  <1>3. CASE ~(n + 1 <= Len(HardCooldowns))
    BY <1>1, <1>3 DEF HardCooldown
  <1> QED BY <1>2, <1>3

LEMMA BreakerType ==
  ASSUME NEW b \in Breakers
  PROVE  /\ Closed \in Breakers
         /\ AfterIsOpen(b) \in Breakers
         /\ b.left > 0 => Elapse(b) \in Breakers
         /\ \A o \in Outcomes : Recorded(b, o) \in Breakers
  <1>1. Closed \in Breakers
    BY DEF Closed, Breakers
  <1>2. AfterIsOpen(b) \in Breakers
    BY <1>1 DEF AfterIsOpen
  <1>3. b.left > 0 => Elapse(b) \in Breakers
    BY DEF Elapse, Breakers
  <1>4. RecordSuccess(b) \in Breakers
    BY <1>1 DEF RecordSuccess
  <1>5. RecordSoftFailure(b) \in Breakers
    <2> DEFINE n     == b.soft + 1
               opens == n >= SoftThreshold /\ ~b.opened
               left  == IF opens THEN SoftCooldown ELSE b.left
               open  == b.opened \/ opens
    <2>1. n \in Nat /\ left \in Nat
      BY BreakerAssumption DEF Breakers
    <2>2. open \in BOOLEAN
      OBVIOUS
    <2>3. RecordSoftFailure(b) = [b EXCEPT !.soft = n, !.opened = open, !.left = left]
      BY Zenon DEF RecordSoftFailure
    <2> HIDE DEF n, left, open
    <2> QED BY <2>1, <2>2, <2>3 DEF Breakers
  <1>6. RecordHardFailure(b) \in Breakers
    <2> DEFINE n    == b.hard + 1
               left == HardCooldown(b.hard)
    <2>1. n \in Nat /\ left \in Nat
      BY HardCooldownNat DEF Breakers
    <2>2. RecordHardFailure(b) = [b EXCEPT !.hard = n, !.opened = TRUE, !.left = left]
      BY Zenon DEF RecordHardFailure
    <2> HIDE DEF n, left
    <2> QED BY <2>1, <2>2 DEF Breakers
  <1>7. \A o \in Outcomes : Recorded(b, o) \in Breakers
    BY <1>4, <1>5, <1>6 DEF Recorded, Outcomes
  <1> QED BY <1>1, <1>2, <1>3, <1>7
-----------------------------------------------------------------------------
(***************************************************************************)
(* The lock: a user of it that is inside a pass holds it.                  *)
(***************************************************************************)
LockInv ==
    /\ pc \in [Procs -> Locations]
    /\ holder \in LockUsers \cup {NoProc}
    /\ \A p \in LockUsers : pc[p] \in Analysing => holder = p

LEMMA Users ==
  /\ "collect" \in Procs
  /\ "analyze" \in Procs
  /\ LockUsers \subseteq Procs
  /\ \A t \in Triggers : t \in Procs /\ t \notin LockUsers
  /\ NoProc \notin LockUsers
  BY MonitorAssumption DEF Procs, LockUsers

LEMMA ReleaseType ==
  ASSUME NEW p \in Procs, Release(p), holder \in LockUsers \cup {NoProc}
  PROVE  /\ holder' \in LockUsers \cup {NoProc}
         /\ p \notin LockUsers => holder' = holder
  <1>1. CASE p \notin LockUsers
    BY <1>1 DEF Release
  <1>2. CASE p \in LockUsers /\ Waiting(p) = {}
    BY <1>2 DEF Release
  <1>3. CASE p \in LockUsers /\ Waiting(p) # {}
    <2>1. (CHOOSE q \in Waiting(p) : TRUE) \in Waiting(p)
      BY <1>3
    <2>2. holder' = CHOOSE q \in Waiting(p) : TRUE
      BY <1>3 DEF Release
    <2> QED BY <1>3, <2>1, <2>2 DEF Waiting
  <1> QED BY <1>1, <1>2, <1>3

\* A process that enters holds the lock already, or nobody does, or it is
\* one that does not use the lock.
LEMMA GateLock ==
  ASSUME LockInv, NEW p \in Procs, NEW queue, Gate(p, queue),
         p \in LockUsers => (holder = NoProc \/ holder = p),
         pc[p] \notin Analysing
  PROVE  LockInv'
  <1>1. \A q \in LockUsers : p \in LockUsers => pc[q] \notin Analysing
    BY Users DEF LockInv
  <1>2. CASE GateReturns(p, queue)
    <2>1. pc' = [pc EXCEPT ![p] = AfterPass(p)] /\ AfterPass(p) \in Locations \ Analysing
      BY <1>2 DEF GateReturns, AfterPass, Locations, Analysing
    <2>2. holder' \in LockUsers \cup {NoProc} /\ (p \notin LockUsers => holder' = holder)
      BY <1>2, ReleaseType DEF GateReturns, LockInv
    <2>3. pc' \in [Procs -> Locations]
      BY <2>1 DEF LockInv
    <2>4. ASSUME NEW q \in LockUsers, pc'[q] \in Analysing PROVE holder' = q
      BY <1>1, <2>1, <2>2, <2>4, Users DEF LockInv
    <2> QED BY <2>2, <2>3, <2>4 DEF LockInv, LockUsers, Procs, Locations, Analysing
  <1>3. CASE GatePasses(p, queue)
    <2>1. pc' = [pc EXCEPT ![p] = "entered"] /\ "entered" \in Locations
      BY <1>3 DEF GatePasses, Locations
    <2>2. holder' = IF p \in LockUsers THEN p ELSE holder
      BY <1>3 DEF GatePasses
    <2>3. pc' \in [Procs -> Locations]
      BY <2>1 DEF LockInv
    <2>4. ASSUME NEW q \in LockUsers, pc'[q] \in Analysing PROVE holder' = q
      BY <1>1, <2>1, <2>2, <2>4, Users DEF LockInv
    <2> QED BY <2>2, <2>3, <2>4, Users DEF LockInv, LockUsers, Procs, Locations, Analysing
  <1> QED BY <1>2, <1>3 DEF Gate

LEMMA SafeAnalyzeLock ==
  ASSUME LockInv, NEW p \in LockUsers, NEW queue, SafeAnalyze(p, queue), pc[p] \notin Analysing
  PROVE  LockInv'
  <1>1. CASE holder = NoProc
    BY <1>1, Users, GateLock DEF SafeAnalyze
  <1>2. CASE holder # NoProc
    BY <1>2, Users DEF SafeAnalyze, LockInv, Locations, Analysing, LockUsers, Procs
  <1> QED BY <1>1, <1>2

LEMMA LeaveLock ==
  ASSUME LockInv, NEW p \in Procs, NEW why, Leave(p, why), pc[p] \in Analysing
  PROVE  LockInv'
  <1> USE Users DEF LockInv, LockUsers, Procs, Analysing, Locations
  <1>1. pc' = [pc EXCEPT ![p] = AfterPass(p)] /\ AfterPass(p) \in Locations \ Analysing
    BY DEF Leave, AfterPass
  <1>2. holder' \in LockUsers \cup {NoProc} /\ (p \notin LockUsers => holder' = holder)
    BY ReleaseType DEF Leave
  <1> QED BY <1>1, <1>2

\* A step within a pass, or outside of one, that leaves the lock alone.
LEMMA MoveLock ==
  ASSUME LockInv, NEW p \in Procs, NEW l \in Locations,
         pc' = [pc EXCEPT ![p] = l], holder' = holder,
         l \in Analysing => pc[p] \in Analysing
  PROVE  LockInv'
  <1>1. pc' \in [Procs -> Locations]
    BY DEF LockInv
  <1>2. ASSUME NEW q \in LockUsers, pc'[q] \in Analysing PROVE holder' = q
    BY <1>2, Users DEF LockInv
  <1> QED BY <1>1, <1>2 DEF LockInv, LockUsers, Procs, Locations, Analysing

LEMMA LockStep == LockInv /\ [Next]_vars => LockInv'
  <1> SUFFICES ASSUME LockInv, [Next]_vars PROVE LockInv'
    OBVIOUS
  <1>1. CASE ProcessStarts \/ SchedulerStarts \/ Tick \/ \E f \in Fingerprints : HourPasses(f)
    BY <1>1 DEF Fail, ProcessStarts, SchedulerStarts, Tick, HourPasses, memory, LockInv
  <1>2. CASE ProcessEnds
    BY <1>2 DEF Fail, ProcessEnds, LockInv, Locations, Analysing, LockUsers, Procs
  <1>3. CASE StartCollection
    BY <1>3, MoveLock, Users DEF Fail, StartCollection, Locations, Analysing
  <1>4. CASE \E A \in SUBSET Anomalies : Detect(A)
    BY <1>4, MoveLock, Users DEF Detect, Locations, Analysing
  <1>5. CASE CollectionRaises
    BY <1>5, MoveLock, Users DEF Fail, CollectionRaises, Locations, Analysing
  <1>6. CASE MetricsSaved
    <2>1. CASE found = {}
      BY <1>6, <2>1, MoveLock, Users DEF MetricsSaved, Locations, Analysing
    <2>2. CASE found # {}
      BY <1>6, <2>2, SafeAnalyzeLock DEF MetricsSaved, LockUsers, Analysing
    <2> QED BY <2>1, <2>2
  <1>7. CASE CompleteRun
    BY <1>7, MoveLock, Users DEF Fail, CompleteRun, Locations, Analysing
  <1>8. CASE StartAnalysis
    BY <1>8, SafeAnalyzeLock DEF StartAnalysis, LockUsers, Analysing
  <1>9. CASE \E p \in LockUsers : LockHandedOver(p)
    BY <1>9, GateLock, Users DEF LockHandedOver, Analysing
  <1>10. CASE \E t \in Triggers, A \in SUBSET Anomalies : TriggerAnalysis(t, A)
    BY <1>10, GateLock, Users DEF TriggerAnalysis, Analysing
  <1>11. ASSUME NEW p \in Procs, PassStep(p) PROVE LockInv'
    <2>1. CASE CreateRow(p)
      BY <2>1, MoveLock DEF Fail, CreateRow, Locations, Analysing
    <2>2. CASE ReadContext(p)
      BY <2>2, MoveLock DEF ReadContext, Locations, Analysing
    <2>3. CASE ReadRaises(p)
      BY <2>3, LeaveLock DEF Fail, ReadRaises, Analysing
    <2>4. CASE Diagnose(p)
      BY <2>4, MoveLock DEF Diagnose, Locations, Analysing
    <2>5. ASSUME NEW o \in Outcomes, AnalyzerEnds(p, o) PROVE LockInv'
      <3>1. PICK R \in RepliesAfter(o, taken[p]) :
               IF R = {} THEN Leave(p, "standalone")
               ELSE pc' = [pc EXCEPT ![p] = "reporting"] /\ holder' = holder
        BY <2>5 DEF Fail, AnalyzerEnds
      <3>2. pc[p] = "calling"
        BY <2>5 DEF Fail, AnalyzerEnds
      <3>3. CASE R = {}
        BY <3>1, <3>2, <3>3, LeaveLock DEF Analysing
      <3>4. CASE R # {}
        BY <3>1, <3>2, <3>4, MoveLock DEF Locations, Analysing
      <3> QED BY <3>3, <3>4
    <2>6. CASE SaveInsight(p)
      <3>1. holder' = holder /\ pc[p] = "reporting"
        BY <2>6 DEF SaveInsight
      <3>2. CASE pc' = pc
        BY <3>1, <3>2 DEF LockInv
      <3>3. CASE pc' = [pc EXCEPT ![p] = "alerting"]
        BY <3>1, <3>3, MoveLock DEF Locations, Analysing
      <3> QED BY <2>6, <3>2, <3>3 DEF SaveInsight
    <2>7. CASE SaveRaises(p)
      BY <2>7, LeaveLock DEF Fail, SaveRaises, Analysing
    <2>8. CASE Dispatch(p)
      BY <2>8, MoveLock DEF Dispatch, Locations, Analysing
    <2>9. CASE PassReturns(p)
      BY <2>9, LeaveLock DEF PassReturns, Analysing
    <2> QED BY <1>11, <2>1, <2>2, <2>3, <2>4, <2>5, <2>6, <2>7, <2>8, <2>9 DEF PassStep
  <1>12. CASE UNCHANGED vars
    BY <1>12 DEF vars, memory, LockInv
  <1> QED BY <1>1, <1>2, <1>3, <1>4, <1>5, <1>6, <1>7, <1>8, <1>9, <1>10, <1>11, <1>12 DEF Next

LEMMA LockInit == Init => LockInv
  <1> SUFFICES ASSUME Init PROVE LockInv
    OBVIOUS
  <1>1. pc = [p \in Procs |-> "idle"] /\ holder = NoProc
    BY DEF Init
  <1>2. pc \in [Procs -> Locations]
    BY <1>1 DEF Locations
  <1>3. \A p \in LockUsers : pc[p] \notin Analysing
    BY <1>1, Users DEF Analysing
  <1> QED BY <1>1, <1>2, <1>3 DEF LockInv

(***************************************************************************)
(* The daemon never has two analysis passes in progress.                   *)
(***************************************************************************)
THEOREM Exclusive == Spec => []AnalysisExclusive
  <1>1. LockInv => AnalysisExclusive
    BY DEF LockInv, AnalysisExclusive
  <1> QED BY <1>1, LockInit, LockStep, PTL DEF Spec
-----------------------------------------------------------------------------
(***************************************************************************)
(* Types.  The insights of a pass are insights; Leave, Gate and the steps  *)
(* keep every variable in its set.                                         *)
(***************************************************************************)
LEMMA ReplyType ==
  ASSUME NEW o, NEW batch \in SUBSET Anomalies, NEW R \in RepliesAfter(o, batch),
         o \in Outcomes
  PROVE  R \in SUBSET Insights
  <1>1. Signature(batch) \in Signatures
    BY DEF Signature, Signatures
  <1>2. \A t \in Titles, s \in Severities : LlmInsight(t, s, batch) \in Insights
    BY <1>1 DEF LlmInsight, Insights
  <1>3. \A s \in Severities : Fallback(s, batch) \in Insights
    BY <1>1 DEF Fallback, Insights
  <1>4. LlmReplies(batch) \subseteq SUBSET Insights
    BY <1>2 DEF LlmReplies
  <1>5. Fallbacks(batch) \subseteq SUBSET Insights
    BY <1>3 DEF Fallbacks
  <1>6. CASE o = "ok"
    BY <1>4, <1>6 DEF RepliesAfter
  <1>7. CASE o \in {"transient", "invalid", "hard"}
    BY <1>5, <1>7 DEF RepliesAfter
  <1>8. CASE o = "other"
    BY <1>8 DEF RepliesAfter
  <1> QED BY <1>6, <1>7, <1>8 DEF Outcomes

LEMMA FingerprintType == \A i \in Insights : Fingerprint(i) \in Fingerprints
  BY DEF Fingerprint, Fingerprints, Insights

LEMMA LeaveType ==
  ASSUME TypeOK, NEW p \in Procs,
         NEW why \in {"standalone", "finished", "raised", "interrupted"}, Leave(p, why)
  PROVE  /\ taken' \in [Procs -> SUBSET Anomalies]
         /\ reply' \in [Procs -> SUBSET Insights]
         /\ saved' \in [Procs -> Insights \cup {NoInsight}]
         /\ row' \in [Procs -> {"none", "running"}]
         /\ leftOpen' \in SUBSET {"standalone", "finished", "raised", "interrupted"}
  BY DEF TypeOK, Leave, OpenRow

LEMMA GateType ==
  ASSUME TypeOK, NEW p \in Procs, NEW queue \in SUBSET Anomalies, Gate(p, queue)
  PROVE  /\ pending' \in SUBSET Anomalies
         /\ taken' \in [Procs -> SUBSET Anomalies]
         /\ breaker' \in Breakers
         /\ reply' = reply /\ saved' = saved
  <1>1. breaker' \in Breakers
    BY BreakerType DEF TypeOK, Gate
  <1>2. CASE GateReturns(p, queue)
    BY <1>2, <1>1 DEF TypeOK, Gate, GateReturns
  <1>3. CASE GatePasses(p, queue)
    BY <1>3, <1>1 DEF TypeOK, Gate, GatePasses
  <1> QED BY <1>2, <1>3 DEF Gate

LEMMA SafeAnalyzeType ==
  ASSUME TypeOK, NEW p \in Procs, NEW queue \in SUBSET Anomalies, SafeAnalyze(p, queue)
  PROVE  /\ pending' \in SUBSET Anomalies
         /\ taken' \in [Procs -> SUBSET Anomalies]
         /\ breaker' \in Breakers
         /\ reply' = reply /\ saved' = saved
  <1>1. CASE holder = NoProc
    BY <1>1, GateType DEF SafeAnalyze
  <1>2. CASE holder # NoProc
    BY <1>2 DEF SafeAnalyze, TypeOK
  <1> QED BY <1>1, <1>2

\* What is left to show of a step once the control variables are typed.
LEMMA TypeStep ==
  ASSUME TypeOK, [Next]_vars, pc' \in [Procs -> Locations], holder' \in LockUsers \cup {NoProc}
  PROVE  TypeOK'
  <1> USE DEF TypeOK
  <1>1. CASE ProcessStarts
    BY <1>1 DEF Fail, ProcessStarts, memory
  <1>2. CASE SchedulerStarts
    BY <1>2 DEF SchedulerStarts, memory
  <1>3. CASE ProcessEnds
    BY <1>3, BreakerType DEF Fail, ProcessEnds, OpenRow
  <1>4. CASE StartCollection
    BY <1>4 DEF Fail, StartCollection
  <1>5. CASE \E A \in SUBSET Anomalies : Detect(A)
    BY <1>5 DEF Detect
  <1>6. CASE CollectionRaises
    BY <1>6 DEF Fail, CollectionRaises, OpenRow
  <1>7. CASE MetricsSaved
    <2>1. CASE found = {}
      BY <1>7, <2>1 DEF MetricsSaved
    <2>2. CASE found # {}
      BY <1>7, <2>2, SafeAnalyzeType, Users DEF MetricsSaved
    <2> QED BY <2>1, <2>2
  <1>8. CASE CompleteRun
    BY <1>8 DEF Fail, CompleteRun, OpenRow
  <1>9. CASE StartAnalysis
    BY <1>9, SafeAnalyzeType, Users DEF StartAnalysis
  <1>10. CASE \E p \in LockUsers : LockHandedOver(p)
    BY <1>10, GateType, Users DEF LockHandedOver
  <1>11. CASE \E t \in Triggers, A \in SUBSET Anomalies : TriggerAnalysis(t, A)
    BY <1>11, GateType, Users DEF TriggerAnalysis
  <1>12. ASSUME NEW p \in Procs, PassStep(p) PROVE TypeOK'
    <2>1. CASE CreateRow(p)
      BY <2>1 DEF Fail, CreateRow
    <2>2. CASE ReadContext(p)
      BY <2>2 DEF ReadContext
    <2>3. CASE ReadRaises(p)
      BY <2>3, LeaveType DEF Fail, ReadRaises
    <2>4. CASE Diagnose(p)
      BY <2>4, BreakerType DEF Diagnose
    <2>5. ASSUME NEW o \in Outcomes, AnalyzerEnds(p, o) PROVE TypeOK'
      <3>1. PICK R \in RepliesAfter(o, taken[p]) :
               IF R = {} THEN Leave(p, "standalone")
               ELSE /\ reply' = [reply EXCEPT ![p] = R]
                    /\ UNCHANGED << taken, saved, row, leftOpen >>
        BY <2>5 DEF Fail, AnalyzerEnds
      <3>2. R \in SUBSET Insights
        BY ReplyType
      <3>3. breaker' \in Breakers
        BY <2>5, BreakerType DEF Fail, AnalyzerEnds
      <3>4. /\ settled' \in SUBSET Anomalies
            /\ faults' \in SUBSET {"store", "crash"}
        BY <2>5 DEF Fail, AnalyzerEnds
      <3>5. UNCHANGED << phase, pending, found, stale, stored, detected >>
        BY <2>5 DEF Fail, AnalyzerEnds
      <3>6. CASE R = {}
        BY <3>1, <3>3, <3>4, <3>5, <3>6, LeaveType
      <3>7. CASE R # {}
        <4>1. reply' = [reply EXCEPT ![p] = R] /\ UNCHANGED << taken, saved, row, leftOpen >>
          BY Zenon, <3>1, <3>7
        <4>2. reply' \in [Procs -> SUBSET Insights]
          BY Zenon, <3>2, <4>1
        <4> QED BY SMTT(40), <3>3, <3>4, <3>5, <4>1, <4>2
      <3> QED BY <3>6, <3>7
    <2>6. CASE SaveInsight(p)
      BY <2>6, FingerprintType DEF SaveInsight
    <2>7. CASE SaveRaises(p)
      BY <2>7, LeaveType DEF Fail, SaveRaises
    <2>8. CASE Dispatch(p)
      BY <2>8 DEF Dispatch
    <2>9. CASE PassReturns(p)
      BY <2>9, LeaveType DEF PassReturns
    <2> QED BY <1>12, <2>1, <2>2, <2>3, <2>4, <2>5, <2>6, <2>7, <2>8, <2>9 DEF PassStep
  <1>13. CASE Tick
    BY <1>13, BreakerType DEF Tick
  <1>14. CASE \E f \in Fingerprints : HourPasses(f)
    BY <1>14 DEF HourPasses, memory
  <1>15. CASE UNCHANGED vars
    BY <1>15 DEF vars, memory
  <1> QED BY <1>1, <1>2, <1>3, <1>4, <1>5, <1>6, <1>7, <1>8, <1>9, <1>10, <1>11, <1>12,
             <1>13, <1>14, <1>15 DEF Next

(***************************************************************************)
(* Every variable keeps its type.                                          *)
(***************************************************************************)
THEOREM Types == Spec => []TypeOK
  <1>1. ASSUME Init PROVE TypeOK
    <2>1. Closed \in Breakers
      BY DEF Closed, Breakers
    <2>2. DOMAIN stored = {}
      BY <1>1 DEF Init
    <2> QED BY <1>1, <2>1, <2>2 DEF Init, TypeOK, Locations
  <1>2. TypeOK /\ LockInv /\ [Next]_vars => TypeOK'
    BY TypeStep, LockStep DEF LockInv
  <1>3. Init => LockInv
    BY LockInit
  <1> QED BY <1>1, <1>2, <1>3, LockStep, PTL DEF Spec
-----------------------------------------------------------------------------
(***************************************************************************)
(* The ledger of anomalies.  An anomaly is in one list, its lists hold     *)
(* only what was detected, a batch outlives its verdict until the pass     *)
(* leaves, and nothing is in a list of a stage that is over.               *)
(***************************************************************************)
OnlyDetected ==
    /\ pending \subseteq detected /\ found \subseteq detected /\ settled \subseteq detected
    /\ \A p \in Procs : taken[p] \subseteq detected

StagesHoldTheirs ==
    /\ pc["collect"] # "saving" => found = {}
    /\ \A p \in Procs : pc[p] \notin Analysing => taken[p] = {}
    /\ \A p \in Procs : pc[p] \in {"reporting", "alerting"} => taken[p] \subseteq settled

AllAccounted ==
    faults = {} =>
        \A a \in detected : \/ a \in pending \cup found \cup settled
                            \/ \E p \in Procs : a \in taken[p]

Ledger ==
    /\ taken \in [Procs -> SUBSET Anomalies]
    /\ OnlyDetected
    /\ StagesHoldTheirs
    /\ AnomalyInOneList
    /\ AllAccounted

\* The stages alone change.
LEMMA MoveLedger ==
  ASSUME Ledger, LockInv, NEW p \in Procs, NEW l \in Locations,
         pc' = [pc EXCEPT ![p] = l],
         UNCHANGED << pending, found, taken, detected, settled >>,
         faults' = {} => faults = {},
         p = "collect" => l # "saving" /\ (pc[p] = "saving" => found = {}),
         l \notin Analysing => taken[p] = {},
         l \in {"reporting", "alerting"} => taken[p] \subseteq settled
  PROVE  Ledger'
  <1>1. StagesHoldTheirs'
    BY Users DEF Ledger, StagesHoldTheirs, LockInv, Procs, Analysing
  <1>2. OnlyDetected' /\ AnomalyInOneList' /\ AllAccounted'
    BY DEF Ledger, OnlyDetected, AnomalyInOneList, AllAccounted, Procs
  <1> QED BY <1>1, <1>2 DEF Ledger, Procs

\* The anomalies A, found by the collection or new, join the pending ones;
\* then the process takes them all or none.
LEMMA QueueLedger ==
  ASSUME Ledger, LockInv, NEW p \in Procs, pc[p] \notin Analysing,
         NEW A \in SUBSET Anomalies,
         A \cap pending = {}, \A q \in Procs : A \cap taken[q] = {},
         detected' = detected \cup A, settled' = settled,
         faults' = {} => faults = {},
         pending \subseteq Anomalies,
         found' = {} \/ (p # "collect" /\ found' = found),
         found \subseteq found' \cup A, A \cap found' = {},
         NEW l \in Locations,
         pc' = [pc EXCEPT ![p] = l], l \notin {"saving", "reporting", "alerting"},
         \/ pending' = pending \cup A /\ taken' = taken /\ l \notin Analysing
         \/ pending' = {} /\ taken' = [taken EXCEPT ![p] = pending \cup A]
              /\ l = "entered"
  PROVE  Ledger'
  <1>1. taken[p] = {}
    BY DEF Ledger, StagesHoldTheirs
  <1>2. taken' \in [Procs -> SUBSET Anomalies]
    BY DEF Ledger
  <1>3. OnlyDetected'
    BY DEF Ledger, OnlyDetected, Procs
  <1>4. StagesHoldTheirs'
    BY <1>1, Users DEF Ledger, StagesHoldTheirs, LockInv, Procs, Analysing
  <1>5. AnomalyInOneList'
    BY <1>1 DEF Ledger, AnomalyInOneList, Procs
  <1>6. AllAccounted'
    BY <1>1 DEF Ledger, AllAccounted, Procs
  <1> QED BY <1>2, <1>3, <1>4, <1>5, <1>6 DEF Ledger, Procs

LEMMA GateMoves ==
  ASSUME NEW p \in Procs, NEW queue, Gate(p, queue)
  PROVE  \E l \in Locations \ {"saving", "reporting", "alerting"} :
            /\ pc' = [pc EXCEPT ![p] = l]
            /\ \/ pending' = queue /\ taken' = taken /\ l \notin Analysing
               \/ /\ pending' = {} /\ taken' = [taken EXCEPT ![p] = queue]
                  /\ l = "entered"
  <1>1. CASE GateReturns(p, queue)
    <2>1. AfterPass(p) \in Locations \ {"saving", "reporting", "alerting"}
      BY DEF AfterPass, Locations
    <2>2. AfterPass(p) \notin Analysing
      BY DEF AfterPass, Analysing
    <2> QED BY <1>1, <2>1, <2>2 DEF GateReturns
  <1>2. CASE GatePasses(p, queue)
    <2>1. "entered" \in Locations \ {"saving", "reporting", "alerting"}
      BY DEF Locations
    <2> QED BY <1>2, <2>1 DEF GatePasses
  <1> QED BY <1>1, <1>2 DEF Gate

LEMMA SafeAnalyzeMoves ==
  ASSUME NEW p \in Procs, NEW queue, SafeAnalyze(p, queue)
  PROVE  \E l \in Locations \ {"saving", "reporting", "alerting"} :
            /\ pc' = [pc EXCEPT ![p] = l]
            /\ \/ pending' = queue /\ taken' = taken /\ l \notin Analysing
               \/ /\ pending' = {} /\ taken' = [taken EXCEPT ![p] = queue]
                  /\ l = "entered"
  <1>1. CASE holder = NoProc
    BY <1>1, GateMoves DEF SafeAnalyze
  <1>2. CASE holder # NoProc
    BY <1>2 DEF SafeAnalyze, Locations, Analysing
  <1> QED BY <1>1, <1>2

\* A pass leaves after a verdict on its batch, or with a fault.
LEMMA LeaveLedger ==
  ASSUME Ledger, LockInv, NEW p \in Procs, NEW why, Leave(p, why), pc[p] \in Analysing,
         UNCHANGED << pending, found, detected >>,
         settled \subseteq settled', settled' \subseteq detected,
         faults' = {} => faults = {} /\ taken[p] \subseteq settled'
  PROVE  Ledger'
  <1>1. pc' = [pc EXCEPT ![p] = AfterPass(p)] /\ AfterPass(p) \in {"idle", "completing"}
    BY DEF Leave, AfterPass
  <1>2. taken' = [taken EXCEPT ![p] = {}]
    BY DEF Leave
  <1>3. OnlyDetected' /\ AnomalyInOneList'
    BY <1>2 DEF Ledger, OnlyDetected, AnomalyInOneList, Procs
  <1>4. StagesHoldTheirs'
    BY <1>1, <1>2, Users DEF Ledger, StagesHoldTheirs, LockInv, Procs, Analysing
  <1>5. AllAccounted'
    BY <1>2 DEF Ledger, AllAccounted, Procs
  <1> QED BY <1>2, <1>3, <1>4, <1>5 DEF Ledger, Procs

LEMMA LedgerStep == Ledger /\ TypeOK /\ LockInv /\ [Next]_vars => Ledger'
  <1> SUFFICES ASSUME Ledger, TypeOK, LockInv, [Next]_vars PROVE Ledger'
    OBVIOUS
  <1>0. pending \in SUBSET Anomalies /\ found \in SUBSET Anomalies /\ faults \cup {"store"} # {}
    BY DEF TypeOK
  <1>1. CASE ProcessStarts \/ SchedulerStarts \/ Tick \/ (\E f \in Fingerprints : HourPasses(f))
               \/ UNCHANGED vars
    <2>1. /\ UNCHANGED << pc, pending, found, taken, detected, settled >>
          /\ faults' = {} => faults = {}
      BY <1>0, <1>1 DEF Fail, ProcessStarts, SchedulerStarts, Tick, HourPasses, memory, vars
    <2> QED BY <2>1 DEF Ledger, OnlyDetected, StagesHoldTheirs, AnomalyInOneList,
                        AllAccounted, Procs, Analysing
  <1>2. CASE ProcessEnds
    BY <1>2 DEF Fail, ProcessEnds, Ledger, OnlyDetected, StagesHoldTheirs, AnomalyInOneList,
                AllAccounted, Procs, Analysing
  <1>3. CASE StartCollection
    <2>1. taken["collect"] = {}
      BY <1>3, Users DEF Fail, StartCollection, Ledger, StagesHoldTheirs, Analysing
    <2> QED BY <1>0, <1>3, <2>1, MoveLedger, Users DEF Fail, StartCollection, Locations, Analysing
  <1>4. ASSUME NEW A \in SUBSET Anomalies, Detect(A) PROVE Ledger'
    <2>1. /\ pc["collect"] = "collecting" /\ A \cap detected = {}
          /\ detected' = detected \cup A /\ found' = A
          /\ pc' = [pc EXCEPT !["collect"] = "saving"]
          /\ UNCHANGED << pending, taken, settled, faults >>
      BY <1>4 DEF Detect
    <2>2. found = {} /\ taken["collect"] = {}
      BY <2>1, Users DEF Ledger, StagesHoldTheirs, Analysing
    <2>3. OnlyDetected' /\ AnomalyInOneList'
      BY <2>1, <2>2 DEF Ledger, OnlyDetected, AnomalyInOneList, Procs
    <2>4. StagesHoldTheirs'
      BY <2>1, <2>2, Users DEF Ledger, StagesHoldTheirs, LockInv, Procs, Analysing
    <2>5. AllAccounted'
      BY <2>1, <2>2 DEF Ledger, AllAccounted, Procs
    <2> QED BY <2>1, <2>3, <2>4, <2>5 DEF Ledger, Procs
  <1>5. CASE CollectionRaises
    <2>1. /\ pc["collect"] \in {"collecting", "saving"}
          /\ pc' = [pc EXCEPT !["collect"] = "idle"] /\ found' = {} /\ faults' # {}
          /\ UNCHANGED << pending, taken, detected, settled >>
      BY <1>0, <1>5 DEF Fail, CollectionRaises
    <2>2. taken["collect"] = {}
      BY <2>1, Users DEF Ledger, StagesHoldTheirs, Analysing
    <2> QED BY <2>1, <2>2, Users DEF Ledger, OnlyDetected, StagesHoldTheirs, AnomalyInOneList,
                                     AllAccounted, LockInv, Procs, Analysing
  <1>6. CASE MetricsSaved
    <2>1. /\ pc["collect"] = "saving" /\ found' = {}
          /\ UNCHANGED << detected, settled, faults >>
      BY <1>6 DEF MetricsSaved
    <2>2. taken["collect"] = {}
      BY <2>1, Users DEF Ledger, StagesHoldTheirs, Analysing
    <2>3. CASE found = {}
      BY <1>6, <2>2, <2>3, MoveLedger, Users DEF MetricsSaved, Locations, Analysing
    <2>4. CASE found # {}
      <3>1. SafeAnalyze("collect", pending \cup found)
        BY <1>6, <2>4 DEF MetricsSaved
      <3>2. /\ found \cap pending = {} /\ \A q \in Procs : found \cap taken[q] = {}
            /\ detected' = detected \cup found
        BY <2>1 DEF Ledger, AnomalyInOneList, OnlyDetected
      <3>3. pc["collect"] \notin Analysing
        BY <2>1 DEF Analysing
      <3> QED BY <1>0, <2>1, <3>1, <3>2, <3>3, SafeAnalyzeMoves, QueueLedger, Users
    <2> QED BY <2>3, <2>4
  <1>7. CASE CompleteRun
    <2>1. taken["collect"] = {} /\ pc["collect"] = "completing"
      BY <1>7, Users DEF Fail, CompleteRun, Ledger, StagesHoldTheirs, Analysing
    <2> QED BY <1>0, <1>7, <2>1, MoveLedger, Users DEF Fail, CompleteRun, Locations, Analysing
  <1>8. ASSUME NEW p \in LockUsers, pc[p] \in {"idle", "waiting"},
               \/ SafeAnalyze(p, pending) \/ Gate(p, pending),
               UNCHANGED << found, detected, settled, faults >>
        PROVE  Ledger'
    <2>1. p \in Procs /\ pc[p] \notin Analysing /\ (p = "collect" => found = {})
      BY <1>8, Users DEF Analysing, Ledger, StagesHoldTheirs
    <2>2. PICK l \in Locations \ {"saving", "reporting", "alerting"} :
             /\ pc' = [pc EXCEPT ![p] = l]
             /\ \/ pending' = pending /\ taken' = taken /\ l \notin Analysing
                \/ /\ pending' = {} /\ taken' = [taken EXCEPT ![p] = pending]
                   /\ l = "entered"
      BY <1>8, <2>1, SafeAnalyzeMoves, GateMoves
    <2>3. pending = pending \cup {} /\ detected' = detected \cup {}
      BY <1>8
    <2> QED BY <1>0, <1>8, <2>1, <2>2, <2>3, QueueLedger
  <1>9. CASE StartAnalysis
    BY <1>8, <1>9 DEF StartAnalysis, LockUsers
  <1>10. CASE \E p \in LockUsers : LockHandedOver(p)
    BY <1>8, <1>10 DEF LockHandedOver
  <1>11. ASSUME NEW t \in Triggers, NEW A \in SUBSET Anomalies, TriggerAnalysis(t, A)
         PROVE  Ledger'
    <2>1. /\ pc[t] \notin Analysing /\ A \cap detected = {} /\ detected' = detected \cup A
          /\ Gate(t, pending \cup A) /\ UNCHANGED << found, settled, faults >>
      BY <1>11 DEF TriggerAnalysis, Analysing
    <2>2. /\ A \cap pending = {} /\ \A q \in Procs : A \cap taken[q] = {}
          /\ A \cap found = {}
      BY <2>1 DEF Ledger, OnlyDetected
    <2>3. t \in Procs /\ t # "collect"
      BY Users DEF LockUsers
    <2> QED BY <1>0, <2>1, <2>2, <2>3, GateMoves, QueueLedger
  <1>12. ASSUME NEW p \in Procs, PassStep(p) PROVE Ledger'
    <2>1. CASE CreateRow(p)
      BY <1>0, <2>1, MoveLedger DEF Fail, CreateRow, Locations, Analysing
    <2>2. CASE ReadContext(p)
      BY <2>2, MoveLedger DEF ReadContext, Locations, Analysing
    <2>3. CASE ReadRaises(p)
      BY <1>0, <2>3, LeaveLedger DEF Fail, ReadRaises, Analysing, Ledger, OnlyDetected
    <2>4. CASE Diagnose(p)
      BY <2>4, MoveLedger DEF Diagnose, Locations, Analysing
    <2>5. ASSUME NEW o \in Outcomes, AnalyzerEnds(p, o) PROVE Ledger'
      <3>1. PICK R \in RepliesAfter(o, taken[p]) :
               IF R = {} THEN Leave(p, "standalone")
               ELSE pc' = [pc EXCEPT ![p] = "reporting"] /\ taken' = taken
        BY <2>5 DEF Fail, AnalyzerEnds
      <3>2. /\ pc[p] = "calling"
            /\ UNCHANGED << pending, found, detected >>
            /\ settled' = settled \cup taken[p] \/ (settled' = settled /\ faults' # {})
            /\ faults' = {} => faults = {}
        BY <1>0, <2>5 DEF Fail, AnalyzerEnds
      <3>3. CASE R = {}
        BY <3>1, <3>2, <3>3, LeaveLedger DEF Ledger, OnlyDetected, Analysing
      <3>4. CASE R # {}
        <4>1. o # "other"
          BY <3>4 DEF RepliesAfter
        <4>2. settled' = settled \cup taken[p] /\ faults' = faults
          BY <2>5, <4>1 DEF Fail, AnalyzerEnds
        <4>3. pc' = [pc EXCEPT ![p] = "reporting"] /\ taken' = taken
          BY <3>1, <3>4
        <4>4. OnlyDetected' /\ AnomalyInOneList' /\ AllAccounted'
          BY <3>2, <4>2, <4>3 DEF Ledger, OnlyDetected, AnomalyInOneList, AllAccounted, Procs
        <4>5. StagesHoldTheirs'
          BY <3>2, <4>2, <4>3, Users DEF Ledger, StagesHoldTheirs, LockInv, Procs, Analysing
        <4> QED BY <4>3, <4>4, <4>5 DEF Ledger, Procs
      <3> QED BY <3>3, <3>4
    <2>6. CASE SaveInsight(p)
      <3>1. /\ pc[p] = "reporting"
            /\ UNCHANGED << pending, found, taken, detected, settled, faults >>
            /\ pc' = [pc EXCEPT ![p] = "reporting"] \/ pc' = [pc EXCEPT ![p] = "alerting"]
        BY <2>6 DEF SaveInsight, LockInv
      <3>2. taken[p] \subseteq settled
        BY <3>1 DEF Ledger, StagesHoldTheirs
      <3> QED BY <3>1, <3>2, MoveLedger DEF Locations, Analysing
    <2>7. CASE SaveRaises(p)
      BY <1>0, <2>7, LeaveLedger DEF Fail, SaveRaises, Analysing, Ledger, OnlyDetected
    <2>8. CASE Dispatch(p)
      <3>1. taken[p] \subseteq settled
        BY <2>8 DEF Dispatch, Ledger, StagesHoldTheirs
      <3> QED BY <2>8, <3>1, MoveLedger DEF Dispatch, Locations, Analysing
    <2>9. CASE PassReturns(p)
      BY <2>9, LeaveLedger DEF PassReturns, Analysing, Ledger, OnlyDetected, StagesHoldTheirs
    <2> QED BY <1>12, <2>1, <2>2, <2>3, <2>4, <2>5, <2>6, <2>7, <2>8, <2>9 DEF PassStep
  <1> QED BY <1>1, <1>2, <1>3, <1>4, <1>5, <1>6, <1>7, <1>9, <1>10, <1>11, <1>12 DEF Next

LEMMA LedgerInit == Init => Ledger
  BY DEF Init, Ledger, OnlyDetected, StagesHoldTheirs, AnomalyInOneList, AllAccounted

(***************************************************************************)
(* An anomaly is never in two lists, so it is never analysed twice, even   *)
(* when trigger_analysis enters a pass without the lock.                   *)
(***************************************************************************)
THEOREM OneList == Spec => []AnomalyInOneList
  <1>1. Ledger => AnomalyInOneList
    BY DEF Ledger
  <1> QED BY <1>1, LedgerInit, LedgerStep, LockInit, LockStep, Types, PTL DEF Spec

(***************************************************************************)
(* The swap of the pending list loses nothing: without a failed call and   *)
(* while the process runs, every anomaly ever detected is in a list or its *)
(* pass came to a verdict.                                                 *)
(***************************************************************************)
THEOREM NothingLost == Spec => []NoAnomalyLostWithoutFault
  <1>1. Ledger => NoAnomalyLostWithoutFault
    BY DEF Ledger, OnlyDetected, AllAccounted, NoAnomalyLostWithoutFault, Listed
  <1> QED BY <1>1, LedgerInit, LedgerStep, LockInit, LockStep, Types, PTL DEF Spec
-----------------------------------------------------------------------------
(***************************************************************************)
(* Over these invariants: the rows of monitor_runs, the alerts of stored   *)
(* insights, the gate before the LLM call, and AnalysisQueue.              *)
(***************************************************************************)
\* What the further invariants are proved from.
Base == TypeOK /\ LockInv /\ Ledger

LEMMA BaseHolds == Spec => []Base
  BY LockInit, LockStep, LedgerInit, LedgerStep, Types, PTL DEF Spec, Base
-----------------------------------------------------------------------------
(***************************************************************************)
(* Rows.  What the process has seen go wrong explains every row that is    *)
(* left open: the property is inductive as it stands.                      *)
(***************************************************************************)
LEMMA RowsOfPass ==
  ASSUME CollectionsCloseTheirRows, NEW p \in Procs, PassStep(p)
  PROVE  CollectionsCloseTheirRows'
  <1> USE DEF CollectionsCloseTheirRows, Fail
  <1>1. \A why : Leave(p, why) => leftOpen' = leftOpen \/ leftOpen' \subseteq leftOpen \cup {why}
    BY DEF Leave, OpenRow
  <1>2. CASE CreateRow(p)
    BY <1>2 DEF CreateRow
  <1>3. CASE ReadContext(p)
    BY <1>3 DEF ReadContext
  <1>4. CASE ReadRaises(p)
    BY <1>1, <1>4 DEF ReadRaises
  <1>5. CASE Diagnose(p)
    BY <1>5 DEF Diagnose
  <1>6. CASE \E o \in Outcomes : AnalyzerEnds(p, o)
    <2>1. /\ stale' = stale /\ leftOpen' \subseteq leftOpen \cup {"standalone"}
          /\ faults \subseteq faults' /\ faults' \subseteq faults \cup {"store"}
      BY <1>1, <1>6 DEF AnalyzerEnds
    <2> QED BY <2>1
  <1>7. CASE SaveInsight(p)
    BY <1>7 DEF SaveInsight
  <1>8. CASE SaveRaises(p)
    BY <1>1, <1>8 DEF SaveRaises
  <1>9. CASE Dispatch(p)
    BY <1>9 DEF Dispatch
  <1>10. CASE PassReturns(p)
    BY <1>1, <1>10 DEF PassReturns
  <1> QED BY <1>2, <1>3, <1>4, <1>5, <1>6, <1>7, <1>8, <1>9, <1>10 DEF PassStep

LEMMA RowsStep == CollectionsCloseTheirRows /\ [Next]_vars => CollectionsCloseTheirRows'
  <1> SUFFICES ASSUME CollectionsCloseTheirRows, [Next]_vars PROVE CollectionsCloseTheirRows'
    OBVIOUS
  <1> USE DEF CollectionsCloseTheirRows, Fail
  <1>1. CASE ProcessStarts
    BY <1>1 DEF ProcessStarts
  <1>2. CASE ProcessEnds
    BY <1>2 DEF ProcessEnds, OpenRow
  <1>3. CASE SchedulerStarts \/ StartCollection \/ MetricsSaved \/ StartAnalysis \/ Tick
    BY <1>3 DEF SchedulerStarts, StartCollection, MetricsSaved, StartAnalysis, Tick
  <1>4. CASE \E A \in SUBSET Anomalies : Detect(A)
    BY <1>4 DEF Detect
  <1>5. CASE CollectionRaises
    BY <1>5 DEF CollectionRaises
  <1>6. CASE CompleteRun
    BY <1>6 DEF CompleteRun
  <1>7. CASE \E p \in LockUsers : LockHandedOver(p)
    BY <1>7 DEF LockHandedOver
  <1>8. CASE \E t \in Triggers, A \in SUBSET Anomalies : TriggerAnalysis(t, A)
    BY <1>8 DEF TriggerAnalysis
  <1>9. CASE \E p \in Procs : PassStep(p)
    BY <1>9, RowsOfPass
  <1>10. CASE \E f \in Fingerprints : HourPasses(f)
    BY <1>10 DEF HourPasses
  <1>11. CASE UNCHANGED vars
    BY <1>11 DEF vars
  <1> QED BY <1>1, <1>2, <1>3, <1>4, <1>5, <1>6, <1>7, <1>8, <1>9, <1>10, <1>11 DEF Next

(***************************************************************************)
(* Unless a store call failed, the only monitor_runs rows that are left    *)
(* "running" are those of passes without a parent and, after a crash,      *)
(* those the crash cut short: every path through run_collection_cycle      *)
(* closes its own.                                                         *)
(***************************************************************************)
THEOREM RowsAreClosed == Spec => []CollectionsCloseTheirRows
  <1>1. Init => CollectionsCloseTheirRows
    BY DEF Init, CollectionsCloseTheirRows
  <1> QED BY <1>1, RowsStep, PTL DEF Spec
-----------------------------------------------------------------------------
(***************************************************************************)
(* Alerts.  What a pass is about to dispatch is stored and was not         *)
(* dispatched yet, and no other pass is about to dispatch its fingerprint: *)
(* save_insight would have refused the second one.                         *)
(***************************************************************************)
Reported(p) == Fingerprint(saved[p])

AboutToAlert(p) == pc[p] = "alerting"

AlertsInv ==
    /\ \A p \in Procs : AboutToAlert(p) => Reported(p) \in DOMAIN stored /\ stored[Reported(p)] = 0
    /\ \A p, q \in Procs : AboutToAlert(p) /\ AboutToAlert(q) /\ Reported(p) = Reported(q) => p = q
    /\ StoredAlertedOnce

\* A step that stores and dispatches nothing.
LEMMA AlertsUntouched ==
  ASSUME AlertsInv, stored' = stored, faults \subseteq faults',
         \A p \in Procs : AboutToAlert(p) <=> AboutToAlert(p)',
         \A p \in Procs : AboutToAlert(p) => saved'[p] = saved[p]
  PROVE  AlertsInv'
  BY DEF AlertsInv, StoredAlertedOnce, AboutToAlert, Reported, Fingerprint, Procs

\* A process that is not about to alert goes where it is not either.
LEMMA AlertsMoved ==
  ASSUME AlertsInv, LockInv, stored' = stored, faults \subseteq faults',
         NEW p \in Procs, ~AboutToAlert(p), NEW l, l # "alerting",
         pc' = [pc EXCEPT ![p] = l], \A q \in Procs \ {p} : saved'[q] = saved[q]
  PROVE  AlertsInv'
  <1>1. \A q \in Procs : AboutToAlert(q) <=> AboutToAlert(q)'
    BY DEF AboutToAlert, LockInv
  <1>2. \A q \in Procs : AboutToAlert(q) => saved'[q] = saved[q]
    OBVIOUS
  <1> QED BY <1>1, <1>2, AlertsUntouched

LEMMA AlertsLeave ==
  ASSUME AlertsInv, Base, stored' = stored, faults \subseteq faults',
         NEW p \in Procs, ~AboutToAlert(p), NEW why, Leave(p, why)
  PROVE  AlertsInv'
  <1>1. AfterPass(p) # "alerting"
    BY DEF AfterPass
  <1>2. pc' = [pc EXCEPT ![p] = AfterPass(p)] /\ \A q \in Procs \ {p} : saved'[q] = saved[q]
    BY DEF Leave, Base, TypeOK
  <1> QED BY <1>1, <1>2, AlertsMoved DEF Base

LEMMA AlertsSave ==
  ASSUME AlertsInv, Base, NEW p \in Procs, SaveInsight(p)
  PROVE  AlertsInv'
  <1> USE DEF Base, TypeOK, AboutToAlert, Reported
  <1>1. PICK i \in reply[p] :
          IF Fingerprint(i) \in DOMAIN stored
          THEN UNCHANGED << pc, saved, stored >>
          ELSE /\ stored' = [f \in DOMAIN stored \cup {Fingerprint(i)} |->
                                IF f = Fingerprint(i) THEN 0 ELSE stored[f]]
               /\ saved' = [saved EXCEPT ![p] = i]
               /\ pc' = [pc EXCEPT ![p] = "alerting"]
    BY DEF SaveInsight
  <1>2. faults' = faults /\ pc[p] = "reporting"
    BY DEF SaveInsight
  <1>3. CASE Fingerprint(i) \in DOMAIN stored
    BY <1>1, <1>2, <1>3, AlertsUntouched
  <1>4. CASE Fingerprint(i) \notin DOMAIN stored
    <2> DEFINE f == Fingerprint(i)
    <2>1. /\ DOMAIN stored' = DOMAIN stored \cup {f} /\ stored'[f] = 0
          /\ \A g \in DOMAIN stored : g # f /\ stored'[g] = stored[g]
      BY <1>1, <1>4
    <2>2. pc'[p] = "alerting" /\ saved'[p] = i /\ Reported(p)' = f
      BY <1>1, <1>4 DEF Fingerprint
    <2>3. \A q \in Procs \ {p} : pc'[q] = pc[q] /\ saved'[q] = saved[q] /\ Reported(q)' = Reported(q)
      BY <1>1, <1>4 DEF Fingerprint
    <2> HIDE DEF f, Reported
    <2>4. \A q \in Procs : AboutToAlert(q)' =>
              Reported(q)' \in DOMAIN stored' /\ stored'[Reported(q)'] = 0
      BY <2>1, <2>2, <2>3 DEF AlertsInv
    <2>5. \A q, r \in Procs : AboutToAlert(q)' /\ AboutToAlert(r)' /\ Reported(q)' = Reported(r)' => q = r
      BY <2>1, <2>2, <2>3 DEF AlertsInv
    <2>6. StoredAlertedOnce'
      <3> SUFFICES ASSUME NEW g \in DOMAIN stored'
                   PROVE  \/ stored'[g] = 1
                          \/ /\ stored'[g] = 0
                             /\ \/ "crash" \in faults'
                                \/ \E q \in Procs : pc'[q] = "alerting" /\ Reported(q)' = g
        BY DEF StoredAlertedOnce, Reported, Procs
      <3>1. CASE g = f
        BY <2>1, <2>2, <3>1
      <3>2. CASE g # f
        <4>1. g \in DOMAIN stored /\ stored'[g] = stored[g]
          BY <2>1, <3>2
        <4>2. \A q \in Procs : pc[q] = "alerting" => q # p
          BY <1>2
        <4> QED BY <1>2, <2>3, <4>1, <4>2 DEF AlertsInv, StoredAlertedOnce, Reported
      <3> QED BY <3>1, <3>2
    <2> QED BY <2>4, <2>5, <2>6 DEF AlertsInv, Procs
  <1> QED BY <1>3, <1>4

LEMMA AlertsDispatch ==
  ASSUME AlertsInv, Base, NEW p \in Procs, Dispatch(p)
  PROVE  AlertsInv'
  <1> USE DEF Base, TypeOK, AboutToAlert
  <1> DEFINE f == Reported(p)
  <1>1. pc[p] = "alerting" /\ faults' = faults
    BY DEF Dispatch
  <1>2. f \in DOMAIN stored /\ stored[f] = 0
    BY <1>1 DEF AlertsInv
  <1>3. /\ DOMAIN stored' = DOMAIN stored /\ stored'[f] = 1
        /\ \A g \in DOMAIN stored : g # f => stored'[g] = stored[g]
    BY <1>2 DEF Dispatch, Reported
  <1>4. pc'[p] = "reporting"
    BY DEF Dispatch
  <1>5. \A q \in Procs \ {p} : pc'[q] = pc[q] /\ saved'[q] = saved[q] /\ Reported(q)' = Reported(q)
    BY DEF Dispatch, Reported, Fingerprint
  <1>6. \A q \in Procs \ {p} : AboutToAlert(q) => Reported(q) # f
    BY <1>1 DEF AlertsInv
  <1> HIDE DEF f
  <1>7. \A q \in Procs : AboutToAlert(q)' => Reported(q)' \in DOMAIN stored' /\ stored'[Reported(q)'] = 0
    BY <1>3, <1>4, <1>5, <1>6 DEF AlertsInv
  <1>8. \A q, r \in Procs : AboutToAlert(q)' /\ AboutToAlert(r)' /\ Reported(q)' = Reported(r)' => q = r
    BY <1>4, <1>5 DEF AlertsInv
  <1>9. StoredAlertedOnce'
    <2> SUFFICES ASSUME NEW g \in DOMAIN stored', g # f
                 PROVE  \/ stored'[g] = 1
                        \/ /\ stored'[g] = 0
                           /\ \/ "crash" \in faults'
                              \/ \E q \in Procs : pc'[q] = "alerting" /\ Reported(q)' = g
      BY <1>3 DEF StoredAlertedOnce, Reported, Procs
    <2>1. g \in DOMAIN stored /\ stored'[g] = stored[g]
      BY <1>3
    <2>2. \A q \in Procs : Reported(q) = g => q # p
      BY DEF f
    <2> QED BY <1>1, <1>5, <2>1, <2>2 DEF AlertsInv, StoredAlertedOnce, Reported
  <1> QED BY <1>7, <1>8, <1>9 DEF AlertsInv, Procs

LEMMA AlertsHour ==
  ASSUME AlertsInv, NEW f \in Fingerprints, HourPasses(f)
  PROVE  AlertsInv'
  <1>1. /\ DOMAIN stored' = DOMAIN stored \ {f}
        /\ \A g \in DOMAIN stored' : stored'[g] = stored[g]
        /\ UNCHANGED << pc, saved, faults >>
        /\ \A p \in Procs : AboutToAlert(p) => Reported(p) # f
    BY DEF HourPasses, memory, AboutToAlert, Reported
  <1> QED BY <1>1 DEF AlertsInv, StoredAlertedOnce, AboutToAlert, Reported, Fingerprint, Procs

LEMMA AlertsStep == AlertsInv /\ Base /\ [Next]_vars => AlertsInv'
  <1> SUFFICES ASSUME AlertsInv, Base, [Next]_vars PROVE AlertsInv'
    OBVIOUS
  <1>0. \A p \in Procs : \A queue : Gate(p, queue) \/ SafeAnalyze(p, queue) =>
            /\ saved' = saved
            /\ \E l : l # "alerting" /\ pc' = [pc EXCEPT ![p] = l]
    <2> SUFFICES ASSUME NEW p \in Procs, NEW queue, Gate(p, queue) \/ SafeAnalyze(p, queue)
                 PROVE  /\ saved' = saved
                        /\ \E l : l # "alerting" /\ pc' = [pc EXCEPT ![p] = l]
      OBVIOUS
    <2>1. saved' = saved
      BY DEF Gate, SafeAnalyze
    <2>2. \E l \in Locations \ {"saving", "reporting", "alerting"} : pc' = [pc EXCEPT ![p] = l]
      BY GateMoves, SafeAnalyzeMoves
    <2> QED BY <2>1, <2>2
  <1>1. CASE ProcessStarts \/ SchedulerStarts \/ Tick \/ UNCHANGED vars
    BY <1>1, AlertsUntouched DEF ProcessStarts, SchedulerStarts, Tick, Fail, memory, vars, AboutToAlert
  <1>2. CASE ProcessEnds
    <2>1. /\ pc' = [p \in Procs |-> "idle"] /\ stored' = stored
          /\ faults' = faults \cup {"crash"}
      BY <1>2 DEF ProcessEnds, Fail
    <2>2. \A f \in DOMAIN stored : stored[f] = 0 \/ stored[f] = 1
      BY DEF AlertsInv, StoredAlertedOnce
    <2> QED BY <2>1, <2>2 DEF AlertsInv, StoredAlertedOnce, AboutToAlert, Procs
  <1>3. CASE StartCollection \/ (\E A \in SUBSET Anomalies : Detect(A)) \/ CollectionRaises \/ CompleteRun
    <2>1. /\ ~AboutToAlert("collect") /\ saved' = saved /\ stored' = stored /\ faults \subseteq faults'
          /\ \E l : l # "alerting" /\ pc' = [pc EXCEPT !["collect"] = l]
      BY <1>3 DEF StartCollection, Detect, CollectionRaises, CompleteRun, Fail, AboutToAlert
    <2> QED BY <2>1, Users, AlertsMoved DEF Base
  <1>4. CASE MetricsSaved
    <2>1. ~AboutToAlert("collect") /\ stored' = stored /\ faults' = faults
      BY <1>4 DEF MetricsSaved, AboutToAlert
    <2>2. saved' = saved /\ \E l : l # "alerting" /\ pc' = [pc EXCEPT !["collect"] = l]
      BY <1>0, <1>4, Users DEF MetricsSaved
    <2> QED BY <2>1, <2>2, Users, AlertsMoved DEF Base
  <1>5. CASE StartAnalysis
    <2>1. ~AboutToAlert("analyze") /\ stored' = stored /\ faults' = faults
      BY <1>5 DEF StartAnalysis, AboutToAlert
    <2>2. saved' = saved /\ \E l : l # "alerting" /\ pc' = [pc EXCEPT !["analyze"] = l]
      BY <1>0, <1>5, Users DEF StartAnalysis
    <2> QED BY <2>1, <2>2, Users, AlertsMoved DEF Base
  <1>6. ASSUME NEW p \in Procs, NEW queue, Gate(p, queue), pc[p] \in {"idle", "waiting"},
               stored' = stored, faults' = faults
        PROVE  AlertsInv'
    <2>1. ~AboutToAlert(p)
      BY <1>6 DEF AboutToAlert
    <2> QED BY <1>0, <1>6, <2>1, AlertsMoved DEF Base
  <1>7. CASE \E p \in LockUsers : LockHandedOver(p)
    BY <1>6, <1>7, Users DEF LockHandedOver
  <1>8. CASE \E t \in Triggers, A \in SUBSET Anomalies : TriggerAnalysis(t, A)
    BY <1>6, <1>8, Users DEF TriggerAnalysis
  <1>9. ASSUME NEW p \in Procs, PassStep(p) PROVE AlertsInv'
    <2>1. CASE CreateRow(p) \/ ReadContext(p) \/ Diagnose(p)
      <3>1. /\ ~AboutToAlert(p) /\ saved' = saved /\ stored' = stored /\ faults \subseteq faults'
            /\ \E l : l # "alerting" /\ pc' = [pc EXCEPT ![p] = l]
        BY <2>1 DEF CreateRow, ReadContext, Diagnose, Fail, AboutToAlert
      <3> QED BY <3>1, AlertsMoved DEF Base
    <2>2. CASE ReadRaises(p) \/ SaveRaises(p) \/ PassReturns(p)
      <3>1. /\ ~AboutToAlert(p) /\ stored' = stored /\ faults \subseteq faults'
            /\ \E why : Leave(p, why)
        BY <2>2 DEF ReadRaises, SaveRaises, PassReturns, Fail, AboutToAlert
      <3> QED BY <3>1, AlertsLeave
    <2>3. ASSUME NEW o \in Outcomes, AnalyzerEnds(p, o) PROVE AlertsInv'
      <3>1. /\ ~AboutToAlert(p) /\ stored' = stored /\ faults \subseteq faults'
            /\ \/ Leave(p, "standalone")
               \/ pc' = [pc EXCEPT ![p] = "reporting"] /\ saved' = saved
        BY <2>3 DEF AnalyzerEnds, Fail, AboutToAlert
      <3>2. CASE Leave(p, "standalone")
        BY <3>1, <3>2, AlertsLeave
      <3>3. CASE pc' = [pc EXCEPT ![p] = "reporting"] /\ saved' = saved
        BY <3>1, <3>3, AlertsMoved DEF Base
      <3> QED BY <3>1, <3>2, <3>3
    <2> QED BY <1>9, <2>1, <2>2, <2>3, AlertsSave, AlertsDispatch DEF PassStep
  <1>10. CASE \E f \in Fingerprints : HourPasses(f)
    BY <1>10, AlertsHour
  <1> QED BY <1>1, <1>2, <1>3, <1>4, <1>5, <1>7, <1>8, <1>9, <1>10 DEF Next

(***************************************************************************)
(* An insight that is stored is dispatched once, and not again within the  *)
(* hour; it is not dispatched at all only if the process ended between     *)
(* save_insight and dispatch.                                              *)
(***************************************************************************)
THEOREM AlertedOnce == Spec => []StoredAlertedOnce
  <1>1. Init => AlertsInv
    BY DEF Init, AlertsInv, StoredAlertedOnce, AboutToAlert
  <1>2. AlertsInv => StoredAlertedOnce
    BY DEF AlertsInv
  <1> QED BY <1>1, <1>2, AlertsStep, BaseHolds, PTL DEF Spec
-----------------------------------------------------------------------------
(***************************************************************************)
(* The gate.  Without callers of trigger_analysis, a pass that the gate    *)
(* let through finds the breaker not open until it has called: nobody but  *)
(* the pass itself records an outcome, is_open never opens a breaker, and  *)
(* time only ends a cooldown.                                              *)
(***************************************************************************)
BeforeCall == {"entered", "reading", "diagnosing", "calling"}

GateInv == Triggers = {} => \A p \in Procs : pc[p] \in BeforeCall => ~IsOpen(breaker)

LEMMA StaysShut ==
  ASSUME NEW b \in Breakers, ~IsOpen(b)
  PROVE  ~IsOpen(AfterIsOpen(b)) /\ (b.left > 0 => ~IsOpen(Elapse(b)))
  BY DEF IsOpen, Expired, AfterIsOpen, Closed, Elapse, Breakers

\* The breaker is not open afterwards if it was not, and nobody enters.
LEMMA GateKept ==
  ASSUME GateInv, ~IsOpen(breaker) => ~IsOpen(breaker'),
         \A p \in Procs : pc'[p] \in BeforeCall => pc[p] \in BeforeCall
  PROVE  GateInv'
  BY DEF GateInv, Procs, BeforeCall

LEMMA GateMoved ==
  ASSUME GateInv, LockInv, ~IsOpen(breaker) => ~IsOpen(breaker'),
         NEW p \in Procs, NEW l, pc' = [pc EXCEPT ![p] = l],
         l \in BeforeCall => pc[p] \in BeforeCall
  PROVE  GateInv'
  <1>1. \A q \in Procs : pc'[q] \in BeforeCall => pc[q] \in BeforeCall
    BY DEF LockInv
  <1> QED BY <1>1, GateKept

LEMMA GateEntered ==
  ASSUME GateInv, Base, NEW p \in Procs, NEW queue, Gate(p, queue)
  PROVE  GateInv'
  <1>1. breaker' = AfterIsOpen(breaker) /\ breaker \in Breakers
    BY DEF Gate, Base, TypeOK
  <1>2. ~IsOpen(breaker) => ~IsOpen(breaker')
    BY <1>1, StaysShut
  <1>3. CASE GateReturns(p, queue)
    <2>1. AfterPass(p) \notin BeforeCall /\ pc' = [pc EXCEPT ![p] = AfterPass(p)]
      BY <1>3 DEF GateReturns, AfterPass, BeforeCall
    <2> QED BY <1>2, <2>1, GateMoved DEF Base
  <1>4. CASE GatePasses(p, queue)
    <2>1. ~IsOpen(breaker')
      BY <1>2, <1>4 DEF GatePasses
    <2> QED BY <2>1 DEF GateInv, Procs
  <1> QED BY <1>3, <1>4 DEF Gate

LEMMA GateSafeAnalyze ==
  ASSUME GateInv, Base, NEW p \in Procs, NEW queue, SafeAnalyze(p, queue)
  PROVE  GateInv'
  <1>1. CASE holder = NoProc
    BY <1>1, GateEntered DEF SafeAnalyze
  <1>2. CASE holder # NoProc
    <2>1. pc' = [pc EXCEPT ![p] = "waiting"] /\ breaker' = breaker
      BY <1>2 DEF SafeAnalyze
    <2> QED BY <2>1, GateMoved DEF Base, BeforeCall
  <1> QED BY <1>1, <1>2

\* The pass that records an outcome is the only one there is.
LEMMA GateRecorded ==
  ASSUME GateInv, Base, NEW p \in Procs, NEW o \in Outcomes, AnalyzerEnds(p, o)
  PROVE  GateInv'
  <1> SUFFICES ASSUME Triggers = {}, NEW q \in Procs, pc'[q] \in BeforeCall PROVE FALSE
    BY DEF GateInv, Procs, BeforeCall
  <1>1. p \in LockUsers /\ q \in LockUsers
    BY DEF LockUsers, Procs
  <1>2. pc[p] = "calling"
    BY DEF AnalyzerEnds
  <1>3. \E l : l \notin BeforeCall /\ pc' = [pc EXCEPT ![p] = l]
    BY DEF AnalyzerEnds, Leave, AfterPass, BeforeCall
  <1>4. q # p /\ pc[q] \in BeforeCall
    BY <1>3 DEF Base, LockInv
  <1>5. holder = p /\ holder = q
    BY <1>1, <1>2, <1>4 DEF Base, LockInv, Analysing, BeforeCall
  <1> QED BY <1>4, <1>5

LEMMA GateStep == GateInv /\ Base /\ [Next]_vars => GateInv'
  <1> SUFFICES ASSUME GateInv, Base, [Next]_vars PROVE GateInv'
    OBVIOUS
  <1>1. CASE ProcessStarts \/ SchedulerStarts \/ (\E f \in Fingerprints : HourPasses(f)) \/ UNCHANGED vars
    BY <1>1, GateKept DEF ProcessStarts, SchedulerStarts, HourPasses, memory, vars
  <1>2. CASE ProcessEnds
    BY <1>2 DEF ProcessEnds, GateInv, BeforeCall, Procs
  <1>3. CASE StartCollection \/ (\E A \in SUBSET Anomalies : Detect(A)) \/ CollectionRaises \/ CompleteRun
    <2>1. /\ breaker' = breaker
          /\ \E l : l \notin BeforeCall /\ pc' = [pc EXCEPT !["collect"] = l]
      BY <1>3 DEF StartCollection, Detect, CollectionRaises, CompleteRun, BeforeCall
    <2> QED BY <2>1, Users, GateMoved DEF Base
  <1>4. CASE MetricsSaved
    <2>1. CASE found = {}
      <3>1. breaker' = breaker /\ pc' = [pc EXCEPT !["collect"] = "completing"]
        BY <1>4, <2>1 DEF MetricsSaved
      <3> QED BY <3>1, Users, GateMoved DEF Base, BeforeCall
    <2>2. CASE found # {}
      BY <1>4, <2>2, GateSafeAnalyze, Users DEF MetricsSaved
    <2> QED BY <2>1, <2>2
  <1>5. CASE StartAnalysis
    BY <1>5, GateSafeAnalyze, Users DEF StartAnalysis
  <1>6. CASE \E p \in LockUsers : LockHandedOver(p)
    BY <1>6, GateEntered, Users DEF LockHandedOver
  <1>7. CASE \E t \in Triggers, A \in SUBSET Anomalies : TriggerAnalysis(t, A)
    BY <1>7, GateEntered, Users DEF TriggerAnalysis
  <1>8. CASE Tick
    <2>1. breaker' = Elapse(breaker) /\ breaker.left > 0 /\ breaker \in Breakers /\ pc' = pc
      BY <1>8 DEF Tick, Base, TypeOK
    <2> QED BY <2>1, StaysShut, GateKept
  <1>9. ASSUME NEW p \in Procs, PassStep(p) PROVE GateInv'
    <2>1. CASE CreateRow(p) \/ ReadContext(p)
      <3>1. /\ pc[p] \in BeforeCall /\ breaker' = breaker
            /\ \E l : pc' = [pc EXCEPT ![p] = l]
        BY <2>1 DEF CreateRow, ReadContext, BeforeCall
      <3> QED BY <3>1, GateMoved DEF Base
    <2>2. CASE Diagnose(p)
      <3>1. /\ pc[p] \in BeforeCall /\ breaker' \in {breaker, AfterIsOpen(breaker)}
            /\ pc' = [pc EXCEPT ![p] = "calling"]
        BY <2>2 DEF Diagnose, BeforeCall
      <3>2. ~IsOpen(breaker) => ~IsOpen(breaker')
        BY <3>1, StaysShut DEF Base, TypeOK
      <3> QED BY <3>1, <3>2, GateMoved DEF Base
    <2>3. CASE ReadRaises(p) \/ SaveRaises(p) \/ PassReturns(p)
      <3>1. /\ breaker' = breaker
            /\ \E l : l \notin BeforeCall /\ pc' = [pc EXCEPT ![p] = l]
        BY <2>3 DEF ReadRaises, SaveRaises, PassReturns, Leave, AfterPass, BeforeCall
      <3> QED BY <3>1, GateMoved DEF Base
    <2>4. CASE \E o \in Outcomes : AnalyzerEnds(p, o)
      BY <2>4, GateRecorded
    <2>5. CASE SaveInsight(p)
      <3>1. breaker' = breaker /\ (pc' = pc \/ pc' = [pc EXCEPT ![p] = "alerting"])
        BY <2>5 DEF SaveInsight
      <3>2. CASE pc' = pc
        BY <3>1, <3>2, GateKept
      <3>3. CASE pc' = [pc EXCEPT ![p] = "alerting"]
        BY <3>1, <3>3, GateMoved DEF Base, BeforeCall
      <3> QED BY <3>1, <3>2, <3>3
    <2>6. CASE Dispatch(p)
      <3>1. breaker' = breaker /\ pc' = [pc EXCEPT ![p] = "reporting"]
        BY <2>6 DEF Dispatch
      <3> QED BY <3>1, GateMoved DEF Base, BeforeCall
    <2> QED BY <1>9, <2>1, <2>2, <2>3, <2>4, <2>5, <2>6 DEF PassStep
  <1> QED BY <1>1, <1>2, <1>3, <1>4, <1>5, <1>6, <1>7, <1>8, <1>9 DEF Next

(***************************************************************************)
(* In the daemon no LLM call starts while the breaker is open, however     *)
(* long the reads and diagnostics between the gate and the call take.      *)
(***************************************************************************)
THEOREM GateWorks == Spec => []NoCallWhileOpen
  <1>1. Init => GateInv
    BY DEF Init, GateInv, BeforeCall
  <1>2. GateInv => NoCallWhileOpen
    BY DEF GateInv, NoCallWhileOpen, BeforeCall
  <1> QED BY <1>1, <1>2, GateStep, BaseHolds, PTL DEF Spec
-----------------------------------------------------------------------------
(***************************************************************************)
(* The abstract queue.  A detection that the collection still holds has no *)
(* verdict yet, and in the daemon only one process has a batch.            *)
(***************************************************************************)
FoundIsNew == found \cap settled = {}

InWork == UNION {taken[p] : p \in Procs}

LEMMA FoundIsNewStep == FoundIsNew /\ Base /\ [Next]_vars => FoundIsNew'
  <1> SUFFICES ASSUME FoundIsNew, Base, [Next]_vars PROVE FoundIsNew'
    OBVIOUS
  <1> USE DEF FoundIsNew
  <1>1. CASE ProcessStarts \/ SchedulerStarts \/ StartCollection \/ CompleteRun \/ StartAnalysis \/ Tick
               \/ (\E f \in Fingerprints : HourPasses(f)) \/ UNCHANGED vars
    BY <1>1 DEF ProcessStarts, SchedulerStarts, StartCollection, CompleteRun, StartAnalysis, Tick,
                HourPasses, memory, vars
  <1>2. CASE ProcessEnds \/ CollectionRaises \/ MetricsSaved
    BY <1>2 DEF ProcessEnds, CollectionRaises, MetricsSaved
  <1>3. CASE \E A \in SUBSET Anomalies : Detect(A)
    BY <1>3 DEF Detect, Base, Ledger, OnlyDetected
  <1>4. CASE \E p \in LockUsers : LockHandedOver(p)
    BY <1>4 DEF LockHandedOver
  <1>5. CASE \E t \in Triggers, A \in SUBSET Anomalies : TriggerAnalysis(t, A)
    BY <1>5 DEF TriggerAnalysis
  <1>6. ASSUME NEW p \in Procs, PassStep(p) PROVE FoundIsNew'
    <2>1. found' = found /\ (settled' = settled \/ settled' = settled \cup taken[p])
      BY <1>6 DEF PassStep, CreateRow, ReadContext, ReadRaises, Diagnose, AnalyzerEnds,
                  SaveInsight, SaveRaises, Dispatch, PassReturns
    <2> QED BY <2>1 DEF Base, Ledger, AnomalyInOneList
  <1> QED BY <1>1, <1>2, <1>3, <1>4, <1>5, <1>6 DEF Next

LEMMA OneBatch ==
  ASSUME Base, Triggers = {}, NEW p \in Procs, pc[p] \in Analysing
  PROVE  \A q \in Procs \ {p} : taken[q] = {}
  BY DEF Base, LockInv, Ledger, StagesHoldTheirs, LockUsers, Procs

LEMMA NoBatch ==
  ASSUME Base, Triggers = {}, \A p \in Procs : holder = p => pc[p] \notin Analysing
  PROVE  InWork = {}
  BY DEF Base, LockInv, Ledger, StagesHoldTheirs, LockUsers, Procs, InWork

\* A step that takes up A, found or nothing, and passes the gate or not.
LEMMA EntersQueue ==
  ASSUME Base, NEW p \in Procs, NEW A \in SUBSET Anomalies, InWork = {},
         A \cap (pending \cup settled) = {}, settled' = settled,
         \/ pending' = pending \cup A /\ taken' = taken
         \/ pending' = {} /\ taken' = [taken EXCEPT ![p] = pending \cup A]
  PROVE  [Queue!Next]_(Queue!vars)
  <1>1. CASE pending' = pending \cup A /\ taken' = taken
    BY <1>1 DEF Queue!Next, Queue!vars, Queue!Enqueue, InWork
  <1>2. CASE pending' = {} /\ taken' = [taken EXCEPT ![p] = pending \cup A]
    <2>1. \A q \in Procs \ {p} : taken'[q] = {}
      BY <1>2 DEF InWork, Base, TypeOK
    <2>2. taken'[p] = pending \cup A
      BY <1>2 DEF Base, TypeOK
    <2>3. InWork' = pending \cup A
      BY <2>1, <2>2 DEF InWork, Procs
    <2> QED BY <1>2, <2>3 DEF Queue!Next, Queue!vars, Queue!Enqueue, Queue!Take, InWork
  <1> QED BY <1>1, <1>2

\* A pass that is over, with or without a verdict.
LEMMA LeavesQueue ==
  ASSUME Base, Triggers = {}, NEW p \in Procs, pc[p] \in Analysing, NEW why, Leave(p, why),
         pending' = pending, settled' = settled \/ settled' = settled \cup taken[p]
  PROVE  [Queue!Next]_(Queue!vars)
  <1>1. \A q \in Procs : taken'[q] = {}
    BY OneBatch DEF Leave, Base, TypeOK
  <1>2. InWork' = {} /\ InWork = taken[p]
    BY <1>1, OneBatch DEF InWork, Procs
  <1> QED BY <1>2 DEF Queue!Next, Queue!vars, Queue!Judge, Queue!Finish, InWork

LEMMA SafeAnalyzeQueue ==
  ASSUME Base, Triggers = {}, NEW p \in LockUsers, NEW A \in SUBSET Anomalies,
         SafeAnalyze(p, pending \cup A),
         A \cap (InWork \cup pending \cup settled) = {}, settled' = settled
  PROVE  [Queue!Next]_(Queue!vars)
  <1>1. CASE holder = NoProc
    <2>1. InWork = {}
      BY <1>1, NoBatch, MonitorAssumption
    <2>2. \/ pending' = pending \cup A /\ taken' = taken
          \/ pending' = {} /\ taken' = [taken EXCEPT ![p] = pending \cup A]
      BY <1>1 DEF SafeAnalyze, Gate, GateReturns, GatePasses
    <2> QED BY <2>1, <2>2, EntersQueue, Users
  <1>2. CASE holder # NoProc
    <2>1. pending' = pending \cup A /\ taken' = taken
      BY <1>2 DEF SafeAnalyze
    <2> QED BY <2>1 DEF Queue!Next, Queue!vars, Queue!Enqueue, InWork
  <1> QED BY <1>1, <1>2

LEMMA StuttersInQueue ==
  ASSUME UNCHANGED << pending, taken, settled >>
  PROVE  [Queue!Next]_(Queue!vars)
  BY DEF Queue!vars

LEMMA QueueStep ==
  ASSUME Base, FoundIsNew, Triggers = {}, [Next]_vars
  PROVE  [Queue!Next]_(Queue!vars)
  <1>1. CASE ProcessStarts \/ SchedulerStarts \/ StartCollection \/ CollectionRaises \/ CompleteRun
               \/ Tick \/ (\E A \in SUBSET Anomalies : Detect(A))
               \/ (\E f \in Fingerprints : HourPasses(f)) \/ UNCHANGED vars
    BY <1>1, StuttersInQueue DEF ProcessStarts, SchedulerStarts, StartCollection, CollectionRaises,
                CompleteRun, Tick, Detect, HourPasses, memory, vars
  <1>2. CASE ProcessEnds
    <2>1. pending' = {} /\ InWork' = {} /\ settled' = settled
      BY <1>2 DEF ProcessEnds, InWork, Procs
    <2> QED BY <2>1 DEF Queue!Next, Queue!Reset, InWork
  <1>3. CASE MetricsSaved
    <2>1. CASE found = {}
      BY <1>3, <2>1, StuttersInQueue DEF MetricsSaved
    <2>2. CASE found # {}
      <3>1. SafeAnalyze("collect", pending \cup found) /\ settled' = settled
        BY <1>3, <2>2 DEF MetricsSaved
      <3>2. found \cap (InWork \cup pending \cup settled) = {} /\ found \in SUBSET Anomalies
        BY DEF FoundIsNew, Base, Ledger, AnomalyInOneList, InWork, TypeOK
      <3> QED BY <3>1, <3>2, SafeAnalyzeQueue DEF LockUsers
    <2> QED BY <2>1, <2>2
  <1>4. CASE StartAnalysis
    <2>1. SafeAnalyze("analyze", pending \cup {}) /\ settled' = settled
      BY <1>4 DEF StartAnalysis
    <2> QED BY <2>1, SafeAnalyzeQueue DEF LockUsers
  <1>5. ASSUME NEW p \in LockUsers, LockHandedOver(p) PROVE [Queue!Next]_(Queue!vars)
    <2>1. pc[p] = "waiting" /\ holder = p /\ Gate(p, pending) /\ settled' = settled
      BY <1>5 DEF LockHandedOver
    <2>2. InWork = {}
      BY <2>1, NoBatch DEF Analysing
    <2>3. \/ pending' = pending \cup {} /\ taken' = taken
          \/ pending' = {} /\ taken' = [taken EXCEPT ![p] = pending \cup {}]
      BY <2>1 DEF Gate, GateReturns, GatePasses
    <2> QED BY <2>1, <2>2, <2>3, EntersQueue, Users
  <1>6. CASE \E t \in Triggers, A \in SUBSET Anomalies : TriggerAnalysis(t, A)
    BY <1>6
  <1>7. ASSUME NEW p \in Procs, PassStep(p) PROVE [Queue!Next]_(Queue!vars)
    <2>1. CASE CreateRow(p) \/ ReadContext(p) \/ Diagnose(p) \/ SaveInsight(p) \/ Dispatch(p)
      BY <2>1, StuttersInQueue DEF CreateRow, ReadContext, Diagnose, SaveInsight, Dispatch
    <2>2. CASE ReadRaises(p) \/ SaveRaises(p) \/ PassReturns(p)
      <3>1. /\ pc[p] \in Analysing /\ pending' = pending /\ settled' = settled
            /\ \E why : Leave(p, why)
        BY <2>2 DEF ReadRaises, SaveRaises, PassReturns, Analysing
      <3> QED BY <3>1, LeavesQueue
    <2>3. ASSUME NEW o \in Outcomes, AnalyzerEnds(p, o) PROVE [Queue!Next]_(Queue!vars)
      <3>1. /\ pc[p] \in Analysing /\ pending' = pending
            /\ settled' = settled \/ settled' = settled \cup taken[p]
            /\ Leave(p, "standalone") \/ taken' = taken
        BY <2>3 DEF AnalyzerEnds, Analysing
      <3>2. CASE Leave(p, "standalone")
        BY <3>1, <3>2, LeavesQueue
      <3>3. CASE taken' = taken
        <4>1. InWork = taken[p] /\ InWork' = InWork
          BY <3>1, <3>3, OneBatch DEF InWork, Procs
        <4> QED BY <3>1, <4>1, StuttersInQueue, <3>3 DEF Queue!Next, Queue!Judge, Queue!vars, InWork
      <3> QED BY <3>1, <3>2, <3>3
    <2> QED BY <1>7, <2>1, <2>2, <2>3 DEF PassStep
  <1> QED BY <1>1, <1>2, <1>3, <1>4, <1>5, <1>6, <1>7 DEF Next

(***************************************************************************)
(* The daemon's cycles, with their lock, breaker, stages, failures and     *)
(* restarts, implement AnalysisQueue: one batch at a time, always the      *)
(* whole queue, judged as a whole.  A caller of trigger_analysis may have  *)
(* a second batch in work, so the theorem is of a program without one.     *)
(***************************************************************************)
THEOREM AnalysisIsAQueue ==
  ASSUME Triggers = {}
  PROVE  Spec => ImplementsQueue
  <1>1. Init => Queue!Init
    BY DEF Init, Queue!Init
  <1>2. Init => FoundIsNew
    BY DEF Init, FoundIsNew
  <1>3. Base /\ FoundIsNew /\ [Next]_vars => [Queue!Next]_(Queue!vars)
    BY QueueStep
  <1> QED BY <1>1, <1>2, <1>3, FoundIsNewStep, BaseHolds, PTL DEF Spec, ImplementsQueue, Queue!Spec
=============================================================================

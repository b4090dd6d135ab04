------------------------ MODULE DiscoveryCycleProofs ------------------------
(***************************************************************************)
(* Theorems about the two halves of the discovery cycle: SourceExtraction, *)
(* for every list of ranked files, every size of the batches and every     *)
(* number of commits and failures; and Discovery, for every sequence of    *)
(* connectors, every set of tables and every number of versions, moves and *)
(* failures.                                                               *)
(***************************************************************************)
EXTENDS SourceExtraction, Discovery, TLAPS

(***************************************************************************)
(* The last of the commits c that changes the file f.                      *)
(***************************************************************************)
LastIn(c, f, k) == f \in c[k] /\ \A j \in k+1..Len(c) : f \notin c[j]

VersionIn(c, f) == CHOOSE k \in 1..Len(c) : LastIn(c, f, k)

LEMMA VersionIsLast ==
  ASSUME NEW c \in Seq(SUBSET Files), NEW f, NEW k \in 1..Len(c), LastIn(c, f, k)
  PROVE  VersionIn(c, f) = k
  <1>1. \A m \in 1..Len(c) : LastIn(c, f, m) => m = k
    <2> SUFFICES ASSUME NEW m \in 1..Len(c), LastIn(c, f, m), m # k PROVE FALSE
      OBVIOUS
    <2>1. CASE m < k
      <3>1. k \in m+1..Len(c)
        BY <2>1
      <3> QED BY <3>1 DEF LastIn
    <2>2. CASE k < m
      <3>1. m \in k+1..Len(c)
        BY <2>2
      <3> QED BY <3>1 DEF LastIn
    <2> QED BY <2>1, <2>2
  <1> QED BY <1>1 DEF VersionIn

\* A further commit is the last one for the files it changes, and for no other.
LEMMA LastOfMore ==
  ASSUME NEW c \in Seq(SUBSET Files), NEW F \in SUBSET Files
  PROVE  /\ \A f \in F : LastIn(Append(c, F), f, Len(c) + 1)
         /\ \A f \in Files \ F : \A k \in 1..Len(c) :
                LastIn(c, f, k) => LastIn(Append(c, F), f, k)
  <1> DEFINE d == Append(c, F)
  <1>1. /\ Len(d) = Len(c) + 1 /\ d[Len(c) + 1] = F /\ Len(c) \in Nat
        /\ \A k \in 1..Len(c) : d[k] = c[k]
    OBVIOUS
  <1> HIDE DEF d
  <1>2. \A f \in F : LastIn(d, f, Len(c) + 1)
    BY <1>1 DEF LastIn
  <1>3. ASSUME NEW f \in Files \ F, NEW k \in 1..Len(c), LastIn(c, f, k)
        PROVE  LastIn(d, f, k)
    <2>1. f \in d[k]
      BY <1>1, <1>3 DEF LastIn
    <2>2. ASSUME NEW j \in k+1..Len(d) PROVE f \notin d[j]
      <3>1. CASE j = Len(c) + 1
        BY <1>1, <3>1
      <3>2. CASE j # Len(c) + 1
        <4>1. j \in k+1..Len(c) /\ j \in 1..Len(c)
          BY <1>1, <3>2
        <4> QED BY <1>1, <1>3, <4>1 DEF LastIn
      <3> QED BY <3>1, <3>2
    <2> QED BY <2>1, <2>2 DEF LastIn
  <1> QED BY <1>2, <1>3 DEF d

\* Every file has been committed.
Committed == \A f \in Files : \E k \in 1..HEAD : LastIn(commits, f, k)
-----------------------------------------------------------------------------
(***************************************************************************)
(* Where the cycle is.  The commit is recorded before anything of it is    *)
(* extracted, and only a commit that follows another one has changed       *)
(* files.  Without failures a commit that is recorded is not empty and     *)
(* nothing was extracted before the first one.                             *)
(***************************************************************************)
Progress ==
    /\ lastSha <= HEAD /\ sha <= HEAD
    /\ stage \in {"changed", "indexing", "batch"} => lastSha = sha
    /\ stage = "recording" => start = 0
    /\ stage \in {"idle", "recording", "indexing"} => todo = {}
    /\ stage = "changed" => 2 <= sha
    /\ faults = 0 => /\ stage # "idle" => sha # 0
                     /\ stage = "recording" => lastSha < sha
                     /\ lastSha = 0 => \A f \in Files : done[f] = 0

(***************************************************************************)
(* The files before rank n have been extracted at the first commit; of a   *)
(* batch in progress, those that are not to do any more.                   *)
(***************************************************************************)
Covered(n) == \A r \in Ranks : r <= n /\ r \notin todo => done[Ranked[r]] = 1

Saved == IF index = -1 THEN Len(Ranked) ELSE index

BatchesInv ==
    (faults = 0 /\ HEAD = 1 /\ lastSha = 1) =>
        /\ stage = "idle"     => Covered(Saved)
        /\ stage = "indexing" => Covered(start)
        /\ stage = "batch"    => Covered(EndIndex) /\ Saved = EndIndex

(***************************************************************************)
(* A file that was extracted and is out of date was changed after the      *)
(* commit that is recorded, or is still to be extracted again.             *)
(***************************************************************************)
UpToDate(f) == done[f] = 0 \/ done[f] = Version(f)

ToExtract == {Ranked[r] : r \in todo}

StaleInv ==
    faults = 0 =>
        \A f \in Files : \/ UpToDate(f)
                         \/ lastSha < Version(f)
                         \/ stage = "changed" /\ f \in ToExtract

ExtractionInv ==
    /\ TypeOK /\ commits[1] = Files /\ Committed
    /\ Progress /\ BatchesInv /\ StaleInv
-----------------------------------------------------------------------------
LEMMA InvInit == Init => ExtractionInv
  <1> SUFFICES ASSUME Init PROVE ExtractionInv
    OBVIOUS
  <1> USE ExtractionAssumption
  <1>1. commits = << Files >> /\ HEAD = 1 /\ commits[1] = Files
    BY DEF Init, HEAD
  <1>2. TypeOK
    BY <1>1 DEF Init, TypeOK
  <1>3. Committed
    BY <1>1 DEF Committed, LastIn, Init, HEAD
  <1>4. Progress /\ BatchesInv /\ StaleInv
    BY <1>1 DEF Init, Progress, BatchesInv, StaleInv, UpToDate
  <1> QED BY <1>1, <1>2, <1>3, <1>4 DEF ExtractionInv

LEMMA VersionType ==
  ASSUME ExtractionInv
  PROVE  /\ HEAD \in Nat /\ HEAD \in 1..MaxCommits
         /\ \A f \in Files : Version(f) = VersionIn(commits, f) /\ Version(f) \in 1..HEAD
                             /\ LastIn(commits, f, Version(f))
  <1>1. HEAD \in Nat /\ HEAD \in 1..MaxCommits /\ commits \in Seq(SUBSET Files)
    BY ExtractionAssumption DEF ExtractionInv, TypeOK
  <1>2. ASSUME NEW f \in Files
        PROVE  Version(f) = VersionIn(commits, f) /\ Version(f) \in 1..HEAD
               /\ LastIn(commits, f, Version(f))
    <2>1. PICK k \in 1..HEAD : LastIn(commits, f, k)
      BY DEF ExtractionInv, Committed
    <2>2. VersionIn(commits, f) = k
      BY <1>1, <2>1, VersionIsLast DEF HEAD
    <2>3. Version(f) = VersionIn(commits, f)
      BY DEF Version, VersionIn, LastIn, HEAD
    <2> QED BY <2>1, <2>2, <2>3
  <1> QED BY <1>1, <1>2

\* A step of the job, which leaves the clone alone.
LEMMA SameClone ==
  ASSUME ExtractionInv, commits' = commits
  PROVE  /\ HEAD' = HEAD /\ commits'[1] = Files /\ Committed'
         /\ \A f \in Files : Version(f)' = Version(f)
  BY DEF ExtractionInv, Committed, LastIn, Version, HEAD, Files, Ranks

LEMMA CommitKeeps ==
  ASSUME ExtractionInv, NEW F \in SUBSET Files, Commit(F)
  PROVE  ExtractionInv'
  <1> USE ExtractionAssumption
  <1>1. /\ commits \in Seq(SUBSET Files) /\ HEAD \in Nat /\ HEAD >= 1 /\ HEAD < MaxCommits
        /\ HEAD = Len(commits) /\ commits' = Append(commits, F)
    BY DEF ExtractionInv, TypeOK, Commit, HEAD
  <1>2. HEAD' = HEAD + 1 /\ commits' \in Seq(SUBSET Files) /\ commits'[1] = commits[1]
    BY <1>1 DEF HEAD
  <1>3. UNCHANGED << lastSha, index, stage, sha, start, todo, done, faults >>
    BY DEF Commit, meta, cycle
  <1>4. TypeOK'
    BY <1>1, <1>2, <1>3 DEF ExtractionInv, TypeOK, Files, Ranks
  <1>5. ASSUME NEW f \in Files
        PROVE  /\ \E k \in 1..HEAD' : LastIn(commits', f, k)
               /\ Version(f)' = IF f \in F THEN HEAD + 1 ELSE Version(f)
    <2> DEFINE k == IF f \in F THEN HEAD + 1 ELSE Version(f)
    <2>1. k \in 1..HEAD' /\ LastIn(commits', f, k)
      BY <1>1, <1>2, VersionType, LastOfMore
    <2>2. VersionIn(commits', f) = k
      BY <1>1, <1>2, <2>1, VersionIsLast DEF HEAD
    <2>3. Version(f)' = VersionIn(commits', f)
      BY DEF Version, VersionIn, LastIn, HEAD
    <2> QED BY <2>1, <2>2, <2>3
  <1>6. Committed'
    BY <1>5 DEF Committed, Files, Ranks
  <1>7. Progress'
    BY <1>1, <1>2, <1>3 DEF ExtractionInv, Progress, TypeOK, Files, Ranks
  <1>8. BatchesInv'
    BY <1>1, <1>2 DEF BatchesInv
  <1>9. StaleInv'
    <2> SUFFICES ASSUME faults' = 0, NEW f \in Files
                 PROVE  \/ done'[f] = 0 \/ done'[f] = Version(f)'
                        \/ lastSha' < Version(f)'
                        \/ stage' = "changed" /\ f \in ToExtract'
      BY DEF StaleInv, UpToDate, Files, Ranks
    <2>1. CASE f \in F
      BY <1>1, <1>2, <1>3, <1>5, <2>1 DEF ExtractionInv, Progress, TypeOK
    <2>2. CASE f \notin F
      BY <1>3, <1>5, <2>2 DEF ExtractionInv, StaleInv, UpToDate, ToExtract
    <2> QED BY <2>1, <2>2
  <1> QED BY <1>1, <1>2, <1>4, <1>6, <1>7, <1>8, <1>9 DEF ExtractionInv, Files, Ranks

LEMMA CycleStartsKeeps ==
  ASSUME ExtractionInv, CycleStarts
  PROVE  ExtractionInv'
  <1> USE ExtractionAssumption
  <1>1. /\ stage = "idle" /\ ~NothingToDo /\ sha' = HEAD
        /\ UNCHANGED << commits, lastSha, index, todo, done, faults >>
        /\ IF lastSha = HEAD THEN stage' = "indexing" /\ start' = index
                             ELSE stage' = "recording" /\ start' = 0
    BY DEF CycleStarts, meta
  <1>2. HEAD \in 1..MaxCommits /\ HEAD \in Nat
    BY VersionType
  <1>3. lastSha = HEAD => index \in 0..Len(Ranked) - 1
    BY <1>1 DEF NothingToDo, ExtractionInv, TypeOK
  <1>4. TypeOK'
    BY <1>1, <1>2, <1>3, SameClone DEF ExtractionInv, TypeOK, Files, Ranks
  <1>5. Progress'
    BY <1>1, <1>2, SameClone DEF ExtractionInv, Progress, TypeOK, Files, Ranks
  <1>6. BatchesInv'
    <2> SUFFICES ASSUME faults' = 0, HEAD' = 1, lastSha' = 1, stage' = "indexing"
                 PROVE  Covered(start)'
      BY <1>1 DEF BatchesInv
    <2>1. Covered(Saved) /\ Saved = index /\ start' = index
      BY <1>1, <1>3, SameClone DEF ExtractionInv, BatchesInv, Saved
    <2> QED BY <1>1, <2>1 DEF Covered, Ranks
  <1>7. StaleInv'
    BY <1>1, SameClone DEF ExtractionInv, StaleInv, UpToDate, ToExtract, Files, Ranks
  <1> QED BY <1>1, <1>4, <1>5, <1>6, <1>7, SameClone DEF ExtractionInv

LEMMA CommitRecordedKeeps ==
  ASSUME ExtractionInv, CommitRecorded
  PROVE  ExtractionInv'
  <1> USE ExtractionAssumption
  <1>1. /\ stage = "recording" /\ lastSha' = sha /\ stage' \in {"changed", "indexing"}
        /\ UNCHANGED << commits, index, sha, start, done >>
        /\ faults' = faults \/ (faults < MaxFaults /\ faults' = faults + 1)
        /\ stage' = "changed" => lastSha # 0 /\ todo' = ChangedSince(lastSha)
        /\ stage' = "indexing" => /\ todo' = todo
                                  /\ faults' = 0 => lastSha = 0 \/ ChangedSince(lastSha) = {}
    BY DEF CommitRecorded, ExtractionInv, TypeOK
  <1>2. HEAD \in 1..MaxCommits /\ HEAD \in Nat
    BY VersionType
  <1>3. TypeOK'
    <2>1. TypeOK /\ faults' \in 0..MaxFaults
      BY <1>1 DEF ExtractionInv, TypeOK
    <2>2. todo' \in SUBSET Ranks
      BY <1>1, <2>1 DEF TypeOK, ChangedSince
    <2> QED BY Zenon, <1>1, <2>1, <2>2, SameClone DEF TypeOK
  <1>4. Progress'
    <2>1. /\ lastSha \in Nat /\ sha \in Nat /\ sha <= HEAD /\ todo = {}
          /\ faults' = 0 => faults = 0 /\ lastSha < sha
      BY <1>1 DEF ExtractionInv, TypeOK, Progress
    <2>2. lastSha' <= HEAD' /\ sha' <= HEAD'
      BY <1>1, <1>2, <2>1, SameClone
    <2>3. stage' = "changed" => 2 <= sha'
      <3> SUFFICES ASSUME stage' = "changed" PROVE 2 <= sha
        BY <1>1
      <3>1. lastSha # 0 /\ ChangedSince(lastSha) # {}
        BY <1>1, <2>1 DEF CommitRecorded
      <3>2. lastSha + 1 <= sha
        BY <2>1, <3>1 DEF ChangedSince
      <3> QED BY <2>1, <3>1, <3>2
    <2>4. faults' = 0 => lastSha' # 0 /\ sha' # 0
      BY <1>1, <2>1
    <2> QED BY <1>1, <2>1, <2>2, <2>3, <2>4 DEF Progress
  <1>5. BatchesInv'
    <2> SUFFICES ASSUME HEAD' = 1, lastSha' = 1, stage' = "indexing" PROVE Covered(start)'
      BY <1>1 DEF BatchesInv
    <2> QED BY <1>1 DEF Covered, Ranks, ExtractionInv, Progress
  <1>6. StaleInv'
    <2> SUFFICES ASSUME faults' = 0, NEW f \in Files, done[f] # 0, done[f] # Version(f),
                        Version(f) <= sha
                 PROVE  stage' = "changed" /\ f \in ToExtract'
      BY SMTT(40), <1>1, <1>2, SameClone, VersionType
         DEF StaleInv, UpToDate, Files, Ranks, ExtractionInv, TypeOK
    <2>1. faults = 0 /\ lastSha # 0 /\ lastSha < Version(f)
      BY <1>1 DEF ExtractionInv, StaleInv, UpToDate, Progress, TypeOK
    <2>2. Version(f) \in lastSha+1..sha /\ f \in commits[Version(f)]
      BY <2>1, VersionType DEF LastIn, ExtractionInv, TypeOK
    <2>3. PICK r \in Ranks : Ranked[r] = f
      BY DEF Files
    <2>4. r \in ChangedSince(lastSha)
      BY <2>2, <2>3 DEF ChangedSince
    <2>5. stage' = "changed"
      BY <1>1, <2>1, <2>4
    <2> QED BY <1>1, <2>3, <2>4, <2>5 DEF ToExtract
  <1> QED BY <1>1, <1>3, <1>4, <1>5, <1>6, SameClone DEF ExtractionInv

LEMMA FileExtractedKeeps ==
  ASSUME ExtractionInv, FileExtracted
  PROVE  ExtractionInv'
  <1> USE ExtractionAssumption
  <1>1. PICK r \in todo :
          /\ todo' = todo \ {r}
          /\ \/ done' = [done EXCEPT ![Ranked[r]] = Version(Ranked[r])] /\ faults' = faults
             \/ faults < MaxFaults /\ faults' = faults + 1 /\ done' = done
    BY DEF FileExtracted
  <1>2. stage \in {"changed", "batch"} /\ UNCHANGED << commits, lastSha, index, stage, sha, start >>
    BY DEF FileExtracted, meta
  <1>3. /\ r \in Ranks /\ Ranked[r] \in Files
        /\ HEAD \in 1..MaxCommits /\ Version(Ranked[r]) \in 1..HEAD
    BY VersionType DEF ExtractionInv, TypeOK, Files
  <1>4. TypeOK'
    <2>1. done' \in [Files -> 0..MaxCommits]
      BY <1>1, <1>3 DEF ExtractionInv, TypeOK
    <2>2. faults' \in 0..MaxFaults /\ todo' \in SUBSET Ranks
      BY <1>1 DEF ExtractionInv, TypeOK
    <2> QED BY <1>2, <2>1, <2>2, SameClone DEF ExtractionInv, TypeOK, Files, Ranks
  <1>5. Progress'
    <2>1. faults' = 0 => faults = 0 /\ lastSha # 0
      BY <1>1, <1>2 DEF ExtractionInv, Progress, TypeOK
    <2> QED BY <1>1, <1>2, <2>1, SameClone DEF ExtractionInv, Progress, TypeOK, Files, Ranks
  <1>6. ASSUME faults' = 0
        PROVE  done' = [done EXCEPT ![Ranked[r]] = Version(Ranked[r])] /\ faults = 0
    BY <1>1, <1>6 DEF ExtractionInv, TypeOK
  <1>7. BatchesInv'
    <2> SUFFICES ASSUME faults' = 0, HEAD' = 1, lastSha' = 1, stage' = "batch"
                 PROVE  Covered(EndIndex)' /\ Saved' = EndIndex'
      BY <1>2 DEF BatchesInv
    <2>1. Covered(EndIndex) /\ Saved = EndIndex /\ faults = 0
      BY <1>2, <1>6, SameClone DEF ExtractionInv, BatchesInv
    <2>2. EndIndex' = EndIndex /\ Saved' = Saved
      BY <1>2 DEF EndIndex, Saved
    <2>3. done' = [done EXCEPT ![Ranked[r]] = 1]
      <3>1. HEAD = 1
        BY <1>2, SameClone
      <3>2. Version(Ranked[r]) = 1
        BY <1>3, <3>1
      <3> QED BY <1>6, <3>2
    <2>4. \A q \in Ranks : /\ Ranked[q] \in Files
                          /\ done'[Ranked[q]] = IF Ranked[q] = Ranked[r] THEN 1 ELSE done[Ranked[q]]
      BY <2>3 DEF ExtractionInv, TypeOK, Files
    <2> QED BY <1>1, <2>1, <2>2, <2>4 DEF Covered, Ranks
  <1>8. StaleInv'
    <2> SUFFICES ASSUME faults' = 0, NEW f \in Files, f # Ranked[r]
                 PROVE  \/ done'[f] = 0 \/ done'[f] = Version(f)
                        \/ lastSha' < Version(f)
                        \/ stage' = "changed" /\ f \in ToExtract'
      <3>1. faults' = 0 => done'[Ranked[r]] = Version(Ranked[r])
        BY <1>3, <1>6 DEF ExtractionInv, TypeOK
      <3> QED BY <1>2, <3>1, SameClone DEF StaleInv, UpToDate, Files, Ranks
    <2>1. done'[f] = done[f] /\ faults = 0
      BY <1>6 DEF ExtractionInv, TypeOK
    <2>2. f \in ToExtract => f \in ToExtract'
      BY <1>1 DEF ToExtract
    <2> QED BY <1>2, <2>1, <2>2 DEF ExtractionInv, StaleInv, UpToDate
  <1> QED BY <1>2, <1>4, <1>5, <1>7, <1>8, SameClone DEF ExtractionInv

LEMMA ChangedDoneKeeps ==
  ASSUME ExtractionInv, ChangedDone
  PROVE  ExtractionInv'
  <1> USE ExtractionAssumption
  <1>1. /\ stage = "changed" /\ todo = {} /\ index' = -1 /\ stage' = "idle" /\ start' = 0
        /\ UNCHANGED << commits, lastSha, sha, todo, done, faults >>
    BY DEF ChangedDone
  <1>2. TypeOK' /\ Progress'
    BY <1>1, SameClone DEF ExtractionInv, TypeOK, Progress, Files, Ranks
  <1>3. BatchesInv'
    BY <1>1, SameClone, VersionType DEF BatchesInv, ExtractionInv, Progress, TypeOK
  <1>4. StaleInv'
    BY <1>1, SameClone DEF ExtractionInv, StaleInv, UpToDate, ToExtract, Files, Ranks
  <1> QED BY <1>1, <1>2, <1>3, <1>4, SameClone DEF ExtractionInv

LEMMA IndexSavedKeeps ==
  ASSUME ExtractionInv, IndexSaved
  PROVE  ExtractionInv'
  <1> USE ExtractionAssumption
  <1>1. /\ stage = "indexing" /\ index' = (IF EndIndex < Len(Ranked) THEN EndIndex ELSE -1)
        /\ todo' = start + 1 .. EndIndex /\ stage' = "batch"
        /\ UNCHANGED << commits, lastSha, sha, start, done, faults >>
    BY DEF IndexSaved
  <1>2. EndIndex \in 1..Len(Ranked) /\ start \in 0..Len(Ranked) - 1
    BY DEF EndIndex, ExtractionInv, TypeOK
  <1>3. TypeOK'
    BY <1>1, <1>2, SameClone DEF ExtractionInv, TypeOK, Files, Ranks
  <1>4. Progress'
    BY <1>1, SameClone DEF ExtractionInv, Progress, Files, Ranks
  <1>5. BatchesInv'
    <2> SUFFICES ASSUME faults' = 0, HEAD' = 1, lastSha' = 1
                 PROVE  Covered(EndIndex)' /\ Saved' = EndIndex'
      BY <1>1 DEF BatchesInv
    <2>1. EndIndex' = EndIndex
      BY <1>1 DEF EndIndex
    <2>2. Saved' = EndIndex
      BY <1>1, <1>2 DEF Saved
    <2>3. Covered(start) /\ todo = {}
      BY <1>1, SameClone DEF ExtractionInv, BatchesInv, Progress
    <2> QED BY <1>1, <1>2, <2>1, <2>2, <2>3 DEF Covered, Ranks
  <1>6. StaleInv'
    BY <1>1, SameClone DEF ExtractionInv, StaleInv, UpToDate, ToExtract, Files, Ranks
  <1> QED BY <1>1, <1>3, <1>4, <1>5, <1>6, SameClone DEF ExtractionInv

LEMMA BatchDoneKeeps ==
  ASSUME ExtractionInv, BatchDone
  PROVE  ExtractionInv'
  <1> USE ExtractionAssumption
  <1>1. /\ stage = "batch" /\ todo = {} /\ stage' = "idle" /\ start' = 0
        /\ UNCHANGED << commits, lastSha, index, sha, todo, done, faults >>
    BY DEF BatchDone, meta
  <1>2. TypeOK' /\ Progress'
    BY <1>1, SameClone DEF ExtractionInv, TypeOK, Progress, Files, Ranks
  <1>3. BatchesInv'
    <2> SUFFICES ASSUME faults' = 0, HEAD' = 1, lastSha' = 1 PROVE Covered(Saved)'
      BY <1>1 DEF BatchesInv
    <2>1. Covered(Saved)
      BY <1>1, SameClone DEF ExtractionInv, BatchesInv
    <2> QED BY <1>1, <2>1 DEF Covered, Saved, Ranks
  <1>4. StaleInv'
    BY <1>1, SameClone DEF ExtractionInv, StaleInv, UpToDate, ToExtract, Files, Ranks
  <1> QED BY <1>1, <1>2, <1>3, <1>4, SameClone DEF ExtractionInv

LEMMA InterruptedKeeps ==
  ASSUME ExtractionInv, Interrupted
  PROVE  ExtractionInv'
  <1> USE ExtractionAssumption
  <1>1. /\ faults < MaxFaults /\ faults' = faults + 1 /\ stage' = "idle" /\ start' = 0 /\ todo' = {}
        /\ UNCHANGED << commits, lastSha, index, sha, done >>
    BY DEF Interrupted, meta
  <1>2. TypeOK' /\ Progress'
    BY <1>1, SameClone DEF ExtractionInv, TypeOK, Progress, Files, Ranks
  <1>3. BatchesInv' /\ StaleInv'
    BY <1>1 DEF ExtractionInv, TypeOK, BatchesInv, StaleInv
  <1> QED BY <1>1, <1>2, <1>3, SameClone DEF ExtractionInv

LEMMA HeadUnreadKeeps ==
  ASSUME ExtractionInv, HeadUnread
  PROVE  ExtractionInv'
  <1> USE ExtractionAssumption
  <1>1. /\ stage = "idle" /\ faults < MaxFaults /\ faults' = faults + 1
        /\ sha' = 0 /\ stage' = "recording" /\ start' = 0
        /\ UNCHANGED << commits, lastSha, index, todo, done >>
    BY DEF HeadUnread, meta
  <1>2. HEAD \in Nat
    BY VersionType
  <1>3. TypeOK'
    BY <1>1, SameClone DEF ExtractionInv, TypeOK, Files, Ranks
  <1>4. Progress'
    BY <1>1, <1>2, SameClone DEF ExtractionInv, TypeOK, Progress, Files, Ranks
  <1>5. BatchesInv' /\ StaleInv'
    BY <1>1 DEF ExtractionInv, TypeOK, BatchesInv, StaleInv
  <1> QED BY <1>1, <1>3, <1>4, <1>5, SameClone DEF ExtractionInv

LEMMA InvStep == ExtractionInv /\ [Next]_vars => ExtractionInv'
  <1> SUFFICES ASSUME ExtractionInv, [Next]_vars PROVE ExtractionInv'
    OBVIOUS
  <1>1. CASE \E F \in SUBSET Files : Commit(F)
    BY <1>1, CommitKeeps
  <1>2. CASE Cycle
    BY <1>2, CycleStartsKeeps, CommitRecordedKeeps, FileExtractedKeeps, ChangedDoneKeeps,
       IndexSavedKeeps, BatchDoneKeeps DEF Cycle
  <1>3. CASE Interrupted \/ HeadUnread
    BY <1>3, InterruptedKeeps, HeadUnreadKeeps
  <1>4. CASE UNCHANGED vars
    <2>1. UNCHANGED << commits, lastSha, index, stage, sha, start, todo, done, faults >>
      BY <1>4 DEF vars, meta, cycle
    <2> QED BY ZenonT(40), <2>1
            DEF ExtractionInv, TypeOK, Committed, Progress, BatchesInv, StaleInv, LastIn, HEAD,
                Version, Covered, Saved, EndIndex, UpToDate, ToExtract, Files, Ranks
  <1> QED BY Zenon, <1>1, <1>2, <1>3, <1>4 DEF Next, AlreadyComplete

(***************************************************************************)
(* The invariant that the two properties rest on: where                    *)
(* _run_source_extraction is, what of the batches is covered and which     *)
(* files are out of date.                                                  *)
(***************************************************************************)
THEOREM ExtractionInvariant == Spec => []ExtractionInv
  BY InvInit, InvStep, PTL DEF Spec

(***************************************************************************)
(* Every variable keeps its type.                                          *)
(***************************************************************************)
THEOREM Types == Spec => []TypeOK
  <1>1. ExtractionInv => TypeOK
    BY DEF ExtractionInv
  <1> QED BY <1>1, ExtractionInvariant, PTL

(***************************************************************************)
(* The batches of a commit cover its files without a gap, whatever their   *)
(* size and number: _run_source_extraction saves the index of the next     *)
(* batch before it extracts one, and no file falls between two of them.    *)
(***************************************************************************)
THEOREM NoGap == Spec => []BatchesLeaveNoGap
  <1>1. ExtractionInv => BatchesLeaveNoGap
    BY ExtractionAssumption
    DEF ExtractionInv, TypeOK, Progress, BatchesInv, BatchesLeaveNoGap, Covered, Saved, Ranks
  <1> QED BY <1>1, ExtractionInvariant, PTL

(***************************************************************************)
(* Commits that arrive between the batches, or while one is extracted,     *)
(* leave no facts of an old version once the last commit is complete.      *)
(***************************************************************************)
THEOREM NothingStale == Spec => []NoStaleFile
  <1>1. ExtractionInv => NoStaleFile
    <2> SUFFICES ASSUME ExtractionInv, faults = 0, stage = "idle", lastSha = HEAD, NEW f \in Files
                 PROVE  done[f] \in {0, Version(f)}
      BY DEF NoStaleFile, NothingToDo
    <2>1. ~(lastSha < Version(f))
      BY VersionType
    <2> QED BY <2>1 DEF ExtractionInv, StaleInv, UpToDate
  <1> QED BY <1>1, ExtractionInvariant, PTL
-----------------------------------------------------------------------------
(***************************************************************************)
(* Types.  Whatever the queries of a connector lose, it answers with a     *)
(* fragment, and the fragments together are a model.                       *)
(***************************************************************************)
LEMMA PartialType ==
  ASSUME DiscoveryTypeOK, NEW k \in Index, NEW lost
  PROVE  Partial(k, lost) \in Fragments
  <1>1. schema[k] \in [Tables -> 0..MaxVersion] /\ data[k] \in 1..2
    BY DEF DiscoveryTypeOK
  <1> DEFINE l == Listed(k, lost)
             h == Keyed(k, lost)
             v == Sampled(k, lost)
             c == Commented(k, lost)
             r == Related(k, lost)
             i == Indexed(k, lost)
             p == Protected(k, lost)
  <1>2. /\ h \in 0..2 /\ v \in 0..2 /\ c \in 0..2 /\ i \in 0..2 /\ p \in 0..2
        /\ r \in BOOLEAN
    BY <1>1 DEF Keyed, Sampled, Commented, Related, Indexed, Protected
  <1>3. l \in [Tables -> 0..MaxVersion]
    BY <1>1, DiscoveryAssumption DEF Listed
  <1>4. Partial(k, lost) =
            [cols |-> l, rest |-> [keys |-> h, values |-> v, comments |-> c, indexes |-> i,
                                   policies |-> p],
             related |-> r]
    BY DEF Partial
  <1> HIDE DEF l, h, v, c, r, i, p
  <1>5. [keys |-> h, values |-> v, comments |-> c, indexes |-> i, policies |-> p]
            \in [TableParts -> 0..2]
    BY <1>2 DEF TableParts
  <1> QED BY <1>2, <1>3, <1>4, <1>5 DEF Fragments

\* What is read is replaced: the answer of a connector, or all those of a reader.
LEMMA FragmentsType ==
  ASSUME DiscoveryTypeOK, NEW x \in Readers
  PROVE  /\ \A k \in Index, f \in Fragments :
               [fragments EXCEPT ![x][k] = f]
                   \in [Readers -> [Index -> Fragments \cup {Unread}]]
         /\ [fragments EXCEPT ![x] = Nothing] \in [Readers -> [Index -> Fragments \cup {Unread}]]
  <1>1. fragments \in [Readers -> [Index -> Fragments \cup {Unread}]]
    BY DEF DiscoveryTypeOK
  <1>2. Nothing \in [Index -> Fragments \cup {Unread}]
    BY DEF Nothing
  <1> QED BY <1>1, <1>2

LEMMA AnswersType ==
  ASSUME DiscoveryTypeOK, NEW x \in Readers, NEW k \in Index, Answers(x, k)
  PROVE  DiscoveryTypeOK'
  <1>1. fragments' \in [Readers -> [Index -> Fragments \cup {Unread}]]
    <2>1. PICK f \in Fragments : fragments' = [fragments EXCEPT ![x][k] = f]
      BY Zenon, PartialType DEF Answers, Full
    <2> QED BY Zenon, <2>1, FragmentsType
  <1>2. failures' \in 0..MaxFailures
    BY DiscoveryAssumption DEF Answers, Fault, DiscoveryTypeOK
  <1>3. UNCHANGED << schema, data, phase, model, baseline, cached, told, cli, listed, merges,
                     latest, stored, moves, broken >>
    BY Zenon DEF Answers, world, daemon, command
  <1> QED BY <1>1, <1>2, <1>3 DEF DiscoveryTypeOK, Index, Models, Fragments

LEMMA MergedType ==
  ASSUME DiscoveryTypeOK, NEW x \in Readers, AllRead(x), NEW n \in Nat
  PROVE  [at |-> n, parts |-> fragments[x]] \in Models
  <1>1. fragments[x] \in [Index -> Fragments]
    BY DEF DiscoveryTypeOK, AllRead
  <1> QED BY <1>1 DEF Models

LEMMA NewestType ==
  \A old \in Models \cup {NoModel}, new \in Models : Newest(old, new) \in Models
  BY NothingAssumption DEF Newest

\* Whoever is about to save a model has one.
HoldsModel ==
    /\ phase \in {"saving", "extracting", "reporting", "alerting"} => model \in Models
    /\ cli = "saving" => listed \in Models

LEMMA DiscoveryTypesInit == DiscoveryInit => DiscoveryTypeOK /\ HoldsModel
  <1> SUFFICES ASSUME DiscoveryInit PROVE DiscoveryTypeOK /\ HoldsModel
    OBVIOUS
  <1> USE DiscoveryAssumption
  <1>1. schema \in [Index -> [Tables -> 0..MaxVersion]] /\ data \in [Index -> 1..2]
    BY DEF DiscoveryInit
  <1>2. fragments \in [Readers -> [Index -> Fragments \cup {Unread}]]
    <2>1. Nothing \in [Index -> Fragments \cup {Unread}]
      BY DEF Nothing
    <2> QED BY Zenon, <2>1 DEF DiscoveryInit
  <1>3. moves \in 0..MaxMoves /\ failures \in 0..MaxFailures
    BY DEF DiscoveryInit
  <1> HIDE DiscoveryAssumption
  <1> QED BY <1>1, <1>2, <1>3 DEF DiscoveryInit, DiscoveryTypeOK, HoldsModel

LEMMA DiscoveryTypesStep ==
  DiscoveryTypeOK /\ HoldsModel /\ [DiscoveryNext]_discoveryVars =>
      DiscoveryTypeOK' /\ HoldsModel'
  <1> SUFFICES ASSUME DiscoveryTypeOK, HoldsModel, [DiscoveryNext]_discoveryVars
               PROVE  DiscoveryTypeOK' /\ HoldsModel'
    OBVIOUS
  <1>0. Models' = Models /\ Index' = Index
    BY DEF Models, Fragments, Index, TableParts
  <1> USE DiscoveryAssumption, <1>0 DEF DiscoveryTypeOK, HoldsModel
  <1>1. CASE \E k \in Index, t \in Tables, v \in 0..MaxVersion : SchemaMigrates(k, t, v)
    BY <1>1 DEF SchemaMigrates, daemon, command
  <1>2. CASE \E k \in Index : DataChanges(k)
    <2>1. PICK k \in Index : DataChanges(k)
      BY <1>2
    <2>2. 3 - data[k] \in 1..2
      OBVIOUS
    <2> QED BY <2>1, <2>2 DEF DataChanges, daemon, command
  <1>3. CASE \E I \in SUBSET Tables : HourPasses(I)
    BY <1>3 DEF HourPasses, world, daemon, command
  <1>4. ASSUME NEW x \in Readers, NEW k \in Index, Answers(x, k)
        PROVE  DiscoveryTypeOK' /\ HoldsModel'
    BY Zenon, <1>4, AnswersType DEF Answers, daemon, command
  <1>5. CASE \E k \in Index : ConnectorAnswers(k) \/ CliAnswers(k)
    BY Zenon, <1>4, <1>5 DEF ConnectorAnswers, CliAnswers, Readers
  <1>6. CASE ProcessEnds
    <2>1. failures' \in 0..MaxFailures
      BY <1>6 DEF ProcessEnds, Fault
    <2> QED BY <1>6, <2>1, FragmentsType DEF ProcessEnds, world, command, Readers
  <1>7. CASE ProcessStarts
    BY <1>7 DEF ProcessStarts, world, command
  <1>8. CASE DiscoveryStarts
    BY <1>8 DEF DiscoveryStarts, world, command
  <1>9. CASE ModelMerged
    <2>1. model' \in Models
      BY <1>9, MergedType DEF ModelMerged, Readers
    <2> QED BY <1>9, <2>1, FragmentsType DEF ModelMerged, world, command, Readers
  <1>10. CASE SnapshotSaved
    <2>1. latest' \in Models /\ model \in Models
      BY <1>10, NewestType DEF SnapshotSaved
    <2> QED BY <1>10, <2>1 DEF SnapshotSaved, world, command
  <1>11. CASE SaveRaises
    <2>1. failures' \in 0..MaxFailures
      BY <1>11 DEF SaveRaises, Fault
    <2>2. latest' \in Models \cup {NoModel}
      <3>1. latest \in Models \cup {NoModel} /\ model \in Models
        BY <1>11 DEF SaveRaises
      <3>2. latest' \in {latest, Newest(latest, model)}
        BY <1>11 DEF SaveRaises
      <3>3. Newest(latest, model) \in Models
        BY Zenon, <3>1, NewestType
      <3> HIDE DEF DiscoveryTypeOK, HoldsModel
      <3> QED BY Zenon, <3>1, <3>2, <3>3
    <2> QED BY <1>11, <2>1, <2>2 DEF SaveRaises, Forgets, world, command
  <1>12. CASE ExtractionEnds
    BY <1>12 DEF ExtractionEnds, world, command
  <1>13. CASE ReportDrift
    <2>1. failures' \in 0..MaxFailures
      BY <1>13 DEF ReportDrift, Fault
    <2> QED BY <1>13, <2>1 DEF ReportDrift, Forgets, world, command
  <1>14. CASE AlertDrift
    <2>1. failures' \in 0..MaxFailures
      BY <1>14 DEF AlertDrift, Fault
    <2>2. DriftFingerprint(baseline, model) \in SUBSET Tables
      BY DEF DriftFingerprint, Added, Removed, TablesOf
    <2> HIDE DEF DiscoveryTypeOK
    <2>3. stored' \in SUBSET SUBSET Tables
      BY <1>14, <2>2 DEF AlertDrift, DiscoveryTypeOK
    <2> QED BY <1>14, <2>1, <2>3 DEF AlertDrift, Forgets, world, command, DiscoveryTypeOK
  <1>15. CASE CliStarts
    BY <1>15 DEF CliStarts, world, daemon
  <1>16. CASE CliMerges
    <2>1. listed' \in Models /\ merges' \in Nat
      BY <1>16, MergedType DEF CliMerges, Readers
    <2> QED BY <1>16, <2>1, FragmentsType DEF CliMerges, world, daemon, Readers
  <1>17. CASE CliSaves
    <2>1. latest' \in Models
      BY <1>17, NewestType DEF CliSaves
    <2> QED BY <1>17, <2>1 DEF CliSaves, world, daemon
  <1>18. CASE CliEnds
    <2>1. failures' \in 0..MaxFailures
      BY <1>18 DEF CliEnds, Fault
    <2> QED BY <1>18, <2>1, FragmentsType DEF CliEnds, world, daemon, Readers
  <1>19. CASE UNCHANGED discoveryVars
    BY <1>19 DEF discoveryVars, world, daemon, command
  <1> HIDE DEF DiscoveryTypeOK, HoldsModel
  <1> QED BY Zenon, <1>1, <1>2, <1>3, <1>5, <1>6, <1>7, <1>8, <1>9, <1>10, <1>11, <1>12, <1>13,
             <1>14, <1>15, <1>16, <1>17, <1>18, <1>19 DEF DiscoveryNext, Daemon, CommandLine

(***************************************************************************)
(* Every variable keeps its type: in particular what is cached, saved or   *)
(* told is a complete model or none.                                       *)
(***************************************************************************)
THEOREM DiscoveryTypes == DiscoverySpec => []DiscoveryTypeOK
  <1>1. DiscoverySpec => [](DiscoveryTypeOK /\ HoldsModel)
    BY DiscoveryTypesInit, DiscoveryTypesStep, PTL DEF DiscoverySpec
  <1> QED BY <1>1, PTL
-----------------------------------------------------------------------------
(***************************************************************************)
(* The events and the cache.  Up to the save of a model, what was told     *)
(* accounts for the cached model; from then on, until the drift has been   *)
(* reported, for the one it was compared with.  A first model needs no     *)
(* event.                                                                  *)
(***************************************************************************)
Accounts(x, y) ==
    IF y = NoModel THEN x = NoModel ELSE x # NoModel /\ Fingerprint(x) = Fingerprint(y)

EventsInv ==
    broken = "none" =>
        /\ phase = "down" => told = NoModel
        /\ phase \in {"idle", "reading", "saving", "alerting"} => Accounts(told, cached)
        /\ phase = "saving" => baseline = cached
        /\ phase \in {"extracting", "reporting"} =>
            /\ cached = model
            /\ IF baseline = NoModel THEN told = model ELSE Accounts(told, baseline)

LEMMA AccountsFacts ==
  /\ Accounts(NoModel, NoModel)
  /\ \A x : x # NoModel => Accounts(x, x)
  /\ \A x, y, z : Accounts(x, y) /\ y # NoModel /\ z # NoModel
                  /\ Fingerprint(y) = Fingerprint(z) => Accounts(x, z)
  BY DEF Accounts

LEMMA EventsStep ==
  EventsInv /\ HoldsModel /\ [DiscoveryNext]_discoveryVars => EventsInv'
  <1> SUFFICES ASSUME EventsInv, HoldsModel, [DiscoveryNext]_discoveryVars
               PROVE  EventsInv'
    OBVIOUS
  <1>0. EventsInv' <=>
            (broken' = "none" =>
                /\ phase' = "down" => told' = NoModel
                /\ phase' \in {"idle", "reading", "saving", "alerting"} => Accounts(told', cached')
                /\ phase' = "saving" => baseline' = cached'
                /\ phase' \in {"extracting", "reporting"} =>
                    /\ cached' = model'
                    /\ IF baseline' = NoModel THEN told' = model' ELSE Accounts(told', baseline'))
    BY Zenon DEF EventsInv, Accounts, Fingerprint, Owners, Index
  <1> USE NothingAssumption, AccountsFacts, <1>0 DEF EventsInv, HoldsModel
  <1>1. CASE UNCHANGED << daemon, broken >>
    BY <1>1 DEF daemon
  <1>2. CASE \/ \E k \in Index, t \in Tables, v \in 0..MaxVersion :
                   SchemaMigrates(k, t, v)
             \/ \E k \in Index : DataChanges(k) \/ ConnectorAnswers(k)
             \/ \E I \in SUBSET Tables : HourPasses(I)
             \/ CommandLine
             \/ UNCHANGED discoveryVars
    <2>1. UNCHANGED << daemon, broken >>
      BY Zenon, <1>2 DEF SchemaMigrates, DataChanges, HourPasses, ConnectorAnswers, Answers,
                         CommandLine, CliStarts, CliMerges, CliSaves, CliEnds, CliAnswers,
                         discoveryVars
    <2> QED BY <1>1, <2>1
  <1>3. CASE ProcessEnds
    BY <1>3 DEF ProcessEnds
  <1>4. CASE ProcessStarts
    BY <1>4 DEF ProcessStarts
  <1>5. CASE DiscoveryStarts
    BY <1>5 DEF DiscoveryStarts
  <1>6. CASE ModelMerged
    BY <1>6 DEF ModelMerged
  <1>7. CASE SnapshotSaved
    BY <1>7 DEF SnapshotSaved
  <1>8. CASE SaveRaises
    BY <1>8 DEF SaveRaises
  <1>9. CASE ExtractionEnds
    BY <1>9 DEF ExtractionEnds
  <1>10. CASE ReportDrift
    <2>1. phase = "reporting" /\ cached' = cached /\ model # NoModel
      BY <1>10 DEF ReportDrift
    <2>2. CASE Drift
      <3>1. /\ phase' = "alerting"
            /\ \/ told' = model /\ broken' = broken
               \/ broken' # "none"
        BY <1>10, <2>2 DEF ReportDrift
      <3> QED BY <2>1, <3>1
    <2>3. CASE ~Drift
      <3>1. phase' = "idle" /\ UNCHANGED << told, broken >>
        BY <1>10, <2>3 DEF ReportDrift
      <3>2. baseline # NoModel => Fingerprint(baseline) = Fingerprint(model)
        BY <2>3 DEF Drift, HasChanges
      <3>3. broken = "none" => Accounts(told, cached)
        BY <2>1, <3>2
      <3> QED BY <2>1, <3>1, <3>3
    <2> QED BY <2>2, <2>3
  <1>11. CASE AlertDrift
    BY <1>11 DEF AlertDrift
  <1> QED BY <1>2, <1>3, <1>4, <1>5, <1>6, <1>7, <1>8, <1>9, <1>10, <1>11 DEF DiscoveryNext, Daemon

(***************************************************************************)
(* No drift is skipped, whatever fails in the reads, the save, the         *)
(* extraction and the alert: between two cycles, the drift events account  *)
(* for the model that run_discovery_cycle compares the next one with.      *)
(***************************************************************************)
THEOREM NoDriftSkipped == DiscoverySpec => []EventsAccountForCache
  <1>1. DiscoveryInit => EventsInv
    BY DEF DiscoveryInit, EventsInv, Accounts
  <1>2. EventsInv => EventsAccountForCache
    BY DEF EventsInv, EventsAccountForCache, Accounts
  <1>3. DiscoverySpec => [](DiscoveryTypeOK /\ HoldsModel)
    BY DiscoveryTypesInit, DiscoveryTypesStep, PTL DEF DiscoverySpec
  <1> QED BY <1>1, <1>2, <1>3, EventsStep, PTL DEF DiscoverySpec
-----------------------------------------------------------------------------
(***************************************************************************)
(* The order of the models, by the time of their merge.  What was told is  *)
(* no newer than the saved snapshot, which a new process starts from; in a *)
(* process, it is no newer than what is cached, and in a cycle no newer    *)
(* than what the model is compared with.  No model is newer than the time. *)
(***************************************************************************)
Newer(y, x) == x # NoModel => y # NoModel /\ x.at <= y.at

AtMost(x, n) == x # NoModel => x.at <= n

OrderInv ==
    /\ \A x \in {model, listed, cached, latest, told} : AtMost(x, 2 * merges)
    /\ Newer(latest, told)
    /\ phase = "down" => cached = NoModel
    /\ phase # "down" => Newer(cached, told) /\ (cached # NoModel => told # NoModel)
    /\ phase = "saving" => baseline = cached /\ Newer(model, cached)
    /\ phase \in {"extracting", "reporting"} =>
        /\ cached = model /\ Newer(latest, model)
        /\ baseline # NoModel => Newer(baseline, told)

LEMMA OrderFacts ==
  /\ \A x : Newer(x, NoModel) /\ (x \in Models => Newer(x, x))
  /\ \A x, y, z \in Models \cup {NoModel} : Newer(y, x) /\ Newer(z, y) => Newer(z, x)
  /\ \A x \in Models \cup {NoModel}, y \in Models :
        /\ Newer(Newest(x, y), x) /\ Newer(Newest(x, y), y)
        /\ Newest(x, y) \in {x, y}
  /\ \A x \in Models \cup {NoModel}, m, n \in Nat : AtMost(x, m) /\ m <= n => AtMost(x, n)
  /\ \A n : AtMost(NoModel, n)
  <1>1. \A x \in Models \cup {NoModel} : x # NoModel => x.at \in Nat
    BY DEF Models
  <1> QED BY <1>1, NothingAssumption DEF Newer, AtMost, Newest

\* The snapshot that is the newest after a save, against both.
LEMMA SavedFacts ==
  ASSUME NEW x \in Models \cup {NoModel}, NEW y \in Models, NEW n,
         AtMost(x, n), AtMost(y, n)
  PROVE  /\ Newer(Newest(x, y), x) /\ Newer(Newest(x, y), y)
         /\ Newest(x, y) \in Models /\ AtMost(Newest(x, y), n)
  <1>1. Newest(x, y) \in {x, y}
    BY OrderFacts
  <1> QED BY Zenon, <1>1, OrderFacts, NewestType

LEMMA OrderStep ==
  OrderInv /\ DiscoveryTypeOK /\ HoldsModel /\ [DiscoveryNext]_discoveryVars => OrderInv'
  <1> SUFFICES ASSUME OrderInv, DiscoveryTypeOK, HoldsModel, [DiscoveryNext]_discoveryVars
               PROVE  OrderInv'
    OBVIOUS
  <1>0. /\ {model, baseline, listed, cached, latest, told} \subseteq Models \cup {NoModel}
        /\ merges \in Nat
    BY DEF DiscoveryTypeOK
  <1> USE NothingAssumption, OrderFacts, <1>0 DEF OrderInv, HoldsModel
  <1>1. CASE \/ \E k \in Index, t \in Tables, v \in 0..MaxVersion :
                   SchemaMigrates(k, t, v)
             \/ \E k \in Index : DataChanges(k) \/ ConnectorAnswers(k) \/ CliAnswers(k)
             \/ \E I \in SUBSET Tables : HourPasses(I)
             \/ CliStarts
             \/ UNCHANGED discoveryVars
    <2>1. UNCHANGED << daemon, listed, merges, latest >>
      BY Zenon, <1>1 DEF SchemaMigrates, DataChanges, HourPasses, ConnectorAnswers, CliAnswers,
                         Answers, CliStarts, command, discoveryVars
    <2> QED BY <2>1 DEF daemon
  <1>2. CASE CliMerges
    <2>1. UNCHANGED << model, baseline, cached, told, latest, phase >> /\ merges' = merges + 1
          /\ listed'.at = 2 * merges + 1
      BY <1>2 DEF CliMerges, daemon
    <2>2. AtMost(listed', 2 * merges')
      BY <2>1 DEF AtMost
    <2>3. 2 * merges \in Nat /\ 2 * merges' \in Nat /\ 2 * merges <= 2 * merges'
      BY <2>1
    <2> QED BY <2>1, <2>2, <2>3
  <1>3. CASE CliSaves
    <2>1. /\ UNCHANGED << model, baseline, cached, told, phase, merges >> /\ listed' = NoModel
          /\ latest' = Newest(latest, listed) /\ listed \in Models
      BY <1>3 DEF CliSaves, daemon
    <2>2. Newer(latest', latest) /\ latest' \in Models /\ AtMost(latest', 2 * merges)
      BY <2>1, SavedFacts
    <2> QED BY <2>1, <2>2
  <1>4. CASE CliEnds
    BY <1>4 DEF CliEnds, daemon
  <1>5. CASE ProcessEnds
    BY <1>5 DEF ProcessEnds, command
  <1>6. CASE ProcessStarts
    BY <1>6 DEF ProcessStarts, command, Newer
  <1>7. CASE DiscoveryStarts
    BY <1>7 DEF DiscoveryStarts, command
  <1>8. CASE ModelMerged
    <2>1. /\ phase' = "saving" /\ UNCHANGED << cached, told, latest, listed, merges >>
          /\ baseline' = cached /\ model' = [at |-> 2 * merges, parts |-> fragments["daemon"]]
          /\ phase = "reading" /\ AllRead("daemon")
      BY <1>8 DEF ModelMerged, command
    <2>2. model' \in Models /\ model'.at = 2 * merges
      BY <2>1, MergedType DEF Readers
    <2>3. AtMost(model', 2 * merges) /\ Newer(model', cached)
      BY <2>2 DEF AtMost, Newer
    <2> QED BY <2>1, <2>2, <2>3
  <1>9. CASE SnapshotSaved
    <2>1. /\ phase = "saving" /\ phase' = "extracting" /\ latest' = Newest(latest, model)
          /\ cached' = model /\ told' = (IF baseline = NoModel THEN model ELSE told)
          /\ UNCHANGED << model, baseline, listed, merges >>
      BY <1>9 DEF SnapshotSaved, command
    <2>2. /\ Newer(latest', latest) /\ Newer(latest', model) /\ latest' \in Models
          /\ model \in Models /\ AtMost(latest', 2 * merges)
      BY <2>1, SavedFacts
    <2>3. CASE baseline = NoModel
      BY <2>1, <2>2, <2>3
    <2>4. CASE baseline # NoModel
      BY <2>1, <2>2, <2>4
    <2> QED BY <2>3, <2>4
  <1>10. CASE SaveRaises
    <2>1. /\ phase = "saving" /\ phase' = "idle" /\ model' = NoModel /\ baseline' = NoModel
          /\ latest' \in {latest, Newest(latest, model)}
          /\ UNCHANGED << cached, told, listed, merges >>
      BY <1>10 DEF SaveRaises, Forgets, command
    <2>2. /\ Newer(latest', latest) /\ latest' \in Models \cup {NoModel}
          /\ AtMost(latest', 2 * merges)
      <3>1. model \in Models
        BY <2>1
      <3>2. latest \in Models \cup {NoModel} /\ AtMost(latest, 2 * merges)
            /\ AtMost(model, 2 * merges)
        OBVIOUS
      <3> QED BY <2>1, <3>1, <3>2, SavedFacts
    <2> QED BY <2>1, <2>2
  <1>11. CASE ExtractionEnds
    BY <1>11 DEF ExtractionEnds, command
  <1>12. CASE ReportDrift
    <2>1. /\ phase = "reporting" /\ phase' \in {"idle", "alerting"}
          /\ UNCHANGED << cached, latest, listed, merges >>
          /\ told' \in {told, model} /\ model' \in {NoModel, model}
      BY <1>12 DEF ReportDrift, Forgets, command
    <2> QED BY <2>1
  <1>13. CASE AlertDrift
    BY <1>13 DEF AlertDrift, Forgets, command
  <1> QED BY <1>1, <1>2, <1>3, <1>4, <1>5, <1>6, <1>7, <1>8, <1>9, <1>10, <1>11, <1>12, <1>13
          DEF DiscoveryNext, Daemon, CommandLine

(***************************************************************************)
(* No change is told twice: run_discovery_cycle reports no drift against a *)
(* model older than the one of the last report, in a process that was      *)
(* started again no more than in one that goes on, for however many        *)
(* discoveries of the command line, crashes and saves that raise.          *)
(***************************************************************************)
THEOREM NoDriftIsToldTwice == DiscoverySpec => NoDriftToldTwice
  <1>1. DiscoveryInit => OrderInv
    BY OrderFacts DEF DiscoveryInit, OrderInv
  <1>2. OrderInv /\ HoldsModel /\ [DiscoveryNext]_discoveryVars =>
            [phase = "reporting" /\ phase' = "alerting" =>
                told # NoModel /\ told.at <= baseline.at]_discoveryVars
    <2> SUFFICES ASSUME OrderInv, HoldsModel, DiscoveryNext, phase = "reporting", phase' = "alerting"
                 PROVE  told # NoModel /\ told.at <= baseline.at
      OBVIOUS
    <2>1. CASE ReportDrift
      <3>1. baseline # NoModel
        BY <2>1 DEF ReportDrift, Drift
      <3>2. cached # NoModel /\ Newer(baseline, told) /\ told # NoModel
        BY <3>1, NothingAssumption DEF OrderInv, HoldsModel
      <3> QED BY <3>2 DEF Newer
    <2>2. CASE ~ReportDrift
      <3>1. FALSE
        BY Zenon, <2>2 DEF DiscoveryNext, Daemon, CommandLine, SchemaMigrates, DataChanges,
             HourPasses, ConnectorAnswers, CliAnswers, Answers, CliStarts, CliMerges, CliSaves,
             CliEnds, ProcessEnds, ProcessStarts, DiscoveryStarts, ModelMerged, SnapshotSaved,
             SaveRaises, ExtractionEnds, AlertDrift, daemon
      <3> QED BY <3>1
    <2> QED BY <2>1, <2>2
  <1>3. DiscoverySpec => [](DiscoveryTypeOK /\ HoldsModel)
    BY DiscoveryTypesInit, DiscoveryTypesStep, PTL DEF DiscoverySpec
  <1> QED BY <1>1, <1>2, <1>3, OrderStep, PTL DEF DiscoverySpec, NoDriftToldTwice
=============================================================================

--------------------------- MODULE SourceExtraction ---------------------------
(***************************************************************************)
(* _run_source_extraction of core/monitor.py with the extraction pipeline  *)
(* of core/code_intelligence/extractor.py: which files of the local clone  *)
(* have been given to the LLM, and the two values that remember it in the  *)
(* code_intelligence_meta table.                                           *)
(*                                                                         *)
(* It is awaited by the discovery cycle under a timeout, so it may be      *)
(* interrupted at every await: by the timeout, by a store call that raises *)
(* or by the end of the process.  The git commands do not suspend.         *)
(***************************************************************************)
EXTENDS Integers, Sequences, FiniteSets

CONSTANTS
    Ranked,        \* the high-signal files, best first (get_high_signal_files)
    BatchSize,     \* batch_size
    MaxCommits,    \* bound on the commits of the clone
    MaxFaults      \* bound on interruptions, failed calls and failed diffs

ASSUME ExtractionAssumption ==
    /\ Len(Ranked) \in Nat \ {0} /\ BatchSize \in Nat \ {0}
    /\ MaxCommits \in Nat \ {0} /\ MaxFaults \in Nat

Ranks == 1..Len(Ranked)
Files == {Ranked[k] : k \in Ranks}
Unset == -2

VARIABLES
    commits,   \* of each commit of the clone, the files it changes
    lastSha,   \* last_indexed_commit; 0 when there is none or it is empty
    index,     \* last_extracted_file_index; Unset when there is none
    stage,     \* "idle", "recording", "changed", "indexing" or "batch"
    sha,       \* head_sha of the cycle in progress; 0 when it is empty
    start,     \* its start_index
    todo,      \* the ranks of the files it has still to extract
    done,      \* history: the version of each file last given to the LLM
    faults     \* history: how many failures there have been

meta  == << lastSha, index >>
cycle == << stage, sha, start, todo >>
vars  == << commits, meta, cycle, done, faults >>

\* The clone: HEAD, and the commit a file was last changed in.
HEAD == Len(commits)
Version(f) ==
    CHOOSE k \in 1..HEAD : f \in commits[k] /\ \A j \in k+1..HEAD : f \notin commits[j]
-----------------------------------------------------------------------------
TypeOK ==
    /\ commits \in Seq(SUBSET Files) /\ HEAD \in 1..MaxCommits
    /\ lastSha \in 0..MaxCommits
    /\ index \in {Unset, -1} \cup (0..Len(Ranked) - 1)
    /\ stage \in {"idle", "recording", "changed", "indexing", "batch"}
    /\ sha \in 0..MaxCommits
    /\ start \in 0..Len(Ranked) - 1
    /\ todo \in SUBSET Ranks
    /\ done \in [Files -> 0..MaxCommits]
    /\ faults \in 0..MaxFaults

Init ==
    /\ commits = << Files >>
    /\ lastSha = 0 /\ index = Unset
    /\ stage = "idle" /\ sha = 0 /\ start = 0 /\ todo = {}
    /\ done = [f \in Files |-> 0]
    /\ faults = 0

\* The clone moves on to a commit that changes the files F.
Commit(F) ==
    /\ HEAD < MaxCommits /\ F # {}
    /\ commits' = Append(commits, F)
    /\ UNCHANGED << meta, cycle, done, faults >>
-----------------------------------------------------------------------------
\* The commit is the last indexed one: "extraction complete".
NothingToDo == lastSha = HEAD /\ index \in {Unset, -1}

\* The values are read; only this job writes them.
CycleStarts ==
    /\ stage = "idle" /\ ~NothingToDo
    /\ sha' = HEAD
    /\ IF lastSha = HEAD
       THEN stage' = "indexing" /\ start' = index
       ELSE stage' = "recording" /\ start' = 0
    /\ UNCHANGED << commits, meta, todo, done, faults >>

\* `git rev-parse' exits with an error, which nobody looks at: the commit is
\* empty, 0, and that is recorded as if it were a new one.
HeadUnread ==
    /\ stage = "idle" /\ faults < MaxFaults
    /\ faults' = faults + 1
    /\ sha' = 0 /\ stage' = "recording" /\ start' = 0
    /\ UNCHANGED << commits, meta, todo, done >>

\* The files `git diff' names; nothing when it fails.
ChangedSince(old) == {r \in Ranks : \E k \in old+1..sha : Ranked[r] \in commits[k]}

\* Variant: the changed files are not looked for.
CommitRecordedOnly ==
    /\ stage = "recording"
    /\ lastSha' = sha
    /\ todo' = {} /\ stage' = IF lastSha = 0 THEN "indexing" ELSE "changed"
    /\ UNCHANGED << commits, index, sha, start, done, faults >>

\* The commit is recorded before anything of it is extracted.
CommitRecorded ==
    /\ stage = "recording"
    /\ lastSha' = sha
    /\ \/ /\ lastSha # 0 /\ ChangedSince(lastSha) # {}
          /\ todo' = ChangedSince(lastSha) /\ stage' = "changed"
          /\ UNCHANGED faults
       \/ /\ lastSha = 0 \/ ChangedSince(lastSha) = {}
          /\ stage' = "indexing"
          /\ UNCHANGED << todo, faults >>
       \/ /\ lastSha # 0 /\ faults < MaxFaults
          /\ faults' = faults + 1 /\ stage' = "indexing"
          /\ UNCHANGED todo
    /\ UNCHANGED << commits, index, sha, start, done >>

\* The next file is read and given to the LLM: of a batch the next in rank, of
\* the changed ones as git orders them.  A call that fails is caught.
FileExtracted ==
    /\ stage \in {"changed", "batch"}
    /\ \E r \in todo :
         /\ stage = "batch" => \A q \in todo : r <= q
         /\ todo' = todo \ {r}
         /\ \/ done' = [done EXCEPT ![Ranked[r]] = Version(Ranked[r])] /\ UNCHANGED faults
            \/ faults < MaxFaults /\ faults' = faults + 1 /\ UNCHANGED done
    /\ UNCHANGED << commits, meta, stage, sha, start >>

\* The changed files are done: no batch is pending any more.
ChangedDone ==
    /\ stage = "changed" /\ todo = {}
    /\ index' = -1
    /\ stage' = "idle" /\ start' = 0
    /\ UNCHANGED << commits, lastSha, sha, todo, done, faults >>

EndIndex ==
    IF start + BatchSize < Len(Ranked) THEN start + BatchSize ELSE Len(Ranked)

\* Variants: the next index skips a file; the last batch is not recognised.
IndexSavedSkipping ==
    /\ stage = "indexing"
    /\ index' = IF EndIndex + 1 < Len(Ranked) THEN EndIndex + 1 ELSE -1
    /\ todo' = start + 1 .. EndIndex
    /\ stage' = "batch"
    /\ UNCHANGED << commits, lastSha, sha, start, done, faults >>

IndexSavedWrapping ==
    /\ stage = "indexing"
    /\ index' = IF EndIndex < Len(Ranked) THEN EndIndex ELSE 0
    /\ todo' = start + 1 .. EndIndex
    /\ stage' = "batch"
    /\ UNCHANGED << commits, lastSha, sha, start, done, faults >>

\* The index of the next batch is saved before this one is extracted.
IndexSaved ==
    /\ stage = "indexing"
    /\ index' = IF EndIndex < Len(Ranked) THEN EndIndex ELSE -1
    /\ todo' = start + 1 .. EndIndex
    /\ stage' = "batch"
    /\ UNCHANGED << commits, lastSha, sha, start, done, faults >>

BatchDone ==
    /\ stage = "batch" /\ todo = {}
    /\ stage' = "idle" /\ start' = 0
    /\ UNCHANGED << commits, meta, sha, todo, done, faults >>

\* The 120 seconds are over, a store call raises or the process ends.
Interrupted ==
    /\ stage # "idle" /\ faults < MaxFaults
    /\ faults' = faults + 1
    /\ stage' = "idle" /\ start' = 0 /\ todo' = {}
    /\ UNCHANGED << commits, meta, sha, done >>

\* Nothing to do: the cycle returns, and so do the ones after it.
AlreadyComplete == stage = "idle" /\ NothingToDo /\ UNCHANGED vars

Cycle ==
    \/ CycleStarts \/ CommitRecorded \/ FileExtracted \/ ChangedDone
    \/ IndexSaved \/ BatchDone

Next ==
    \/ \E F \in SUBSET Files : Commit(F)
    \/ Cycle \/ HeadUnread \/ Interrupted \/ AlreadyComplete

Spec == Init /\ [][Next]_vars

\* The discovery job fires again and every call of a cycle ends.
FairSpec == Spec /\ WF_vars(Cycle)
-----------------------------------------------------------------------------
(***************************************************************************)
(* The batches of a commit cover its files without a gap: between two      *)
(* cycles, the files before the saved index have all been extracted.       *)
(* (Without failures and before a second commit.)                          *)
(***************************************************************************)
BatchesLeaveNoGap ==
    (stage = "idle" /\ faults = 0 /\ HEAD = 1 /\ lastSha = 1) =>
        \A r \in Ranks : (index = -1 \/ r <= index) => done[Ranked[r]] = 1

(***************************************************************************)
(* Commits that arrive between the batches, or while one is extracted, do  *)
(* not leave facts of an old version: without failures, once the last      *)
(* commit is complete, every file that was ever extracted was extracted as *)
(* it is now.                                                              *)
(***************************************************************************)
NoStaleFile ==
    (stage = "idle" /\ faults = 0 /\ NothingToDo) =>
        \A f \in Files : done[f] \in {0, Version(f)}

(***************************************************************************)
(* Whatever is interrupted, the extraction comes to an end once the clone  *)
(* stands still.                                                           *)
(***************************************************************************)
ExtractionSettles == <>[](stage = "idle" /\ NothingToDo)
=============================================================================

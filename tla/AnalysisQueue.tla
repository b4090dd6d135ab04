---------------------------- MODULE AnalysisQueue ----------------------------
(***************************************************************************)
(* What the analysis of anomalies promises, without the locks, stages,     *)
(* breaker and store that it takes: anomalies are queued; a pass takes     *)
(* everything that is queued at once, and only when no other batch is in   *)
(* work, so that what is queued during a pass waits for the next one; a    *)
(* verdict is on a batch as a whole.                                       *)
(***************************************************************************)
CONSTANT Anomalies

VARIABLES queued, batch, judged

vars == << queued, batch, judged >>

Init == queued = {} /\ batch = {} /\ judged = {}

\* New anomalies join the queue; with nothing in work a pass may take them.
Enqueue(A) ==
    /\ A # {} /\ A \cap (queued \cup batch \cup judged) = {}
    /\ \/ queued' = queued \cup A /\ UNCHANGED batch
       \/ batch = {} /\ batch' = queued \cup A /\ queued' = {}
    /\ UNCHANGED judged

Take ==
    /\ batch = {} /\ queued # {}
    /\ batch' = queued /\ queued' = {}
    /\ UNCHANGED judged

\* The verdict; the pass may be over with it.
Judge ==
    /\ batch # {}
    /\ judged' = judged \cup batch
    /\ batch' \in {batch, {}}
    /\ UNCHANGED queued

\* The pass is over, after its verdict or because a call failed.
Finish ==
    /\ batch' = {}
    /\ UNCHANGED << queued, judged >>

\* The queue and the batch live in the memory of the process.
Reset ==
    /\ queued' = {} /\ batch' = {}
    /\ UNCHANGED judged

Next == (\E A \in SUBSET Anomalies : Enqueue(A)) \/ Take \/ Judge \/ Finish \/ Reset

Spec == Init /\ [][Next]_vars
=============================================================================

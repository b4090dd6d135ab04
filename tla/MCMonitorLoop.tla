--------------------------- MODULE MCMonitorLoop ---------------------------
(***************************************************************************)
(* Instances of MonitorLoop for TLC.  A unit of time is five minutes, and  *)
(* only the first hard cooldowns are reached.                              *)
(***************************************************************************)
EXTENDS MonitorLoop, TLC

CodeCooldowns == << 1, 3, 12 >>

\* All detections are of one bucket: re-firings of one anomaly.
OneBucket == [a \in Anomalies |-> "bucket"]

Symmetry == Permutations(Anomalies) \cup Permutations(Titles)
=============================================================================

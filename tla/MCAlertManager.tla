--------------------------- MODULE MCAlertManager ---------------------------
(***************************************************************************)
(* Instances of AlertManager for TLC: the first two insights share a       *)
(* fingerprint; "log" takes every severity, "page" only the critical ones. *)
(***************************************************************************)
EXTENDS AlertManager

Sample == << "i1", "i2", "i3", "i4" >>

FirstN(n) == {Sample[k] : k \in 1..n}

Two  == FirstN(2)
Four == FirstN(4)

SampleFp == [i \in Insights |-> IF i \in {"i1", "i2"} THEN "f1" ELSE i]

\* Two incidents made of these may share a fingerprint.
SampleTables == [i \in Insights |-> IF i \in {"i1", "i3"} THEN {"t1"} ELSE {"t2"}]

SampleSeverity == [i \in Insights |-> IF i \in {"i1", "i4"} THEN "critical" ELSE "warning"]

SampleFilter ==
    [c \in Channels |-> IF c = "page" THEN {"critical"} ELSE {"info", "warning", "critical"}]
=============================================================================

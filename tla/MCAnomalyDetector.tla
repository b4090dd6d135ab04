-------------------------- MODULE MCAnomalyDetector --------------------------
(***************************************************************************)
(* Instance of AnomalyDetector for TLC: three hosts of one service, whose  *)
(* identity labels are stripped from the seasonal key, so that a level of  *)
(* one host can be in the minority of the samples they share.              *)
(***************************************************************************)
EXTENDS AnomalyDetector

ThreeHosts == << "host1", "host2", "host3" >>
OneKey     == << "service", "service", "service" >>

\* All hosts stand at one level, or one of them in a minority (hosts are alike).
Together == << 20, 20, 20 >>
OneApart == << 20, 20, 40 >>
Standing == {Together, OneApart}
=============================================================================

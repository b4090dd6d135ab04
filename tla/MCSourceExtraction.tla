------------------------- MODULE MCSourceExtraction -------------------------
(***************************************************************************)
(* Instances of SourceExtraction for TLC.                                  *)
(***************************************************************************)
EXTENDS SourceExtraction

FiveFiles == << "f1", "f2", "f3", "f4", "f5" >>
=============================================================================

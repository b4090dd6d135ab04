----------------------------- MODULE MCDiscovery -----------------------------
(***************************************************************************)
(* Instances of Discovery for TLC: one query of a connector fails, or      *)
(* several that leave the tables.                                          *)
(***************************************************************************)
EXTENDS Discovery

TwoConnectors == << "postgresql", "supabase" >>
SomeLosses    == { {"relationships"}, {"keys", "values", "policies"} }
=============================================================================

--------------------------- MODULE MCSemanticFacts ---------------------------
(***************************************************************************)
(* Instances of SemanticFacts for TLC.  A correction and a fact of the     *)
(* source code use the word of the table, so that all three are found by   *)
(* it.                                                                     *)
(***************************************************************************)
EXTENDS SemanticFacts

Orders   == [name |-> "orders", traits |-> {}, columns |-> << [name |-> "users", traits |-> {}] >>]
OneTable == { [tables |-> << Orders >>, rels |-> << >>] }

Code(concept, claim) ==
    [key |-> [source |-> "code_extraction", concept |-> << concept >>, type |-> "rule"], claim |-> claim]
FromCode == { << Code("order", "orders") >> }

TwoCorrections == { [concept |-> "order", claim |-> c] : c \in {"orders", "users"} }
Asked   == { {"the", "orders"}, {"the"} }
Spikes  == { [metric |-> {"inserts"}, table |-> "orders"] }
TwoFacts == [facts |-> 2, tokens |-> 5]
OneFact  == [facts |-> 1, tokens |-> 3]
Sizes == [c \in Claims |-> IF c = "orders" THEN 2 ELSE 3]
=============================================================================

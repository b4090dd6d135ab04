----------------------------- MODULE MCChatServer -----------------------------
(***************************************************************************)
(* Instances of ChatServer for TLC: two requests of one user and one of    *)
(* another, whose question is about other data.  One plan ends with a      *)
(* query that may wait for a connection, the other asks for what is no     *)
(* tool, for a table the sandbox refuses, and last without parameters.     *)
(***************************************************************************)
EXTENDS ChatServer

Owner == [r \in Requests |-> IF r = "r3" THEN "u2" ELSE "u1"]
Keywords == [r \in Requests |-> IF r = "r3" THEN {"cost", "change"} ELSE {"metric", "recent", "alert"}]

Call(tool, tables) ==
    [tool |-> tool, formed |-> TRUE,
     sql |-> [select |-> TRUE, tables |-> tables, blocked |-> FALSE]]
Misformed(tool) == [Call(tool, {}) EXCEPT !.formed = FALSE]
SomePlans ==
    { << >>,
      << Call("observability", {"insights"}), Call("application", {"tasks"}) >>,
      << Call("infrastructure", {}), Call("other", {}), Call("application", {"users"}),
         Misformed("application") >> }
=============================================================================

---------------------------- MODULE MCLlmProvider ----------------------------
(* Cooldowns in a coarse unit of time, for TLC: 1, 2 and 3.                *)
EXTENDS LlmProvider

Cooldowns == << 1, 2, 3 >>
=============================================================================

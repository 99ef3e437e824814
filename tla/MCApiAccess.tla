----------------------------- MODULE MCApiAccess -------------------------------
(* ApiAccess with interchangeable tokens, calls and updates. *)
EXTENDS ApiAccess, TLC

MCSymmetry == Permutations(Users) \cup Permutations(Tokens) \cup Permutations(McpCalls) \cup Permutations(Updates)
================================================================================

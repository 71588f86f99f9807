-------------------------- MODULE MCMcpSessionbus --------------------------
(* Model-checking instances of McpSessionbus. *)
EXTENDS McpSessionbus, TLC

\* Requests and ids are interchangeable (safety runs only).
Symmetry == Permutations(Requests) \cup Permutations(Keys)
=============================================================================

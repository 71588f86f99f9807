----------------------------- MODULE MCHandoff -----------------------------
(* Model-checking instances of Handoff. *)
EXTENDS Handoff, TLC

\* Deliveries and runs are interchangeable (safety runs only).
Symmetry == Permutations(Deliveries) \cup Permutations(Runs)
=============================================================================

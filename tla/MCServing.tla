----------------------------- MODULE MCServing -----------------------------
(* Serving for TLC: two queries are alike. *)
EXTENDS Serving, TLC

Symmetry == Permutations(Queriers)
=============================================================================

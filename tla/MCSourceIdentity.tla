-------------------------- MODULE MCSourceIdentity -------------------------
(* SourceIdentity, with the symmetries TLC may use.                        *)
EXTENDS SourceIdentity, TLC

Symmetry == Permutations(Contents) \cup Permutations(Passes)
=============================================================================

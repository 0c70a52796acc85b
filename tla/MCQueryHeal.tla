----------------------------- MODULE MCQueryHeal -----------------------------
(* Small instances of QueryHeal for TLC.                                      *)
EXTENDS QueryHeal, TLC

=============================================================================

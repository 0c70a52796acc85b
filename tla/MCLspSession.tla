---------------------------- MODULE MCLspSession ----------------------------
(* LspSession for TLC, which needs no definitions of its own. *)
EXTENDS LspSession

=============================================================================

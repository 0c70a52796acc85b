------------------------------ MODULE MCLspDocs ------------------------------
(* Small instances of LspDocs for TLC; callers and files are interchangeable, *)
(* and a behaviour is followed until a reopen crosses another call or a disk  *)
(* write falls between a read and its stamp.                                  *)
EXTENDS LspDocs, TLC

Symmetry == Permutations(Callers) \cup Permutations(Files)

Undisturbed == ~history.crossed /\ ~history.raced

=============================================================================

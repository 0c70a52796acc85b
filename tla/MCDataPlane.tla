----------------------------- MODULE MCDataPlane -----------------------------
(* Small instances of DataPlane for TLC; builders, and the contents a family  *)
(* may have, are interchangeable (at most one builder is between its publish  *)
(* and its stamp, so the refinement's choice of it is no exception).          *)
EXTENDS DataPlaneRefines, TLC

Symmetry == Permutations(Builders) \cup Permutations(Contents)
\* The world moves twice: two edits make the ABA, an edit and a commit a head of
\* other sources than the stamp's.
WorldMovesTwice == budget.edits + head <= 2

=============================================================================

SPECIFICATION Spec
CONSTANTS
  Procs = {p, q}
  Ops = {"chain", "upgrade", "reanchor", "scan", "register", "materialize", "delta"}
  Families = {fa, fb}
  Stem = fa
  Scenes = {1, 2}
  Arcs = {a1, d1}
  Dated = {d1}
  MaxOps = 3
  MaxEdits = 1
  MaxMoves = 1
  MaxCrashes = 1
  MaxFails = 1
  None = None
SYMMETRY Symmetry
CHECK_DEADLOCK FALSE
INVARIANT RowsHaveFiles
PROPERTY RegenerationReconciles

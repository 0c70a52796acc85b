SPECIFICATION Spec
CONSTANTS
  Python = {}
  Rust = {b}
  JavaScript = {}
  TypeScript = {s}
  Inputs = {t}
  Markers = {l}
  Elsewhere = {z}
  Contents = {c, d}
  Passes = {p, q}
  Selections = {"auto", "explicit"}
  Pin = {"javascript", "typescript"}
  MaxEdits = 1
  MaxMoves = 1
  MaxStamps = 1
  None = None
SYMMETRY Symmetry
CHECK_DEADLOCK FALSE
INVARIANT FreshIsTrue
INVARIANT DriftExplained

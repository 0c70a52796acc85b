SPECIFICATION Spec
CONSTANTS
  Callers = {c1, c2}
  Files = {f1, f2}
  Cap = 1
  DiagVersions = TRUE
  None = None
  MaxCalls = 3
  MaxDisk = 1
  MaxReopens = 2
  MaxWire = 1
CHECK_DEADLOCK FALSE
INVARIANT DocsInv
INVARIANT StampVouches
INVARIANT EditsSurvive
PROPERTY CheckedIsRecent
INVARIANT CallsGoOn
SYMMETRY Symmetry
CONSTRAINT Undisturbed

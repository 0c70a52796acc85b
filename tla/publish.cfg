SPECIFICATION Spec
CONSTANTS
  Families = {2}
  Tolerant = {}
  Contents = {c1, c2}
  Selections = {AutoSel}
  Builders = {b1, b2}
  Stampers = {s1}
  Graphers = {g1}
  Queriers = {}
  AutoSel = AutoSel
  None = None
  Torn = Torn
  MaxRuns = 1
  MaxEdits = 2
  MaxCommits = 1
  MaxCrashes = 1
CHECK_DEADLOCK FALSE
INVARIANT CertificationInv
PROPERTY NoStaleOverwrite
PROPERTY CertifiedSlot
SYMMETRY Symmetry
CONSTRAINT WorldMovesTwice

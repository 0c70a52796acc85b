SPECIFICATION FairSpec
CONSTANTS
  Families = {1, 2}
  Tolerant = {1}
  Contents = {c1, c2}
  Selections = {AutoSel, 1}
  Builders = {b1}
  Stampers = {}
  Graphers = {}
  Queriers = {q1}
  AutoSel = AutoSel
  None = None
  Torn = Torn
  MaxRuns = 1
  MaxEdits = 1
  MaxCommits = 0
  MaxCrashes = 1
CHECK_DEADLOCK FALSE
INVARIANT TypeOK
INVARIANT FreshMeansCurrent
INVARIANT TornPlaneDetected
INVARIANT CacheTruthful
PROPERTY GraphProvenance
PROPERTY OperationsEnd

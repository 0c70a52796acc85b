SPECIFICATION Spec
CONSTANTS
  Queries = {q1}
  Refreshers = {r1}
  Builders = {b1}
  None = None
  MaxRuns = 1
  MaxEdits = 1
  MaxCommits = 1
  MaxCrashes = 0
  MaxAges = 0
  MaxExpiries = 0
CHECK_DEADLOCK FALSE
INVARIANT HealTypeOK
INVARIANT RefreshSyncsHead

SPECIFICATION Spec
CONSTANTS
  Quiet = 1
  MaxCommits = 3
  MaxKills = 1
  MaxOps = 1
  MaxFaults = 1
  None = None
CHECK_DEADLOCK FALSE
PROPERTY TailRefreshed

SPECIFICATION FairSpec
CONSTANTS
  Queries = {q1, q2}
  Refreshers = {}
  Builders = {}
  None = None
  MaxRuns = 1
  MaxEdits = 2
  MaxCommits = 0
  MaxCrashes = 1
  MaxAges = 1
  MaxExpiries = 1
CHECK_DEADLOCK FALSE
INVARIANT OneHealerUnlessStolen
INVARIANT LockNotLeaked
INVARIANT HealedSnapshotStands
PROPERTY PeerFixedIt
PROPERTY HealsEnd

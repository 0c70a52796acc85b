SPECIFICATION Spec
CONSTANTS
  Called = {1}
  Queriers = {q1}
  Modes = {"refs", "callers", "graph"}
  MaxEdits = 1
  MaxPubs = 1
  MaxPeers = 1
  MaxFaults = 1
  None = None
  Empty = Empty
CHECK_DEADLOCK FALSE
INVARIANT ExactUnlessRaced
INVARIANT SettledIsExact

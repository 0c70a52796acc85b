SPECIFICATION Spec
CONSTANTS
  Called = {1}
  Queriers = {q1, q2}
  Modes = {"refs"}
  MaxEdits = 0
  MaxPubs = 0
  MaxPeers = 0
  MaxFaults = 0
  None = None
  Empty = Empty
SYMMETRY Symmetry
CHECK_DEADLOCK FALSE
INVARIANT RebuildIsAtomic

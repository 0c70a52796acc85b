SPECIFICATION FairSpec
CONSTANTS
  Callers = {c1, c2}
  Notifiers = {c2}
  Shutters = {s1}
  QueueCap = 1
  PipeCap = 1
  MaxAsks = 1
  NoOne = NoOne
INVARIANT SessionInv
INVARIANT ShutdownReaps
PROPERTY NothingAfterShutdown
PROPERTY CallsEnd

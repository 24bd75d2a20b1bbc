\* What eventually happens to a log with one history, or two.
SPECIFICATION FairSpec
CONSTANTS
  a = a
  b = b
  v1 = v1
  v2 = v2
  p = p
  q = q
  None = None
  Leaf = {a, b}
  MaxSize = 2
  Views = {v1, v2}
  Pollers = {p}
  Pushers = {}
  Adapters = {"c2sp"}
  Faults = {"store"}
  Refreshing = TRUE
  MaxRestarts = 1
PROPERTIES
  CatchesUp
  Refreshed
  SplitDetected
\* Restarts are bounded, so a witness stopped by -retract may stay stopped.
CHECK_DEADLOCK FALSE

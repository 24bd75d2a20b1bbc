\* What eventually happens to a push, and to a log found to fork.
SPECIFICATION PushFairSpec
CONSTANTS
  a = a
  b = b
  v1 = v1
  v2 = v2
  p = p
  q = q
  None = None
  Leaf = {a, b}
  MaxSize = 1
  Views = {v1, v2}
  Pollers = {p}
  Pushers = {q}
  Adapters = {"c2sp"}
  Faults = {"content"}
  Refreshing = TRUE
  MaxRestarts = 0
PROPERTIES
  RequestsAnswered
  ForkedLogIsTold
  FrozenOncePoisoned
\* Restarts are bounded, so a witness stopped by -retract may stay stopped.
CHECK_DEADLOCK FALSE

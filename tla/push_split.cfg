\* Pushes and the poller meet a log with two histories.
SPECIFICATION PushSpec
CONSTANTS
  a = a
  b = b
  v1 = v1
  v2 = v2
  p = p
  q = q
  None = None
  Leaf = {a, b}
  MaxSize = 2
  Views = {v1, v2}
  Pollers = {p}
  Pushers = {q}
  Adapters = {"c2sp"}
  Faults = {}
  Refreshing = TRUE
  MaxRestarts = 1
SYMMETRY Symmetry
INVARIANTS
  PushTypeOK
  FindingsAreContradictions
  SignsThePushedTree
  ConflictIsNews
  RefusalHasEvidence
\* Restarts are bounded, so a witness stopped by -retract may stay stopped.
CHECK_DEADLOCK FALSE

\* A log with two histories, a poller and a push, content findings, a failing store, a retraction.
SPECIFICATION Spec
CONSTANTS
  a = a
  b = b
  v1 = v1
  v2 = v2
  p = p
  q = q
  None = None
  Leaf = {a, b}
  MaxSize = 2
  Views = {v1, v2}
  Pollers = {p}
  Pushers = {q}
  Adapters = {"c2sp"}
  Faults = {"store", "content"}
  Refreshing = FALSE
  MaxRestarts = 1
SYMMETRY Symmetry
INVARIANTS
  IInv
  CosignedChain
PROPERTIES
  EvidenceKept
  KeepsPromise
\* Restarts are bounded, so a witness stopped by -retract may stay stopped.
CHECK_DEADLOCK FALSE

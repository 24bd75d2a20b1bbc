\* A log with two histories, seen through each source adapter.
SPECIFICATION Spec
CONSTANTS
  a = a
  b = b
  v1 = v1
  v2 = v2
  p = p
  q = q
  None = None
  Leaf = {a, b}
  MaxSize = 2
  Views = {v1, v2}
  Pollers = {p}
  Pushers = {}
  Adapters = {"c2sp", "sigsum", "akd", "signal", "proton", "apple", "keytrans"}
  Faults = {}
  Refreshing = FALSE
  MaxRestarts = 1
SYMMETRY Symmetry
INVARIANTS
  CosignedChain
  FindingsAreTrue
\* Restarts are bounded, so a witness stopped by -retract may stay stopped.
CHECK_DEADLOCK FALSE

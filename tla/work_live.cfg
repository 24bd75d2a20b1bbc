\* What becomes of an epoch whose proof is good, with one thing going wrong on the way.
SPECIFICATION FairWork
CONSTANTS
  home = home
  away = away
  log = log
  Workers = {home, away}
  Local = home
  Broken = {}
  Origins = {log}
  Epochs = {1}
  MaxAttempts = 2
  MaxProbes = 1
  Ids = {1, 2, 3}
  Bad = {}
  Parallel = 1
  MaxFailures = 1
PROPERTIES
  EveryGoodEpochVerified
\* With every epoch verified and the faults used up nothing is left to do.
CHECK_DEADLOCK FALSE

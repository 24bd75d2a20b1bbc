\* A listing that keeps growing, walked each round and in full once a day.
SPECIFICATION AkdHistorySpec
CONSTANTS
  Sides = {one, other}
  HonestSide = one
  StartEpoch = 1
  MaxEpochsPerRound = 1
  FullEvery = 1
  MaxEpoch = 3
  MaxTampers = 1
INVARIANTS
  WalkedInFullDaily
\* The log may come to the end of its bounded history.
CHECK_DEADLOCK FALSE

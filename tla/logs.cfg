\* What the adapters and the replays make of each kind of log.
SPECIFICATION LogsSpec
CONSTANTS
  x = x
  y = y
  one = one
  other = other
  Depth = 2
  Labels = {0,1,3}
  LastEpoch = 3
  Replays = {"history"}
  Retained = 1
  MaxMishaps = 1
  Entries = {x, y}
  TileWidth = 2
  MaxEntries = 3
  MaxAuditEntries = 3
  MaxRecords = 2
  EntryAdapters = {"c2sp", "entries", "sigsum"}
  MaxLies = 1
  Sides = {one, other}
  HonestSide = one
  StartEpoch = 1
  MaxEpochsPerRound = 1
  FullEvery = 1
  MaxEpoch = 3
  MaxTampers = 1
  LastRevision = 4
  LargestTree = 4
  SharedSize = 2
  MaxUntruths = 2
  Applications = {1, 2}
  Window = 3
  MaxConflicts = 2
  MaxLeaves = 4
  MaxMisdeeds = 2
  MaxObserved = 3
  LargestLog = 9
  LastVersion = 2
  PrefixDepth = 2
  Seeds = {1, 2}
  MaxUpdates = 3
  SignalAuditors = {1, 2}
  MinAuditors = 2
  LongestHistory = 4
  MaxRewrites = 1
  MaxLedgerEntries = 1
  AccountInterval = 1
INVARIANTS
  AlarmsAreDeserved
  ChainIsRead
  AppsAreJudged
  ProofsMeanTheTree
PROPERTIES
  ReplayIsSound
  
  WitnessesAChain
  AppleIsFollowed
  DirectoryIsAudited
  
\* Every part of it may come to the end of its bounded log.
CHECK_DEADLOCK FALSE

\* The work channel, the audits, the limits, the lists, and the proofs workers check.
SPECIFICATION FleetSpec
CONSTANTS
  home = home
  away = away
  log = log
  Workers = {home, away}
  Local = home
  Broken = {away}
  Origins = {log}
  Epochs = {0, 1}
  MaxAttempts = 2
  MaxProbes = 1
  Ids = {1, 2, 3}
  Bad <- FirstBad
  Parallel = 1
  MaxFailures = 1
  Top = 3
  Published = 2
  Dead = {1}
  TipWindow = 1
  SampleRate = 1
  PerRound = 2
  MaxFetchAttempts = 1
  MaxTries = 2
  MaxAudits = 2
  Target = 2
  MaxCached = 1
  Stride = 2
  MaxRound = 1
  MaxFaults = 1
  Draws = 3
  Draw <- EveryThirdDraw
  Handlers = {"h1","h2"}
  Day = 3
  Allowances = {1,2}
  MaxBurst = 2
  Readers = {"r1","r2"}
  Rate = 2
  LinkBurst = 3
  Chunks = {1,3}
  LastTick = 6
  MaxTaken = 10
  LogOrigins = {"a","b"}
  LogKeys = {"k1","k2","k3"}
  Lists = {"u"}
  NoKey = "none"
  NameOf <- TwoNames
  Verifiable = {"k1","k2"}
  Nameable = {"b"}
  Configurations <- ThreeConfigurations
  MaxListed = 2
  MaxListFaults = 2
  LabelUnits = 1
  ValueUnits = 2
  ScanLimit = 12
  ReadSizes = {4, 9}
  IdleReads = 2
  MaxInserted = 2
  MaxUnchanged = 1
  Bits = 2
  Values = {"v", "w"}
  EndEpoch = 7
  MaxElements = 3
INVARIANTS
  
  
  
  ListsAreKept
  StreamIsWhole
  ProofsAreReadAlike
PROPERTIES
  
  HandsOutOnlyFree
  
\* Every part of it may run out of epochs, clock, lists or bytes.
CHECK_DEADLOCK FALSE

\* A log audited down to its start whose newest history has been forgotten.
SPECIFICATION AuditsFairSpec
CONSTANTS
  Top = 3
  Published = 2
  Dead = {}
  TipWindow = 1
  SampleRate = 1
  PerRound = 2
  MaxFetchAttempts = 1
  MaxTries = 2
  MaxAudits = 4
  Target = 2
  MaxCached = 1
  Stride = 2
  MaxRound = 1
  MaxFaults = 0
  Draws = 3
  Draw <- ADraw
PROPERTIES
  GeneratorReturns
\* With every epoch verified nothing is left to do.
CHECK_DEADLOCK FALSE

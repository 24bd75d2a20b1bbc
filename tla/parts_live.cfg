\* What eventually becomes of an epoch, and of the cores a worker was given.
SPECIFICATION PacedSpec
CONSTANTS
  Top = 3
  Published = 3
  Dead = {1}
  TipWindow = 1
  SampleRate = 1
  PerRound = 2
  MaxFetchAttempts = 1
  MaxTries = 2
  MaxAudits = 4
  Target = 2
  MaxCached = 1
  Stride = 2
  MaxRound = 1
  MaxFaults = 1
  Draws = 3
  Draw <- EveryThirdDraw
  TotalCores = 4
  Reserve = 1
  MaxConcurrent = 3
  MinPermits = 1
  Gain = 7
  Unit = 20
  MaxShifts = 4
PROPERTIES
  HolesHeal
  
  
\* With every epoch verified and the faults used up nothing is left to do.
CHECK_DEADLOCK FALSE

\* Two ranks, seven steps in epochs of three, saved at 2, 4, 6 and 7; three launches.
SPECIFICATION FairSpec
CONSTANTS
  Ranks = {r1, r2}
  UseCritic = TRUE
  Keep <- KeepTwoThree
  SaveFreq = 2
  EpochLen = 3
  TotalEpochs = 3
  TotalSteps = 7
  ResumeModes <- AnyMode
  MaxLaunches = 3
  Unit = 10
  MinWeight = 2
  Warmup = 1
  DecayStart = 1
  DecayEpochs = 2
  Curve <- LinearCurve
  Adaptive = TRUE
  Rates = {3, 9}
  Factor <- FallingFactor
  NoRate = 0
INVARIANTS
  TrackedIsWhole
  FailsOnlyOnTornTracker
  ScheduleSurvives
  KeptWithinLimit
PROPERTIES
  LaunchEnds

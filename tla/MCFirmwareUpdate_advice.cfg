SPECIFICATION FairSpec
CONSTANTS
  v1 = v1
  v2 = v2
  short = short
  NoVersion = NoVersion
  NBlocks = 5
  ReadLen = 4
  EnvLo = 3
  EnvHi = 3
  BkLo = 4
  BkHi = 4
  Data <- MCData
  Erased <- MCErased
  Bad <- MCBad
  Noise <- MCNoise
  Image <- MCImage
  EnvBin <- MCEnvBin
  Damaged = Damaged
  Versions = {v1, v2}
  Kept = {"default"}
  Default = "default"
  Modes = {"upgrade", "rollback"}
  BackupChoices = {TRUE}
  QuietChoices = {TRUE, FALSE}
  Faults = {"io", "badwrite", "kill"}
  FollowsAdvice = TRUE
  MaxRuns = 3
CHECK_DEADLOCK FALSE
INVARIANTS FlashedAsReported Recoverable
PROPERTIES ImplementsSafeUpdate BootStaysFlashed

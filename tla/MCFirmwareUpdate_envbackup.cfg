SPECIFICATION Spec
CONSTANTS
  v1 = v1
  v2 = v2
  short = short
  NoVersion = NoVersion
  NBlocks = 5
  ReadLen = 4
  EnvLo = 3
  EnvHi = 3
  BkLo = 4
  BkHi = 4
  Data <- MCData
  Erased <- MCErased
  Bad <- MCBad
  Noise <- MCNoise
  Image <- MCImage
  EnvBin <- MCEnvBin
  Damaged = Damaged
  Versions = {v1, v2}
  Kept = {"default"}
  Default = "default"
  Modes = {"upgrade"}
  BackupChoices = {TRUE}
  QuietChoices = {TRUE}
  Faults = {}
  FollowsAdvice = TRUE
  MaxRuns = 1
CHECK_DEADLOCK FALSE
INVARIANT BothEnvCopiesWritten

SPECIFICATION FairSpec
CONSTANTS
  v1 = v1
  v2 = v2
  short = short
  NoVersion = NoVersion
  NBlocks = 5
  ReadLen = 4
  EnvLo = 3
  EnvHi = 3
  BkLo = 4
  BkHi = 4
  Data <- MCData
  Erased <- MCErased
  Bad <- MCBad
  Noise <- MCNoise
  Image <- MCImage
  EnvBin <- MCEnvBin
  Damaged = Damaged
  Versions = {v1, short}
  Kept = {"default", "custom"}
  Default = "default"
  Modes = {"upgrade", "force", "rollback"}
  BackupChoices = {TRUE, FALSE}
  QuietChoices = {FALSE}
  Faults = {"io", "readio", "badwrite", "glitch", "osrelease", "kill", "power"}
  FollowsAdvice = FALSE
  MaxRuns = 2
CONSTRAINT ThenRollback
CHECK_DEADLOCK FALSE
INVARIANTS TypeOK PreservedEnvSurvives UntouchedUnlessFlashing
PROPERTIES BackupBeforeErase Terminates

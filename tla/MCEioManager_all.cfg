SPECIFICATION Spec
CONSTANTS
  cli = cli
  web = web
  cfg1 = cfg1
  cfg2 = cfg2
  refused = refused
  raises = raises
  NoConfig = NoConfig
  Clients = {cli, web}
  Cli = {cli}
  Config = {cfg1, cfg2, refused, raises}
  Rejected = {refused}
  Raising = {raises}
  FwEnd = 2
  ResEnd = 3
  NBlocks = 4
  Erased <- MCErased
  Garbage <- MCGarbage
  Noise <- MCNoise
  Images <- MCImages
  Release <- MCNew
  StockFiles <- MCStock
  Ops = {"deploy", "retrieve", "update", "stock"}
  Faults = {"fs", "flash", "badwrite", "crash", "reboot"}
  MaxRequests = 2
SYMMETRY MCSymmetry
CHECK_DEADLOCK FALSE
INVARIANTS TypeOK ConfigModeOwned ReservedPreserved
PROPERTIES DeployedAsReported UpdatedAsReported

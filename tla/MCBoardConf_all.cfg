SPECIFICATION Spec
CONSTANTS
  PinMap <- MCPins
  Gpio = {"in", "out"}
  Input = "in"
  Advanced = TRUE
  Threads = {1, 2}
  Faults = {"mraa", "slow", "serial", "power"}
  MaxOps = 2
  MaxBoots = 2
CHECK_DEADLOCK FALSE
INVARIANTS TypeOK PinsAsShown
PROPERTY BootRestores

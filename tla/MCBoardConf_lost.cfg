SPECIFICATION Spec
CONSTANTS
  PinMap <- MCFew
  Gpio = {"in", "out"}
  Input = "in"
  Advanced = TRUE
  Threads = {1}
  Faults = {}
  MaxOps = 2
  MaxBoots = 2
CHECK_DEADLOCK FALSE
PROPERTY SelectedAfterPowerCycle

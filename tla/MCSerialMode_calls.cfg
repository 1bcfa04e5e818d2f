SPECIFICATION Spec
CONSTANTS
  p1 = p1
  p2 = p2
  Callers = {p1, p2}
  Boards = {"basic", "advanced", "pg1"}
  Calls <- MCCalls
  Stored <- MCStored
  Faults = {"usb", "gpio", "kill", "power"}
  MaxCalls = 3
SYMMETRY MCSymmetry
CHECK_DEADLOCK FALSE
INVARIANTS TypeOK ModeInForce
PROPERTY TimesKept

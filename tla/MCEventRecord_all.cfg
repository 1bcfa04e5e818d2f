SPECIFICATION FairSpec
CONSTANTS
  Lines = {"slot", "loss"}
  PowerLines = {"loss"}
  LossLines = {"loss"}
  BootTimes = {"t1", "t2"}
  Sensors = TRUE
  Faults = {"kill", "serve", "eiod", "late", "file", "dbus", "clock"}
  MaxLines = 1
  MaxStirs = 1
  MaxMishaps = 1
  MaxBoots = 2
CHECK_DEADLOCK FALSE
INVARIANTS TypeOK NoMoreThanHappened OnePowerUpPerBootTime UncoveredOncePerOpening
PROPERTIES ImplementsEventLog LossRecorded EioRecorded

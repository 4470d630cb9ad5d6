CONSTANTS
  Axis = {a1}
  Counts <- MCOneCount
  NoTarget = NoTarget
  MaxStep = 1
  PulseCycles = 1
  GraceCycles = 1
  Commands = {"ARM", "AXIS_ENABLE", "AXIS_DISABLE", "OTHER"}
  Events = {"signal", "frame loss", "trip"}
SPECIFICATION FairSpec
INVARIANT TypeOK
PROPERTIES LatchClearAtEnable StopTerminates DisarmStopsDrives
\* SIGTERM ends the daemon.
CHECK_DEADLOCK FALSE

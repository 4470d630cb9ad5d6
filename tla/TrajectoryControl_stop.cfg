CONSTANTS
  MaxCommands = 1
  MaxStops = 1
  NumSteps = 1
SPECIFICATION Spec
INVARIANT StopNeverWaits
\* After the last command the controller has nothing to do.
CHECK_DEADLOCK FALSE

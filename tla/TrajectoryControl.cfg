CONSTANTS
  MaxCommands = 3
  MaxStops = 1
  NumSteps = 2
SPECIFICATION FairSpec
INVARIANTS TypeOK OneMotion OneStepAfterStop
PROPERTIES StopTakesEffect IdleAgain
\* After the last command the controller has nothing to do.
CHECK_DEADLOCK FALSE

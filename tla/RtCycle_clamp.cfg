CONSTANTS
  Axis = {a1}
  Counts <- MCCounts
  NoTarget = NoTarget
  MaxStep = 1
  PulseCycles = 1
  GraceCycles = 0
  Commands = {"ARM", "AXIS_ENABLE", "FAULT_RESET", "SETPOINT"}
  Events = {"trip"}
SPECIFICATION Spec
PROPERTIES SpeedCap

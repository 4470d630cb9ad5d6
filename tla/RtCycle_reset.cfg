CONSTANTS
  Axis = {a1, a2}
  Counts <- MCOneCount
  NoTarget = NoTarget
  MaxStep = 1
  PulseCycles = 2
  GraceCycles = 0
  Commands = {"FAULT_RESET", "SETPOINT"}
  Events = {"trip"}
SPECIFICATION CycleSpec
PROPERTIES ResetIsSent

CONSTANTS
  Servo = {1, 2}
  Publisher = {p1, p2}
  MaxCommands = 2
  Faulty = {}
SPECIFICATION Spec
\* No more commands, and nothing left to do.
CHECK_DEADLOCK FALSE
INVARIANT StopHoldsPosition

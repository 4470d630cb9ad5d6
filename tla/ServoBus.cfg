CONSTANTS
  Servo = {1, 2}
  Publisher = {p1, p2}
  MaxCommands = 2
  Faulty = {1, 2}
SYMMETRY MCPublishers
SPECIFICATION Spec
INVARIANTS TypeOK WholeUnlessDisturbed  LonePublisher
\* No more commands, and nothing left to do.
CHECK_DEADLOCK FALSE

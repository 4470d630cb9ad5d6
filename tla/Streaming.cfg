CONSTANTS
  Client = {c1, c2}
  PathEnd = 1
  Backends = {"feetech", "simulation", "fast forward"}
  MaxCalls = 2
SPECIFICATION FairSpec
INVARIANTS TypeOK CancelIsPrompt DoneAtPathEnd
PROPERTIES EndsUnlessOvertaken
\* A stream ends.
CHECK_DEADLOCK FALSE

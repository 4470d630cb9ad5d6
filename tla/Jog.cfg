CONSTANTS
  MaxSessions = 2
  MaxMotions = 1
SPECIFICATION FairSpec
INVARIANTS TypeOK OneGoalAfterRelease OneGoalIntoMotion BrakeIsLast GripperGated
PROPERTIES NoSnapBack SilenceStops

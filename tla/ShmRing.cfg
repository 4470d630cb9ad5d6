CONSTANTS
  Capacity = 3
  MaxMessages = 8
SPECIFICATION FairSpec
INVARIANT TypeOK
PROPERTIES ImplementsChannel DeliversAll
\* Once MaxMessages are sent and handled, the command ring has nothing to do.
CHECK_DEADLOCK FALSE

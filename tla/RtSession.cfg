SPECIFICATION FairSpec
CONSTANT Client = {c1, c2, c3}
CHECK_DEADLOCK FALSE
INVARIANT TypeOK
PROPERTIES ImplementsSlot OwnCommandsOnly RejectedBesideController ClientIsAnswered StopEndsDaemon

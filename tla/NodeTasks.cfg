\* A validator that leads every height; channels of two and one.
CONSTANTS
    MaxBlock = 5
    MaxProposed = 3
    Retained = 2
    QueueSize = 1
    Modes <- EitherMode
    NumValidators = 1
    OurIndex = 0
    MaxFailures = 2
    MaxErrors = 2
SPECIFICATION FairSpec
CHECK_DEADLOCK FALSE
INVARIANTS
    TypeOK
    LedBlocksAccounted
PROPERTIES
    LedgerSpec
    LoopCatchesUp
    LedBlocksPublished
    NewestIsTakenUp

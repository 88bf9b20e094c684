\* With batches and without; failing attempts, lost answers, dropped subscriptions, a shutdown.
CONSTANTS
    MaxBlock = 3
    Size <- MixedSizes
    MaxBatchSize = 3
    Starts <- EitherMode
    ChannelSize = 1
    FinalityCap = 1
    MaxAttempts = 2
    MaxFailures = 2
    MaxTrackerFailures = 2
    MaxErrors = 4
SPECIFICATION FairSpec
CHECK_DEADLOCK FALSE
INVARIANTS
    TypeOK
    NothingLost
    SizeIsExact
    BatchIsBounded
    InclusionInOrder
    ConfirmedOnce
PROPERTIES
    EventuallyConfirmed
    LedgerSpec

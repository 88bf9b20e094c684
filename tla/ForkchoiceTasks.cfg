\* A validator that leads every other height, confirmations in any order, two lost RPCs.
CONSTANTS
    MaxBlock = 4
    NumValidators = 2
    OurIndex = 1
    InOrder = FALSE
    MaxErrors = 2
SPECIFICATION FairSpec
CHECK_DEADLOCK FALSE
INVARIANTS
    TypeOK
    FinalizedWasConfirmed
    HeadWasDecided
    ConfirmationsAreExecuted
    ExecutedIsKnown
    HeadFollowsConsensus
PROPERTIES
    HeadBackByFirm
    InSyncAgain

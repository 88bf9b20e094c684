\* Two validators under every fault, with a mailbox that can overflow.
CONSTANTS
    v1 = v1
    v2 = v2
    v3 = v3
    Validators <- TwoValidators
    Quorum = 2
    MailboxSize = 2
    MaxView = 3
    Faults <- AllFaults
SPECIFICATION Spec
SYMMETRY Interchangeable
CHECK_DEADLOCK FALSE
INVARIANTS
    TypeOK
    BlocksHavePayloads
    LogMatchesState
    OneProposalPerHeight
    NullOnlyByLeader

\* Two validators, every block relayed in time and certificates complete.
CONSTANTS
    v1 = v1
    v2 = v2
    v3 = v3
    Validators <- TwoValidators
    Quorum = 2
    MailboxSize = 3
    MaxView = 3
    Faults <- NoFaults
SPECIFICATION FairSpec
CHECK_DEADLOCK FALSE
INVARIANTS
    Agreement
    FinalizedChain
PROPERTIES
    LogSpec
    EverythingLearned

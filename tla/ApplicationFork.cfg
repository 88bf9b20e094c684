\* Two validators; the relay may skip blocks, certificates are complete.
CONSTANTS
    v1 = v1
    v2 = v2
    v3 = v3
    Validators <- TwoValidators
    Quorum = 2
    MailboxSize = 3
    MaxView = 3
    Faults <- LostBlocks
SPECIFICATION Spec
SYMMETRY Interchangeable
CHECK_DEADLOCK FALSE
INVARIANTS
    Agreement

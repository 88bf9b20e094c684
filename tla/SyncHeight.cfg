\* No crash: a complete sync, then consensus.
CONSTANTS
    MaxBlock = 3
    Layouts <- SomeLayouts
    GenesisDa = 1
    MaxCrashes = 0
SPECIFICATION Spec
CHECK_DEADLOCK FALSE
INVARIANTS
    ConsensusContinuesChain

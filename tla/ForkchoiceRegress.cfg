\* A leader of odd heights; confirmations in block order, no failures.
CONSTANTS
    MaxBlock = 3
    NumValidators = 2
    OurIndex = 1
    InOrder = TRUE
    MaxErrors = 0
SPECIFICATION Spec
CHECK_DEADLOCK FALSE
PROPERTIES
    FinalizedForward

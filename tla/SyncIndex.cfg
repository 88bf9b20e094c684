\* Two crashes, the first in the middle of an append.
CONSTANTS
    MaxBlock = 3
    Layouts <- SomeLayouts
    GenesisDa = 1
    MaxCrashes = 2
SPECIFICATION Spec
CHECK_DEADLOCK FALSE
INVARIANTS
    IndexSurvives

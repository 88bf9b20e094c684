\* Any three crashes, torn index lines included.
CONSTANTS
    MaxBlock = 3
    Layouts <- SomeLayouts
    GenesisDa = 1
    MaxCrashes = 3
SPECIFICATION Spec
CHECK_DEADLOCK FALSE
INVARIANTS
    TypeOK
    IndexedIsExecuted
    SyncIsComplete
    NoReexecution

SPECIFICATION Spec
CHECK_DEADLOCK FALSE
INVARIANTS
    ContentIsKept
    DoneOnce
PROPERTIES
    OwnerWins

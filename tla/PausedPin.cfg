SPECIFICATION PartSpec
SYMMETRY Symmetry
CHECK_DEADLOCK FALSE
CONSTANTS
    Runs = {r1}
    Actions = {x1}
    Dispatchers = {w1}
    First = w1
    MaxAttempts = 3
    MaxDecisions = 1
    MaxCrashes = 0
    RuntimeCheckpoints = TRUE
    None = None
INVARIANTS
    PausedHoldsPin

SPECIFICATION PartSpec
SYMMETRY Symmetry
CHECK_DEADLOCK FALSE
CONSTANTS
    Runs = {r1, r2}
    Actions = {x1, x2}
    Dispatchers = {w1, w2}
    First = w1
    MaxAttempts = 2
    MaxDecisions = 2
    MaxCrashes = 1
    RuntimeCheckpoints = TRUE
    None = None
INVARIANTS
    TypeOK
    OneActiveRun
    AttemptTracksRun
    ActionMatchesState
    DecisionOwned
    PinsHold
    AtMostOneDriver
PROPERTIES
    SupersededFrozen
    EndedStaysEnded

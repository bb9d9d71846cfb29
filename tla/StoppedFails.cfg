SPECIFICATION PartSpec
CHECK_DEADLOCK FALSE
CONSTANTS
    Runs = {r1}
    Actions = {x1}
    Dispatchers = {w1}
    First = w1
    MaxAttempts = 1
    MaxDecisions = 1
    MaxCrashes = 0
    RuntimeCheckpoints = FALSE
    None = None
PROPERTIES
    StoppedNeverFails

SPECIFICATION PartsSpec
CHECK_DEADLOCK FALSE
CONSTANTS
    Events = {"e1"}
    Replies = {}
    ChunkWorkers = {c1, c2}
    LegacyWorkers = {}
    NChunks = 2
    MaxWindows = 1
    MaxFaults = 1
    MaxRetries = 1
    Nil = Nil
    c1 = c1
    c2 = c2
    l1 = l1
    l2 = l2
    reply = reply
INVARIANTS
    NoBlindResend
    NothingLost
    InboundOnce
PROPERTIES
    ScreenMovesForward
    ImplementsDelivery

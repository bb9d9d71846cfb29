SPECIFICATION RecordsSpec
CHECK_DEADLOCK FALSE
CONSTANTS
    w1 = w1
    w2 = w2
    p1 = p1
    p2 = p2
    p3 = p3
    o1 = o1
    o2 = o2
    x1 = x1
    x2 = x2
    x3 = x3
    a1 = a1
    r1 = r1
    i1 = i1
    i2 = i2
    i3 = i3
    c1 = c1
    c2 = c2
    Procs = {p1, p2}
    Ops = {o1, o2}
    Paths = {x1}
    Path <- SamePath
    MaxCalls = 3
    MaxCrashes = 2
    MaxStrangers = 1
INVARIANTS
    NoBlindRedelivery
    CommittedOnDisk
    BackupsHold
PROPERTIES
    RecordsOnlyGrow
    Publishes

SPECIFICATION PartsSpec
SYMMETRY Symmetry
CHECK_DEADLOCK FALSE
CONSTANTS
    Turns = {o1}
    ProbeIds = {p1}
    Digests = {d1, d2}
    Workers = {w1, w2}
    MaxKills = 2
    MaxPowerLosses = 0
    MaxErrors = 0
    Null = Nil
    Nil = Nil
    o1 = o1
    o2 = o2
    d1 = d1
    w1 = w1
    w2 = w2
    a1 = a1
    a2 = a2
    r1 = r1
    r2 = r2
    r3 = r3
    s1 = s1
    s2 = s2
    i1 = i1
    i2 = i2
INVARIANTS
    RunOnce
    LedgerAnswers
    ChannelServes
    PointersResolve
PROPERTIES
    ApprovedOnly
    ImplementsLog

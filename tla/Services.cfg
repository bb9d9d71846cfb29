SPECIFICATION Spec
CHECK_DEADLOCK FALSE
CONSTANTS
    g1 = g1
    g2 = g2
    p1 = p1
    p2 = p2
    d1 = d1
    d2 = d2
    c1 = c1
    c2 = c2
INVARIANTS
    
    PointersHold
PROPERTIES
    AllOrNothing

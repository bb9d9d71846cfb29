SPECIFICATION Spec
SYMMETRY Symmetry
CHECK_DEADLOCK FALSE
CONSTANTS
    Nil = Nil
    c1 = c1
    c2 = c2
    t1 = t1
    t2 = t2
    tm = tm
    r1 = r1
    r2 = r2
    r3 = r3
    re = re
INVARIANTS
    RecoveryIsTrue
    MessageHeld
    AnswersAreTrue
PROPERTIES
    TurnsAreSpared

SPECIFICATION FairSpec
CHECK_DEADLOCK FALSE
CONSTANTS
    Nil = Nil
PROPERTIES
    ComesToAnEnd

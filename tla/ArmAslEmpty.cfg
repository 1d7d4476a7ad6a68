SPECIFICATION Spec
CONSTANTS
    LenBits = 6
    IndexMod = 256
PROPERTY EmptyPatternCaught
CHECK_DEADLOCK FALSE

SPECIFICATION Spec
CONSTANTS
    LenBits = 6
    IndexMod = 256
INVARIANTS
    TypeOK
    MaskIsRight
    StrayBitsAgree
    StopsWhenReserved
PROPERTIES
    Terminates
CHECK_DEADLOCK FALSE

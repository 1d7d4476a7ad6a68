SPECIFICATION Spec
CONSTANTS
    Files <- MCFiles
    OtherFiles <- MCOtherFiles
    AllocSizes = {1, 3}
    Slots = 3
    Lowest = 2
    Units = 8
    MaxViews = 2
    OpenMax = 2
    U32 = 16
    S64Max = 31
    SHN_LORESERVE = 3
INVARIANTS
    TypeOK
    MemoryIsHeld
    FilesAccounted
    CodeRight
CHECK_DEADLOCK FALSE

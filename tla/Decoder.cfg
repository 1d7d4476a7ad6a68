SPECIFICATION Spec
CONSTANTS
    Words <- MCWords
    RegFiles <- MCRegFiles
    IndexMod = 256
INVARIANTS
    TypeOK
    GroupsRight
    TreeComplete
    LogicalRight
    AddSubOperandsRight
    StopsWhenReserved
CHECK_DEADLOCK FALSE

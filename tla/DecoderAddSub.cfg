SPECIFICATION Spec
CONSTANTS
    Words <- MCWords
    RegFiles <- MCRegFiles
    IndexMod = 256
INVARIANT AddsWhenAdd
CHECK_DEADLOCK FALSE

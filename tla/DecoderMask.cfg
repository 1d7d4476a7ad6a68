SPECIFICATION Spec
CONSTANTS
    Words <- MCWords
    RegFiles <- MCRegFiles
    IndexMod = 256
INVARIANT MaskAtFullWidth
CHECK_DEADLOCK FALSE

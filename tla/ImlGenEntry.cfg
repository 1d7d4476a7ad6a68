SPECIFICATION Spec
CONSTANTS
    ExprSize = 1
    InstrSize = 2
    SizeMod = 24
    Sizes = {4, 8}
    MaxNesting = 3
INVARIANT EntryPointIsFirst
CHECK_DEADLOCK FALSE

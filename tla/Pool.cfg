SPECIFICATION Spec
CONSTANTS
    Data = {d1, d2}
    Zero = Zero
    SizeMod = 16
    InitSizes = {0, 4}
    DataSizes = {2, 3}
    AllocSizes = {0, 5}
INVARIANTS
    TypeOK
    HandlesStable
    ReservationsTile
    FreeCellsZero
    OverrunOnlyPastLimit
    EmptyIffNoHandles
PROPERTIES
    StoreSpec
SYMMETRY Symmetry
CHECK_DEADLOCK FALSE

SPECIFICATION Spec
CONSTANTS
    ByteBits = 2
    EndMod = 3
    BitCounts = {1, 4, 7}
INVARIANT TypeOK
PROPERTIES
    SetBitExact
    RangeOneWay
    RangeInBounds
CHECK_DEADLOCK FALSE

SPECIFICATION Spec
CONSTANTS
    ExprSize = 1
    InstrSize = 2
    SizeMod = 24
    Sizes = {3, 4, 8, 10, 12}
    MaxNesting = 3
INVARIANTS
    TypeOK
    TreesSound
    ListingSuffix
    MarkedAreLinked
    FaultsExplained
PROPERTIES
    TranslationSpec
    ObjectsSpec
    Terminates
CHECK_DEADLOCK FALSE

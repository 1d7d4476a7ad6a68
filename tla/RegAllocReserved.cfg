SPECIFICATION Spec
CONSTANTS
    X86_GP_COUNT = 4
    RSP = 1
    RBP = 2
    ArmRegs = {0, 1, 2, 29, 31}
INVARIANT ReservedForCounterparts

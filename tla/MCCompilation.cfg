SPECIFICATION Spec
CONSTANTS
    MaxIters = 300
    MaxShortBranchInstrs = 36
    MaxLabels = 20
    FramePtr = 24
    Garbage = {0, 170}
    Symbols <- MCSymbols
    Locals <- MCLocals
    TypeOfVar <- MCTypeOfVar
    Prototypes <- MCPrototypes
    FrameOf <- MCFrameOf
    Programs <- MCPrograms
    Environments <- MCEnvironments
INVARIANTS
    StackDiscipline
PROPERTIES
    Implements
    Halts
CHECK_DEADLOCK FALSE

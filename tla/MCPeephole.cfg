SPECIFICATION Spec
CONSTANTS
    MaxLen = 4
    MaxIters = 6
    MaxShortBranchInstrs = 2
    GeneratedLabels <- MCLabels
    Codes <- MCCodes
INVARIANTS
    TypeOK
    NoDanglingLabel
    FixedPoint
PROPERTIES
    LessToDo
    Terminates
CHECK_DEADLOCK FALSE

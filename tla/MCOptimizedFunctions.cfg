SPECIFICATION SpecF
CONSTANTS
    MaxIters = 20
    MaxShortBranchInstrs = 36
    IsRelocatabilitySupported = FALSE
    IsYRegisterAllowed = TRUE
    CallerS = 30
    Top = 40
    Garbage = {0, 170}
    MaxSteps = 60
    Symbols <- MCSymbols
    Arguments <- MCArguments
    Globals <- MCGlobals
    GeneratedLabels <- MCLabels
    Codes <- MCCodes
INVARIANTS
    NeverTooManyIterations
    FixedPoint2
    SameOutcome

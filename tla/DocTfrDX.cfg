SPECIFICATION SpecF
CONSTANTS
    MaxIters = 300
    MaxShortBranchInstrs = 36
    IsRelocatabilitySupported = FALSE
    IsYRegisterAllowed = TRUE
    CallerS = 30
    Top = 40
    Garbage = {0, 170}
    MaxSteps = 60
    Symbols <- MCSymbols
    Arguments <- MCArguments
    Globals <- MCGlobals
    GeneratedLabels <- MCLabels
    Codes <- TfrDXCodes
INVARIANT
    RemoveTfrDXKeepsD
CHECK_DEADLOCK FALSE

SPECIFICATION SpecC
CONSTANTS
    MaxIters = 20
    MaxShortBranchInstrs = 36
    IsRelocatabilitySupported = TRUE
    IsYRegisterAllowed = TRUE
    CallerS = 60
    Top = 72
    Garbage = {0, 170}
    LogMaxSteps = 8
    Levels = {0}
    Symbols <- MCSymbols
    TypeOfVar <- MCTypeOfVar
    Prototypes <- MCPrototypes
    GlobalAt <- MCGlobalAt
    GlobalBytes <- MCGlobalBytes
    GeneratedLabels <- MCLabels
    Codes = {}
    Programs <- JumpPrograms
INVARIANT
    ContinueRefusedOrObeyed

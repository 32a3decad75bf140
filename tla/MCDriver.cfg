SPECIFICATION Spec
CONSTANTS
    Bases <- MCBases
    Defines <- MCDefines
    Statics <- MCStatics
    Sizes <- MCSizes
    AddressSpace <- MCAddressSpace
    Commands <- MCCommands
    Directories <- MCDirectories
    Extensions <- MCExtensions
    Pragmas <- MCPragmas
    Stale <- MCStale
    Missing <- MCMissing
    BlockLists <- MCBlockLists
INVARIANTS
    ResultsAreOfTheInputs
    NoBadExecutable
    OnlyOutputsChange
    DragonLoadsTheSame
CHECK_DEADLOCK FALSE

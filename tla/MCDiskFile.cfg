SPECIFICATION Spec
CONSTANTS
    BytesPerSector = 2
    SectorsPerGranule = 2
    NumGranules = 4
    NumLowGranules = 2
    NumDirEntries = 2
    BootGranules = {}
    None = None
    DirNames <- MCDirNames
    Bytes <- MCBytes
    Disks <- MCDisks
    Fds = {"f", "g"}
    Sizes <- MCSizes
    Positions <- MCPositions
    ForgetsFAT = TRUE
    SeeksEnds = FALSE
INVARIANTS
    SectorAtPosition
    NoFailedAssert
PROPERTIES
    IsRandomAccess
    ReadsReturn
CHECK_DEADLOCK FALSE

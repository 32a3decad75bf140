SPECIFICATION Spec
CONSTANTS
    BytesPerSector = 2
    SectorsPerGranule = 2
    NumGranules = 4
    NumLowGranules = 2
    NumDirEntries = 2
    EntriesPerSector = 1
    BootGranules = {3}
    LineBuffer = 4
    None = None
    LF = "LF"
    CR = "CR"
    DirNames <- MCDirNames
    DirNameOf <- MCDirNameOf
    LegalNames <- MCDirNames
    Bytes <- MCBytes
    Images <- MCImages
    Requests <- MCRequests
INVARIANT
    EmptyFilesRead
CHECK_DEADLOCK FALSE

SPECIFICATION Spec
CONSTANTS
    Drives <- MCDrives
    MaxTrack = 2
    Sectors <- MCSectors
    Requests <- MCRequests
    RetryCount = 4
    MotorDelay = 2
    MaxFaults = 3
    WriteData = {"new"}
    Contents <- MCContents
    Blank = "blank"
    Torn = "torn"
    NoDrive = 9
INVARIANTS
    TypeOK
    StackDiscipline
    NmiOnlyInTransfer
    MotorAtSpeed
    TimerStopsMotor
    RetriesMaskFaults
PROPERTIES
    IsSectorStore
    CallEnds
    MotorStops

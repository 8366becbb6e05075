SPECIFICATION Spec
CONSTANTS
    Execs = {1, 2, 3}
    FirstRun = {1, 2}
    Steps = 1
    NormalCalls = 1
    RecoveryAllowance = 1
    Primary = "luna"
    Seconds = {"luna", "gemini"}
    GeminiProfiles = {"gemini"}
    Room = 1
    DayRoom = 2
    MaxMinute = 2
    MaxFaults = 1
INVARIANTS
    TypeOK
    TransmissionsWithinAllowance
    WindowsKept
    RowsHonest
PROPERTIES
    LeaseRespected
CHECK_DEADLOCK FALSE

SPECIFICATION Spec
CONSTANTS
    MaxRuns = 2
    MaxAttempts = 2
    MaxFaults = 1
INVARIANTS
    TypeOK
    ReviewIsOfCurrentBuild
PROPERTIES
    ReviewBringsNewContent
    StoppedStaysStopped
    ApprovalIsFinal
    JobsKeepLifecycle
CHECK_DEADLOCK FALSE

SPECIFICATION Spec
CONSTANTS
    MaxRuns = 3
    MaxAttempts = 2
    MaxEdits = 1
    MaxEvents = 3
INVARIANTS
    TypeOK
    ReviewedBriefIsCurrent
    WaitingHasWork
PROPERTIES
    FailureIsOfTheAwaitedRun
    PurgedRunIsSilent
CHECK_DEADLOCK FALSE

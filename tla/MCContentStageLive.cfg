SPECIFICATION FairSpec
CONSTANTS
    MaxRuns = 1
    MaxAttempts = 3
    MaxFaults = 0
PROPERTY BuildEnds
CHECK_DEADLOCK FALSE

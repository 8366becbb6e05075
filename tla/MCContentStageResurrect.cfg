SPECIFICATION Spec
CONSTANTS
    MaxRuns = 1
    MaxAttempts = 1
    MaxFaults = 0
PROPERTY CancelledRunNotResurrected
CHECK_DEADLOCK FALSE

SPECIFICATION Spec
CONSTANTS
    w1 = w1
    w2 = w2
    NoWorker = NoWorker
    Jobs = {1, 2, 3}
    LaneJobs = {1, 2, 3}
    Workers = {w1, w2}
    MaxAttempts <- MCMaxAttempts
    LaneLimit = 2
    Concurrency = 2
    ClaimBatch = 2
    MaxStops = 0
SYMMETRY WorkerSymmetry
INVARIANTS
    TypeOK
    LeaseImpliesRunning
    QueuedHasAttemptLeft
    WithinLimits
PROPERTY ImplementsLifecycle

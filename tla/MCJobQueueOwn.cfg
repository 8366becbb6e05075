SPECIFICATION Spec
CONSTANTS
    w1 = w1
    w2 = w2
    NoWorker = NoWorker
    Jobs = {1}
    LaneJobs = {1}
    Workers = {w1, w2}
    MaxAttempts <- MCThreeAttempts
    LaneLimit = 2
    Concurrency = 2
    ClaimBatch = 2
    MaxStops = 0
SYMMETRY WorkerSymmetry
PROPERTY RequeueSparesOwnTasks

SPECIFICATION FairSpec
CONSTANTS
    w1 = w1
    w2 = w2
    NoWorker = NoWorker
    Jobs = {1, 2}
    LaneJobs = {1, 2}
    Workers = {w1, w2}
    MaxAttempts <- MCMaxAttempts
    LaneLimit = 1
    Concurrency = 1
    ClaimBatch = 1
    MaxStops = 1
PROPERTY EveryJobEnds

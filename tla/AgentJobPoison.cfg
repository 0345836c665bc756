SPECIFICATION FairSpec
CONSTANTS
    w1 = w1
    NoWorker = NoWorker
    Jobs = {1, 2, 3}
    Workers = {w1}
    Reliable = {w1}
    MaxAttempts = 1
    LeaseTicks = 1
    MaxLag = 0
    Concurrency = 1
    Proposing = {}
    Poison = {2}
INVARIANTS
    MapWithinConcurrency
PROPERTIES
    EveryJobSettles
CHECK_DEADLOCK FALSE

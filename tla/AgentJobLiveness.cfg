SPECIFICATION FairSpec
CONSTANTS
    w1 = w1
    w2 = w2
    NoWorker = NoWorker
    Jobs = {1}
    Workers = {w1, w2}
    Reliable = {w2}
    MaxAttempts = 2
    LeaseTicks = 1
    MaxLag = 0
    Concurrency = 1
    Proposing = {1}
    Poison = {}
PROPERTIES
    EveryJobSettles
CHECK_DEADLOCK FALSE

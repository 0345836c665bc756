SPECIFICATION Spec
CONSTANTS
    w1 = w1
    w2 = w2
    NoWorker = NoWorker
    Jobs = {1}
    Workers = {w1, w2}
    Reliable = {}
    MaxAttempts = 2
    LeaseTicks = 2
    MaxLag = 1
    Concurrency = 2
    Proposing = {1}
    Poison = {}
SYMMETRY WorkerSymmetry
INVARIANTS
    TypeOK
    LeaseDiscipline
    FreshToken
    AttemptsLeft
    ApprovalHasProposal
PROPERTIES
    SettledIsFinal
    StaleRunIsFenced
    OnlyExpiryTakesAway
    ImplementsContract
CHECK_DEADLOCK FALSE

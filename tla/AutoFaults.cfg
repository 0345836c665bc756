SPECIFICATION FairAutoSpec
CONSTANTS
    agent = agent
    owner = owner
    auto = auto
    p1 = p1
    p2 = p2
    p3 = p3
    h1 = h1
    a1 = a1
    a2 = a2
    NoOne = NoOne
    Proposals = {p1}
    Actors = {agent, owner, auto}
    Author <- MCAuthor
    Calls = {h1, a1, a2}
    Passes = {a1, a2}
    SystemAuto = auto
    Slot <- MCSlot
    Empty = {}
    Fillable = {}
    MaxApprovals = 2
    MaxPerDay = 1
    MaxDays = 1
    MaxCrashes = 1
    Faults = {"tx1", "commit", "record", "lock"}
INVARIANTS
    ApprovalSticks
PROPERTIES
    AutoOnlyFromPending
    RejectedStays
    AutoNeverStuck
CHECK_DEADLOCK FALSE

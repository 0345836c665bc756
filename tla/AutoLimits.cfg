SPECIFICATION AutoSpec
CONSTANTS
    agent = agent
    owner = owner
    auto = auto
    p1 = p1
    p2 = p2
    p3 = p3
    h1 = h1
    a1 = a1
    a2 = a2
    NoOne = NoOne
    Proposals = {p1, p2, p3}
    Actors = {agent, owner, auto}
    Author <- MCAuthor
    Calls = {h1, a1}
    Passes = {a1}
    SystemAuto = auto
    Slot <- MCSlot
    Empty = {}
    Fillable = {}
    MaxApprovals = 2
    MaxPerDay = 2
    MaxDays = 0
    MaxCrashes = 1
    Faults = {}
SYMMETRY CandidateSymmetry
INVARIANTS
    AutoTypeOK
    DailyLimit
    AutoOncePerSlot
PROPERTIES
    PeopleAreSpared
CHECK_DEADLOCK FALSE

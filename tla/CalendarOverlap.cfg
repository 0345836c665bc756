SPECIFICATION InboundSpec
CONSTANTS
    agent = agent
    owner = owner
    p1 = p1
    p2 = p2
    c1 = c1
    c2 = c2
    s1 = s1
    s2 = s2
    NoOne = NoOne
    Proposals = {p1, p2}
    Actors = {agent, owner}
    Author <- MCAuthor
    Calls = {c1, c2}
    Empty = {}
    Fillable = {}
    MaxApprovals = 2
    Faults = {"lock"}
    Scans = {s1, s2}
    Fingerprint <- MCFingerprint
    MaxEdits = 0
    Losses = {"mark"}
SYMMETRY InboundSymmetry
INVARIANTS
    InboundTypeOK
    ClaimedRowStays
    AppliedOnce
    NoDeadCards
PROPERTIES
    OnlyFirstSightTakes
    AnsweredIsNotAsked
CHECK_DEADLOCK FALSE

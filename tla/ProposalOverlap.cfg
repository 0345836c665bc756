SPECIFICATION SteadySpec
CONSTANTS
    agent = agent
    owner = owner
    partner = partner
    p1 = p1
    p2 = p2
    c1 = c1
    c2 = c2
    NoOne = NoOne
    Proposals = {p1, p2}
    Actors = {agent, owner, partner}
    Author <- MCAuthor
    Calls = {c1, c2}
    Empty = {p2}
    Fillable = {p1}
    MaxApprovals = 2
    Faults = {"tx1", "record"}
SYMMETRY CallSymmetry
INVARIANTS
    TypeOK
    ExclusiveApproval
    StatusMatchesEffects
PROPERTIES
    ImplementsLifecycle
CHECK_DEADLOCK FALSE

SPECIFICATION ApprovalSpec
CONSTANTS
    agent = agent
    owner = owner
    partner = partner
    p1 = p1
    p2 = p2
    c1 = c1
    c2 = c2
    NoOne = NoOne
    Proposals = {p1}
    Actors = {agent, owner, partner}
    Author <- MCAuthor
    Calls = {c1, c2}
    Empty = {}
    Fillable = {}
    MaxApprovals = 2
    Faults = {"commit"}
SYMMETRY CallSymmetry
INVARIANTS
    ExecutedOnce
CHECK_DEADLOCK FALSE

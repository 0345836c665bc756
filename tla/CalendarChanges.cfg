SPECIFICATION FairInboundSpec
CONSTANTS
    agent = agent
    owner = owner
    p1 = p1
    p2 = p2
    c1 = c1
    c2 = c2
    s1 = s1
    s2 = s2
    NoOne = NoOne
    Proposals = {p1, p2}
    Actors = {agent, owner}
    Author <- MCAuthor
    Calls = {c1}
    Empty = {}
    Fillable = {}
    MaxApprovals = 2
    Faults = {}
    Scans = {s1}
    Fingerprint <- MCFingerprint
    MaxEdits = 1
    Losses = {}
PROPERTIES
    ChangesAreJudged
CHECK_DEADLOCK FALSE

SPECIFICATION FairIncidentSpec
CONSTANTS
    c1 = c1
    c2 = c2
    None = None
    Chains = {c1, c2}
    Buttons = {c2}
    Causes = {"network", "auth"}
    Transient = {"network"}
    MaxRetries = 1
    MaxRows = 2
    Losses = {"status", "record", "resolve", "kill", "get", "send", "cap", "post"}
INVARIANTS
    IncidentTypeOK
    OneIncidentPerCause
    RetriesDoNotAlarm
    RecoveryIsTrue
PROPERTIES
    ClosedStaysClosed
    NothingGoesUntold
    GoodNewsFollows
CHECK_DEADLOCK FALSE

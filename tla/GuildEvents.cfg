SPECIFICATION EventsSpec
CONSTANTS
    m1 = m1
    m2 = m2
    Messages <- MCMessages
    Purposes <- MCPurposes
    Limit = 1
    MaxEvents = 4
    MaxTime = 1
    MaxFailed = 1
    Changes = {"channel"}
CONSTRAINT Bound
SYMMETRY Symmetry
CHECK_DEADLOCK FALSE
INVARIANTS DeletionLogged BotIsCredited StatsAreReal

CONSTANTS
    Users = {u1, u2}
    Channels = {c1}
    Slots = {s1, s2}
    Timers = {t1, t2}
    Trigger = Trigger
    Out = Out
    NoUser = NoUser
    NoChannel = NoChannel
    NoTimer = NoTimer
    Outcasts = {}
    Patient = {u1, u2}
    RoomToTrigger = FALSE
    BotsVisit = TRUE
    FaultPoints = {"redirect", "move", "eject", "grant", "close"}
    MaxRestarts = 0
SPECIFICATION FairSpec
INVARIANTS EmptyRoomInCharge TrackedArePresent ReturnedOwnerKeepsRoom RowHasChannel
PROPERTIES EmptyRoomCleaned

CONSTANTS
    Users = {u1, u2}
    Channels = {c1}
    Slots = {s1, s2}
    Timers = {t1}
    Trigger = Trigger
    Out = Out
    NoUser = NoUser
    NoChannel = NoChannel
    NoTimer = NoTimer
    Outcasts = {}
    Patient = {u1, u2}
    RoomToTrigger = TRUE
    BotsVisit = FALSE
    FaultPoints = {}
    MaxRestarts = 0
SPECIFICATION FairSpec
PROPERTIES EmptyRoomCleaned

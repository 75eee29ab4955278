CONSTANTS
    Users = {u1, u2}
    Channels = {c1}
    Slots = {s1, s2, s3}
    Timers = {t1}
    Trigger = Trigger
    Out = Out
    NoUser = NoUser
    NoChannel = NoChannel
    NoTimer = NoTimer
    Outcasts = {u2}
    Patient = {u2}
    RoomToTrigger = TRUE
    BotsVisit = FALSE
    FaultPoints = {"enter", "redirect", "move", "leave", "untrack", "eject", "clear", "close", "grant", "insert", "track"}
    MaxRestarts = 1
SPECIFICATION Spec
INVARIANTS CreatingIsHeld
PROPERTIES LedgerSpec
SYMMETRY Symmetry

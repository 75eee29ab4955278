CONSTANTS
    Messages = {m1, m2, m3}
    Floods = {m1, m2}
    Duration <- SameDuration
    Workers = 2
    AdminRoles = {r1, r2, r3}
    Fixed = {r3}
    Held = {r1}
    Faults = {"strip", "timeout", "schedule", "restore"}
    Grants = 1
    Horizon = 3
    LastStart = 2
    Prompt = TRUE
SPECIFICATION FairSpec
INVARIANTS OneTimeoutPerIncident RecordedWasApplied RolesNotLost
PROPERTIES RolesReturn
CHECK_DEADLOCK FALSE

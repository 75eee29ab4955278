CONSTANTS
    Messages = {m1, m2}
    Floods = {}
    Duration <- SameDuration
    Workers = 1
    AdminRoles = {r1, r2}
    Fixed = {}
    Held = {r1}
    Faults = {}
    Grants = 1
    Horizon = 6
    LastStart = 3
    Prompt = TRUE
SPECIFICATION Spec
INVARIANTS NoRoleGivenUp
CHECK_DEADLOCK FALSE

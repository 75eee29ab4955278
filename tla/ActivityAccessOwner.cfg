SPECIFICATION FairSpec
CONSTANTS
    p1 = p1
    p2 = p2
    u1 = u1
    u2 = u2
    d1 = d1
    d2 = d2
    custom = custom
    Nobody = Nobody
    Procs <- MCProcs
    Users <- MCUsers
    DiscordRoles <- MCDiscordRoles
    Managed <- MCManaged
    Customs <- MCCustoms
    Slugs <- MCSlugs
    Assignable <- MCAssignable
    Scenarios <- MCScenarios
    Owner = u1
    CONTEXT_TTL = 1
    CACHE_TTL = 0
    FETCH_LIMIT = 0
    MaxEvents = 0
    MaxEdits = 0
PROPERTIES AdministratorsManage

SPECIFICATION FairSpec
CONSTANTS
    p1 = p1
    p2 = p2
    u1 = u1
    u2 = u2
    d1 = d1
    d2 = d2
    custom = custom
    Nobody = Nobody
    Procs <- MCProcs
    Users <- MCUsers
    DiscordRoles <- MCDiscordRoles
    Managed <- MCManaged
    Customs <- MCCustoms
    Slugs <- MCSlugs
    Assignable <- MCAssignable
    Scenarios <- MCScenarios
    Owner = u2
    CONTEXT_TTL = 2
    CACHE_TTL = 1
    FETCH_LIMIT = 1
    MaxEvents = 1
    MaxEdits = 1
INVARIANTS FreshRights AuthorityIsRecent SyncedHasBuiltins
PROPERTIES AdminRegained

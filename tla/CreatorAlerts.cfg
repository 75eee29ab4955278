SPECIFICATION FairSpec
CONSTANTS
    twitch = twitch
    t = t
    u1 = u1
    Users <- MCUsers
    Streams <- MCStreams
    Platforms <- MCPlatforms
    Platform <- MCPlatform
    Kinds <- MCKinds
    Repeat = 1
    MAX_SOURCES_PER_USER = 1
    MaxSaves = 2
    MaxChanges = 1
    MaxFaults = 1
    MaxAtOnce = 2
CHECK_DEADLOCK FALSE
INVARIANTS NoEcho
PROPERTIES LiveIsAnnounced

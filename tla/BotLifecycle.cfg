SPECIFICATION Spec
CONSTANTS
    c1 = c1
    c2 = c2
    Callers <- MCCallers
    Statements <- MCStatements
    Attempts = 2
    MaxFaults = 1
    Modules <- MCModules
    Names <- MCNames
    Registered <- MCRegistered
    Legacy <- MCLegacy
    MaxSyncFaults = 1
    Signals = {"SIGTERM"}
    MaxLifeFaults = 1
    MaxFailures = 1
CHECK_DEADLOCK FALSE
INVARIANTS CleanExit OwnRowId NoConnectionLeft CommandsAreSynced
PROPERTIES SignalEnds

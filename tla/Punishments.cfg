SPECIFICATION Spec
CONSTANTS
    j1 = j1
    j2 = j2
    j3 = j3
    j4 = j4
    Jobs <- MCJobs
    Commands = {"warn", "mute", "unmute", "kick", "ban", "unban", "revoke"}
    MaxFaults = 1
    Removable = TRUE
SYMMETRY MCSymmetry
INVARIANTS MutedHasRow EscalationNoticed LiftedOnce RecordedOnce
CHECK_DEADLOCK FALSE

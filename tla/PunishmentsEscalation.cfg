SPECIFICATION Spec
CONSTANTS
    j1 = j1
    j2 = j2
    j3 = j3
    j4 = j4
    Jobs <- MCJobs
    Commands = {"mute", "unmute"}
    MaxFaults = 0
    Removable = TRUE
SYMMETRY MCSymmetry
INVARIANT EscalationIsEarned
CHECK_DEADLOCK FALSE

CONSTANTS
    Users = {u1, u2, u3}
    Founder = u1
    NoUser = NoUser
    Managers = {}
    Procs = {p1, p2, p3}
    Kinds = {"claim", "release", "leave"}
    Serial = FALSE
    Hasty = FALSE
    Fallible = TRUE
SPECIFICATION Spec
INVARIANTS AdminHasPower
PROPERTIES SeatNotStolen
SYMMETRY Symmetry

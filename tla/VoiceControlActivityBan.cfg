CONSTANTS
    Users = {u1, u2, u3}
    Founder = u1
    NoUser = NoUser
    Managers = {u3}
    Procs = {p1, p2}
    Kinds = {"claim", "leave", "aban"}
    Serial = TRUE
    Hasty = FALSE
    Fallible = FALSE
SPECIFICATION Spec
INVARIANTS BanStands
SYMMETRY Symmetry

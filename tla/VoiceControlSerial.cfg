CONSTANTS
    Users = {u1, u2, u3}
    Founder = u1
    NoUser = NoUser
    Managers = {u3}
    Procs = {p1, p2}
    Kinds = {"claim", "release", "assign", "kick", "ban", "invite", "leave", "transfer", "aclaim", "arelease", "aassign"}
    Serial = TRUE
    Hasty = FALSE
    Fallible = FALSE
SPECIFICATION Spec
INVARIANTS AdminNeverOwner NoStrayPower BanStands
SYMMETRY Symmetry

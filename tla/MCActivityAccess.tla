-------------------------- MODULE MCActivityAccess --------------------------
\* Instances of ActivityAccess for TLC: two requests at a time, of a user and of the owner.
EXTENDS ActivityAccess, TLC

CONSTANTS p1, p2, u1, u2, d1, d2, custom

MCProcs == {p1, p2}
MCUsers == {u1}
MCDiscordRoles == {d1}
MCManaged == {}
MCCustoms == {custom}
MCAssignable == {"administrator", custom}
MCSlugs == {"user", "administrator"}
MCScenarios ==
    { (p1 :> {"sync"}) @@ (p2 :> {"assign"}),
      (p1 :> {"session", "sync"}) @@ (p2 :> {"session"}),
      (p1 :> {}) @@ (p2 :> {"sync", "modules", "create", "delete"}),
      (p1 :> {"sync", "authority"}) @@ (p2 :> {"command"}) }
=============================================================================

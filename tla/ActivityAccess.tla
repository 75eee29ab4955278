--------------------------- MODULE ActivityAccess ---------------------------
(***************************************************************************)
(* Who may do what in the Activity: ActivityAccessService and               *)
(* ActivityRbacService, the bot's /sync_roles, which writes the same        *)
(* tables, and the Control API, which asks Discord itself.                  *)
(*                                                                         *)
(* A request runs to its next await; every call to Discord and every        *)
(* statement is one, the database commits each, and requests overlap.       *)
(***************************************************************************)
EXTENDS DiscordRights, Sequences

CONSTANTS Procs,    \* requests under way
          Slugs,    \* the built-in roles of the instance, out of those of BUILTIN_ACCESS_ROLES
          Customs,  \* ids of other Activity roles
          Managed,  \* Discord roles an integration manages: /sync_roles passes over them
          Scenarios, \* what may overlap: of each, request |-> what it may be, a subset of Ops
          Assignable, \* the Activity roles that are assigned
          MaxEdits, Nobody

VARIABLES
    roles,    \* activity_access_roles
    level,    \* activity_access_role_modules, of the module that is followed
    synced,   \* activity_synced_roles
    assigned, \* activity_synced_role_assignments
    req,      \* what every request is doing
    kinds     \* the scenario

tables == <<roles, level, synced, assigned>>
vars == <<world, caches, spent, tables, req, kinds>>

-----------------------------------------------------------------------------
\* PERMISSION_ORDER: "disabled", "view", "edit", "publish", "manage"
Levels == 0 .. 4
\* Every builtin role with its permission for the module (logs).
BUILTIN_ACCESS_ROLES ==
    << [slug |-> "user", level |-> 0], [slug |-> "creator", level |-> 0], [slug |-> "developer", level |-> 0],
       [slug |-> "moderator", level |-> 1], [slug |-> "administrator", level |-> 4] >>
\* The places of those of the instance; they are ensured in their order.
Builtins == {i \in 1 .. Len(BUILTIN_ACCESS_ROLES) : BUILTIN_ACCESS_ROLES[i].slug \in Slugs}
After(n) == {i \in Builtins : i > n}
First(S) == CHOOSE i \in S : \A j \in S : i <= j
LevelOf(a) ==
    LET places == {i \in Builtins : BUILTIN_ACCESS_ROLES[i].slug = a}
    IN  IF places = {} THEN 0 ELSE BUILTIN_ACCESS_ROLES[First(places)].level

AccessRoles == Slugs \cup Customs
EditOps == {"assign", "modules", "create", "delete"}
Ops == EditOps \cup {"session", "sync", "command", "authority"}

ASSUME ActivityAccessAssumption ==
    /\ {"user", "administrator"} \subseteq Slugs /\ Slugs \cap Customs = {}
    /\ Slugs \subseteq {BUILTIN_ACCESS_ROLES[i].slug : i \in 1 .. Len(BUILTIN_ACCESS_ROLES)}
    /\ Scenarios \subseteq [Procs -> SUBSET Ops]
    /\ Assignable \subseteq AccessRoles
    /\ Managed \subseteq DiscordRoles /\ Owner # Nobody /\ MaxEdits \in Nat

\* at: the await the request is in; n: the place of the builtin role it ensures; target, todo: what the edit
\* or the synchronisation is about; seen: the roles of the guild with Administrator it has read
Idle == [at |-> "idle", op |-> "none", user |-> Nobody, admin |-> FALSE, has |-> {}, n |-> 0,
         target |-> Nobody, todo |-> {}, seen |-> {}, age |-> 0]

Ends(p) == req' = [req EXCEPT ![p] = Idle]
Goes(p, at) == req' = [req EXCEPT ![p].at = at]

AdminRoles == {d \in DiscordRoles : <<d, "administrator">> \in assigned}
RolesOf(ds) == {a \in roles : \E d \in ds : <<d, a>> \in assigned}

\* A server that has never synchronised, or one where everything is set up.
Init ==
    /\ RightsInit
    /\ \/ roles = {} /\ synced = {} /\ assigned = {}
       \/ /\ roles = AccessRoles /\ synced = DiscordRoles
          /\ assigned = (admins \X {"administrator"}) \cup (DiscordRoles \X Customs)
    /\ level = [a \in roles |-> LevelOf(a)]
    /\ req = [p \in Procs |-> Idle] /\ kinds \in Scenarios
    /\ spent = [events |-> 0, edits |-> 0, ids |-> roles \cap Customs]

-----------------------------------------------------------------------------
(* fetch_user_context                                                      *)

\* Where a request begins with the context of its user: from the cache, from the task that runs,
\* or from a task of its own. sync_roles needs the permission, the others the roles.
With(r, entry) ==
    IF r.op = "sync" THEN [r EXCEPT !.at = "ensure", !.n = 1, !.admin = entry.admin]
    ELSE [r EXCEPT !.at = "ensure", !.n = 1, !.has = entry.roles]
Asks(p, r) ==
    LET u == r.user
    IN  IF context[u].held
        THEN /\ req' = [req EXCEPT ![p] = With(r, context[u])]
             /\ context' = Used(u) /\ UNCHANGED fetch
        ELSE /\ req' = [req EXCEPT ![p] = [r EXCEPT !.at = "context"]]
             /\ IF fetch[u].at = "none" THEN StartFetch(u) ELSE UNCHANGED fetch
             /\ UNCHANGED context

May(p, op) == req[p] = Idle /\ op \in kinds[p]
Request(u, op) == [Idle EXCEPT !.op = op, !.user = u]

\* get_session and every other request for what the user is to see
AskSession(p, u) ==
    /\ May(p, "session") /\ Asks(p, Request(u, "session"))
    /\ UNCHANGED <<world, listed, tables, spent>>

\* POST /api/activity/rbac/roles/sync
AskSync(p, u) ==
    /\ May(p, "sync") /\ Asks(p, Request(u, "sync"))
    /\ UNCHANGED <<world, listed, tables, spent>>

\* The four requests that write.
Edit(op, target, todo) ==
    CASE op = "assign" -> target \in DiscordRoles /\ todo \subseteq Assignable
      [] op = "modules" -> target \in AccessRoles /\ todo = {}
      [] OTHER -> target \in Customs /\ todo = {}
AskEdit(p, u, op, target, todo) ==
    /\ May(p, op) /\ Spend("edits", MaxEdits) /\ Edit(op, target, todo)
    /\ Asks(p, [Request(u, op) EXCEPT !.target = target, !.todo = todo])
    /\ UNCHANGED <<world, listed, tables>>

\* The task ends: it stores the context, and all who wait for it go on.
FetchEnds(u) ==
    /\ fetch[u].at = "done" /\ Keep(u)
    /\ req' = [p \in Procs |-> IF req[p].at = "context" /\ req[p].user = u THEN With(req[p], fetch[u]) ELSE req[p]]
    /\ UNCHANGED <<world, listed, tables, spent>>

\* Discord answers neither the user nor the guilds: 401, 403 or 503 for all of them.
FetchFails(u) ==
    /\ fetch[u].at = "guilds" /\ Spend("events", MaxEvents) /\ Forget(u)
    /\ req' = [p \in Procs |-> IF req[p].at = "context" /\ req[p].user = u THEN Idle ELSE req[p]]
    /\ UNCHANGED <<world, listed, tables>>

-----------------------------------------------------------------------------
(* _ensure_builtin_access_roles, _ensure_activity_builtin_roles              *)

\* Where a request goes once the builtin roles are there.
Ensured(r) ==
    CASE r.op = "sync" -> IF r.admin THEN [r EXCEPT !.at = "list", !.admin = FALSE] ELSE Idle
      [] r.op = "command" -> [r EXCEPT !.at = "rows"]
      [] OTHER -> [r EXCEPT !.at = "synced"]
\* Mutation: the last of the definitions is never reached.
NextBuiltin_Short(r) ==
    IF \E i, j \in After(r.n) : i # j THEN [r EXCEPT !.at = "ensure", !.n = First(After(r.n))] ELSE Ensured([r EXCEPT !.n = 0])

NextBuiltin(r) ==
    IF After(r.n) # {} THEN [r EXCEPT !.at = "ensure", !.n = First(After(r.n))] ELSE Ensured([r EXCEPT !.n = 0])

\* _get_access_role_by_slug
Ensure(p) ==
    /\ req[p].at = "ensure"
    /\ Goes(p, IF BUILTIN_ACCESS_ROLES[req[p].n].slug \in roles THEN "upsert" ELSE "insert")
    /\ UNCHANGED <<world, caches, spent, tables>>

\* It was missing; if it is not any more, UNIQUE (guild_id, slug) ends the request.
InsertBuiltin(p) ==
    /\ req[p].at = "insert"
    /\ LET a == BUILTIN_ACCESS_ROLES[req[p].n].slug
       IN  IF a \in roles THEN Ends(p) /\ UNCHANGED <<roles, level>>
           ELSE /\ roles' = roles \cup {a}
                /\ level' = [x \in roles' |-> IF x = a THEN 0 ELSE level[x]]
                /\ Goes(p, "upsert")
    /\ UNCHANGED <<world, caches, spent, synced, assigned>>

\* Its modules are as in the definition, again.
Upsert(p) ==
    /\ req[p].at = "upsert"
    /\ LET b == BUILTIN_ACCESS_ROLES[req[p].n]
       IN  level' = [a \in roles |-> IF a = b.slug THEN b.level ELSE level[a]]
    /\ req' = [req EXCEPT ![p] = NextBuiltin(@)]
    /\ UNCHANGED <<world, caches, spent, roles, synced, assigned>>

-----------------------------------------------------------------------------
(* fetch_user_and_access_state, _resolve_access_state                      *)

\* Of an edit: ensure_admin. A session only reads.
Granted(r, admin) == IF r.op \in EditOps /\ admin THEN [r EXCEPT !.at = "check", !.has = {}] ELSE Idle

\* _has_synced_roles
Synced(p) ==
    /\ req[p].at = "synced"
    /\ IF synced = {} THEN Ends(p) ELSE Goes(p, "admin")
    /\ UNCHANGED <<world, caches, spent, tables>>

\* _has_synced_admin_role
HasSyncedAdminRole(p) ==
    /\ req[p].at = "admin"
    /\ req' = [req EXCEPT ![p] = IF @.has \cap AdminRoles # {} THEN Granted(@, TRUE) ELSE [@ EXCEPT !.at = "merge"]]
    /\ UNCHANGED <<world, caches, spent, tables>>

\* _get_member_access_roles: a role assigned just now may still be that of an administrator
MemberAccessRoles(p) ==
    /\ req[p].at = "merge"
    /\ req' = [req EXCEPT ![p] = Granted(@, "administrator" \in RolesOf(@.has))]
    /\ UNCHANGED <<world, caches, spent, tables>>

-----------------------------------------------------------------------------
(* sync_roles of the Activity, /sync_roles                                 *)

\* list_roles; the roles of the guild are those Discord has when it answers
HasList(p) ==
    /\ req[p].at = "list"
    /\ IF listed.held THEN req' = [req EXCEPT ![p].at = "rows", ![p].seen = listed.admins, ![p].todo = DiscordRoles]
       ELSE req' = [req EXCEPT ![p].at = "listing", ![p].seen = admins]
    /\ UNCHANGED <<world, caches, spent, tables>>
GetsList(p) ==
    /\ req[p].at = "listing"
    /\ listed' = [held |-> TRUE, admins |-> req[p].seen, age |-> 0]
    /\ req' = [req EXCEPT ![p].at = "rows", ![p].todo = DiscordRoles, ![p].age = 0]
    /\ UNCHANGED <<world, context, fetch, spent, tables>>

\* guild.roles of the bot's cache, read before the first await; the owner may call it at any time
Command(p) ==
    /\ May(p, "command") /\ DiscordRoles # Managed
    /\ req' = [req EXCEPT ![p] = [Idle EXCEPT !.at = "ensure", !.op = "command", !.n = 1,
                                              !.todo = DiscordRoles \ Managed, !.seen = admins]]
    /\ UNCHANGED <<world, caches, spent, tables>>

\* The roles a synchronisation goes through.
Listed(r) == IF r.op = "command" THEN DiscordRoles \ Managed ELSE DiscordRoles

\* Mutation: only roles that are new become those of administrators.
Grants_New(r, d) == d \in r.seen /\ d \notin synced

Grants(r, d) == d \in r.seen

SyncRow(p, d) ==
    /\ req[p].at = "rows" /\ d \in req[p].todo
    /\ synced' = synced \cup {d}
    /\ req' = [req EXCEPT ![p].todo = @ \ {d}, ![p].at = IF Grants(req[p], d) THEN "grant" ELSE "rows",
                          ![p].target = IF Grants(req[p], d) THEN d ELSE Nobody]
    /\ UNCHANGED <<world, caches, spent, roles, level, assigned>>

Grant(p) ==
    /\ req[p].at = "grant"
    /\ assigned' = IF "administrator" \in roles THEN assigned \cup {<<req[p].target, "administrator">>} ELSE assigned
    /\ req' = [req EXCEPT ![p].at = "rows", ![p].target = Nobody]
    /\ UNCHANGED <<world, caches, spent, roles, level, synced>>

\* What was not seen is deleted; the Activity answers with list_synced_roles, for which
\* ensure_admin is asked.
Prune(p) ==
    /\ req[p].at = "rows" /\ req[p].todo = {}
    /\ synced' = synced \cap Listed(req[p])
    /\ IF req[p].op = "command" THEN Ends(p) /\ UNCHANGED <<context, fetch>>
       ELSE Asks(p, Request(req[p].user, "session"))
    /\ UNCHANGED <<world, listed, spent, roles, level, assigned>>

-----------------------------------------------------------------------------
(* The edits.                                                              *)

\* update_synced_role_assignments
CheckAssign(p) ==
    /\ req[p].at = "check" /\ req[p].op = "assign"
    /\ IF req[p].target \in synced /\ req[p].todo \subseteq roles THEN Goes(p, "clear") ELSE Ends(p)
    /\ UNCHANGED <<world, caches, spent, tables>>
Clear(p) ==
    /\ req[p].at = "clear"
    /\ assigned' = {x \in assigned : x[1] # req[p].target}
    /\ IF req[p].todo = {} THEN Ends(p) ELSE Goes(p, "put")
    /\ UNCHANGED <<world, caches, spent, roles, level, synced>>
\* UNIQUE, or the foreign key of a role deleted meanwhile, ends the request where it is.
Put(p, a) ==
    /\ req[p].at = "put" /\ a \in req[p].todo
    /\ IF a \in roles /\ <<req[p].target, a>> \notin assigned
       THEN /\ assigned' = assigned \cup {<<req[p].target, a>>}
            /\ req' = [req EXCEPT ![p] = IF @.todo = {a} THEN Idle ELSE [@ EXCEPT !.todo = req[p].todo \ {a}]]
       ELSE Ends(p) /\ UNCHANGED assigned
    /\ UNCHANGED <<world, caches, spent, roles, level, synced>>

\* update_access_role_modules: not of the administrator role
CheckModules(p) ==
    /\ req[p].at = "check" /\ req[p].op = "modules"
    /\ IF req[p].target \in roles \ {"administrator"} THEN Goes(p, "modules") ELSE Ends(p)
    /\ UNCHANGED <<world, caches, spent, tables>>
\* The permission of the request: of the two, one is that of no definition.
WriteModules(p, permission) ==
    /\ req[p].at = "modules"
    /\ level' = [a \in roles |-> IF a = req[p].target THEN permission ELSE level[a]]
    /\ Ends(p)
    /\ UNCHANGED <<world, caches, spent, roles, synced, assigned>>

\* create_access_role: a new id, or the name is taken
CreateRole(p) ==
    /\ req[p].at = "check" /\ req[p].op = "create"
    /\ IF req[p].target \in spent.ids THEN UNCHANGED <<roles, level, spent>>
       ELSE /\ roles' = roles \cup {req[p].target}
            /\ level' = [a \in roles' |-> IF a = req[p].target THEN 0 ELSE level[a]]
            /\ spent' = [spent EXCEPT !.ids = @ \cup {req[p].target}]
    /\ Ends(p)
    /\ UNCHANGED <<world, caches, synced, assigned>>

\* delete_access_role: not of a builtin role; its assignments go with it
CheckDelete(p) ==
    /\ req[p].at = "check" /\ req[p].op = "delete"
    /\ IF req[p].target \in roles \ Slugs THEN Goes(p, "drop") ELSE Ends(p)
    /\ UNCHANGED <<world, caches, spent, tables>>

\* activity_synced_role_assignments refers to its roles ON DELETE CASCADE.
Cascade(a) == {x \in assigned : x[2] # a}
DropRole(p) ==
    /\ req[p].at = "drop"
    /\ roles' = roles \ {req[p].target} /\ level' = [a \in roles' |-> level[a]]
    /\ assigned' = Cascade(req[p].target)
    /\ Ends(p)
    /\ UNCHANGED <<world, caches, spent, synced>>

-----------------------------------------------------------------------------
(* DiscordGuildAuthority.has_administrator_permission, for the Control API.  *)

AskAuthority(p, u) ==
    /\ May(p, "authority") /\ req' = [req EXCEPT ![p] = [Request(u, "authority") EXCEPT !.at = "owner"]]
    /\ UNCHANGED <<world, caches, spent, tables>>

Decides(p, verified) == req' = [req EXCEPT ![p] = [Idle EXCEPT !.at = IF verified THEN "verified" ELSE "idle",
                                                               !.user = IF verified THEN req[p].user ELSE Nobody]]
\* fetch_guild_owner_id
ReadOwner(p) ==
    /\ req[p].at = "owner"
    /\ IF req[p].user = Owner THEN Decides(p, TRUE) ELSE Goes(p, "member")
    /\ UNCHANGED <<world, caches, spent, tables>>
\* fetch_member_role_ids_if_member
ReadMember(p) ==
    /\ req[p].at = "member"
    /\ req' = [req EXCEPT ![p].at = "guild", ![p].has = has[req[p].user]]
    /\ UNCHANGED <<world, caches, spent, tables>>
\* list_roles, from the cache or from Discord, and the permissions that result
ReadRoles(p) ==
    /\ req[p].at = "guild"
    /\ IF listed.held THEN Decides(p, req[p].has \cap listed.admins # {})
       ELSE req' = [req EXCEPT ![p].at = "reading", ![p].seen = admins]
    /\ UNCHANGED <<world, caches, spent, tables>>
Judge(p) ==
    /\ req[p].at = "reading"
    /\ listed' = [held |-> TRUE, admins |-> req[p].seen, age |-> 0]
    /\ Decides(p, req[p].has \cap req[p].seen # {})
    /\ UNCHANGED <<world, context, fetch, spent, tables>>
Answered(p) == req[p].at = "verified" /\ Ends(p) /\ UNCHANGED <<world, caches, spent, tables>>

-----------------------------------------------------------------------------
AtDiscord == {"list", "listing", "owner", "member", "guild", "reading"}

\* A statement or a call fails, and the request with it.
Fails(p) ==
    /\ req[p].at \notin {"idle", "context", "verified"} /\ Spend("events", MaxEvents) /\ Ends(p)
    /\ UNCHANGED <<world, caches, tables>>

\* No call outlives its timeouts.
Tick ==
    /\ \A p \in Procs : req[p].at # "verified" /\ (req[p].at \in AtDiscord => req[p].age < FETCH_LIMIT)
    /\ TimePasses
    /\ req' = [p \in Procs |-> IF req[p].at \in AtDiscord THEN [req[p] EXCEPT !.age = @ + 1] ELSE req[p]]
    /\ UNCHANGED <<spent, tables>>

Discord ==
    /\ \/ \E u \in Users, d \in DiscordRoles : ChangeMember(u, d)
       \/ \E d \in DiscordRoles : ChangeRole(d)
    /\ UNCHANGED <<tables, req>>
Fetching(u) == (FetchGuilds(u) \/ FetchMember(u)) /\ UNCHANGED <<tables, req>>

Asking(p) ==
    \/ \E u \in Users : AskSession(p, u) \/ AskSync(p, u)
    \/ \E u \in Users \cup {Owner} : AskAuthority(p, u)
    \/ \E u \in Users, op \in EditOps, t \in DiscordRoles \cup AccessRoles :
           \E todo \in SUBSET Assignable : AskEdit(p, u, op, t, todo)
    \/ Command(p)
Steps(p) ==
    \/ Ensure(p) \/ InsertBuiltin(p) \/ Upsert(p) \/ Synced(p) \/ HasSyncedAdminRole(p) \/ MemberAccessRoles(p)
    \/ HasList(p) \/ GetsList(p) \/ (\E d \in DiscordRoles : SyncRow(p, d)) \/ Grant(p) \/ Prune(p)
    \/ CheckAssign(p) \/ Clear(p) \/ (\E a \in Assignable : Put(p, a))
    \/ CheckModules(p) \/ (\E l \in {0, 2} : WriteModules(p, l)) \/ CreateRole(p) \/ CheckDelete(p) \/ DropRole(p)
    \/ ReadOwner(p) \/ ReadMember(p) \/ ReadRoles(p) \/ Judge(p) \/ Answered(p)

Next ==
    /\ \/ Discord \/ Tick
       \/ \E u \in Users : Fetching(u) \/ FetchEnds(u) \/ FetchFails(u)
       \/ \E p \in Procs : Asking(p) \/ Steps(p) \/ Fails(p)
    /\ UNCHANGED kinds

Spec == Init /\ [][Next]_vars
\* Calls end, time passes, and an administrator of the server who has not what it needs presses
\* Sync roles again and again.
FairSpec ==
    /\ Spec /\ SF_vars(Tick /\ UNCHANGED kinds)
    /\ \A u \in Users : WF_vars((Fetching(u) \/ FetchEnds(u)) /\ UNCHANGED kinds)
    /\ \A p \in Procs : WF_vars(Steps(p) /\ UNCHANGED kinds)
    /\ SF_vars((\E p \in Procs, u \in Users : DiscordAdmin(u) /\ AskSync(p, u)) /\ UNCHANGED kinds)

-----------------------------------------------------------------------------
(* Properties.                                                             *)

\* Every variable has its type; assignments are of roles that exist (the foreign key).
TypeOK ==
    /\ RightsTypeOK
    /\ roles \subseteq AccessRoles /\ level \in [roles -> Levels]
    /\ synced \subseteq DiscordRoles /\ assigned \subseteq DiscordRoles \X roles
    /\ \A p \in Procs : req[p].age <= FETCH_LIMIT /\ req[p].has \subseteq DiscordRoles

\* What Discord has taken away is not believed longer than the time of a cached context and of the
\* fetch it came from, however often it is used and however many requests share it.
FreshRights ==
    still >= CONTEXT_TTL + FETCH_LIMIT =>
        \A u \in Users : context[u].held =>
            /\ context[u].roles \subseteq has[u]
            /\ context[u].admin => DiscordAdmin(u)

\* The Control API: whom it has verified administers the server, unless that changed while it
\* asked, or while the roles it was answered from were cached.
AuthorityIsRecent ==
    still > CACHE_TTL + FETCH_LIMIT => \A p \in Procs : req[p].at = "verified" => DiscordAdmin(req[p].user)

\* A server is not open (roles_not_synced) before its builtin roles are there, whoever ensures
\* them at the same time: from then on there is an administrator role to assign.
SyncedHasBuiltins == synced # {} => Slugs \subseteq roles

\* While an administrator of the server keeps synchronising, the roles with Administrator become
\* and stay those of Activity administrators, whatever an edit took away or left half done.
AdminRegained ==
    <>[](\E u \in Users : DiscordAdmin(u)) => <>[](admins \subseteq AdminRoles)

\* readme: administrators of the server synchronise the roles and then open Access Control.  Does
\* synchronising make them administrators of the Activity?
AdministratorsManage ==
    \A u \in Users : <>[]DiscordAdmin(u) => <>(has[u] \cap AdminRoles # {})
=============================================================================

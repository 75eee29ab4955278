------------------------ MODULE ActivityAccessProofs ------------------------
(***************************************************************************)
(* Whatever requests overlap and whatever the times are, what Discord has  *)
(* taken away is believed no longer than a cached context lives and its    *)
(* fetch lasts, who is verified administers the server, and roles are      *)
(* synchronised only where the builtin ones are; and what an assertion of  *)
(* the Console opens, and how long.                                        *)
(***************************************************************************)
EXTENDS ActivityAccess, ControlAssertion, TLAPS

\* What a step does to Discord, the contexts and their fetches.
Rights == <<has, admins, still, context, fetch>>
RightsStep ==
    \/ UNCHANGED Rights
    \/ /\ still' = 0 /\ UNCHANGED <<context, fetch>>
       /\ \/ \E u \in Users, S \in SUBSET DiscordRoles : has' = [has EXCEPT ![u] = S] /\ UNCHANGED admins
          \/ admins' \in SUBSET DiscordRoles /\ UNCHANGED has
    \/ \E u \in Users : UNCHANGED <<world, context>> /\ StartFetch(u)
    \/ \E u \in Users : FetchGuilds(u) \/ FetchMember(u)
    \/ \E u \in Users : fetch[u].at = "done" /\ Keep(u) /\ UNCHANGED world
    \/ \E u \in Users : Forget(u) /\ UNCHANGED world
    \/ TimePasses

RightsType ==
    /\ has \in [Users -> SUBSET DiscordRoles] /\ admins \in SUBSET DiscordRoles /\ still \in 0 .. Settled
    /\ context \in [Users -> [held : BOOLEAN, admin : BOOLEAN, roles : SUBSET DiscordRoles, age : 0 .. CONTEXT_TTL]]
    /\ fetch \in [Users -> [at : {"none", "guilds", "member", "done"}, admin : BOOLEAN,
                            roles : SUBSET DiscordRoles, age : 0 .. FETCH_LIMIT]]

\* What was read is true unless rights changed since the fetch began.
ContextTrue(u) ==
    context[u].held =>
        /\ context[u].age < CONTEXT_TTL
        /\ still > context[u].age + FETCH_LIMIT =>
               context[u].roles \subseteq has[u] /\ (context[u].admin => DiscordAdmin(u))
FetchTrue(u) ==
    /\ fetch[u].age <= FETCH_LIMIT
    /\ still > fetch[u].age =>
           /\ fetch[u].at \in {"member", "done"} => (fetch[u].admin => DiscordAdmin(u))
           /\ fetch[u].roles \subseteq has[u]
RightsInv == RightsType /\ \A u \in Users : ContextTrue(u) /\ FetchTrue(u)

\* A request that asks for a context changes the fetch of its user at most.
LEMMA AsksRights ==
    ASSUME NEW p \in Procs, NEW r, RightsType, Asks(p, r), UNCHANGED world
    PROVE  RightsStep
<1>1. CASE fetch' = fetch /\ context' = context  BY <1>1 DEF RightsStep, Rights, world
<1>2. CASE context' = context /\ StartFetch(r.user)
  <2>1. CASE r.user \in Users  BY <1>2, <2>1 DEF RightsStep
  <2>2. CASE r.user \notin Users
    <3>1. fetch' = fetch  BY <1>2, <2>2 DEF StartFetch, RightsType
    <3> QED  BY <1>2, <3>1 DEF RightsStep, Rights, world
  <2> QED  BY <2>1, <2>2
<1> QED  BY <1>1, <1>2 DEF Asks, Used
\* Every step is one of those: statements and calls of requests touch neither Discord nor contexts.
LEMMA NextRights ==
    ASSUME RightsType, [Next]_vars
    PROVE  RightsStep
<1>1. CASE UNCHANGED vars  BY <1>1 DEF vars, world, caches, RightsStep, Rights
<1>2. CASE Discord
  <2>1. ASSUME NEW u \in Users, NEW d \in DiscordRoles, ChangeMember(u, d)  PROVE RightsStep
    <3> DEFINE S == IF d \in has[u] THEN has[u] \ {d} ELSE has[u] \cup {d}
    <3>1. S \in SUBSET DiscordRoles  BY DEF RightsType
    <3>2. has' = [has EXCEPT ![u] = S]  BY <2>1 DEF ChangeMember
    <3> QED  BY <2>1, <3>1, <3>2 DEF ChangeMember, RightsStep, caches
  <2>2. ASSUME NEW d \in DiscordRoles, ChangeRole(d)  PROVE RightsStep
    <3>1. admins' \in SUBSET DiscordRoles  BY <2>2 DEF ChangeRole, RightsType
    <3> QED  BY <2>2, <3>1 DEF ChangeRole, RightsStep, caches
  <2> QED  BY <1>2, <2>1, <2>2 DEF Discord
<1>3. CASE Tick  BY <1>3 DEF Tick, RightsStep
<1>4. ASSUME NEW u \in Users, Fetching(u) \/ FetchEnds(u) \/ FetchFails(u)  PROVE RightsStep
  BY <1>4 DEF Fetching, FetchEnds, FetchFails, RightsStep
<1>5. ASSUME NEW p \in Procs, Asking(p)  PROVE RightsStep
  <2>1. ASSUME NEW u \in Users, AskSession(p, u)  PROVE RightsStep  BY <2>1, AsksRights DEF AskSession
  <2>2. ASSUME NEW u \in Users, AskSync(p, u)  PROVE RightsStep  BY <2>2, AsksRights DEF AskSync
  <2>3. ASSUME NEW u \in Users \cup {Owner}, AskAuthority(p, u)  PROVE RightsStep
    BY <2>3 DEF AskAuthority, RightsStep, Rights, world, caches
  <2>4. ASSUME NEW u \in Users, NEW op, NEW t, NEW todo, AskEdit(p, u, op, t, todo)  PROVE RightsStep
    BY <2>4, AsksRights DEF AskEdit
  <2>5. CASE Command(p)  BY <2>5 DEF Command, RightsStep, Rights, world, caches
  <2> QED  BY <1>5, <2>1, <2>2, <2>3, <2>4, <2>5 DEF Asking
<1>6. ASSUME NEW p \in Procs, Steps(p)  PROVE RightsStep
  <2>1. CASE Prune(p)
    <3>1. CASE UNCHANGED <<context, fetch>>  BY <2>1, <3>1 DEF Prune, RightsStep, Rights, world
    <3>2. CASE Asks(p, Request(req[p].user, "session"))  BY <2>1, <3>2, AsksRights DEF Prune, world
    <3> QED  BY <2>1, <3>1, <3>2 DEF Prune
  <2>2. CASE GetsList(p) \/ Judge(p)  BY <2>2 DEF GetsList, Judge, RightsStep, Rights, world
  <2>3. CASE Steps(p) /\ UNCHANGED <<world, caches>>  BY <2>3 DEF RightsStep, Rights, world, caches
  <2>4. Prune(p) \/ GetsList(p) \/ Judge(p) \/ UNCHANGED <<world, caches>>
    BY <1>6 DEF Steps, Ensure, InsertBuiltin, Upsert, Synced, HasSyncedAdminRole, MemberAccessRoles, HasList,
                SyncRow, Grant, CheckAssign, Clear, Put, CheckModules, WriteModules, CreateRole, CheckDelete, DropRole,
                ReadOwner, ReadMember, ReadRoles, Answered
  <2> QED  BY <1>6, <2>1, <2>2, <2>3, <2>4
<1>7. ASSUME NEW p \in Procs, Fails(p)  PROVE RightsStep  BY <1>7 DEF Fails, RightsStep, Rights, world, caches
<1> QED  BY <1>1, <1>2, <1>3, <1>4, <1>5, <1>6, <1>7 DEF Next

\* Every step keeps what the contexts and the fetches hold true, as far as it can be.
LEMMA RightsInvariant ==
    ASSUME RightsInv, RightsStep
    PROVE  RightsInv'
<1> USE DiscordRightsAssumption
<1>1. CASE UNCHANGED Rights
  BY <1>1 DEF RightsInv, RightsType, ContextTrue, FetchTrue, DiscordAdmin, Rights
<1>2. CASE still' = 0 /\ UNCHANGED <<context, fetch>>
           /\ \/ \E u \in Users, S \in SUBSET DiscordRoles : has' = [has EXCEPT ![u] = S] /\ UNCHANGED admins
              \/ admins' \in SUBSET DiscordRoles /\ UNCHANGED has
  <2>1. RightsType'  BY <1>2 DEF RightsInv, RightsType, Settled
  <2>2. ASSUME NEW u \in Users  PROVE ContextTrue(u)' /\ FetchTrue(u)'
    <3>1. context[u].age \in Nat /\ fetch[u].age \in Nat  BY DEF RightsInv, RightsType
    <3> QED  BY <1>2, <3>1 DEF RightsInv, ContextTrue, FetchTrue
  <2> QED  BY <2>1, <2>2 DEF RightsInv
<1>3. ASSUME NEW u \in Users, UNCHANGED <<world, context>>, StartFetch(u)  PROVE RightsInv'
  <2>1. fetch' = [fetch EXCEPT ![u] = [at |-> "guilds", admin |-> FALSE, roles |-> {}, age |-> 0]]
    BY <1>3 DEF StartFetch
  <2>2. RightsType'  BY <1>3, <2>1 DEF RightsInv, RightsType, world
  <2>3. ASSUME NEW v \in Users  PROVE ContextTrue(v)' /\ FetchTrue(v)'
    BY <1>3, <2>1 DEF RightsInv, RightsType, ContextTrue, FetchTrue, DiscordAdmin, world
  <2> QED  BY <2>2, <2>3 DEF RightsInv
<1>4. ASSUME NEW u \in Users, FetchGuilds(u)  PROVE RightsInv'
  <2>0. DiscordAdmin(u) \in BOOLEAN  BY DEF DiscordAdmin
  <2>1. fetch' = [fetch EXCEPT ![u] = [@ EXCEPT !.admin = DiscordAdmin(u), !.at = "member"]]
    BY <1>4 DEF FetchGuilds, RightsInv, RightsType
  <2>2. RightsType'  BY <1>4, <2>0, <2>1 DEF FetchGuilds, RightsInv, RightsType, world
  <2>3. \A v \in Users : DiscordAdmin(v)' <=> DiscordAdmin(v)  BY <1>4 DEF FetchGuilds, DiscordAdmin, world
  <2>4. ASSUME NEW v \in Users  PROVE ContextTrue(v)'
    BY <1>4, <2>3 DEF FetchGuilds, RightsInv, ContextTrue, world
  <2>5. ASSUME NEW v \in Users  PROVE FetchTrue(v)'
    <3>1. CASE v # u
      BY <1>4, <2>1, <2>3, <3>1 DEF FetchGuilds, RightsInv, RightsType, FetchTrue, world
    <3>2. CASE v = u
      <4>1. /\ fetch'[u].admin = DiscordAdmin(u) /\ fetch'[u].age = fetch[u].age
            /\ fetch'[u].roles = fetch[u].roles
        BY <2>1 DEF RightsInv, RightsType
      <4> QED  BY <1>4, <2>3, <3>2, <4>1 DEF FetchGuilds, RightsInv, FetchTrue, world
    <3> QED  BY <3>1, <3>2
  <2> QED  BY <2>2, <2>4, <2>5 DEF RightsInv
<1>5. ASSUME NEW u \in Users, FetchMember(u)  PROVE RightsInv'
  <2>1. PICK S \in {has[u], fetch[u].roles} : fetch' = [fetch EXCEPT ![u] = [@ EXCEPT !.roles = S, !.at = "done"]]
    BY <1>5 DEF FetchMember, RightsInv, RightsType
  <2>2. RightsType'  BY <1>5, <2>1 DEF FetchMember, RightsInv, RightsType, world
  <2>3. ASSUME NEW v \in Users  PROVE ContextTrue(v)' /\ FetchTrue(v)'
    BY <1>5, <2>1 DEF FetchMember, RightsInv, RightsType, ContextTrue, FetchTrue, DiscordAdmin, world
  <2> QED  BY <2>2, <2>3 DEF RightsInv
<1>6. ASSUME NEW u \in Users, fetch[u].at = "done", Keep(u), UNCHANGED world  PROVE RightsInv'
  <2>1. /\ context' = [context EXCEPT ![u] = [held |-> TRUE, admin |-> fetch[u].admin, roles |-> fetch[u].roles, age |-> 0]]
        /\ fetch' = [fetch EXCEPT ![u] = [at |-> "none", admin |-> FALSE, roles |-> {}, age |-> 0]]
    BY <1>6 DEF Keep, NoFetch
  <2>2. RightsType'  BY <1>6, <2>1 DEF RightsInv, RightsType, world
  <2>3. ASSUME NEW v \in Users  PROVE ContextTrue(v)' /\ FetchTrue(v)'
    <3>1. CASE v = u
      BY <1>6, <2>1, <3>1 DEF RightsInv, RightsType, ContextTrue, FetchTrue, DiscordAdmin, world
    <3>2. CASE v # u
      BY <1>6, <2>1, <3>2 DEF RightsInv, RightsType, ContextTrue, FetchTrue, DiscordAdmin, world
    <3> QED  BY <3>1, <3>2
  <2> QED  BY <2>2, <2>3 DEF RightsInv
<1>7. ASSUME NEW u \in Users, Forget(u), UNCHANGED world  PROVE RightsInv'
  <2>1. fetch' = [fetch EXCEPT ![u] = [at |-> "none", admin |-> FALSE, roles |-> {}, age |-> 0]]
    BY <1>7 DEF Forget, NoFetch
  <2>2. context' = context /\ has' = has /\ admins' = admins /\ still' = still  BY <1>7 DEF Forget, world
  <2>4. RightsType'  BY <2>1, <2>2 DEF RightsInv, RightsType
  <2>3. ASSUME NEW v \in Users  PROVE ContextTrue(v)' /\ FetchTrue(v)'
    BY <2>1, <2>2 DEF RightsInv, RightsType, ContextTrue, FetchTrue, DiscordAdmin
  <2> QED  BY <2>3, <2>4 DEF RightsInv
<1>8. CASE TimePasses
  <2>1. still' \in 0 .. Settled /\ still' <= still + 1
    BY <1>8 DEF TimePasses, RightsInv, RightsType, Settled
  <2>2. ASSUME NEW u \in Users
        PROVE  \/ context'[u] = [held |-> FALSE, admin |-> FALSE, roles |-> {}, age |-> 0]
               \/ /\ context[u].held /\ context[u].age < CONTEXT_TTL - 1
                  /\ context'[u] = [held |-> context[u].held, admin |-> context[u].admin,
                                    roles |-> context[u].roles, age |-> context[u].age + 1]
    <3>1. context'[u] = OlderContext(u)  BY <1>8 DEF TimePasses
    <3>2. context[u] \in [held : BOOLEAN, admin : BOOLEAN, roles : SUBSET DiscordRoles, age : 0 .. CONTEXT_TTL]
      BY DEF RightsInv, RightsType
    <3>3. [context[u] EXCEPT !.age = @ + 1] = [held |-> context[u].held, admin |-> context[u].admin,
                                               roles |-> context[u].roles, age |-> context[u].age + 1]
      BY <3>2
    <3> QED  BY <3>1, <3>2, <3>3 DEF OlderContext, Older, NoContext
  <2>3. ASSUME NEW u \in Users
        PROVE  \/ fetch'[u] = [at |-> "none", admin |-> FALSE, roles |-> {}, age |-> 0]
               \/ /\ fetch[u].age < FETCH_LIMIT
                  /\ fetch'[u] = [at |-> fetch[u].at, admin |-> fetch[u].admin, roles |-> fetch[u].roles,
                                  age |-> fetch[u].age + 1]
    <3>1. fetch'[u] = IF fetch[u].at = "none" THEN NoFetch ELSE [fetch[u] EXCEPT !.age = @ + 1]
      BY <1>8 DEF TimePasses
    <3>2. fetch[u] \in [at : {"none", "guilds", "member", "done"}, admin : BOOLEAN,
                        roles : SUBSET DiscordRoles, age : 0 .. FETCH_LIMIT]
      BY DEF RightsInv, RightsType
    <3>3. [fetch[u] EXCEPT !.age = @ + 1] = [at |-> fetch[u].at, admin |-> fetch[u].admin,
                                             roles |-> fetch[u].roles, age |-> fetch[u].age + 1]
      BY <3>2
    <3> QED  BY <1>8, <3>1, <3>3 DEF TimePasses, NoFetch
  <2>4. RightsType'
    <3>1. context' = [u \in Users |-> context'[u]] /\ fetch' = [u \in Users |-> fetch'[u]]
      BY <1>8 DEF TimePasses
    <3>2. ASSUME NEW u \in Users
          PROVE  context'[u] \in [held : BOOLEAN, admin : BOOLEAN, roles : SUBSET DiscordRoles, age : 0 .. CONTEXT_TTL]
      <4>1. /\ context[u].held \in BOOLEAN /\ context[u].admin \in BOOLEAN /\ context[u].roles \in SUBSET DiscordRoles
            /\ context[u].age \in 0 .. CONTEXT_TTL
        BY DEF RightsInv, RightsType
      <4>2. context[u].age < CONTEXT_TTL - 1 => context[u].age + 1 \in 0 .. CONTEXT_TTL  BY <4>1
      <4>3. CASE context'[u] = [held |-> FALSE, admin |-> FALSE, roles |-> {}, age |-> 0]  BY <4>3
      <4>4. CASE /\ context[u].age < CONTEXT_TTL - 1
                 /\ context'[u] = [held |-> context[u].held, admin |-> context[u].admin,
                                   roles |-> context[u].roles, age |-> context[u].age + 1]
        BY <4>1, <4>2, <4>4
      <4> QED  BY <2>2, <4>3, <4>4
    <3>3. ASSUME NEW u \in Users
          PROVE  fetch'[u] \in [at : {"none", "guilds", "member", "done"}, admin : BOOLEAN,
                                roles : SUBSET DiscordRoles, age : 0 .. FETCH_LIMIT]
      <4>1. /\ fetch[u].at \in {"none", "guilds", "member", "done"} /\ fetch[u].admin \in BOOLEAN
            /\ fetch[u].roles \in SUBSET DiscordRoles /\ fetch[u].age \in 0 .. FETCH_LIMIT
        BY DEF RightsInv, RightsType
      <4>2. fetch[u].age < FETCH_LIMIT => fetch[u].age + 1 \in 0 .. FETCH_LIMIT  BY <4>1
      <4>3. CASE fetch'[u] = [at |-> "none", admin |-> FALSE, roles |-> {}, age |-> 0]  BY <4>3
      <4>4. CASE /\ fetch[u].age < FETCH_LIMIT
                 /\ fetch'[u] = [at |-> fetch[u].at, admin |-> fetch[u].admin, roles |-> fetch[u].roles,
                                 age |-> fetch[u].age + 1]
        BY <4>1, <4>2, <4>4
      <4> QED  BY <2>3, <4>3, <4>4
    <3> QED  BY <1>8, <2>1, <3>1, <3>2, <3>3 DEF TimePasses, RightsInv, RightsType
  <2>5. \A v \in Users : DiscordAdmin(v)' <=> DiscordAdmin(v)  BY <1>8 DEF TimePasses, DiscordAdmin
  <2>6. still \in Nat /\ has' = has  BY <1>8 DEF TimePasses, RightsInv, RightsType
  <2>7. ASSUME NEW v \in Users  PROVE ContextTrue(v)'
    <3>1. context[v].age \in Nat /\ ContextTrue(v)  BY DEF RightsInv, RightsType
    <3>2. CASE context'[v] = [held |-> FALSE, admin |-> FALSE, roles |-> {}, age |-> 0]
      BY <3>2 DEF ContextTrue
    <3>3. CASE /\ context[v].held /\ context[v].age < CONTEXT_TTL - 1
               /\ context'[v] = [held |-> context[v].held, admin |-> context[v].admin,
                                 roles |-> context[v].roles, age |-> context[v].age + 1]
      <4>1. /\ context'[v].age = context[v].age + 1 /\ context'[v].admin = context[v].admin
            /\ context'[v].roles = context[v].roles
        BY <3>3
      <4>2. context'[v].age < CONTEXT_TTL  BY <3>1, <3>3, <4>1
      <4>3. still' > context'[v].age + FETCH_LIMIT => still > context[v].age + FETCH_LIMIT
        BY <2>1, <2>6, <3>1, <4>1
      <4> QED  BY <2>5, <2>6, <3>1, <3>3, <4>1, <4>2, <4>3 DEF ContextTrue
    <3> QED  BY <2>2, <3>2, <3>3
  <2>8. ASSUME NEW v \in Users  PROVE FetchTrue(v)'
    <3>1. fetch[v].age \in Nat /\ FetchTrue(v)  BY DEF RightsInv, RightsType
    <3>2. CASE fetch'[v] = [at |-> "none", admin |-> FALSE, roles |-> {}, age |-> 0]  BY <3>2 DEF FetchTrue
    <3>3. CASE /\ fetch[v].age < FETCH_LIMIT
               /\ fetch'[v] = [at |-> fetch[v].at, admin |-> fetch[v].admin, roles |-> fetch[v].roles,
                               age |-> fetch[v].age + 1]
      <4>1. /\ fetch'[v].age = fetch[v].age + 1 /\ fetch'[v].admin = fetch[v].admin
            /\ fetch'[v].roles = fetch[v].roles /\ fetch'[v].at = fetch[v].at
        BY <3>3
      <4>2. fetch'[v].age <= FETCH_LIMIT /\ (still' > fetch'[v].age => still > fetch[v].age)
        BY <2>1, <2>6, <3>1, <3>3, <4>1
      <4> QED  BY <2>5, <2>6, <3>1, <4>1, <4>2 DEF FetchTrue
    <3> QED  BY <2>3, <3>2, <3>3
  <2> QED  BY <2>4, <2>7, <2>8 DEF RightsInv
<1> QED  BY <1>1, <1>2, <1>3, <1>4, <1>5, <1>6, <1>7, <1>8 DEF RightsStep

\* What Discord has taken away is not believed longer than a context is kept (_context_ttl_seconds)
\* and its fetch lasted, for every number of users, requests and roles and for all times.
THEOREM RightsAreFresh == Spec => []FreshRights
<1> USE DiscordRightsAssumption
<1>1. Init => RightsInv
  BY DEF Init, RightsInit, RightsInv, RightsType, ContextTrue, FetchTrue, NoContext, NoFetch, Settled
<1>2. RightsInv /\ [Next]_vars => RightsInv'  BY NextRights, RightsInvariant DEF RightsInv
<1>3. RightsInv => FreshRights
  BY DEF RightsInv, RightsType, ContextTrue, FreshRights
<1> QED  BY <1>1, <1>2, <1>3, PTL DEF Spec

-----------------------------------------------------------------------------
(* The tables and the requests.                                            *)

Stages ==
    {"idle", "context", "ensure", "insert", "upsert", "synced", "admin", "merge", "check", "clear", "put", "modules",
     "drop", "list", "listing", "rows", "grant", "owner", "member", "guild", "reading", "verified"}
RequestType ==
    [at : Stages, op : Ops \cup {"none"}, user : Users \cup {Owner, Nobody}, admin : BOOLEAN,
     has : SUBSET DiscordRoles, n : Nat, target : DiscordRoles \cup AccessRoles \cup {Nobody},
     todo : SUBSET (DiscordRoles \cup AccessRoles), seen : SUBSET DiscordRoles, age : 0 .. FETCH_LIMIT]

\* What a request carries fits the await it is in.
Fits(r) ==
    /\ r \in RequestType
    /\ r.op = "create" => r.target \in Customs
    /\ r.at = "context" => r.op \in Ops \ {"command", "authority"}
    /\ r.at \in {"list", "listing"} => r.op = "sync"
    /\ r.at \in {"rows", "grant"} => r.op \in {"sync", "command"}
    /\ r.at \in {"owner", "member", "guild", "reading"} => r.op = "authority"
    /\ r.at \in {"check", "modules", "drop"} => r.op \in EditOps
    /\ r.at \in {"grant", "clear", "put"} => r.target \in DiscordRoles
    /\ r.at = "drop" => r.target \in Customs
    /\ r.op \in Ops \ {"command", "authority"} \/ r.at \in {"member", "guild", "reading"} => r.user \in Users
    /\ r.at \in {"owner", "verified"} => r.user \in Users \cup {Owner}

\* Who ensures the builtin roles has ensured those before the one it is at, and that one too once it
\* writes its modules; who writes roles all.
Ensures(r, there) ==
    /\ r.at \in {"ensure", "insert", "upsert"} =>
           r.n \in Builtins /\ \A i \in Builtins : i < r.n => BUILTIN_ACCESS_ROLES[i].slug \in there
    /\ r.at = "upsert" => BUILTIN_ACCESS_ROLES[r.n].slug \in there
    /\ r.at \in {"list", "listing", "rows", "grant"} => Slugs \subseteq there

\* What was read of the guild is true unless rights changed since the calls began; who is verified
\* administers the server unless they changed since what he was verified by was cached.
Asked(r) ==
    /\ r.at \in {"listing", "reading"} /\ still > r.age => r.seen \subseteq admins
    /\ r.at \in {"guild", "reading"} /\ still > r.age => r.has \subseteq has[r.user]
    /\ r.at = "verified" /\ still > CACHE_TTL + FETCH_LIMIT => DiscordAdmin(r.user)

ListTrue ==
    /\ listed \in [held : BOOLEAN, admins : SUBSET DiscordRoles, age : 0 .. CACHE_TTL]
    /\ listed.held /\ still > listed.age + FETCH_LIMIT => listed.admins \subseteq admins
TablesType ==
    /\ roles \subseteq AccessRoles /\ level \in [roles -> Levels]
    /\ synced \subseteq DiscordRoles /\ assigned \subseteq DiscordRoles \X roles
    /\ SyncedHasBuiltins
RequestsInv ==
    /\ req \in [Procs -> RequestType]
    /\ \A p \in Procs : Fits(req[p]) /\ Ensures(req[p], roles) /\ Asked(req[p])
AccessInv == RightsInv /\ ListTrue /\ TablesType /\ RequestsInv

\* A request at its next await: x fits, with the builtin roles that are there then.
Advanced(x) == Fits(x) /\ Ensures(x, roles') /\ Asked(x)

\* The first of some places is one of them, and none is before it.
LEMMA FirstIsLeast ==
    ASSUME NEW S \in SUBSET Builtins, S # {}
    PROVE  First(S) \in S /\ \A j \in S : First(S) <= j
<1>1. S \subseteq 1 .. 5  BY DEF Builtins, BUILTIN_ACCESS_ROLES
<1>2. \E i \in S : \A j \in S : i <= j
  <2>1. CASE 1 \in S  BY <1>1, <2>1
  <2>2. CASE 1 \notin S /\ 2 \in S  BY <1>1, <2>2
  <2>3. CASE 1 \notin S /\ 2 \notin S /\ 3 \in S  BY <1>1, <2>3
  <2>4. CASE 1 \notin S /\ 2 \notin S /\ 3 \notin S /\ 4 \in S  BY <1>1, <2>4
  <2>5. CASE 1 \notin S /\ 2 \notin S /\ 3 \notin S /\ 4 \notin S
    <3>1. \A j \in S : j = 5  BY <1>1, <2>5
    <3> QED  BY <3>1
  <2> QED  BY <2>1, <2>2, <2>3, <2>4, <2>5
<1> QED  BY <1>2 DEF First

\* A step of one request: the others lose nothing while Discord stays as it is and no builtin role goes.
LEMMA OneAdvances ==
    ASSUME NEW p \in Procs, NEW x, RequestsInv, req' = [req EXCEPT ![p] = x], UNCHANGED world,
           Slugs \cap roles \subseteq roles', Advanced(x)
    PROVE  RequestsInv'
<1>0. x \in RequestType  BY DEF Advanced, Fits
<1>1. req' \in [Procs -> RequestType]  BY <1>0 DEF RequestsInv
<1>2. \A i \in Builtins : BUILTIN_ACCESS_ROLES[i].slug \in Slugs  BY DEF Builtins
<1>3. ASSUME NEW q \in Procs  PROVE Fits(req'[q]) /\ Ensures(req'[q], roles') /\ Asked(req'[q])
  <2>1. CASE q = p  BY <2>1 DEF RequestsInv, Advanced
  <2>2. CASE q # p
    <3>1. req'[q] = req[q] /\ Fits(req[q]) /\ Ensures(req[q], roles) /\ Asked(req[q])
      BY <2>2 DEF RequestsInv
    <3>2. Ensures(req[q], roles')  BY <1>2, <3>1 DEF Ensures
    <3> QED  BY <3>1, <3>2
  <2> QED  BY <2>1, <2>2
<1>4. ASSUME NEW r, Asked(r)  PROVE Asked(r)'
  BY <1>4 DEF Asked, DiscordAdmin, world
<1>5. \A q \in Procs : Fits(req[q])' /\ Ensures(req[q], roles)' /\ Asked(req[q])'
  BY <1>3 DEF Fits, Ensures, Asked, DiscordAdmin, world
<1> QED  BY <1>1, <1>5 DEF RequestsInv

\* x is r but for the fields a step sets.
Keeps(r, x) == x \in RequestType /\ x.op = r.op /\ x.user = r.user /\ x.age = r.age
Stands(r, x, a) ==
    Keeps(r, x) /\ x.at = a /\ x.has = r.has /\ x.n = r.n /\ x.target = r.target /\ x.todo = r.todo /\ x.seen = r.seen
LEMMA AtMoves ==
    ASSUME NEW r \in RequestType, NEW a \in Stages
    PROVE  Stands(r, [r EXCEPT !.at = a], a)
BY DEF RequestType, Keeps, Stands

\* Nothing is asked of a request that is over.
LEMMA IdleFits == ASSUME DiscordRightsAssumption  PROVE Advanced(Idle) /\ Idle \in RequestType
<1>1. 0 \in 0 .. FETCH_LIMIT  BY DEF DiscordRightsAssumption
<1>2. PICK a \in Stages : a = "idle"  BY DEF Stages
<1>6. PICK o \in Ops \cup {"none"} : o = "none"  OBVIOUS
<1>4. [at |-> a, op |-> o, user |-> Nobody, admin |-> FALSE, has |-> {}, n |-> 0, target |-> Nobody,
       todo |-> {}, seen |-> {}, age |-> 0] \in RequestType
  BY <1>1 DEF RequestType
<1>5. Idle \in RequestType  BY <1>2, <1>4, <1>6 DEF Idle
<1>3. Idle.at = "idle" /\ Idle.op = "none"  BY DEF Idle
<1> QED  BY <1>3, <1>5 DEF Advanced, Fits, Ensures, Asked, Ops, EditOps

\* A new request.
Fresh(r) ==
    r \in RequestType /\ r.at = "idle" /\ r.op \in Ops \ {"command", "authority"} /\ (r.op = "create" => r.target \in Customs)
LEMMA FirstPlace == ASSUME ActivityAccessAssumption  PROVE 1 \in Builtins /\ \A i \in Builtins : i \in Nat /\ ~(i < 1)
BY DEF ActivityAccessAssumption, Builtins, BUILTIN_ACCESS_ROLES

\* A request that waits for its context, or has it, ensures the builtin roles first.
LEMMA WithFits ==
    ASSUME ActivityAccessAssumption, NEW r \in RequestType, NEW e,
           NEW b \in BOOLEAN, NEW S \in SUBSET DiscordRoles, e.admin = b, e.roles = S,
           r.op \in Ops \ {"command", "authority"}, r.op = "create" => r.target \in Customs, r.user \in Users
    PROVE  Advanced(With(r, e))
<1>1. CASE r.op = "sync"
  <2>0. PICK a \in Stages : a = "ensure"  BY DEF Stages
  <2> DEFINE x == [r EXCEPT !.at = a, !.n = 1, !.admin = b]
  <2>1. x \in RequestType  BY DEF RequestType
  <2>2. x.at = "ensure" /\ x.n = 1 /\ x.op = r.op /\ x.user = r.user  BY <2>0 DEF RequestType
  <2> HIDE DEF x
  <2>3. Ensures(x, roles')  BY <2>2, FirstPlace DEF Ensures
  <2>4. Fits(x)  BY <1>1, <2>1, <2>2 DEF Fits
  <2>5. Asked(x)  BY <2>2 DEF Asked
  <2> QED  BY <1>1, <2>0, <2>3, <2>4, <2>5 DEF With, x, Advanced
<1>2. CASE r.op # "sync"
  <2>0. PICK a \in Stages : a = "ensure"  BY DEF Stages
  <2> DEFINE x == [r EXCEPT !.at = a, !.n = 1, !.has = S]
  <2>1. x \in RequestType  BY DEF RequestType
  <2>2. x.at = "ensure" /\ x.n = 1 /\ x.op = r.op /\ x.target = r.target /\ x.user = r.user  BY <2>0 DEF RequestType
  <2> HIDE DEF x
  <2>3. Ensures(x, roles')  BY <2>2, FirstPlace DEF Ensures
  <2>4. Fits(x)  BY <1>2, <2>1, <2>2 DEF Fits
  <2>5. Asked(x)  BY <2>2 DEF Asked
  <2> QED  BY <1>2, <2>0, <2>3, <2>4, <2>5 DEF With, x, Advanced
<1> QED  BY <1>1, <1>2

\* A request begins.
LEMMA AsksAdvances ==
    ASSUME ActivityAccessAssumption, RightsInv, RequestsInv, NEW p \in Procs, NEW r, Fresh(r), r.user \in Users,
           Asks(p, r), UNCHANGED <<world, roles>>
    PROVE  RequestsInv'
<1>1. CASE context[r.user].held
  <2>1. PICK b \in BOOLEAN, S \in SUBSET DiscordRoles : context[r.user].admin = b /\ context[r.user].roles = S
    BY DEF RightsInv, RightsType
  <2>2. Advanced(With(r, context[r.user]))  BY <2>1, WithFits DEF Fresh
  <2>3. PICK x : x = With(r, context[r.user])  OBVIOUS
  <2>4. req' = [req EXCEPT ![p] = x] /\ Advanced(x)  BY <1>1, <2>2, <2>3 DEF Asks
  <2> QED  BY <2>4, OneAdvances
<1>2. CASE ~context[r.user].held
  <2>1. PICK x : x = [r EXCEPT !.at = "context"]  OBVIOUS
  <2>2. Stands(r, x, "context")  BY <2>1, AtMoves DEF Fresh, Stages
  <2>3. Advanced(x)  BY <2>2 DEF Stands, Keeps, Fresh, Advanced, Fits, Ensures, Asked
  <2>4. req' = [req EXCEPT ![p] = x]  BY <1>2, <2>1 DEF Asks
  <2> QED  BY <2>3, <2>4, OneAdvances
<1> QED  BY <1>1, <1>2

\* Of those of the Activity that ask for a context, and of an authority's question.
LEMMA RequestFields ==
    ASSUME DiscordRightsAssumption, NEW u \in Users \cup {Owner}, NEW o \in Ops
    PROVE  /\ Request(u, o) \in RequestType /\ Request(u, o).at = "idle"
           /\ Request(u, o).op = o /\ Request(u, o).user = u /\ Request(u, o).age = 0
<1>1. Idle \in RequestType  BY IdleFits
<1>2. PICK v \in Users \cup {Owner, Nobody}, q \in Ops \cup {"none"} : v = u /\ q = o  OBVIOUS
<1>3. PICK i \in RequestType : i = Idle  BY <1>1
<1>4. [i EXCEPT !.op = q, !.user = v] \in RequestType  BY DEF RequestType
<1>5. i.at = "idle" /\ i.age = 0  BY <1>3 DEF Idle
<1> QED  BY <1>2, <1>3, <1>4, <1>5 DEF Request, RequestType
LEMMA RequestFresh ==
    ASSUME DiscordRightsAssumption, NEW u \in Users, NEW o \in Ops \ {"command", "authority", "create"}
    PROVE  Fresh(Request(u, o)) /\ Request(u, o).user = u
BY RequestFields DEF Fresh

\* A request that ends, or goes to its next await with what it carries.
LEMMA EndsFit ==
    ASSUME DiscordRightsAssumption, NEW p \in Procs, RequestsInv, Ends(p), UNCHANGED world, Slugs \cap roles \subseteq roles'
    PROVE  RequestsInv'
<1>1. PICK x : x = Idle  OBVIOUS
<1>2. req' = [req EXCEPT ![p] = x] /\ Advanced(x)  BY <1>1, IdleFits DEF Ends
<1> QED  BY <1>2, OneAdvances

\* Of those that pass the two fields checked below, every one.
Passing(r, a) ==
    /\ a \in Stages \ {"rows", "grant", "list", "listing", "ensure", "insert", "upsert", "verified",
                      "owner", "guild", "reading", "context"}
    /\ a \in {"check", "modules", "drop"} => r.op \in EditOps
    /\ a = "member" => r.op = "authority" /\ r.user \in Users
    /\ a \in {"clear", "put"} => r.target \in DiscordRoles
    /\ a = "drop" => r.target \in Customs
LEMMA PassingFits ==
    ASSUME NEW r, NEW x, NEW a, Fits(r), Passing(r, a), Stands(r, x, a)
    PROVE  Advanced(x)
<1>1. Fits(x)  BY DEF Fits, Passing, Stands, Keeps
<1>2. Ensures(x, roles') /\ Asked(x)  BY DEF Passing, Stands, Ensures, Asked
<1> QED  BY <1>1, <1>2 DEF Advanced
LEMMA GoesFit ==
    ASSUME NEW p \in Procs, NEW a, RequestsInv, Passing(req[p], a), Goes(p, a), UNCHANGED world,
           Slugs \cap roles \subseteq roles'
    PROVE  RequestsInv'
<1>1. PICK r : r = req[p]  OBVIOUS
<1>2. r \in RequestType /\ Fits(r) /\ a \in Stages  BY <1>1 DEF RequestsInv, Passing
<1>3. PICK x : x = [r EXCEPT !.at = a]  OBVIOUS
<1>4. Stands(r, x, a)  BY <1>2, <1>3, AtMoves
<1>5. Advanced(x)  BY <1>1, <1>2, <1>4, PassingFits
<1>6. req' = [req EXCEPT ![p] = x]  BY <1>1, <1>3 DEF Goes, RequestsInv
<1> QED  BY <1>5, <1>6, OneAdvances

\* A builtin role of the instance is one of its slugs, with a level.
LEMMA BuiltinRoles ==
    \A i \in Builtins : /\ i \in Nat /\ BUILTIN_ACCESS_ROLES[i].slug \in Slugs
                        /\ BUILTIN_ACCESS_ROLES[i].level \in Levels
<1>1. ASSUME NEW i \in 1 .. 5  PROVE BUILTIN_ACCESS_ROLES[i].level \in Levels
  BY DEF BUILTIN_ACCESS_ROLES, Levels
<1>2. Len(BUILTIN_ACCESS_ROLES) = 5  BY DEF BUILTIN_ACCESS_ROLES
<1> QED  BY <1>1, <1>2 DEF Builtins

\* A request whose builtin role is there ensures the next one; when there is none, all are there.
LEMMA NextBuiltinFits ==
    ASSUME DiscordRightsAssumption, ActivityAccessAssumption, NEW r, Fits(r), r.at = "upsert", r.n \in Builtins,
           \A i \in Builtins : i <= r.n => BUILTIN_ACCESS_ROLES[i].slug \in roles'
    PROVE  Advanced(NextBuiltin(r))
<1>0. r \in RequestType  BY DEF Fits
<1>1. CASE After(r.n) # {}
  <2>1. PICK m \in Builtins : m = First(After(r.n)) /\ m > r.n /\ \A j \in After(r.n) : m <= j
    BY <1>1, FirstIsLeast DEF After
  <2>2. PICK a \in Stages : a = "ensure"  BY DEF Stages
  <2> DEFINE x == [r EXCEPT !.at = a, !.n = m]
  <2>3. m \in Nat  BY BuiltinRoles
  <2>4. x \in RequestType  BY <1>0, <2>3 DEF RequestType
  <2>5. x.at = "ensure" /\ x.n = m /\ x.op = r.op /\ x.target = r.target /\ x.user = r.user  BY <1>0, <2>2 DEF RequestType
  <2>6. NextBuiltin(r) = x  BY <1>1, <2>1, <2>2 DEF NextBuiltin
  <2> HIDE DEF x
  <2>7. ASSUME NEW i \in Builtins, i < m  PROVE i <= r.n
    <3>1. i \in Nat /\ m \in Nat /\ r.n \in Nat  BY BuiltinRoles
    <3>2. CASE i > r.n
      <4>1. i \in After(r.n)  BY <3>2 DEF After
      <4>2. m <= i  BY <2>1, <4>1
      <4> QED  BY <2>7, <3>1, <4>2
    <3> QED  BY <3>1, <3>2
  <2>8. Ensures(x, roles')  BY <2>5, <2>7 DEF Ensures
  <2>9. Fits(x)  BY <2>4, <2>5 DEF Fits
  <2>10. Asked(x)  BY <2>5 DEF Asked
  <2> QED  BY <2>6, <2>8, <2>9, <2>10 DEF Advanced
<1>2. CASE After(r.n) = {}
  <2>1. Slugs \subseteq roles'
    <3>1. \A i \in Builtins : BUILTIN_ACCESS_ROLES[i].slug \in roles'  BY <1>2, BuiltinRoles DEF After
    <3> QED  BY <3>1 DEF ActivityAccessAssumption, Builtins
  <2>2. PICK y : y = [r EXCEPT !.n = 0]  OBVIOUS
  <2>3. y \in RequestType /\ y.op = r.op /\ y.target = r.target /\ y.user = r.user /\ y.admin = r.admin  BY <1>0, <2>2 DEF RequestType
  <2>4. NextBuiltin(r) = Ensured(y)  BY <1>2, <2>2 DEF NextBuiltin
  <2>5. CASE y.op = "sync"
    <3>1. CASE y.admin
      <4>1. PICK a \in Stages : a = "list"  BY DEF Stages
      <4>2. PICK x : x = [y EXCEPT !.at = a, !.admin = FALSE]  OBVIOUS
      <4>3. x \in RequestType  BY <2>3, <4>2 DEF RequestType
      <4>4. x.at = "list" /\ x.op = y.op /\ x.target = y.target /\ x.user = y.user  BY <2>3, <4>1, <4>2 DEF RequestType
      <4>6. Fits(x)  BY <2>3, <2>5, <4>3, <4>4 DEF Fits
      <4>5. Fits(x) /\ Ensures(x, roles') /\ Asked(x)  BY <2>1, <4>4, <4>6 DEF Ensures, Asked
      <4> QED  BY <2>4, <2>5, <3>1, <4>1, <4>2, <4>5 DEF Ensured, Advanced
    <3>2. CASE ~y.admin  BY <2>4, <2>5, <3>2, IdleFits DEF Ensured
    <3> QED  BY <3>1, <3>2
  <2>6. CASE y.op = "command"
    <3>1. PICK a \in Stages : a = "rows"  BY DEF Stages
    <3>2. PICK x : x = [y EXCEPT !.at = a]  OBVIOUS
    <3>3. Stands(y, x, "rows")  BY <2>3, <3>1, <3>2, AtMoves
    <3>4. Fits(x) /\ Ensures(x, roles') /\ Asked(x)
      BY <2>1, <2>6, <3>3 DEF Stands, Keeps, Fits, Ensures, Asked
    <3> QED  BY <2>4, <2>6, <3>1, <3>2, <3>4 DEF Ensured, Advanced
  <2>7. CASE y.op \notin {"sync", "command"}
    <3>1. PICK a \in Stages : a = "synced"  BY DEF Stages
    <3>2. PICK x : x = [y EXCEPT !.at = a]  OBVIOUS
    <3>3. Stands(y, x, "synced")  BY <2>3, <3>1, <3>2, AtMoves
    <3>4. Fits(x) /\ Ensures(x, roles') /\ Asked(x)
      BY <2>3, <3>3 DEF Stands, Keeps, Fits, Ensures, Asked
    <3> QED  BY <2>4, <2>7, <3>1, <3>2, <3>4 DEF Ensured, Advanced
  <2> QED  BY <2>5, <2>6, <2>7
<1> QED  BY <1>1, <1>2

-----------------------------------------------------------------------------
(* The steps of a request.                                                 *)

\* Of the tables, a step that leaves them alone keeps everything.
LEMMA TablesStay == ASSUME TablesType, UNCHANGED tables  PROVE TablesType' /\ Slugs \cap roles \subseteq roles'
BY DEF TablesType, tables, SyncedHasBuiltins

\* A request that goes on with the role it ensures, once that is there if it is to write its modules.
LEMMA EnsuringFits ==
    ASSUME NEW r, NEW x, NEW a \in {"insert", "upsert"}, Fits(r), r.at \in {"ensure", "insert"}, Ensures(r, roles),
           Slugs \cap roles \subseteq roles', a = "upsert" => BUILTIN_ACCESS_ROLES[r.n].slug \in roles',
           Stands(r, x, a)
    PROVE  Advanced(x)
<1>1. Fits(x)  BY DEF Fits, Stands, Keeps
<1>2. Asked(x)  BY DEF Asked, Stands
<1>3. \A i \in Builtins : BUILTIN_ACCESS_ROLES[i].slug \in Slugs  BY BuiltinRoles
<1>4. x.n = r.n /\ x.at = a  BY DEF Stands
<1>5. r.n \in Builtins /\ \A i \in Builtins : i < r.n => BUILTIN_ACCESS_ROLES[i].slug \in roles'
  BY <1>3 DEF Ensures
<1>6. Ensures(x, roles')  BY <1>4, <1>5 DEF Ensures
<1> QED  BY <1>1, <1>2, <1>6 DEF Advanced
LEMMA EnsuringGoes ==
    ASSUME NEW p \in Procs, NEW a \in {"insert", "upsert"}, RequestsInv, Goes(p, a), UNCHANGED world,
           Slugs \cap roles \subseteq roles', req[p].at \in {"ensure", "insert"},
           a = "upsert" => BUILTIN_ACCESS_ROLES[req[p].n].slug \in roles'
    PROVE  RequestsInv'
<1>1. PICK r : r = req[p]  OBVIOUS
<1>2. Fits(r) /\ Ensures(r, roles) /\ r \in RequestType  BY <1>1 DEF RequestsInv, Fits
<1>3. PICK s \in Stages : s = a  BY DEF Stages
<1>4. PICK x : x = [r EXCEPT !.at = s]  OBVIOUS
<1>5. Stands(r, x, a)  BY <1>2, <1>3, <1>4, AtMoves
<1>6. r.at \in {"ensure", "insert"} /\ (a = "upsert" => BUILTIN_ACCESS_ROLES[r.n].slug \in roles')  BY <1>1
<1>7. Advanced(x)  BY <1>2, <1>5, <1>6, EnsuringFits
<1>8. req' = [req EXCEPT ![p] = x]  BY <1>1, <1>3, <1>4 DEF Goes, RequestsInv
<1> QED  BY <1>7, <1>8, OneAdvances

\* _ensure_builtin_access_roles, _ensure_activity_builtin_roles: the role is looked for
LEMMA EnsureStep ==
    ASSUME DiscordRightsAssumption, AccessInv, NEW p \in Procs, Ensure(p)
    PROVE  RequestsInv' /\ TablesType'
<1>1. RequestsInv /\ TablesType' /\ Slugs \cap roles \subseteq roles' /\ UNCHANGED <<world, roles>>
  BY TablesStay DEF AccessInv, Ensure, tables
<1>2. req[p].at \in {"ensure", "insert"}  BY DEF Ensure
<1>3. CASE BUILTIN_ACCESS_ROLES[req[p].n].slug \in roles
  <2>1. Goes(p, "upsert") /\ BUILTIN_ACCESS_ROLES[req[p].n].slug \in roles'  BY <1>1, <1>3 DEF Ensure
  <2> QED  BY <1>1, <1>2, <2>1, EnsuringGoes
<1>4. CASE BUILTIN_ACCESS_ROLES[req[p].n].slug \notin roles
  <2>1. Goes(p, "insert")  BY <1>4 DEF Ensure
  <2> QED  BY <1>1, <1>2, <2>1, EnsuringGoes
<1> QED  BY <1>3, <1>4

\* It is inserted, unless somebody was faster.
LEMMA InsertStep ==
    ASSUME DiscordRightsAssumption, AccessInv, NEW p \in Procs, InsertBuiltin(p)
    PROVE  RequestsInv' /\ TablesType'
<1>0. RequestsInv /\ TablesType /\ UNCHANGED <<world, synced, assigned>>  BY DEF AccessInv, InsertBuiltin
<1>1. Ensures(req[p], roles) /\ req[p].at \in {"ensure", "insert"}  BY <1>0 DEF RequestsInv, InsertBuiltin
<1>2. PICK a : a = BUILTIN_ACCESS_ROLES[req[p].n].slug  OBVIOUS
<1>3. a \in Slugs  BY <1>1, <1>2, BuiltinRoles DEF Ensures
<1>4. CASE a \notin roles
  <2>1. /\ roles' = roles \cup {a} /\ level' = [x \in roles' |-> IF x = a THEN 0 ELSE level[x]]
        /\ Goes(p, "upsert")
    BY <1>2, <1>4 DEF InsertBuiltin
  <2>2. TablesType'  BY <1>0, <1>3, <2>1 DEF TablesType, SyncedHasBuiltins, AccessRoles, Levels
  <2>3. Slugs \cap roles \subseteq roles' /\ BUILTIN_ACCESS_ROLES[req[p].n].slug \in roles'  BY <1>2, <2>1
  <2> QED  BY <1>0, <1>1, <2>1, <2>2, <2>3, EnsuringGoes
<1>5. CASE a \in roles
  <2>1. Ends(p) /\ UNCHANGED <<roles, level>>  BY <1>2, <1>5 DEF InsertBuiltin
  <2>2. TablesType' /\ Slugs \cap roles \subseteq roles'  BY <1>0, <2>1, TablesStay DEF tables
  <2> QED  BY <1>0, <2>1, <2>2, EndsFit
<1> QED  BY <1>4, <1>5

\* Its modules are written, and the next one is looked for.
LEMMA UpsertStep ==
    ASSUME DiscordRightsAssumption, ActivityAccessAssumption, AccessInv, NEW p \in Procs, Upsert(p)
    PROVE  RequestsInv' /\ TablesType'
<1>0. RequestsInv /\ TablesType /\ UNCHANGED <<world, roles, synced, assigned>>  BY DEF AccessInv, Upsert
<1>1. PICK r : r = req[p]  OBVIOUS
<1>2. Fits(r) /\ r.at = "upsert" /\ Ensures(r, roles)  BY <1>0, <1>1 DEF RequestsInv, Upsert
<1>3. r.n \in Builtins /\ BUILTIN_ACCESS_ROLES[r.n].slug \in roles  BY <1>2 DEF Ensures
<1>4. PICK b : b = BUILTIN_ACCESS_ROLES[r.n]  OBVIOUS
<1>5. b.level \in Levels /\ r.n \in Nat  BY <1>3, <1>4, BuiltinRoles
<1>6. level' = [a \in roles |-> IF a = b.slug THEN b.level ELSE level[a]] /\ req' = [req EXCEPT ![p] = NextBuiltin(r)]
  BY <1>1, <1>4 DEF Upsert
<1>7. level' \in [roles -> Levels]  BY <1>0, <1>5, <1>6 DEF TablesType
<1>8. TablesType'  BY <1>0, <1>7 DEF TablesType, SyncedHasBuiltins
<1>9. \A i \in Builtins : i <= r.n => BUILTIN_ACCESS_ROLES[i].slug \in roles'
  <2>1. ASSUME NEW i \in Builtins, i <= r.n  PROVE BUILTIN_ACCESS_ROLES[i].slug \in roles
    <3>1. i = r.n \/ i < r.n  BY <1>5, <2>1, BuiltinRoles
    <3> QED  BY <1>2, <1>3, <2>1, <3>1 DEF Ensures
  <2> QED  BY <1>0, <2>1
<1>10. PICK x : x = NextBuiltin(r)  OBVIOUS
<1>11. Advanced(x)  BY <1>2, <1>3, <1>9, <1>10, NextBuiltinFits
<1> QED  BY <1>0, <1>6, <1>8, <1>10, <1>11, OneAdvances

\* A check that is passed or ends the request.
LEMMA CheckStep ==
    ASSUME DiscordRightsAssumption, AccessInv, NEW p \in Procs, NEW a, Passing(req[p], a), UNCHANGED <<world, tables>>,
           Ends(p) \/ Goes(p, a)
    PROVE  RequestsInv' /\ TablesType'
<1>1. RequestsInv /\ TablesType' /\ Slugs \cap roles \subseteq roles'  BY TablesStay DEF AccessInv
<1> QED  BY <1>1, EndsFit, GoesFit

\* ensure_admin lets an edit pass.
LEMMA GrantedStep ==
    ASSUME DiscordRightsAssumption, AccessInv, NEW p \in Procs, NEW y \in BOOLEAN, UNCHANGED <<world, tables>>,
           req' = [req EXCEPT ![p] = Granted(req[p], y)]
    PROVE  RequestsInv' /\ TablesType'
<1>1. RequestsInv /\ TablesType' /\ Slugs \cap roles \subseteq roles'  BY TablesStay DEF AccessInv
<1>2. PICK r : r = req[p]  OBVIOUS
<1>3. Fits(r) /\ r \in RequestType  BY <1>1, <1>2 DEF RequestsInv
<1>4. CASE r.op \in EditOps /\ y
  <2>1. PICK a \in Stages : a = "check"  BY DEF Stages
  <2>2. PICK x : x = [r EXCEPT !.at = a, !.has = {}]  OBVIOUS
  <2>3. x \in RequestType  BY <1>3, <2>2 DEF RequestType
  <2>4. x.at = "check" /\ x.op = r.op /\ x.target = r.target /\ x.user = r.user  BY <1>3, <2>1, <2>2 DEF RequestType
  <2>5. Fits(x) /\ Ensures(x, roles') /\ Asked(x)  BY <1>3, <1>4, <2>3, <2>4 DEF Fits, Ensures, Asked
  <2>6. req' = [req EXCEPT ![p] = x]  BY <1>2, <1>4, <2>1, <2>2 DEF Granted
  <2> QED  BY <1>1, <2>5, <2>6, OneAdvances DEF Advanced
<1>5. CASE ~(r.op \in EditOps /\ y)
  <2>1. Ends(p)  BY <1>2, <1>5 DEF Granted, Ends
  <2> QED  BY <1>1, <2>1, EndsFit
<1> QED  BY <1>4, <1>5

\* fetch_user_and_access_state and the checks of the edits.
LEMMA AccessStep ==
    ASSUME DiscordRightsAssumption, AccessInv, NEW p \in Procs,
           \/ Synced(p) \/ HasSyncedAdminRole(p) \/ MemberAccessRoles(p)
           \/ CheckAssign(p) \/ CheckModules(p) \/ CheckDelete(p)
    PROVE  RequestsInv' /\ TablesType'
<1>0. RequestsInv /\ TablesType /\ Fits(req[p])  BY DEF AccessInv, RequestsInv
<1>1. CASE Synced(p)
  <2>1. Passing(req[p], "admin")  BY DEF Passing, Stages
  <2> QED  BY <1>1, <2>1, CheckStep DEF Synced
<1>2. CASE HasSyncedAdminRole(p)
  <2>1. CASE req[p].has \cap AdminRoles # {}
    <3>1. req' = [req EXCEPT ![p] = Granted(req[p], TRUE)]  BY <1>2, <2>1 DEF HasSyncedAdminRole
    <3> QED  BY <1>2, <3>1, GrantedStep DEF HasSyncedAdminRole
  <2>2. CASE req[p].has \cap AdminRoles = {}
    <3>1. Goes(p, "merge")  BY <1>0, <1>2, <2>2 DEF HasSyncedAdminRole, Goes, RequestsInv
    <3>2. Passing(req[p], "merge")  BY DEF Passing, Stages
    <3> QED  BY <1>2, <3>1, <3>2, CheckStep DEF HasSyncedAdminRole
  <2> QED  BY <2>1, <2>2
<1>3. CASE MemberAccessRoles(p)
  <2>1. CASE "administrator" \in RolesOf(req[p].has)
    <3>1. req' = [req EXCEPT ![p] = Granted(req[p], TRUE)]  BY <1>3, <2>1 DEF MemberAccessRoles, Granted
    <3> QED  BY <1>3, <3>1, GrantedStep DEF MemberAccessRoles
  <2>2. CASE "administrator" \notin RolesOf(req[p].has)
    <3>1. req' = [req EXCEPT ![p] = Granted(req[p], FALSE)]  BY <1>3, <2>2 DEF MemberAccessRoles, Granted
    <3> QED  BY <1>3, <3>1, GrantedStep DEF MemberAccessRoles
  <2> QED  BY <2>1, <2>2
<1>4. CASE CheckAssign(p)
  <2>1. CASE req[p].target \in synced /\ req[p].todo \subseteq roles
    <3>1. Passing(req[p], "clear")  BY <1>0, <2>1 DEF Passing, Stages, TablesType
    <3> QED  BY <1>4, <2>1, <3>1, CheckStep DEF CheckAssign
  <2>2. CASE ~(req[p].target \in synced /\ req[p].todo \subseteq roles)
    <3>1. Passing(req[p], "idle")  BY DEF Passing, Stages
    <3> QED  BY <1>4, <2>2, <3>1, CheckStep DEF CheckAssign
  <2> QED  BY <2>1, <2>2
<1>5. CASE CheckModules(p)
  <2>1. Passing(req[p], "modules")  BY <1>5 DEF Passing, Stages, CheckModules, EditOps
  <2> QED  BY <1>5, <2>1, CheckStep DEF CheckModules
<1>6. CASE CheckDelete(p)
  <2>1. CASE req[p].target \in roles \ Slugs
    <3>1. Passing(req[p], "drop")
      BY <1>0, <1>6, <2>1 DEF Passing, Stages, TablesType, AccessRoles, CheckDelete, EditOps
    <3> QED  BY <1>6, <2>1, <3>1, CheckStep DEF CheckDelete
  <2>2. CASE req[p].target \notin roles \ Slugs
    <3>1. Passing(req[p], "idle")  BY DEF Passing, Stages
    <3> QED  BY <1>6, <2>2, <3>1, CheckStep DEF CheckDelete
  <2> QED  BY <2>1, <2>2
<1> QED  BY <1>1, <1>2, <1>3, <1>4, <1>5, <1>6

\* list_roles, and what follows from its answer.
LEMMA ListStep ==
    ASSUME DiscordRightsAssumption, AccessInv, NEW p \in Procs, HasList(p) \/ GetsList(p)
    PROVE  RequestsInv' /\ TablesType' /\ ListTrue'
<1>0. RequestsInv /\ TablesType /\ ListTrue /\ RightsType  BY DEF AccessInv, RightsInv
<1>1. PICK r : r = req[p]  OBVIOUS
<1>2. Fits(r) /\ Ensures(r, roles) /\ Asked(r) /\ r \in RequestType  BY <1>0, <1>1 DEF RequestsInv, Fits
<1>3. TablesType' /\ Slugs \cap roles \subseteq roles' /\ UNCHANGED <<world, roles>>
  BY <1>0, TablesStay DEF HasList, GetsList, tables
<1>4. listed.admins \in SUBSET DiscordRoles /\ admins \in SUBSET DiscordRoles /\ still \in Nat
      /\ r.seen \in SUBSET DiscordRoles /\ r.age \in 0 .. FETCH_LIMIT /\ FETCH_LIMIT \in Nat
  BY <1>0, <1>2 DEF ListTrue, RightsType, RequestType, Settled, DiscordRightsAssumption
<1>5. PICK T \in SUBSET (DiscordRoles \cup AccessRoles) : T = DiscordRoles  OBVIOUS
<1>6. CASE HasList(p) /\ listed.held
  <2>1. PICK a \in Stages : a = "rows"  BY DEF Stages
  <2>2. PICK l \in SUBSET DiscordRoles : l = listed.admins  BY <1>4
  <2>3. PICK x : x = [r EXCEPT !.at = a, !.seen = l, !.todo = T]  OBVIOUS
  <2>4. x \in RequestType  BY <1>2, <2>3 DEF RequestType
  <2>5. x.at = "rows" /\ x.op = r.op /\ x.target = r.target /\ x.user = r.user  BY <1>2, <2>1, <2>3 DEF RequestType
  <2>6. Fits(x) /\ Ensures(x, roles') /\ Asked(x)
    BY <1>1, <1>2, <1>3, <1>6, <2>4, <2>5 DEF HasList, Fits, Ensures, Asked
  <2>7. req' = [req EXCEPT ![p] = x]
    BY <1>0, <1>1, <1>5, <1>6, <2>1, <2>2, <2>3 DEF HasList, RequestsInv
  <2>8. RequestsInv'  BY <1>0, <1>3, <2>6, <2>7, OneAdvances DEF Advanced
  <2>9. ListTrue'  BY <1>0, <1>6 DEF HasList, ListTrue, world, caches
  <2> QED  BY <1>3, <2>8, <2>9
<1>7. CASE HasList(p) /\ ~listed.held
  <2>1. PICK a \in Stages : a = "listing"  BY DEF Stages
  <2>2. PICK l \in SUBSET DiscordRoles : l = admins  BY <1>4
  <2>3. PICK x : x = [r EXCEPT !.at = a, !.seen = l]  OBVIOUS
  <2>4. x \in RequestType  BY <1>2, <2>3 DEF RequestType
  <2>5. x.at = "listing" /\ x.op = r.op /\ x.target = r.target /\ x.user = r.user /\ x.seen = admins  BY <1>2, <2>1, <2>2, <2>3 DEF RequestType
  <2>6. Fits(x) /\ Ensures(x, roles') /\ Asked(x)
    BY <1>1, <1>2, <1>3, <1>7, <2>4, <2>5 DEF HasList, Fits, Ensures, Asked
  <2>7. req' = [req EXCEPT ![p] = x]
    BY <1>0, <1>1, <1>7, <2>1, <2>2, <2>3 DEF HasList, RequestsInv
  <2>8. RequestsInv'  BY <1>0, <1>3, <2>6, <2>7, OneAdvances DEF Advanced
  <2>9. ListTrue'  BY <1>0, <1>7 DEF HasList, ListTrue, world, caches
  <2> QED  BY <1>3, <2>8, <2>9
<1>8. CASE GetsList(p)
  <2>1. PICK a \in Stages : a = "rows"  BY DEF Stages
  <2>2. 0 \in 0 .. FETCH_LIMIT  BY <1>4
  <2>3. PICK x : x = [r EXCEPT !.at = a, !.todo = T, !.age = 0]  OBVIOUS
  <2>4. x \in RequestType  BY <1>2, <2>2, <2>3 DEF RequestType
  <2>5. x.at = "rows" /\ x.op = r.op /\ x.target = r.target /\ x.user = r.user  BY <1>2, <2>1, <2>3 DEF RequestType
  <2>6. Fits(x) /\ Ensures(x, roles') /\ Asked(x)
    BY <1>1, <1>2, <1>3, <1>8, <2>4, <2>5 DEF GetsList, Fits, Ensures, Asked
  <2>7. req' = [req EXCEPT ![p] = x]
    BY <1>0, <1>1, <1>5, <1>8, <2>1, <2>3 DEF GetsList, RequestsInv
  <2>8. RequestsInv'  BY <1>0, <1>3, <2>6, <2>7, OneAdvances DEF Advanced
  <2>9. listed' = [held |-> TRUE, admins |-> r.seen, age |-> 0] /\ r.at = "listing"  BY <1>1, <1>8 DEF GetsList
  <2>10. still > FETCH_LIMIT => r.seen \subseteq admins  BY <1>2, <1>4, <2>9 DEF Asked
  <2>11. 0 \in 0 .. CACHE_TTL  BY DEF DiscordRightsAssumption
  <2>12. ListTrue'  BY <1>3, <1>4, <2>9, <2>10, <2>11 DEF ListTrue, world
  <2> QED  BY <1>3, <2>8, <2>12
<1> QED  BY <1>6, <1>7, <1>8

\* A synchronisation marks a role, makes it that of an administrator, and deletes what is left over.
LEMMA SyncStep ==
    ASSUME DiscordRightsAssumption, ActivityAccessAssumption, AccessInv, NEW p \in Procs,
           (\E d \in DiscordRoles : SyncRow(p, d)) \/ Grant(p) \/ Prune(p)
    PROVE  RequestsInv' /\ TablesType'
<1>0. RequestsInv /\ TablesType /\ RightsInv  BY DEF AccessInv
<1>1. PICK r : r = req[p]  OBVIOUS
<1>2. Fits(r) /\ Ensures(r, roles) /\ r \in RequestType  BY <1>0, <1>1 DEF RequestsInv, Fits
<1>3. ASSUME NEW d \in DiscordRoles, SyncRow(p, d)  PROVE RequestsInv' /\ TablesType'
  <2>0. r.at = "rows" /\ UNCHANGED <<world, roles, level, assigned>> /\ synced' = synced \cup {d}
    BY <1>1, <1>3 DEF SyncRow
  <2>1. TablesType'  BY <1>0, <1>2, <2>0 DEF TablesType, SyncedHasBuiltins, Ensures
  <2>2. PICK a \in Stages : a = IF Grants(r, d) THEN "grant" ELSE "rows"  BY DEF Stages
  <2>3. PICK t \in DiscordRoles \cup AccessRoles \cup {Nobody} : t = IF Grants(r, d) THEN d ELSE Nobody  OBVIOUS
  <2>4. PICK T \in SUBSET (DiscordRoles \cup AccessRoles) : T = r.todo \ {d}  BY <1>2 DEF RequestType
  <2>5. PICK x : x = [r EXCEPT !.todo = T, !.at = a, !.target = t]  OBVIOUS
  <2>6. x \in RequestType  BY <1>2, <2>5 DEF RequestType
  <2>7. x.at = a /\ x.op = r.op /\ x.target = t /\ x.user = r.user  BY <1>2, <2>5 DEF RequestType
  <2>8. req' = [req EXCEPT ![p] = x]  BY <1>0, <1>1, <1>3, <2>2, <2>3, <2>4, <2>5 DEF SyncRow, RequestsInv
  <2>9. Fits(x)  BY <1>2, <2>0, <2>2, <2>3, <2>6, <2>7 DEF Fits
  <2>10. Ensures(x, roles') /\ Asked(x)  BY <1>2, <2>0, <2>2, <2>7 DEF Ensures, Asked
  <2> QED  BY <1>0, <2>0, <2>1, <2>8, <2>9, <2>10, OneAdvances DEF Advanced
<1>4. CASE Grant(p)
  <2>0. r.at = "grant" /\ UNCHANGED <<world, roles, level, synced>>  BY <1>1, <1>4 DEF Grant
  <2>1. r.target \in DiscordRoles  BY <1>2, <2>0 DEF Fits
  <2>2. assigned' \subseteq DiscordRoles \X roles  BY <1>0, <1>1, <1>4, <2>1 DEF Grant, TablesType
  <2>3. TablesType'  BY <1>0, <2>0, <2>2 DEF TablesType, SyncedHasBuiltins
  <2>4. PICK a \in Stages : a = "rows"  BY DEF Stages
  <2>5. PICK x : x = [r EXCEPT !.at = a, !.target = Nobody]  OBVIOUS
  <2>6. x \in RequestType  BY <1>2, <2>5 DEF RequestType
  <2>7. x.at = "rows" /\ x.op = r.op /\ x.user = r.user  BY <1>2, <2>4, <2>5 DEF RequestType
  <2>8. req' = [req EXCEPT ![p] = x]  BY <1>0, <1>1, <1>4, <2>4, <2>5 DEF Grant, RequestsInv
  <2>9. Fits(x) /\ Ensures(x, roles') /\ Asked(x)  BY <1>2, <2>0, <2>6, <2>7 DEF Fits, Ensures, Asked
  <2> QED  BY <1>0, <2>0, <2>3, <2>8, <2>9, OneAdvances DEF Advanced
<1>5. CASE Prune(p)
  <2>0. r.at = "rows" /\ UNCHANGED <<world, roles, level, assigned>> /\ synced' \subseteq synced
    BY <1>1, <1>5 DEF Prune
  <2>1. TablesType'  BY <1>0, <1>2, <2>0 DEF TablesType, SyncedHasBuiltins, Ensures
  <2>2. CASE Ends(p)  BY <1>0, <2>0, <2>1, <2>2, EndsFit
  <2>3. CASE r.op # "command"
    <3>1. Asks(p, Request(r.user, "session"))  BY <1>1, <1>5, <2>3 DEF Prune
    <3>2. r.user \in Users  BY <1>2, <2>0, <2>3 DEF Fits, Ops
    <3>3. PICK y : y = Request(r.user, "session")  OBVIOUS
    <3>4. Fresh(y) /\ y.user \in Users  BY <3>2, <3>3, RequestFresh DEF Ops
    <3> QED  BY <1>0, <2>0, <2>1, <3>1, <3>3, <3>4, AsksAdvances
  <2> QED  BY <1>1, <1>5, <2>2, <2>3 DEF Prune
<1> QED  BY <1>3, <1>4, <1>5

\* The edits write what they were asked for.
LEMMA EditStep ==
    ASSUME DiscordRightsAssumption, ActivityAccessAssumption, AccessInv, NEW p \in Procs,
           \/ Clear(p) \/ (\E a \in Assignable : Put(p, a)) \/ (\E l \in {0, 2} : WriteModules(p, l))
           \/ CreateRole(p) \/ DropRole(p)
    PROVE  RequestsInv' /\ TablesType'
<1>0. RequestsInv /\ TablesType  BY DEF AccessInv
<1>1. Fits(req[p]) /\ req[p] \in RequestType  BY <1>0 DEF RequestsInv
<1>2. CASE Clear(p)
  <2>1. UNCHANGED <<world, roles, level, synced>> /\ assigned' \subseteq assigned  BY <1>2 DEF Clear
  <2>2. TablesType'  BY <1>0, <2>1 DEF TablesType, SyncedHasBuiltins
  <2>3. CASE Goes(p, "put")
    <3>1. Passing(req[p], "put")  BY <1>1, <1>2 DEF Clear, Passing, Stages, Fits
    <3> QED  BY <1>0, <2>1, <2>2, <2>3, <3>1, GoesFit
  <2> QED  BY <1>0, <1>2, <2>1, <2>2, <2>3, EndsFit DEF Clear
<1>3. ASSUME NEW a \in Assignable, Put(p, a)  PROVE RequestsInv' /\ TablesType'
  <2>0. req[p].at = "put" /\ UNCHANGED <<world, roles, level, synced>>  BY <1>3 DEF Put
  <2>1. req[p].target \in DiscordRoles  BY <1>1, <2>0 DEF Fits
  <2>2. assigned' \subseteq DiscordRoles \X roles  BY <1>0, <1>3, <2>1 DEF Put, TablesType
  <2>3. TablesType'  BY <1>0, <2>0, <2>2 DEF TablesType, SyncedHasBuiltins
  <2>4. CASE Ends(p)  BY <1>0, <2>0, <2>3, <2>4, EndsFit
  <2>5. CASE req' = [req EXCEPT ![p] = [req[p] EXCEPT !.todo = req[p].todo \ {a}]]
    <3>1. PICK r : r = req[p]  OBVIOUS
    <3>2. PICK T \in SUBSET (DiscordRoles \cup AccessRoles) : T = r.todo \ {a}  BY <1>1, <3>1 DEF RequestType
    <3>3. PICK x : x = [r EXCEPT !.todo = T]  OBVIOUS
    <3>4. x \in RequestType  BY <1>1, <3>1, <3>3 DEF RequestType
    <3>5. x.at = "put" /\ x.op = r.op /\ x.target = r.target /\ x.user = r.user
      BY <1>1, <2>0, <3>1, <3>3 DEF RequestType
    <3>6. Fits(x)  BY <1>1, <2>1, <3>1, <3>4, <3>5 DEF Fits
    <3>7. Ensures(x, roles') /\ Asked(x)  BY <3>5 DEF Ensures, Asked
    <3> QED  BY <1>0, <2>0, <2>3, <2>5, <3>1, <3>2, <3>3, <3>6, <3>7, OneAdvances DEF Advanced
  <2>6. CASE a \in roles /\ <<req[p].target, a>> \notin assigned /\ req[p].todo # {a}
    <3>0. req' = [req EXCEPT ![p] = IF req[p].todo = {a} THEN Idle ELSE [req[p] EXCEPT !.todo = req[p].todo \ {a}]]
      BY <1>3, <2>6 DEF Put
    <3>1. req' = [req EXCEPT ![p] = [req[p] EXCEPT !.todo = req[p].todo \ {a}]]  BY <2>6, <3>0
    <3> QED  BY <2>5, <3>1
  <2>7. CASE ~(a \in roles /\ <<req[p].target, a>> \notin assigned /\ req[p].todo # {a})
    BY <1>3, <2>4, <2>7 DEF Put, Ends
  <2> QED  BY <2>6, <2>7
<1>4. ASSUME NEW l \in {0, 2}, WriteModules(p, l)  PROVE RequestsInv' /\ TablesType'
  <2>0. Ends(p) /\ UNCHANGED <<world, roles, synced, assigned>>  BY <1>4 DEF WriteModules
  <2>1. level' \in [roles -> Levels]  BY <1>0, <1>4 DEF WriteModules, TablesType, Levels
  <2>2. TablesType'  BY <1>0, <2>0, <2>1 DEF TablesType, SyncedHasBuiltins
  <2> QED  BY <1>0, <2>0, <2>2, EndsFit
<1>5. CASE CreateRole(p)
  <2>0. Ends(p) /\ UNCHANGED <<world, synced, assigned>> /\ req[p].target \in Customs
    BY <1>1, <1>5 DEF CreateRole, Fits
  <2>1. \/ UNCHANGED <<roles, level>>
        \/ /\ roles' = roles \cup {req[p].target}
           /\ level' = [a \in roles' |-> IF a = req[p].target THEN 0 ELSE level[a]]
    BY <1>5 DEF CreateRole
  <2>2. TablesType' /\ Slugs \cap roles \subseteq roles'
    BY <1>0, <2>0, <2>1 DEF TablesType, SyncedHasBuiltins, AccessRoles, Levels
  <2> QED  BY <1>0, <2>0, <2>2, EndsFit
<1>6. CASE DropRole(p)
  <2>0. Ends(p) /\ UNCHANGED <<world, synced>> /\ req[p].target \in Customs
    BY <1>1, <1>6 DEF DropRole, Fits
  <2>1. roles' = roles \ {req[p].target} /\ level' = [a \in roles' |-> level[a]]
    BY <1>6 DEF DropRole
  <2>2. assigned' \subseteq DiscordRoles \X roles'
    BY <1>0, <1>6, <2>1 DEF DropRole, Cascade, TablesType
  <2>3. req[p].target \notin Slugs  BY <2>0 DEF ActivityAccessAssumption
  <2>4. Slugs \cap roles \subseteq roles'  BY <2>1, <2>3
  <2>5. level' \in [roles' -> Levels]  BY <1>0, <2>1 DEF TablesType
  <2>6. TablesType'  BY <1>0, <2>0, <2>1, <2>2, <2>4, <2>5 DEF TablesType, SyncedHasBuiltins
  <2> QED  BY <1>0, <2>0, <2>4, <2>6, EndsFit
<1> QED  BY <1>2, <1>3, <1>4, <1>5, <1>6

\* The Control API decides who is verified.
LEMMA DecideFits ==
    ASSUME DiscordRightsAssumption, NEW p \in Procs, RequestsInv, NEW y \in BOOLEAN, Decides(p, y), UNCHANGED world,
           Slugs \cap roles \subseteq roles', req[p].user \in Users \cup {Owner},
           y /\ still > CACHE_TTL + FETCH_LIMIT => DiscordAdmin(req[p].user)
    PROVE  RequestsInv'
<1>1. PICK i : i = Idle  OBVIOUS
<1>2. i \in RequestType /\ i.op = "none"  BY <1>1, IdleFits DEF Idle
<1>3. PICK a \in Stages : a = IF y THEN "verified" ELSE "idle"  BY DEF Stages
<1>4. PICK v \in Users \cup {Owner, Nobody} : v = IF y THEN req[p].user ELSE Nobody  OBVIOUS
<1>5. PICK x : x = [i EXCEPT !.at = a, !.user = v]  OBVIOUS
<1>6. x \in RequestType  BY <1>2, <1>5 DEF RequestType
<1>7. x.at = a /\ x.op = "none" /\ x.user = v  BY <1>2, <1>5 DEF RequestType
<1>8. Fits(x)  BY <1>3, <1>4, <1>6, <1>7 DEF Fits, Ops, EditOps
<1>9. Ensures(x, roles') /\ Asked(x)  BY <1>3, <1>4, <1>7 DEF Ensures, Asked
<1>10. req' = [req EXCEPT ![p] = x]  BY <1>1, <1>3, <1>4, <1>5 DEF Decides
<1> QED  BY <1>8, <1>9, <1>10, OneAdvances DEF Advanced

\* The reads of an authority's question, and its answer.
LEMMA AuthorityStep ==
    ASSUME DiscordRightsAssumption, AccessInv, NEW p \in Procs,
           ReadOwner(p) \/ ReadMember(p) \/ ReadRoles(p) \/ Judge(p) \/ Answered(p)
    PROVE  RequestsInv' /\ TablesType' /\ ListTrue'
<1>0. RequestsInv /\ TablesType /\ ListTrue /\ RightsType  BY DEF AccessInv, RightsInv
<1>1. PICK r : r = req[p]  OBVIOUS
<1>2. Fits(r) /\ Asked(r) /\ r \in RequestType  BY <1>0, <1>1 DEF RequestsInv, Fits
<1>3. TablesType' /\ Slugs \cap roles \subseteq roles' /\ UNCHANGED world
  BY <1>0, TablesStay DEF ReadOwner, ReadMember, ReadRoles, Judge, Answered
<1>4. /\ listed \in [held : BOOLEAN, admins : SUBSET DiscordRoles, age : 0 .. CACHE_TTL]
      /\ admins \in SUBSET DiscordRoles /\ still \in Nat
      /\ r.seen \in SUBSET DiscordRoles /\ r.age \in 0 .. FETCH_LIMIT /\ FETCH_LIMIT \in Nat /\ CACHE_TTL \in Nat
  BY <1>0, <1>2 DEF ListTrue, RightsType, RequestType, Settled, DiscordRightsAssumption
<1>5. /\ r.at \in {"member", "guild", "reading"} => r.user \in Users /\ r.op = "authority"
      /\ r.at = "owner" => r.user \in Users \cup {Owner} /\ r.op = "authority"
  BY <1>2 DEF Fits
<1>6. CASE ReadOwner(p)
  <2>1. ListTrue'  BY <1>0, <1>3, <1>6 DEF ReadOwner, ListTrue, world, caches
  <2>2. CASE r.user = Owner
    <3>1. Decides(p, TRUE)  BY <1>1, <1>6, <2>2 DEF ReadOwner
    <3>2. DiscordAdmin(r.user)  BY <2>2 DEF DiscordAdmin
    <3>3. r.user \in Users \cup {Owner}  BY <1>1, <1>5, <1>6 DEF ReadOwner
    <3> QED  BY <1>0, <1>1, <1>3, <2>1, <3>1, <3>2, <3>3, DecideFits
  <2>3. CASE r.user # Owner
    <3>1. Goes(p, "member")  BY <1>1, <1>6, <2>3 DEF ReadOwner
    <3>2. Passing(r, "member")  BY <1>1, <1>5, <1>6, <2>3 DEF ReadOwner, Passing, Stages
    <3> QED  BY <1>0, <1>1, <1>3, <2>1, <3>1, <3>2, GoesFit
  <2> QED  BY <2>2, <2>3
<1>7. CASE ReadMember(p)
  <2>1. ListTrue'  BY <1>0, <1>3, <1>7 DEF ReadMember, ListTrue, world, caches
  <2>2. r.user \in Users /\ r.op = "authority"  BY <1>1, <1>5, <1>7 DEF ReadMember
  <2>3. PICK a \in Stages : a = "guild"  BY DEF Stages
  <2>4. PICK S \in SUBSET DiscordRoles : S = has[r.user]  BY <1>0, <2>2 DEF RightsType
  <2>5. PICK x : x = [r EXCEPT !.at = a, !.has = S]  OBVIOUS
  <2>6. x \in RequestType  BY <1>2, <2>5 DEF RequestType
  <2>7. x.at = "guild" /\ x.op = r.op /\ x.user = r.user /\ x.has = has[r.user] /\ x.target = r.target
    BY <1>2, <2>3, <2>4, <2>5 DEF RequestType
  <2>8. Fits(x)  BY <2>2, <2>6, <2>7 DEF Fits
  <2>9. Ensures(x, roles') /\ Asked(x)  BY <2>7 DEF Ensures, Asked
  <2>10. req' = [req EXCEPT ![p] = x]  BY <1>0, <1>1, <1>7, <2>3, <2>4, <2>5 DEF ReadMember, RequestsInv
  <2> QED  BY <1>0, <1>3, <2>1, <2>8, <2>9, <2>10, OneAdvances DEF Advanced
<1>8. CASE ReadRoles(p)
  <2>0. ListTrue'  BY <1>0, <1>3, <1>8 DEF ReadRoles, ListTrue, world, caches
  <2>1. r.user \in Users /\ r.op = "authority" /\ r.at = "guild"  BY <1>1, <1>5, <1>8 DEF ReadRoles
  <2>2. CASE listed.held
    <3>1. still > CACHE_TTL + FETCH_LIMIT => r.has \subseteq has[r.user] /\ listed.admins \subseteq admins
      <4>1. listed.age \in 0 .. CACHE_TTL  BY <1>4
      <4>2. still > CACHE_TTL + FETCH_LIMIT => still > r.age /\ still > listed.age + FETCH_LIMIT
        BY <1>4, <4>1
      <4> QED  BY <1>0, <1>2, <2>1, <2>2, <4>2 DEF Asked, ListTrue
    <3>2. CASE r.has \cap listed.admins # {}
      <4>1. Decides(p, TRUE)  BY <1>1, <1>8, <2>2, <3>2 DEF ReadRoles, Decides
      <4>2. still > CACHE_TTL + FETCH_LIMIT => DiscordAdmin(r.user)  BY <3>1, <3>2 DEF DiscordAdmin
      <4> QED  BY <1>0, <1>1, <1>3, <2>0, <2>1, <4>1, <4>2, DecideFits
    <3>3. CASE r.has \cap listed.admins = {}
      <4>1. Decides(p, FALSE)  BY <1>1, <1>8, <2>2, <3>3 DEF ReadRoles, Decides
      <4> QED  BY <1>0, <1>1, <1>3, <2>0, <2>1, <4>1, DecideFits
    <3> QED  BY <3>2, <3>3
  <2>3. CASE ~listed.held
    <3>1. PICK a \in Stages : a = "reading"  BY DEF Stages
    <3>2. PICK S \in SUBSET DiscordRoles : S = admins  BY <1>4
    <3>3. PICK x : x = [r EXCEPT !.at = a, !.seen = S]  OBVIOUS
    <3>4. x \in RequestType  BY <1>2, <3>3 DEF RequestType
    <3>5. /\ x.at = "reading" /\ x.op = r.op /\ x.user = r.user /\ x.has = r.has /\ x.target = r.target
          /\ x.seen = admins /\ x.age = r.age
      BY <1>2, <3>1, <3>2, <3>3 DEF RequestType
    <3>6. Fits(x)  BY <2>1, <3>4, <3>5 DEF Fits
    <3>7. Ensures(x, roles') /\ Asked(x)  BY <1>2, <2>1, <3>5 DEF Ensures, Asked
    <3>8. req' = [req EXCEPT ![p] = x]  BY <1>0, <1>1, <1>8, <2>3, <3>1, <3>2, <3>3 DEF ReadRoles, RequestsInv
    <3> QED  BY <1>0, <1>3, <2>0, <3>6, <3>7, <3>8, OneAdvances DEF Advanced
  <2> QED  BY <2>2, <2>3
<1>9. CASE Judge(p)
  <2>1. r.user \in Users /\ r.at = "reading"  BY <1>1, <1>5, <1>9 DEF Judge
  <2>2. still > FETCH_LIMIT => r.seen \subseteq admins /\ r.has \subseteq has[r.user]  BY <1>2, <1>4, <2>1 DEF Asked
  <2>3. listed' = [held |-> TRUE, admins |-> r.seen, age |-> 0]  BY <1>1, <1>9 DEF Judge
  <2>4. 0 \in 0 .. CACHE_TTL  BY <1>4
  <2>5. ListTrue'  BY <1>3, <1>4, <2>2, <2>3, <2>4 DEF ListTrue, world
  <2>6. still > CACHE_TTL + FETCH_LIMIT => still > FETCH_LIMIT  BY <1>4
  <2>7. CASE r.has \cap r.seen # {}
    <3>1. Decides(p, TRUE)  BY <1>1, <1>9, <2>7 DEF Judge, Decides
    <3>2. still > CACHE_TTL + FETCH_LIMIT => DiscordAdmin(r.user)  BY <2>2, <2>6, <2>7 DEF DiscordAdmin
    <3> QED  BY <1>0, <1>1, <1>3, <2>1, <2>5, <3>1, <3>2, DecideFits
  <2>8. CASE r.has \cap r.seen = {}
    <3>1. Decides(p, FALSE)  BY <1>1, <1>9, <2>8 DEF Judge, Decides
    <3> QED  BY <1>0, <1>1, <1>3, <2>1, <2>5, <3>1, DecideFits
  <2> QED  BY <2>7, <2>8
<1>10. CASE Answered(p)
  <2>1. ListTrue'  BY <1>0, <1>3, <1>10 DEF Answered, ListTrue, world, caches
  <2> QED  BY <1>0, <1>3, <1>10, <2>1, EndsFit DEF Answered
<1> QED  BY <1>6, <1>7, <1>8, <1>9, <1>10

-----------------------------------------------------------------------------
(* The steps that begin requests, end fetches, and those of Discord and time. *)

\* Every request begins fresh, or reads nothing it could be wrong about.
LEMMA AskingStep ==
    ASSUME DiscordRightsAssumption, ActivityAccessAssumption, AccessInv, NEW p \in Procs, Asking(p)
    PROVE  RequestsInv' /\ TablesType' /\ ListTrue'
<1>0. RequestsInv /\ TablesType /\ ListTrue /\ RightsInv  BY DEF AccessInv
<1>1. ASSUME UNCHANGED <<world, listed, tables>>
      PROVE  TablesType' /\ Slugs \cap roles \subseteq roles' /\ roles' = roles /\ ListTrue'
  BY <1>0, <1>1, TablesStay DEF ListTrue, world, tables
<1>2. ASSUME NEW u \in Users, NEW op \in {"session", "sync"}, Asks(p, Request(u, op)),
             UNCHANGED <<world, listed, tables>>
      PROVE  RequestsInv' /\ TablesType' /\ ListTrue'
  <2>1. PICK y : y = Request(u, op)  OBVIOUS
  <2>2. Fresh(y) /\ y.user \in Users  BY <2>1, RequestFresh DEF Ops
  <2> QED  BY <1>0, <1>1, <1>2, <2>1, <2>2, AsksAdvances
<1>3. ASSUME NEW u \in Users \cup {Owner}, AskAuthority(p, u)  PROVE RequestsInv' /\ TablesType' /\ ListTrue'
  <2>1. PICK y : y = Request(u, "authority")  OBVIOUS
  <2>2. y \in RequestType /\ y.op = "authority" /\ y.user = u  BY <2>1, RequestFields DEF Ops
  <2>3. PICK a \in Stages : a = "owner"  BY DEF Stages
  <2>4. PICK x : x = [y EXCEPT !.at = a]  OBVIOUS
  <2>5. Stands(y, x, "owner")  BY <2>2, <2>3, <2>4, AtMoves
  <2>6. Fits(x)  BY <2>2, <2>5 DEF Stands, Keeps, Fits
  <2>7. Ensures(x, roles') /\ Asked(x)  BY <2>5 DEF Stands, Ensures, Asked
  <2>8. req' = [req EXCEPT ![p] = x] /\ UNCHANGED <<world, listed, tables>>
    BY <1>3, <2>1, <2>3, <2>4 DEF AskAuthority, caches
  <2> QED  BY <1>0, <1>1, <2>6, <2>7, <2>8, OneAdvances DEF Advanced
<1>4. ASSUME NEW u \in Users, NEW op \in EditOps, NEW t \in DiscordRoles \cup AccessRoles,
             NEW todo \in SUBSET Assignable, AskEdit(p, u, op, t, todo)
      PROVE  RequestsInv' /\ TablesType' /\ ListTrue'
  <2>1. PICK y : y = Request(u, op)  OBVIOUS
  <2>2. /\ y \in RequestType /\ y.op = op /\ y.user = u /\ y.at = "idle" /\ op \in Ops
        /\ op \notin {"command", "authority"}
    BY <2>1, RequestFields DEF Ops, EditOps
  <2>3. PICK v \in DiscordRoles \cup AccessRoles \cup {Nobody} : v = t  OBVIOUS
  <2>4. PICK T \in SUBSET (DiscordRoles \cup AccessRoles) : T = todo  BY DEF ActivityAccessAssumption
  <2>5. PICK x : x = [y EXCEPT !.target = v, !.todo = T]  OBVIOUS
  <2>6. x \in RequestType  BY <2>2, <2>5 DEF RequestType
  <2>7. x.at = "idle" /\ x.op = op /\ x.user = u /\ x.target = t  BY <2>2, <2>3, <2>5 DEF RequestType
  <2>8. op = "create" => t \in Customs  BY <1>4 DEF AskEdit, Edit
  <2>9. Fresh(x) /\ x.user \in Users  BY <2>2, <2>6, <2>7, <2>8 DEF Fresh
  <2>10. Asks(p, x) /\ UNCHANGED <<world, listed, tables>>  BY <1>4, <2>1, <2>3, <2>4, <2>5 DEF AskEdit
  <2> QED  BY <1>0, <1>1, <2>9, <2>10, AsksAdvances
<1>5. CASE Command(p)
  <2>1. PICK i \in RequestType : i = Idle  BY IdleFits
  <2>2. PICK a \in Stages : a = "ensure"  BY DEF Stages
  <2>3. PICK o \in Ops \cup {"none"} : o = "command"  BY DEF Ops
  <2>4. PICK T \in SUBSET (DiscordRoles \cup AccessRoles) : T = DiscordRoles \ Managed  OBVIOUS
  <2>5. PICK S \in SUBSET DiscordRoles : S = admins  BY <1>0 DEF RightsInv, RightsType
  <2>6. PICK x : x = [i EXCEPT !.at = a, !.op = o, !.n = 1, !.todo = T, !.seen = S]  OBVIOUS
  <2>7. x \in RequestType  BY <2>6 DEF RequestType
  <2>8. x.at = "ensure" /\ x.op = "command" /\ x.n = 1  BY <2>2, <2>3, <2>6 DEF RequestType
  <2>9. Fits(x)  BY <2>7, <2>8 DEF Fits
  <2>10. Ensures(x, roles') /\ Asked(x)  BY <2>8, FirstPlace DEF Ensures, Asked
  <2>11. req' = [req EXCEPT ![p] = x] /\ UNCHANGED <<world, listed, tables>>
    BY <1>5, <2>1, <2>2, <2>3, <2>4, <2>5, <2>6 DEF Command, caches
  <2> QED  BY <1>0, <1>1, <2>9, <2>10, <2>11, OneAdvances DEF Advanced
<1>6. CASE \E u \in Users : AskSession(p, u)  BY <1>2, <1>6 DEF AskSession
<1>7. CASE \E u \in Users : AskSync(p, u)  BY <1>2, <1>7 DEF AskSync
<1> QED  BY <1>3, <1>4, <1>5, <1>6, <1>7 DEF Asking

\* The end of a fetch lets all who wait for it go on, or ends them.
LEMMA FetchStep ==
    ASSUME DiscordRightsAssumption, ActivityAccessAssumption, AccessInv, NEW u \in Users,
           Fetching(u) \/ FetchEnds(u) \/ FetchFails(u)
    PROVE  RequestsInv' /\ TablesType' /\ ListTrue'
<1>0. RequestsInv /\ TablesType /\ ListTrue /\ RightsInv  BY DEF AccessInv
<1>1. UNCHANGED <<world, listed, tables>>
  BY DEF Fetching, FetchGuilds, FetchMember, FetchEnds, FetchFails
<1>2. TablesType' /\ roles' = roles /\ ListTrue'
  BY <1>0, <1>1, TablesStay DEF ListTrue, world, tables
<1>3. ASSUME NEW x, Fits(x), Ensures(x, roles), Asked(x)  PROVE Fits(x) /\ Ensures(x, roles') /\ Asked(x)'
  BY <1>1, <1>2, <1>3 DEF Asked, DiscordAdmin, world
<1>4. ASSUME req' \in [Procs -> RequestType],
             \A p \in Procs : req'[p] = req[p] \/ Advanced(req'[p])
      PROVE  RequestsInv'
  <2>1. ASSUME NEW p \in Procs  PROVE Fits(req[p])' /\ Ensures(req[p], roles)' /\ Asked(req[p])'
    <3>1. Fits(req'[p]) /\ Ensures(req'[p], roles') /\ Asked(req'[p])
      BY <1>0, <1>2, <1>4 DEF RequestsInv, Advanced
    <3>2. PICK x : x = req'[p]  OBVIOUS
    <3>3. Asked(x)'  BY <1>2, <1>3, <3>1, <3>2
    <3> QED  BY <3>1, <3>2, <3>3 DEF Fits, Ensures, Asked, DiscordAdmin
  <2> QED  BY <1>4, <2>1 DEF RequestsInv
<1>5. CASE Fetching(u)
  <2>1. req' = req  BY <1>5 DEF Fetching
  <2>2. req' \in [Procs -> RequestType]  BY <1>0, <2>1 DEF RequestsInv
  <2>3. \A p \in Procs : req'[p] = req[p] \/ Advanced(req'[p])  BY <2>1
  <2> QED  BY <1>2, <1>4, <2>2, <2>3
<1>6. CASE FetchEnds(u)
  <2>1. PICK b \in BOOLEAN, S \in SUBSET DiscordRoles : fetch[u].admin = b /\ fetch[u].roles = S
    BY <1>0 DEF RightsInv, RightsType
  <2>2. PICK e : e = fetch[u]  OBVIOUS
  <2>3. ASSUME NEW p \in Procs  PROVE req'[p] \in RequestType /\ (req'[p] = req[p] \/ Advanced(req'[p]))
    <3>1. PICK r : r = req[p]  OBVIOUS
    <3>2. Fits(r) /\ r \in RequestType  BY <1>0, <3>1 DEF RequestsInv, Fits
    <3>3. CASE r.at = "context" /\ r.user = u
      <4>1. req'[p] = With(r, e)  BY <1>6, <2>2, <3>1, <3>3 DEF FetchEnds
      <4>3. /\ r.op \in Ops \ {"command", "authority"} /\ (r.op = "create" => r.target \in Customs)
            /\ r.user \in Users
        BY <3>2, <3>3 DEF Fits
      <4>4. e.admin = b /\ e.roles = S  BY <2>1, <2>2
      <4>2. Advanced(With(r, e))  BY <3>2, <4>3, <4>4, WithFits
      <4> QED  BY <4>1, <4>2 DEF Advanced, Fits
    <3>4. CASE ~(r.at = "context" /\ r.user = u)  BY <1>6, <3>1, <3>2, <3>4 DEF FetchEnds
    <3> QED  BY <3>3, <3>4
  <2>4. req' = [p \in Procs |-> req'[p]]  BY <1>6 DEF FetchEnds
  <2> QED  BY <1>2, <1>4, <2>3, <2>4
<1>7. CASE FetchFails(u)
  <2>3. ASSUME NEW p \in Procs  PROVE req'[p] \in RequestType /\ (req'[p] = req[p] \/ Advanced(req'[p]))
    <3>1. req'[p] = Idle \/ req'[p] = req[p]  BY <1>7 DEF FetchFails
    <3>2. req[p] \in RequestType  BY <1>0 DEF RequestsInv
    <3> QED  BY <3>1, <3>2, IdleFits
  <2>4. req' = [p \in Procs |-> req'[p]]  BY <1>7 DEF FetchFails
  <2> QED  BY <1>2, <1>4, <2>3, <2>4
<1> QED  BY <1>2, <1>5, <1>6, <1>7

\* Time passes for what was asked of Discord as it does for rights; nobody is verified meanwhile.
LEMMA TickStep ==
    ASSUME DiscordRightsAssumption, AccessInv, Tick
    PROVE  RequestsInv' /\ TablesType' /\ ListTrue'
<1>0. RequestsInv /\ TablesType /\ ListTrue /\ RightsType  BY DEF AccessInv, RightsInv
<1>1. UNCHANGED <<has, admins, tables>> /\ listed' = OlderList  BY DEF Tick, TimePasses
<1>2. TablesType' /\ roles' = roles  BY <1>0, <1>1, TablesStay DEF tables
<1>3. still \in Nat /\ still' \in Nat /\ still' <= still + 1 /\ CACHE_TTL \in Nat /\ FETCH_LIMIT \in Nat
  BY <1>0 DEF Tick, TimePasses, RightsType, Settled, DiscordRightsAssumption
<1>4. ListTrue'
  <2>1. /\ listed.held \in BOOLEAN /\ listed.admins \in SUBSET DiscordRoles /\ listed.age \in 0 .. CACHE_TTL
        /\ listed \in [held : BOOLEAN, admins : SUBSET DiscordRoles, age : 0 .. CACHE_TTL]
    BY <1>0 DEF ListTrue
  <2>2. CASE listed.held /\ listed.age < CACHE_TTL
    <3>1. listed' = [listed EXCEPT !.age = listed.age + 1]  BY <1>1, <2>2 DEF OlderList, Older
    <3>2. listed' \in [held : BOOLEAN, admins : SUBSET DiscordRoles, age : 0 .. CACHE_TTL]
      <4>1. PICK n \in 0 .. CACHE_TTL : n = listed.age + 1  BY <2>1, <2>2
      <4> QED  BY <2>1, <3>1, <4>1
    <3>3. listed'.age = listed.age + 1 /\ listed'.admins = listed.admins /\ listed'.held = listed.held
      BY <2>1, <3>1
    <3>4. still' > listed'.age + FETCH_LIMIT => still > listed.age + FETCH_LIMIT  BY <1>3, <2>1, <3>3
    <3> QED  BY <1>0, <1>1, <2>2, <3>2, <3>3, <3>4 DEF ListTrue
  <2>3. CASE ~(listed.held /\ listed.age < CACHE_TTL)
    <3>1. listed' = NoList  BY <1>1, <2>3 DEF OlderList, Older
    <3>2. 0 \in 0 .. CACHE_TTL  BY <1>3
    <3>3. NoList.held = FALSE /\ NoList \in [held : BOOLEAN, admins : SUBSET DiscordRoles, age : 0 .. CACHE_TTL]
      BY <3>2 DEF NoList
    <3> QED  BY <3>1, <3>3 DEF ListTrue
  <2> QED  BY <2>2, <2>3
<1>5. ASSUME NEW p \in Procs
      PROVE  req'[p] \in RequestType /\ Fits(req'[p]) /\ Ensures(req'[p], roles') /\ Asked(req[p])'
  <2>1. PICK r : r = req[p]  OBVIOUS
  <2>2. Fits(r) /\ Ensures(r, roles) /\ Asked(r) /\ r \in RequestType /\ r.age \in 0 .. FETCH_LIMIT
    BY <1>0, <2>1 DEF RequestsInv, Fits, RequestType
  <2>3. r.at # "verified"  BY <2>1 DEF Tick
  <2>4. CASE r.at \in AtDiscord
    <3>1. r.age < FETCH_LIMIT /\ req'[p] = [r EXCEPT !.age = r.age + 1]  BY <2>1, <2>4 DEF Tick
    <3>2. PICK n \in 0 .. FETCH_LIMIT : n = r.age + 1  BY <1>3, <2>2, <3>1
    <3>3. PICK x : x = [r EXCEPT !.age = n]  OBVIOUS
    <3>4. x \in RequestType  BY <2>2, <3>3 DEF RequestType
    <3>5. /\ x.at = r.at /\ x.op = r.op /\ x.user = r.user /\ x.has = r.has /\ x.n = r.n /\ x.target = r.target
          /\ x.seen = r.seen /\ x.age = r.age + 1
      BY <2>2, <3>2, <3>3 DEF RequestType
    <3>6. req'[p] = x  BY <3>1, <3>2, <3>3
    <3>7. Fits(x) /\ Ensures(x, roles')  BY <1>2, <2>2, <3>4, <3>5 DEF Fits, Ensures
    <3>8. still' > x.age => still > r.age  BY <1>3, <2>2, <3>5
    <3>9. Asked(req[p])'  BY <1>1, <2>2, <2>3, <3>5, <3>6, <3>8 DEF Asked
    <3> QED  BY <3>4, <3>6, <3>7, <3>9
  <2>5. CASE r.at \notin AtDiscord
    <3>1. req'[p] = r  BY <2>1, <2>5 DEF Tick
    <3>2. Asked(req[p])'  BY <2>3, <2>5, <3>1 DEF Asked, AtDiscord
    <3> QED  BY <1>2, <2>2, <3>1, <3>2
  <2> QED  BY <2>4, <2>5
<1>6. req' = [p \in Procs |-> req'[p]]  BY DEF Tick
<1>7. RequestsInv'  BY <1>5, <1>6 DEF RequestsInv, Fits, Ensures
<1> QED  BY <1>2, <1>4, <1>7

\* Rights change: what was read before need not be true from now on.
LEMMA DiscordStep ==
    ASSUME DiscordRightsAssumption, AccessInv, Discord
    PROVE  RequestsInv' /\ TablesType' /\ ListTrue'
<1>0. RequestsInv /\ TablesType /\ ListTrue  BY DEF AccessInv
<1>1. still' = 0 /\ UNCHANGED <<caches, tables, req>>  BY DEF Discord, ChangeMember, ChangeRole
<1>2. TablesType' /\ roles' = roles  BY <1>0, <1>1, TablesStay DEF tables
<1>3. ListTrue'
  <2>1. listed.age \in Nat /\ CACHE_TTL \in Nat /\ FETCH_LIMIT \in Nat  BY <1>0 DEF ListTrue, DiscordRightsAssumption
  <2> QED  BY <1>0, <1>1, <2>1 DEF ListTrue, caches
<1>4. ASSUME NEW p \in Procs  PROVE Asked(req[p])'
  <2>1. req[p].age \in Nat /\ CACHE_TTL \in Nat /\ FETCH_LIMIT \in Nat
    BY <1>0 DEF RequestsInv, RequestType, DiscordRightsAssumption
  <2>2. req' = req /\ still' = 0  BY <1>1
  <2> QED  BY <2>1, <2>2 DEF Asked
<1>5. RequestsInv'  BY <1>0, <1>1, <1>2, <1>4 DEF RequestsInv, Fits, Ensures
<1> QED  BY <1>2, <1>3, <1>5

\* The list of roles is written by who lists them or judges, and by time.
LEMMA StepsKeep ==
    ASSUME DiscordRightsAssumption, ActivityAccessAssumption, AccessInv, NEW p \in Procs, Steps(p)
    PROVE  RequestsInv' /\ TablesType' /\ ListTrue'
<1>0. ListTrue  BY DEF AccessInv
<1>1. ASSUME UNCHANGED <<world, listed>>  PROVE ListTrue'  BY <1>0, <1>1 DEF ListTrue, world
<1>2. CASE Ensure(p)  BY <1>1, <1>2, EnsureStep DEF Ensure, caches
<1>3. CASE InsertBuiltin(p)  BY <1>1, <1>3, InsertStep DEF InsertBuiltin, caches
<1>9. CASE Upsert(p)  BY <1>1, <1>9, UpsertStep DEF Upsert, caches
<1>4. CASE \/ Synced(p) \/ HasSyncedAdminRole(p) \/ MemberAccessRoles(p)
           \/ CheckAssign(p) \/ CheckModules(p) \/ CheckDelete(p)
  BY <1>1, <1>4, AccessStep
     DEF Synced, HasSyncedAdminRole, MemberAccessRoles, CheckAssign, CheckModules, CheckDelete, caches
<1>5. CASE HasList(p) \/ GetsList(p)  BY <1>5, ListStep
<1>6. CASE (\E d \in DiscordRoles : SyncRow(p, d)) \/ Grant(p) \/ Prune(p)
  <2>1. UNCHANGED <<world, listed>>  BY <1>6 DEF SyncRow, Grant, Prune, caches
  <2> QED  BY <1>1, <1>6, <2>1, SyncStep
<1>7. CASE \/ Clear(p) \/ (\E a \in Assignable : Put(p, a)) \/ (\E l \in {0, 2} : WriteModules(p, l))
           \/ CreateRole(p) \/ DropRole(p)
  <2>1. UNCHANGED <<world, listed>>  BY <1>7 DEF Clear, Put, WriteModules, CreateRole, DropRole, caches
  <2> QED  BY <1>1, <1>7, <2>1, EditStep
<1>8. CASE ReadOwner(p) \/ ReadMember(p) \/ ReadRoles(p) \/ Judge(p) \/ Answered(p)  BY <1>8, AuthorityStep
<1> QED  BY <1>2, <1>3, <1>4, <1>5, <1>6, <1>7, <1>8, <1>9 DEF Steps

LEMMA AccessInductive ==
    ASSUME DiscordRightsAssumption, ActivityAccessAssumption, AccessInv, [Next]_vars
    PROVE  AccessInv'
<1>0. RequestsInv /\ TablesType /\ ListTrue /\ RightsInv  BY DEF AccessInv
<1>1. RightsInv'  BY <1>0, NextRights, RightsInvariant DEF RightsInv
<1>2. CASE UNCHANGED vars
  <2>1. UNCHANGED <<world, listed, tables, req>>  BY <1>2 DEF vars, caches
  <2>2. TablesType' /\ roles' = roles  BY <1>0, <2>1, TablesStay DEF tables
  <2>3. ListTrue'  BY <1>0, <2>1 DEF ListTrue, world
  <2>4. RequestsInv'  BY <1>0, <2>1, <2>2 DEF RequestsInv, Fits, Ensures, Asked, DiscordAdmin, world
  <2> QED  BY <1>1, <2>2, <2>3, <2>4 DEF AccessInv
<1>3. ASSUME NEW p \in Procs, Fails(p)  PROVE AccessInv'
  <2>1. Ends(p) /\ UNCHANGED <<world, listed, tables>>  BY <1>3 DEF Fails, caches
  <2>2. TablesType' /\ Slugs \cap roles \subseteq roles'  BY <1>0, <2>1, TablesStay
  <2>3. ListTrue'  BY <1>0, <2>1 DEF ListTrue, world
  <2> QED  BY <1>0, <1>1, <2>1, <2>2, <2>3, EndsFit DEF AccessInv
<1>4. CASE Discord  BY <1>1, <1>4, DiscordStep DEF AccessInv
<1>5. CASE Tick  BY <1>1, <1>5, TickStep DEF AccessInv
<1>6. ASSUME NEW u \in Users, Fetching(u) \/ FetchEnds(u) \/ FetchFails(u)  PROVE AccessInv'
  BY <1>1, <1>6, FetchStep DEF AccessInv
<1>7. ASSUME NEW p \in Procs, Asking(p)  PROVE AccessInv'  BY <1>1, <1>7, AskingStep DEF AccessInv
<1>8. ASSUME NEW p \in Procs, Steps(p)  PROVE AccessInv'  BY <1>1, <1>8, StepsKeep DEF AccessInv
<1> QED  BY <1>2, <1>3, <1>4, <1>5, <1>6, <1>7, <1>8 DEF Next

\* A server that never synchronised has nothing; one that is set up has every role.
LEMMA AccessInit == ASSUME DiscordRightsAssumption, ActivityAccessAssumption, Init  PROVE AccessInv
<1>1. RightsInv
  BY DEF Init, RightsInit, RightsInv, RightsType, ContextTrue, FetchTrue, NoContext, NoFetch, Settled,
         DiscordRightsAssumption
<1>2. ListTrue
  <2>1. listed = NoList /\ 0 \in 0 .. CACHE_TTL  BY DEF Init, RightsInit, DiscordRightsAssumption
  <2> QED  BY <2>1 DEF ListTrue, NoList
<1>3. TablesType
  <2>1. roles \subseteq AccessRoles /\ synced \subseteq DiscordRoles /\ SyncedHasBuiltins
    BY DEF Init, SyncedHasBuiltins, AccessRoles
  <2>2. assigned \subseteq DiscordRoles \X roles
    <3>1. admins \subseteq DiscordRoles  BY DEF Init, RightsInit
    <3>2. "administrator" \in AccessRoles /\ Customs \subseteq AccessRoles
      BY DEF ActivityAccessAssumption, AccessRoles
    <3> QED  BY <3>1, <3>2 DEF Init
  <2>3. ASSUME NEW a \in roles  PROVE LevelOf(a) \in Levels
    <3> DEFINE places == {i \in Builtins : BUILTIN_ACCESS_ROLES[i].slug = a}
    <3>1. CASE places = {}  BY <3>1 DEF LevelOf, Levels
    <3>2. CASE places # {}
      <4>1. First(places) \in places  BY <3>2, FirstIsLeast
      <4>2. BUILTIN_ACCESS_ROLES[First(places)].level \in Levels  BY <4>1, BuiltinRoles
      <4> QED  BY <3>2, <4>2 DEF LevelOf
    <3> QED  BY <3>1, <3>2
  <2>4. level \in [roles -> Levels]  BY <2>3 DEF Init
  <2> QED  BY <2>1, <2>2, <2>4 DEF TablesType
<1>4. RequestsInv
  <2>1. req = [p \in Procs |-> Idle]  BY DEF Init
  <2>2. Fits(Idle)  BY IdleFits DEF Advanced
  <2>3. Idle.at = "idle"  BY DEF Idle
  <2>4. Ensures(Idle, roles) /\ Asked(Idle)  BY <2>3 DEF Ensures, Asked
  <2> QED  BY <2>1, <2>2, <2>4, IdleFits DEF RequestsInv
<1> QED  BY <1>1, <1>2, <1>3, <1>4 DEF AccessInv

\* The variables of the access and of what is cached of Discord keep their types, and assignments are
\* of roles that exist, whatever requests, edits and synchronisations overlap and fail.
THEOREM TypeCorrect == Spec => []TypeOK
<1> USE DiscordRightsAssumption, ActivityAccessAssumption
<1>1. Init => AccessInv  BY AccessInit
<1>2. AccessInv /\ [Next]_vars => AccessInv'  BY AccessInductive
<1>3. AccessInv => TypeOK
  <2>1. ASSUME AccessInv, NEW p \in Procs  PROVE req[p].age <= FETCH_LIMIT /\ req[p].has \subseteq DiscordRoles
    BY <2>1 DEF AccessInv, RequestsInv, RequestType, DiscordRightsAssumption
  <2>2. AccessInv => RightsTypeOK  BY DEF AccessInv, RightsInv, RightsType, RightsTypeOK, ListTrue
  <2> QED  BY <2>1, <2>2 DEF AccessInv, TypeOK, TablesType
<1> QED  BY <1>1, <1>2, <1>3, PTL DEF Spec

\* Whom the Control API (DiscordGuildAuthority) has verified administers the server, unless rights
\* changed while it asked or while the roles it was answered from were cached.
THEOREM AuthorityIsTrue == Spec => []AuthorityIsRecent
<1> USE DiscordRightsAssumption, ActivityAccessAssumption
<1>1. Init => AccessInv  BY AccessInit
<1>2. AccessInv /\ [Next]_vars => AccessInv'  BY AccessInductive
<1>3. AccessInv => AuthorityIsRecent  BY DEF AccessInv, RequestsInv, Asked, AuthorityIsRecent
<1> QED  BY <1>1, <1>2, <1>3, PTL DEF Spec

\* A server that has synchronised roles has its builtin roles, whoever ensures them at the same time
\* (_ensure_builtin_access_roles, _ensure_activity_builtin_roles) and whatever fails in between.
THEOREM BuiltinsComeFirst == Spec => []SyncedHasBuiltins
<1> USE DiscordRightsAssumption, ActivityAccessAssumption
<1>1. Init => AccessInv  BY AccessInit
<1>2. AccessInv /\ [Next]_vars => AccessInv'  BY AccessInductive
<1>3. AccessInv => SyncedHasBuiltins  BY DEF AccessInv, TablesType
<1> QED  BY <1>1, <1>2, <1>3, PTL DEF Spec

-----------------------------------------------------------------------------
(* The Control API: what one assertion opens, and for how long.           *)

\* An assertion that was accepted once is refused for good within Lifetime + Skew seconds, whatever
\* times it bears: neither a long life nor an issue in the future stretches that.
THEOREM AssertionsExpire ==
    ASSUME NEW a \in Assertion, NEW e \in Endpoints, NEW f \in Endpoints, NEW s \in Int, NEW t \in Int,
           Verified(a, e, s), Verified(a, f, t)
    PROVE  t - s < Lifetime + Skew
<1>1. a.exp \in Int /\ a.iat \in Int  BY DEF Assertion
<1>2. a.iat <= s + Skew /\ a.exp > t /\ a.exp - a.iat <= Lifetime  BY DEF Verified
<1> QED  BY <1>1, <1>2 DEF Skew, Lifetime

\* What was issued for reading verifies no connection, and the other way round.
THEOREM ReadingIsNotManaging ==
    ASSUME NEW a \in Assertion, NEW e \in Endpoints \ {"verify"},
           NEW o, NEW p, NEW g, NEW h, NEW s \in Int, NEW t \in Int,
           Allowed(a, "verify", o, g, s)
    PROVE  ~Allowed(a, e, p, h, t)
BY DEF Allowed, Verified, ExpectedAction, Endpoints

\* An assertion opens one organisation, and the dashboard of one guild.
THEOREM OneOrganizationOneGuild ==
    ASSUME NEW a \in Assertion, NEW e \in Endpoints, NEW f \in Endpoints,
           NEW o, NEW p, NEW g, NEW h, NEW s \in Int, NEW t \in Int,
           Allowed(a, e, o, g, s), Allowed(a, f, p, h, t)
    PROVE  o = p /\ (e = "dashboard" /\ f = "dashboard" => g = h)
BY DEF Allowed
=============================================================================

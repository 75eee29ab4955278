--------------------------- MODULE DiscordRights ---------------------------
(***************************************************************************)
(* What the Activity server knows about rights at Discord: the context of  *)
(* a user (ActivityAccessService.fetch_user_context), which is kept for     *)
(* CONTEXT_TTL and whose fetch everyone who asks meanwhile shares, and the  *)
(* roles of the guild (DiscordService._cached_bot_resource), kept for       *)
(* CACHE_TTL, whose fetches are not shared.  Both are class attributes: the *)
(* requests of one server process share them.  Times are ages in ticks.     *)
(***************************************************************************)
EXTENDS Integers, FiniteSets

CONSTANTS Users,
          DiscordRoles,
          Owner,        \* the owner of the guild, who has every permission
          CONTEXT_TTL,  \* _context_ttl_seconds
          CACHE_TTL,    \* _CACHE_TTL_SECONDS
          FETCH_LIMIT,  \* how long the calls of a fetch take at most: the timeouts of the clients
          MaxEvents     \* how often rights change at Discord, or a call or statement fails

ASSUME DiscordRightsAssumption ==
    /\ CONTEXT_TTL \in Nat \ {0} /\ CACHE_TTL \in 0 .. CONTEXT_TTL /\ FETCH_LIMIT \in Nat
    /\ MaxEvents \in Nat

VARIABLES
    has,     \* user |-> the roles Discord gives it
    admins,  \* the roles with the permission Administrator
    still,   \* ticks since rights changed at Discord, up to Settled
    context, \* _context_cache, by user
    fetch,   \* _context_inflight, by user: the task and what it has read
    listed,  \* _bot_resource_cache of the guild's roles: which have Administrator
    spent    \* how much of the bounds is used up

world == <<has, admins, still>>
caches == <<context, fetch, listed>>

-----------------------------------------------------------------------------
\* After so long nothing that was true before the last change is believed.
Settled == CONTEXT_TTL + FETCH_LIMIT + 1

NoContext == [held |-> FALSE, admin |-> FALSE, roles |-> {}, age |-> 0]
NoFetch == [at |-> "none", admin |-> FALSE, roles |-> {}, age |-> 0]
NoList == [held |-> FALSE, admins |-> {}, age |-> 0]

\* The permissions Discord computes for a member.
DiscordAdmin(u) == u = Owner \/ has[u] \cap admins # {}

Spend(what, bound) == spent[what] < bound /\ spent' = [spent EXCEPT ![what] = @ + 1]

RightsTypeOK ==
    /\ has \in [Users -> SUBSET DiscordRoles] /\ admins \in SUBSET DiscordRoles /\ still \in 0 .. Settled
    /\ context \in [Users -> [held : BOOLEAN, admin : BOOLEAN, roles : SUBSET DiscordRoles, age : 0 .. CONTEXT_TTL]]
    /\ fetch \in [Users -> [at : {"none", "guilds", "member", "done"}, admin : BOOLEAN,
                            roles : SUBSET DiscordRoles, age : 0 .. FETCH_LIMIT]]
    /\ listed \in [held : BOOLEAN, admins : SUBSET DiscordRoles, age : 0 .. CACHE_TTL]

RightsInit ==
    /\ has \in [Users -> SUBSET DiscordRoles] /\ admins \in SUBSET DiscordRoles
    /\ still = Settled
    /\ context = [u \in Users |-> NoContext] /\ fetch = [u \in Users |-> NoFetch]
    /\ listed = NoList

-----------------------------------------------------------------------------
(* Discord.                                                                *)

\* Somebody is given a role or loses one.
ChangeMember(u, d) ==
    /\ Spend("events", MaxEvents)
    /\ has' = [has EXCEPT ![u] = IF d \in @ THEN @ \ {d} ELSE @ \cup {d}]
    /\ still' = 0
    /\ UNCHANGED <<admins, caches>>

\* A role is given Administrator or loses it.
ChangeRole(d) ==
    /\ Spend("events", MaxEvents)
    /\ admins' = IF d \in admins THEN admins \ {d} ELSE admins \cup {d}
    /\ still' = 0
    /\ UNCHANGED <<has, caches>>

-----------------------------------------------------------------------------
(* _fetch_user_context_uncached: the permissions of the guild as the user   *)
(* sees them, then the roles of the member as the bot sees them.            *)

StartFetch(u) == fetch' = [fetch EXCEPT ![u] = [at |-> "guilds", admin |-> FALSE, roles |-> {}, age |-> 0]]

FetchGuilds(u) ==
    /\ fetch[u].at = "guilds"
    /\ fetch' = [fetch EXCEPT ![u].admin = DiscordAdmin(u), ![u].at = "member"]
    /\ UNCHANGED <<world, context, listed, spent>>

\* fetch_member_role_ids: what fails is a member without roles
FetchMember(u) ==
    /\ fetch[u].at = "member"
    /\ \/ fetch' = [fetch EXCEPT ![u].roles = has[u], ![u].at = "done"] /\ UNCHANGED spent
       \/ fetch' = [fetch EXCEPT ![u].at = "done"] /\ Spend("events", MaxEvents)
    /\ UNCHANGED <<world, context, listed>>

\* What the task returned is kept from now on.
Keep(u) ==
    /\ context' = [context EXCEPT ![u] = [held |-> TRUE, admin |-> fetch[u].admin, roles |-> fetch[u].roles, age |-> 0]]
    /\ fetch' = [fetch EXCEPT ![u] = NoFetch]

Forget(u) == fetch' = [fetch EXCEPT ![u] = NoFetch] /\ UNCHANGED context

\* Mutation: an entry is as good as new whenever it is used.
Used_Renews(u) == [context EXCEPT ![u].age = 0]

\* An entry that is used keeps its age.
Used(u) == context

-----------------------------------------------------------------------------
(* Time. Both caches drop what has expired when they are next asked.       *)

Older(entry, limit, none) == IF entry.age < limit THEN [entry EXCEPT !.age = @ + 1] ELSE none

OlderContext(u) ==
    IF context[u].held THEN Older(context[u], CONTEXT_TTL - 1, NoContext) ELSE NoContext
\* Mutation: the entry of the list never expires.
OlderList_Never == listed

OlderList == IF listed.held THEN Older(listed, CACHE_TTL, NoList) ELSE NoList

\* No fetch outlives its timeouts.
TimePasses ==
    /\ \A u \in Users : fetch[u].at # "none" => fetch[u].age < FETCH_LIMIT
    /\ still' = IF still < Settled THEN still + 1 ELSE still
    /\ context' = [u \in Users |-> OlderContext(u)]
    /\ fetch' = [u \in Users |-> IF fetch[u].at = "none" THEN NoFetch ELSE [fetch[u] EXCEPT !.age = @ + 1]]
    /\ listed' = OlderList
    /\ UNCHANGED <<has, admins>>
=============================================================================

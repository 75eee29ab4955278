----------------------------- MODULE VoiceControl -----------------------------
(***************************************************************************)
(* Who controls one voice room: its owner, the one temporary admin it may  *)
(* have, and the permission overwrites of its Discord channel, which the   *)
(* bot and the Activity server both write.  An operation is a process that *)
(* advances from one await to the next; op[p].stage names the call it is   *)
(* about to make.  Creation and removal of the room are in VoiceRooms.     *)
(***************************************************************************)
EXTENDS Naturals, FiniteSets

CONSTANTS Users,      \* members of the guild that are not bots
          Founder,    \* the owner the room starts with
          NoUser,
          Managers,   \* users who may manage every room
          Procs,      \* operations that may be in flight
          Kinds,      \* operations the model exercises
          Serial,     \* one operation at a time
          Hasty,      \* a user starts an operation while one of theirs runs
          Fallible    \* calls to Discord may raise

Requests == {"claim", "release", "assign", "kick", "ban", "invite"}
ActivityRequests == {"aclaim", "arelease", "aassign", "aban"}
AllKinds == Requests \cup ActivityRequests \cup {"leave", "transfer"}

ASSUME VoiceControlAssumption ==
    /\ Founder \in Users
    /\ NoUser \notin Users
    /\ Managers \subseteq Users
    /\ Kinds \subseteq AllKinds
    /\ {Serial, Hasty, Fallible} \subseteq BOOLEAN

VARIABLES owner,    \* voice_rooms.owner_id
          admin,    \* voice_rooms.admin_id, NoUser when it is NULL
          perm,     \* the overwrite of each member on the channel
          inRoom,   \* members connected to the channel
          banned,   \* users banned and not let in again since (history)
          op

vars == <<owner, admin, perm, inRoom, banned, op>>

Overwrite == [power : BOOLEAN, connect : {"unset", "allow", "deny"}]
Blank == [power |-> FALSE, connect |-> "unset"]
Power == [power |-> TRUE, connect |-> "allow"]

Stages == {"idle", "look", "read", "control", "cas", "power", "undo", "seat",
           "clear", "unpower", "vacate", "crown", "deny", "moveOut", "allow",
           "get", "patch", "update"}

\* who acts, on whom; the admin read; the channel's overwrites as last fetched.
Op == [kind : AllKinds \cup {"none"}, stage : Stages,
       who : Users \cup {NoUser}, target : Users \cup {NoUser},
       seen : Users \cup {NoUser}, list : [Users -> Overwrite]]
NoOp == [kind |-> "none", stage |-> "idle", who |-> NoUser, target |-> NoUser,
         seen |-> NoUser, list |-> [u \in Users |-> Blank]]

TypeOK ==
    /\ owner \in Users
    /\ admin \in Users \cup {NoUser}
    /\ perm \in [Users -> Overwrite]
    /\ inRoom \subseteq Users
    /\ banned \subseteq Users
    /\ op \in [Procs -> Op]

Init ==
    /\ owner = Founder
    /\ admin = NoUser
    /\ perm = [u \in Users |-> IF u = Founder THEN Power ELSE Blank]
    /\ inRoom = {Founder}
    /\ banned = {}
    /\ op = [p \in Procs |-> NoOp]

-----------------------------------------------------------------------------

Idle(p) == op[p].stage = "idle"
AllIdle == \A p \in Procs : Idle(p)
Busy(u) == \E p \in Procs : ~Idle(p) /\ op[p].who = u
MayStart(u) == (Serial => AllIdle) /\ (Hasty \/ ~Busy(u))

At(p, stage) == op[p].stage = stage
Is(p, kinds) == op[p].kind \in kinds
Goto(p, stage) == op' = [op EXCEPT ![p].stage = stage]
Done(p) == op' = [op EXCEPT ![p] = NoOp]

Begin(kind, stage, who, target) ==
    [NoOp EXCEPT !.kind = kind, !.stage = stage, !.who = who, !.target = target]

\* The panel is used from inside the room; the Activity from anywhere.
Request(p, kind, u, target) ==
    /\ Idle(p)
    /\ kind \in Kinds
    /\ MayStart(u)
    /\ \/ kind \in {"claim", "release", "assign"} /\ u \in inRoom
          /\ op' = [op EXCEPT ![p] = Begin(kind, "read", u, target)]
       \/ kind \in {"kick", "ban", "invite"} /\ u \in inRoom /\ target \in Users
          /\ op' = [op EXCEPT ![p] = Begin(kind, "control", u, target)]
       \/ kind \in ActivityRequests
          /\ op' = [op EXCEPT ![p] = Begin(kind, "read", u, target)]
    /\ UNCHANGED <<owner, admin, perm, inRoom, banned>>

\* A member leaves: the listener looks the room up.
Leave(p, u) ==
    /\ Idle(p) /\ MayStart(u)
    /\ u \in inRoom
    /\ inRoom' = inRoom \ {u}
    /\ op' = IF "leave" \in Kinds
             THEN [op EXCEPT ![p] = Begin("leave", "look", u, u)] ELSE op
    /\ UNCHANGED <<owner, admin, perm, banned>>

\* A member the channel does not deny connects.
Join(u) ==
    /\ u \notin inRoom
    /\ perm[u].connect # "deny"
    /\ Serial => AllIdle
    /\ inRoom' = inRoom \cup {u}
    /\ UNCHANGED <<owner, admin, perm, banned, op>>

\* The delayed transfer of an absent owner's room fires.
TransferFires(p) ==
    /\ "transfer" \in Kinds
    /\ Idle(p) /\ (Serial => AllIdle)
    /\ ~ \E q \in Procs : op[q].kind = "transfer"
    /\ owner \notin inRoom
    /\ op' = [op EXCEPT ![p] = Begin("transfer", "read", owner, NoUser)]
    /\ UNCHANGED <<owner, admin, perm, inRoom, banned>>

-----------------------------------------------------------------------------
(* Claiming a free seat.                                                   *)

\* claim_admin reads the room: the owner, an occupied seat and a seat already
\* held end it.
ClaimReads(p) ==
    LET u == op[p].who IN
    /\ Is(p, {"claim"}) /\ At(p, "read")
    /\ IF owner # u /\ admin = NoUser THEN Goto(p, "cas") ELSE Done(p)
    /\ UNCHANGED <<owner, admin, perm, inRoom, banned>>

\* Mutation: the update does not ask whether the seat is free.
SeatTaken_Ignored == FALSE

\* ... WHERE admin_id IS NULL
SeatTaken == admin # NoUser

ClaimWrites(p) ==
    /\ At(p, "cas")
    /\ IF SeatTaken THEN Done(p) /\ UNCHANGED admin
       ELSE Goto(p, "power") /\ admin' = op[p].who
    /\ UNCHANGED <<owner, perm, inRoom, banned>>

\* Mutation: the seat of a claim that failed stays taken.
ClaimUndone_Skipped(p) ==
    /\ At(p, "undo")
    /\ Done(p)
    /\ UNCHANGED <<owner, admin, perm, inRoom, banned>>

\* clear_admin_if: the seat is given back unless someone else holds it by now.
ClaimUndone(p) ==
    /\ At(p, "undo")
    /\ admin' = IF admin = op[p].who THEN NoUser ELSE admin
    /\ Done(p)
    /\ UNCHANGED <<owner, perm, inRoom, banned>>

\* set_permissions for the new admin or owner.
Empower(p) ==
    LET u == IF Is(p, {"claim"}) THEN op[p].who ELSE op[p].target IN
    /\ At(p, "power")
    /\ perm' = [perm EXCEPT ![u] = Power]
    /\ banned' = IF Is(p, {"assign"}) THEN banned \ {u} ELSE banned
    /\ CASE Is(p, {"claim"})    -> Done(p)
         [] Is(p, {"assign"})   -> Goto(p, "seat")
         [] Is(p, {"transfer"}) -> Goto(p, "crown")
    /\ UNCHANGED <<owner, admin, inRoom>>

-----------------------------------------------------------------------------
(* Giving the seat up, taking it away, handing it over.                    *)

ReleaseReads(p) ==
    /\ Is(p, {"release"}) /\ At(p, "read")
    /\ IF admin = op[p].who
       THEN op' = [op EXCEPT ![p].stage = "clear", ![p].seen = admin]
       ELSE Done(p)
    /\ UNCHANGED <<owner, admin, perm, inRoom, banned>>

\* The listener, and then handle_admin_leave, look whether the admin has left.
LeaveLooks(p) ==
    LET u == op[p].who IN
    /\ Is(p, {"leave"})
    /\ \/ At(p, "look") /\ (IF admin = u THEN Goto(p, "read") ELSE Done(p))
       \/ /\ At(p, "read")
          /\ IF admin = u
             THEN op' = [op EXCEPT ![p].stage = "clear", ![p].seen = u]
             ELSE Done(p)
    /\ UNCHANGED <<owner, admin, perm, inRoom, banned>>

\* assign_admin: for the owner only, and never to the owner.
AssignReads(p) ==
    LET call == op[p] IN
    /\ Is(p, {"assign"}) /\ At(p, "read")
    /\ \/ /\ owner # call.who \/ call.target = owner
          /\ Done(p)
       \/ /\ owner = call.who /\ call.target # owner
          /\ \/ /\ admin # NoUser
                /\ op' = [op EXCEPT ![p].stage = "clear", ![p].seen = admin]
             \/ admin = NoUser /\ call.target # NoUser /\ Goto(p, "power")
             \/ admin = NoUser /\ call.target = NoUser /\ Done(p)
    /\ UNCHANGED <<owner, admin, perm, inRoom, banned>>

\* _clear_admin reads the room again: an owner keeps the overwrite.
ClearReads(p) ==
    /\ At(p, "clear")
    /\ Goto(p, IF owner # op[p].seen THEN "unpower" ELSE "vacate")
    /\ UNCHANGED <<owner, admin, perm, inRoom, banned>>

\* Mutation: the overwrite is left as it is.
Cleared_Kept(u) == perm' = perm

\* set_permissions(member, overwrite=None)
Cleared(u) == perm' = [perm EXCEPT ![u] = Blank]

Unpower(p) ==
    LET u == IF Is(p, {"transfer"}) THEN op[p].who ELSE op[p].seen IN
    /\ At(p, "unpower")
    /\ Cleared(u)
    /\ Goto(p, IF Is(p, {"transfer"}) THEN "power" ELSE "vacate")
    /\ UNCHANGED <<owner, admin, inRoom, banned>>

\* update_admin(None), whoever is admin by now; then the caller goes on.
Vacate(p) ==
    /\ At(p, "vacate")
    /\ admin' = NoUser
    /\ CASE Is(p, {"release", "leave"}) -> Done(p)
         [] Is(p, {"assign"})   -> IF op[p].target = NoUser THEN Done(p)
                                   ELSE Goto(p, "power")
         [] Is(p, {"ban"})      -> Goto(p, "deny")
         [] Is(p, {"transfer"}) -> Goto(p, "unpower")
    /\ UNCHANGED <<owner, perm, inRoom, banned>>

\* update_admin(new admin).
Seat(p) ==
    /\ At(p, "seat")
    /\ admin' = op[p].target
    /\ Done(p)
    /\ UNCHANGED <<owner, perm, inRoom, banned>>

-----------------------------------------------------------------------------
(* The owner is gone.                                                      *)

\* Mutation: an admin who becomes owner stays admin.
HeirsSeat_Kept(heir) == "unpower"

\* _grant_owner begins by clearing the seat of an admin who becomes owner.
HeirsSeat(heir) == IF admin = heir THEN "vacate" ELSE "unpower"

\* Who may become the owner: the members still connected.
Heirs(old) == inRoom \ {old}

TransferReads(p) ==
    LET old == op[p].who IN
    /\ Is(p, {"transfer"}) /\ At(p, "read")
    /\ \/ /\ owner # old \/ old \in inRoom \/ Heirs(old) = {}
          /\ Done(p)
       \/ /\ owner = old /\ old \notin inRoom
          /\ \E heir \in Heirs(old) :
                 op' = [op EXCEPT ![p].stage = HeirsSeat(heir), ![p].target = heir]
    /\ UNCHANGED <<owner, admin, perm, inRoom, banned>>

\* update_owner.
Crown(p) ==
    /\ At(p, "crown")
    /\ owner' = op[p].target
    /\ Done(p)
    /\ UNCHANGED <<admin, perm, inRoom, banned>>

-----------------------------------------------------------------------------
(* Letting in, disconnecting, banning.                                     *)

\* _can_control: the owner, the admin, or anyone with the power.
Controls(p) ==
    LET u == op[p].who IN
    /\ At(p, "control")
    /\ IF owner = u \/ admin = u \/ perm[u].power \/ u \in Managers
       THEN Goto(p, IF Is(p, {"invite"}) THEN "allow" ELSE "read")
       ELSE Done(p)
    /\ UNCHANGED <<owner, admin, perm, inRoom, banned>>

\* set_permissions(target, connect=True) replaces the overwrite.
Allow(p) ==
    /\ At(p, "allow")
    /\ perm' = [perm EXCEPT ![op[p].target] = [Blank EXCEPT !.connect = "allow"]]
    /\ banned' = banned \ {op[p].target}
    /\ Done(p)
    /\ UNCHANGED <<owner, admin, inRoom>>

\* Mutation: the seat of a banned admin is not cleared.
SeatLost_Kept(p) == FALSE

\* Only a ban takes the seat of its target.
SeatLost(p) == Is(p, {"ban"}) /\ admin = op[p].target

RemovalReads(p) ==
    LET call == op[p] IN
    /\ Is(p, {"kick", "ban"}) /\ At(p, "read")
    /\ IF call.target \in {call.who, owner} THEN Done(p)
       ELSE op' = [op EXCEPT ![p].stage = IF SeatLost(p) THEN "clear" ELSE "deny",
                             ![p].seen = call.target]
    /\ UNCHANGED <<owner, admin, perm, inRoom, banned>>

\* set_permissions(target, connect=False), by a kick as well as by a ban.
Deny(p) ==
    LET u == op[p].target IN
    /\ At(p, "deny")
    /\ perm' = [perm EXCEPT ![u] = [Blank EXCEPT !.connect = "deny"]]
    /\ banned' = IF Is(p, {"ban"}) THEN banned \cup {u} ELSE banned
    /\ Goto(p, "moveOut")
    /\ UNCHANGED <<owner, admin, inRoom>>

\* move_to(None), or the Activity's request to disconnect: the listener is
\* called for the member who goes, and a process of its own serves it.
MoveOut(p) ==
    LET u == op[p].target
        next == IF Is(p, {"aban"}) /\ op[p].seen = u
                THEN [op EXCEPT ![p].stage = "update"]
                ELSE [op EXCEPT ![p] = NoOp]
    IN
    /\ At(p, "moveOut")
    /\ inRoom' = inRoom \ {u}
    /\ \/ /\ u \in inRoom /\ "leave" \in Kinds
          /\ \E q \in Procs :
                 /\ next[q].stage = "idle"
                 /\ op' = [next EXCEPT ![q] = Begin("leave", "look", u, u)]
       \/ (u \notin inRoom \/ "leave" \notin Kinds) /\ op' = next
    /\ UNCHANGED <<owner, admin, perm, banned>>

-----------------------------------------------------------------------------
(* The Activity: the row is read once, the overwrites are fetched, changed  *)
(* and written back as a whole, and the row is written without a condition. *)

MaySee(u) == u \in Managers \/ u = owner \/ u = admin

\* What update_room refuses: a taken seat or the owner for a claim, a release
\* by another, an assignment by anyone but the owner.
Refused(p) ==
    LET call == op[p] IN
    \/ ~MaySee(call.who)
    \/ Is(p, {"aclaim"}) /\ (admin # NoUser \/ call.who = owner)
    \/ Is(p, {"arelease"}) /\ admin # call.who
    \/ Is(p, {"aassign"}) /\ (call.who # owner \/ call.target = owner)
    \/ Is(p, {"aban"}) /\ call.target \in {call.who, owner, NoUser}

ActivityReads(p) ==
    /\ Is(p, ActivityRequests) /\ At(p, "read")
    /\ IF Refused(p) THEN Done(p)
       ELSE op' = [op EXCEPT ![p].stage = "get", ![p].seen = admin]
    /\ UNCHANGED <<owner, admin, perm, inRoom, banned>>

\* Who the request makes admin.
NewAdmin(p) ==
    IF Is(p, {"aclaim"}) THEN op[p].who
    ELSE IF Is(p, {"aassign"}) THEN op[p].target ELSE NoUser

\* clear_member_overwrite, build_member_admin_overwrites and
\* build_member_connect_overwrites on the fetched list: the last two set and
\* clear bits, and leave the others.
WithoutAdmin(list, u) == [x \in Users |-> IF x = u THEN Blank ELSE list[x]]
WithAdmin(list, u) == [x \in Users |-> IF x = u THEN Power ELSE list[x]]
WithBan(list, u) == [list EXCEPT ![u].connect = "deny"]

\* The new admin, or the target of a ban, has to be a member of the room.
ActivityFetches(p) ==
    LET call == op[p]
        member == IF Is(p, {"aban"}) THEN call.target ELSE NewAdmin(p)
    IN
    /\ At(p, "get")
    /\ IF member # NoUser /\ member \notin inRoom THEN Done(p)
       ELSE op' = [op EXCEPT ![p].stage = "patch", ![p].list =
                IF Is(p, {"aban"})
                THEN WithBan(IF call.seen = call.target
                             THEN WithoutAdmin(perm, call.target) ELSE perm,
                             call.target)
                ELSE WithAdmin(WithoutAdmin(perm, call.seen), NewAdmin(p))]
    /\ UNCHANGED <<owner, admin, perm, inRoom, banned>>

\* PATCH /channels writes the whole list.
ActivityPatches(p) ==
    LET call == op[p] IN
    /\ At(p, "patch")
    /\ perm' = call.list
    /\ banned' = IF Is(p, {"aban"}) THEN banned \cup {call.target}
                 ELSE IF Is(p, {"aassign"}) THEN banned \ {NewAdmin(p)} ELSE banned
    /\ Goto(p, IF Is(p, {"aban"}) THEN "moveOut" ELSE "update")
    /\ UNCHANGED <<owner, admin, inRoom>>

\* UPDATE voice_rooms SET admin_id.
ActivityUpdates(p) ==
    /\ At(p, "update")
    /\ admin' = NewAdmin(p)
    /\ Done(p)
    /\ UNCHANGED <<owner, perm, inRoom, banned>>

-----------------------------------------------------------------------------

\* A call to Discord raises: a claim gives the seat back, all else just ends.
Raises(p) ==
    /\ Fallible
    /\ op[p].stage \in {"power", "unpower", "deny", "moveOut", "allow", "get", "patch"}
    /\ IF Is(p, {"claim"}) THEN Goto(p, "undo") ELSE Done(p)
    /\ UNCHANGED <<owner, admin, perm, inRoom, banned>>

Step(p) ==
    \/ ClaimReads(p) \/ ClaimWrites(p) \/ ClaimUndone(p) \/ Empower(p)
    \/ ReleaseReads(p) \/ LeaveLooks(p) \/ AssignReads(p)
    \/ ClearReads(p) \/ Unpower(p) \/ Vacate(p) \/ Seat(p)
    \/ TransferReads(p) \/ Crown(p)
    \/ Controls(p) \/ Allow(p) \/ RemovalReads(p) \/ Deny(p) \/ MoveOut(p)
    \/ ActivityReads(p) \/ ActivityFetches(p) \/ ActivityPatches(p)
    \/ ActivityUpdates(p)

Next ==
    \/ \E p \in Procs, kind \in Kinds, u \in Users :
           \E target \in Users \cup {NoUser} : Request(p, kind, u, target)
    \/ \E p \in Procs : \E u \in Users : Leave(p, u)
    \/ \E u \in Users : Join(u)
    \/ \E p \in Procs : TransferFires(p)
    \/ \E p \in Procs : Step(p)
    \/ \E p \in Procs : Raises(p)

Spec == Init /\ [][Next]_vars

-----------------------------------------------------------------------------
(* Properties.                                                             *)

\* The owner of a room is not also its admin: claim and assign refuse the
\* owner, and a handover clears the seat of an admin it makes owner.
AdminNeverOwner == admin # owner

\* When nothing is under way, the admin named in the table has the power on
\* the channel: a claim whose grant failed does not keep the seat.
AdminHasPower == AllIdle /\ admin # NoUser => perm[admin].power

\* When nothing is under way, only the owner and the admin named in the table
\* have the power: whoever lost the seat or the room lost the overwrite too.
NoStrayPower == AllIdle => \A u \in Users : perm[u].power => u \in {owner, admin}

\* No claim takes the seat from another admin.
ClaimWins(u) == \E p \in Procs :
    op[p].kind \in {"claim", "aclaim"} /\ op[p].who = u /\ op'[p] # op[p]
SeatNotStolen ==
    [][\A u \in Users : admin \notin {NoUser, u} /\ admin' = u => ~ClaimWins(u)]_vars

\* When nothing is under way, a ban stands until the member is invited, or made
\* admin by the owner.
BanStands == AllIdle => \A u \in banned : perm[u].connect = "deny"
=============================================================================

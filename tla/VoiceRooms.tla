------------------------------ MODULE VoiceRooms ------------------------------
(***************************************************************************)
(* Dynamic voice rooms of one guild, at the granularity of the asyncio     *)
(* event loop: every action is the code a coroutine runs from the          *)
(* completion of one awaited call to its next await.                       *)
(*                                                                         *)
(* The actors are the listener on_voice_state_update (one handler per      *)
(* event, several of them in flight), the delayed delete and the delayed   *)
(* owner transfer (asyncio tasks kept in two dictionaries), the users who  *)
(* move between channels, and a restart of the bot.                        *)
(*                                                                         *)
(* The temporary admin of a room and the permission overwrites, which do   *)
(* not decide when a room is created, handed over or removed, are the      *)
(* subject of VoiceControl.                                                *)
(***************************************************************************)
EXTENDS Naturals, FiniteSets

CONSTANTS Users,          \* members of the guild that are not bots
          Channels,       \* channel ids Discord may hand out, never reused
          Slots,          \* listener calls of one user that may be in flight
          Timers,         \* asyncio tasks one channel may have, of each kind
          Trigger,        \* the trigger channel
          Out,            \* connected to no voice channel
          NoUser, NoChannel, NoTimer,
          Outcasts,       \* users a room denies to connect unless they own it
          Patient,        \* users who move only when no call about them runs
          RoomToTrigger,  \* users may enter the trigger straight from a room
          BotsVisit,      \* bots (music, recording) come into the rooms and go
          FaultPoints,    \* awaits whose call may raise
          MaxRestarts     \* bound on restarts of the bot

HandlerAwaits == {"enter", "vet", "redirect", "stale", "make", "move", "insert",
                  "track", "rollback", "leave", "untrack", "join", "add", "eject"}
DeleteAwaits == {"clear", "drop", "close"}

ASSUME VoiceRoomsAssumption ==
    /\ Trigger \notin Channels
    /\ Out \notin Channels \cup {Trigger}
    /\ NoUser \notin Users
    /\ NoChannel \notin Channels
    /\ NoTimer \notin Timers
    /\ Outcasts \subseteq Users
    /\ Patient \subseteq Users
    /\ RoomToTrigger \in BOOLEAN
    /\ BotsVisit \in BOOLEAN
    /\ FaultPoints \subseteq HandlerAwaits \cup DeleteAwaits \cup {"grant"}
    /\ MaxRestarts \in Nat

VARIABLES where,      \* the bot's cached voice state of each user
          open,       \* channels that exist on Discord
          created,    \* channel ids handed out so far
          bots,       \* the channels a bot is connected to
          deserted,   \* history: channels a bot left last, and nobody came since
          row,        \* voice_rooms: the owner of each room, NoUser without a row
          tracked,    \* voice_room_members
          creating,   \* VoiceService._creating
          handler,    \* listener calls in flight, by user and slot
          delReg,     \* VoiceService._delete_tasks
          delStage,   \* where each delayed delete of a channel is
          ownReg,     \* VoiceService._owner_transfer_tasks
          transfer,   \* each delayed owner transfer of a channel
          restarts

discord  == <<where, open, created, bots, deserted>>
database == <<row, tracked>>
deletes  == <<delReg, delStage>>
handovers == <<ownReg, transfer>>
vars == <<where, open, created, bots, deserted, row, tracked, creating, handler,
          delReg, delStage, ownReg, transfer, restarts>>

Places == Channels \cup {Trigger, Out}

Idle == [stage |-> "idle", before |-> Out, after |-> Out,
         room |-> NoChannel, owned |-> FALSE]
Call ==
    {call \in [stage : HandlerAwaits \cup {"idle"}, before : Places, after : Places,
               room : Channels \cup {NoChannel}, owned : BOOLEAN] :
        /\ call.stage \in {"redirect", "stale", "move", "insert", "track", "rollback"}
               => call.room \in Channels
        /\ call.stage \in {"leave", "untrack"} => call.before \in Channels
        /\ call.stage \in {"join", "add", "eject"} => call.after \in Channels}

NoTransfer == [stage |-> "idle", old |-> NoUser, heir |-> NoUser]
Transfer == [stage : {"idle", "sleep", "grant"},
             old : Users \cup {NoUser}, heir : Users \cup {NoUser}]

TypeOK ==
    /\ where \in [Users -> Places]
    /\ open \subseteq created
    /\ created \subseteq Channels
    /\ bots \subseteq Channels
    /\ deserted \subseteq Channels
    /\ row \in [Channels -> Users \cup {NoUser}]
    /\ tracked \in [Channels -> SUBSET Users]
    /\ creating \subseteq Users
    /\ handler \in [Users -> [Slots -> Call]]
    /\ delReg \in [Channels -> Timers \cup {NoTimer}]
    /\ delStage \in [Channels -> [Timers -> {"idle", "sleep"} \cup DeleteAwaits]]
    /\ ownReg \in [Channels -> Timers \cup {NoTimer}]
    /\ transfer \in [Channels -> [Timers -> Transfer]]
    /\ restarts \in 0 .. MaxRestarts

Init ==
    /\ where = [u \in Users |-> Out]
    /\ open = {}
    /\ created = {}
    /\ bots = {}
    /\ deserted = {}
    /\ row = [c \in Channels |-> NoUser]
    /\ tracked = [c \in Channels |-> {}]
    /\ creating = {}
    /\ handler = [u \in Users |-> [i \in Slots |-> Idle]]
    /\ delReg = [c \in Channels |-> NoTimer]
    /\ delStage = [c \in Channels |-> [t \in Timers |-> "idle"]]
    /\ ownReg = [c \in Channels |-> NoTimer]
    /\ transfer = [c \in Channels |-> [t \in Timers |-> NoTransfer]]
    /\ restarts = 0

-----------------------------------------------------------------------------
(* The pieces the actions are built from.                                  *)

Members(c) == {u \in Users : where[u] = c}

\* channel.members is empty: it lists the bots too.
Empty(c) == Members(c) = {} /\ c \notin bots

Live(c) == row[c] # NoUser
RoomsOf(u) == {c \in Channels : row[c] = u}
At(u, i, stage) == handler[u][i].stage = stage
Free(u) == {i \in Slots : At(u, i, "idle")}
Quiet(u) == Free(u) = Slots

\* The overwrite of the room denies u to connect.
Denied(c, u) == u \in Outcasts /\ row[c] # u

Start(stage, from, to) ==
    [Idle EXCEPT !.stage = stage, !.before = from, !.after = to]

\* Where the listener starts for a user who went from one place to another:
\* entering the trigger returns before the place left behind is looked at.
Dispatch(from, to) ==
    IF to = Trigger THEN Start("enter", from, to)
    ELSE IF from \in Channels THEN Start("leave", from, to)
    ELSE IF to \in Channels THEN Start("join", from, to)
    ELSE Idle

Goto(u, i, stage) == handler' = [handler EXCEPT ![u][i].stage = stage]
Return(u, i) == handler' = [handler EXCEPT ![u][i] = Idle]

\* The listener is done with the place left behind and turns to the one entered.
ThenJoin(call) ==
    IF call.after \in Channels THEN [call EXCEPT !.stage = "join", !.owned = FALSE]
                               ELSE Idle

\* Everyone in c is disconnected; a listener call starts for each user.
Evict(c) ==
    /\ \A u \in Members(c) : Free(u) # {}
    /\ where' = [u \in Users |-> IF where[u] = c THEN Out ELSE where[u]]
    /\ bots' = bots \ {c}
    /\ UNCHANGED deserted
Evicted(c, calls) ==
    [u \in Users |->
        IF where[u] # c THEN calls[u]
        ELSE [calls[u] EXCEPT ![CHOOSE i \in Free(u) : TRUE] = Dispatch(c, Out)]]

\* schedule_delete: the task registered before, if any, is cancelled, and the
\* clean-up of the cancelled task takes the new task out of the dictionary.
ScheduleDelete(c) ==
    \E t \in Timers :
        /\ delStage[c][t] = "idle"
        /\ delStage' = [delStage EXCEPT ![c] =
               [x \in Timers |-> IF x = t THEN "sleep"
                                 ELSE IF x = delReg[c] THEN "idle" ELSE @[x]]]
        /\ delReg' = [delReg EXCEPT ![c] = IF @ = NoTimer THEN t ELSE NoTimer]

\* _cancel_task: a task that lost its registration is out of reach.
CancelDelete(c) ==
    /\ delStage' = [delStage EXCEPT ![c] =
           [x \in Timers |-> IF x = delReg[c] THEN "idle" ELSE @[x]]]
    /\ delReg' = [delReg EXCEPT ![c] = NoTimer]

\* schedule_owner_transfer, with the same dictionary discipline.
ScheduleTransfer(c, u) ==
    \E t \in Timers :
        /\ transfer[c][t].stage = "idle"
        /\ transfer' = [transfer EXCEPT ![c] =
               [x \in Timers |->
                   IF x = t THEN [stage |-> "sleep", old |-> u, heir |-> NoUser]
                   ELSE IF x = ownReg[c] THEN NoTransfer ELSE @[x]]]
        /\ ownReg' = [ownReg EXCEPT ![c] = IF @ = NoTimer THEN t ELSE NoTimer]

\* _cancel_owner_task.
CancelTransfer(c) ==
    /\ transfer' = [transfer EXCEPT ![c] =
           [x \in Timers |-> IF x = ownReg[c] THEN NoTransfer ELSE @[x]]]
    /\ ownReg' = [ownReg EXCEPT ![c] = NoTimer]

-----------------------------------------------------------------------------
(* Users and bots.                                                         *)

\* A user is at c, which is no longer as a bot left it.
Arrives(c) == deserted' = deserted \ {c} /\ UNCHANGED bots

\* A voice state update reaches the bot: the cache changes and a listener
\* call starts.  One slot is kept for the calls a move by the bot starts.
Move(u, to) ==
    /\ to \in (open \cup {Trigger, Out}) \ {where[u]}
    /\ to = Trigger => RoomToTrigger \/ where[u] \notin Channels
    /\ Cardinality(Free(u)) > 1
    /\ u \in Patient => Quiet(u)
    /\ where' = [where EXCEPT ![u] = to]
    /\ handler' = [handler EXCEPT
           ![u][CHOOSE i \in Free(u) : TRUE] = Dispatch(where[u], to)]
    /\ Arrives(to)
    /\ UNCHANGED <<open, created, database, creating, deletes, handovers, restarts>>

\* A bot comes or goes: the listener returns at once.
BotEnters(c) ==
    /\ BotsVisit
    /\ c \in open \ bots
    /\ bots' = bots \cup {c}
    /\ deserted' = deserted \ {c}
    /\ UNCHANGED <<where, open, created, database, creating, handler, deletes,
                   handovers, restarts>>
BotLeaves(c) ==
    /\ c \in bots
    /\ bots' = bots \ {c}
    /\ deserted' = IF Members(c) = {} THEN deserted \cup {c} ELSE deserted
    /\ UNCHANGED <<where, open, created, database, creating, handler, deletes,
                   handovers, restarts>>

-----------------------------------------------------------------------------
(* The trigger: redirect to the owned room, or create one.                 *)

\* The listener looks the owner up; without a room it calls create, which
\* returns at once when a creation for this user is running.
Enter(u, i) ==
    /\ At(u, i, "enter")
    /\ \/ \E c \in RoomsOf(u) :
              IF c \in open
              THEN handler' = [handler EXCEPT ![u][i].stage = "redirect", ![u][i].room = c]
              ELSE Return(u, i)
       \/ /\ RoomsOf(u) = {}
          /\ IF u \in creating THEN Return(u, i) ELSE Goto(u, i, "vet")
    /\ UNCHANGED <<discord, database, creating, deletes, handovers, restarts>>

\* create looks the owner up again.
Vet(u, i) ==
    /\ At(u, i, "vet")
    /\ \/ /\ \E c \in RoomsOf(u) :
                 handler' = [handler EXCEPT
                     ![u][i].stage = IF c \in open THEN "redirect" ELSE "stale",
                     ![u][i].room = c]
          /\ UNCHANGED creating
       \/ /\ RoomsOf(u) = {}
          /\ creating' = creating \cup {u}
          /\ Goto(u, i, "make")
    /\ UNCHANGED <<discord, database, deletes, handovers, restarts>>

\* create removes a row whose channel is gone and goes on.
DropStale(u, i) ==
    LET c == handler[u][i].room IN
    /\ At(u, i, "stale")
    /\ row' = [row EXCEPT ![c] = NoUser]
    /\ tracked' = [tracked EXCEPT ![c] = {}]
    /\ creating' = creating \cup {u}
    /\ handler' = [handler EXCEPT ![u][i].stage = "make", ![u][i].room = NoChannel]
    /\ UNCHANGED <<discord, deletes, handovers, restarts>>

\* member.move_to(existing): the call ends; a move starts another one.  It
\* raises, and is caught, when the user has left voice or the room is gone.
Redirect(u, i) ==
    LET c == handler[u][i].room IN
    /\ At(u, i, "redirect")
    /\ \/ /\ where[u] \notin {Out, c}
          /\ c \in open
          /\ where' = [where EXCEPT ![u] = c]
          /\ handler' = [handler EXCEPT ![u][i] = Dispatch(where[u], c)]
          /\ Arrives(c)
       \/ /\ where[u] \in {Out, c} \/ c \notin open \/ "redirect" \in FaultPoints
          /\ Return(u, i)
          /\ UNCHANGED <<where, bots, deserted>>
    /\ UNCHANGED <<open, created, database, creating, deletes, handovers, restarts>>

\* Mutation: ids of deleted channels are handed out again.
Fresh_Reused == Channels \ open

\* Discord never hands out an id twice.
Fresh == Channels \ created

\* Mutation: the key is kept.
ReleaseKey_Kept(u) == creating' = creating

\* The finally clause of create.
ReleaseKey(u) == creating' = creating \ {u}

\* create_voice_channel; the guild may have no channel left to create.
MakeChannel(u, i) ==
    /\ At(u, i, "make")
    /\ \/ \E c \in Fresh :
              /\ open' = open \cup {c}
              /\ created' = created \cup {c}
              /\ handler' = [handler EXCEPT ![u][i].stage = "move", ![u][i].room = c]
              /\ UNCHANGED creating
       \/ /\ Fresh = {}
          /\ ReleaseKey(u)
          /\ Return(u, i)
          /\ UNCHANGED <<open, created>>
    /\ UNCHANGED <<where, bots, deserted, database, deletes, handovers, restarts>>

\* set_permissions and member.move_to(channel): it raises when the user has
\* left voice, and the channel is rolled back.
MoveIn(u, i) ==
    LET c == handler[u][i].room IN
    /\ At(u, i, "move")
    /\ \/ /\ where[u] = Out
          /\ Goto(u, i, "rollback")
          /\ UNCHANGED <<where, bots, deserted>>
       \/ /\ where[u] = c
          /\ Goto(u, i, "insert")
          /\ UNCHANGED <<where, bots, deserted>>
       \/ /\ where[u] \notin {Out, c}
          /\ Free(u) # {}
          /\ where' = [where EXCEPT ![u] = c]
          /\ handler' = [handler EXCEPT
                 ![u][i].stage = "insert",
                 ![u][CHOOSE j \in Free(u) : TRUE] = Dispatch(where[u], c)]
          /\ Arrives(c)
    /\ UNCHANGED <<open, created, database, creating, deletes, handovers, restarts>>

InsertRow(u, i) ==
    /\ At(u, i, "insert")
    /\ row' = [row EXCEPT ![handler[u][i].room] = u]
    /\ Goto(u, i, "track")
    /\ UNCHANGED <<discord, tracked, creating, deletes, handovers, restarts>>

TrackOwner(u, i) ==
    /\ At(u, i, "track")
    /\ tracked' = [tracked EXCEPT ![handler[u][i].room] = @ \cup {u}]
    /\ ReleaseKey(u)
    /\ Return(u, i)
    /\ UNCHANGED <<discord, row, deletes, handovers, restarts>>

\* The channel of a failed creation is deleted; a row inserted for it stays.
RollBack(u, i) ==
    LET c == handler[u][i].room IN
    /\ At(u, i, "rollback")
    /\ Evict(c)
    /\ handler' = Evicted(c, [handler EXCEPT ![u][i] = Idle])
    /\ open' = open \ {c}
    /\ ReleaseKey(u)
    /\ UNCHANGED <<created, database, deletes, handovers, restarts>>

-----------------------------------------------------------------------------
(* Leaving and joining a room.                                             *)

Leave(u, i) ==
    LET call == handler[u][i] IN
    /\ At(u, i, "leave")
    /\ handler' = [handler EXCEPT ![u][i] =
           IF Live(call.before)
           THEN [call EXCEPT !.stage = "untrack", !.owned = (row[call.before] = u)]
           ELSE ThenJoin(call)]
    /\ UNCHANGED <<discord, database, creating, deletes, handovers, restarts>>

\* Mutation: a leaving member stays listed.
MemberRemoved_Kept(c, u) == tracked' = tracked

\* remove_member, skipped when the room has lost its row.
MemberRemoved(c, u) ==
    tracked' = IF Live(c) THEN [tracked EXCEPT ![c] = @ \ {u}] ELSE tracked

\* Mutation: the two branches are tried in the other order.
AfterLeave_OwnerFirst(c, u, owned) ==
    \/ owned /\ ScheduleTransfer(c, u) /\ UNCHANGED deletes
    \/ ~owned /\ Empty(c) /\ ScheduleDelete(c) /\ UNCHANGED handovers
    \/ ~owned /\ ~Empty(c) /\ UNCHANGED <<deletes, handovers>>

\* An empty room is scheduled for deletion, a room its owner left for handover.
AfterLeave(c, u, owned) ==
    \/ Empty(c) /\ ScheduleDelete(c) /\ UNCHANGED handovers
    \/ ~Empty(c) /\ owned /\ ScheduleTransfer(c, u) /\ UNCHANGED deletes
    \/ ~Empty(c) /\ ~owned /\ UNCHANGED <<deletes, handovers>>

\* track_member_leave, and the choice that follows it without an await.
Untrack(u, i) ==
    LET call == handler[u][i]
        c == call.before
    IN
    /\ At(u, i, "untrack")
    /\ MemberRemoved(c, u)
    /\ AfterLeave(c, u, call.owned)
    /\ handler' = [handler EXCEPT ![u][i] = ThenJoin(call)]
    /\ UNCHANGED <<discord, row, creating, restarts>>

\* Mutation: the return of the owner is not noticed.
OwnerReturns_Unnoticed(c, u) == UNCHANGED handovers

OwnerReturns(c, u) ==
    IF row[c] = u THEN CancelTransfer(c) ELSE UNCHANGED handovers

\* track_member_join reads the room: a denied member is sent out, a returning
\* owner cancels the handover.
Join(u, i) ==
    LET c == handler[u][i].after IN
    /\ At(u, i, "join")
    /\ \/ ~Live(c) /\ Return(u, i) /\ UNCHANGED handovers
       \/ Live(c) /\ Denied(c, u) /\ Goto(u, i, "eject") /\ UNCHANGED handovers
       \/ /\ Live(c) /\ ~Denied(c, u)
          /\ Goto(u, i, "add")
          /\ OwnerReturns(c, u)
    /\ UNCHANGED <<discord, database, creating, deletes, restarts>>

\* add_member, and then cancel_delete without an await in between.
Add(u, i) ==
    LET c == handler[u][i].after IN
    /\ At(u, i, "add")
    /\ tracked' = [tracked EXCEPT ![c] = @ \cup {u}]
    /\ CancelDelete(c)
    /\ Return(u, i)
    /\ UNCHANGED <<discord, row, creating, handovers, restarts>>

\* member.move_to(None): the listener returns without cancelling the deletion.
Eject(u, i) ==
    /\ At(u, i, "eject")
    /\ where' = [where EXCEPT ![u] = Out]
    /\ handler' = [handler EXCEPT ![u][i] =
           IF where[u] = Out THEN Idle ELSE Dispatch(where[u], Out)]
    /\ UNCHANGED <<open, created, bots, deserted, database, creating, deletes,
                   handovers, restarts>>

\* A call raises: create undoes what it did, every other path just ends.
HandlerFault(u, i) ==
    LET stage == handler[u][i].stage IN
    /\ stage \in FaultPoints \cap HandlerAwaits
    /\ stage # "redirect"
    /\ \/ /\ stage \in {"move", "track"}
          /\ Goto(u, i, "rollback")
          /\ UNCHANGED <<row, creating>>
       \/ /\ stage = "insert"  \* the row may be there although the call raised
          /\ Goto(u, i, "rollback")
          /\ row' \in {row, [row EXCEPT ![handler[u][i].room] = u]}
          /\ UNCHANGED creating
       \/ /\ stage \in {"make", "rollback"}
          /\ Return(u, i)
          /\ ReleaseKey(u)
          /\ UNCHANGED row
       \/ /\ stage \notin {"move", "track", "insert", "make", "rollback"}
          /\ Return(u, i)
          /\ UNCHANGED <<row, creating>>
    /\ UNCHANGED <<discord, tracked, deletes, handovers, restarts>>

-----------------------------------------------------------------------------
(* The delayed delete.  Whatever way a task ends, its finally clause takes *)
(* the channel out of the dictionary, the entry of another task included.  *)

DeleteEnds(c, t) ==
    /\ delStage' = [delStage EXCEPT ![c][t] = "idle"]
    /\ delReg' = [delReg EXCEPT ![c] = NoTimer]

\* Mutation: the room is deleted when someone is there.
LeftEmpty_Inverted(c) == ~Empty(c)

\* not channel.members
LeftEmpty(c) == Empty(c)

\* The sleep is over: an occupied room is left alone; delete() first cancels
\* the handover.
FireDelete(c, t) ==
    /\ delStage[c][t] = "sleep"
    /\ \/ /\ ~LeftEmpty(c)
          /\ DeleteEnds(c, t)
          /\ UNCHANGED handovers
       \/ /\ LeftEmpty(c)
          /\ delStage' = [delStage EXCEPT ![c][t] = "clear"]
          /\ CancelTransfer(c)
          /\ UNCHANGED delReg
    /\ UNCHANGED <<discord, database, creating, handler, restarts>>

\* Mutation: the channel goes before its row.
ClearMembers_CloseNext(c, t) ==
    /\ delStage[c][t] = "clear"
    /\ tracked' = [tracked EXCEPT ![c] = {}]
    /\ delStage' = [delStage EXCEPT ![c][t] = "close"]
    /\ UNCHANGED <<discord, row, creating, handler, delReg, handovers, restarts>>

\* VoiceRepository.delete: the members first, then the row.
ClearMembers(c, t) ==
    /\ delStage[c][t] = "clear"
    /\ tracked' = [tracked EXCEPT ![c] = {}]
    /\ delStage' = [delStage EXCEPT ![c][t] = "drop"]
    /\ UNCHANGED <<discord, row, creating, handler, delReg, handovers, restarts>>

DropRow(c, t) ==
    /\ delStage[c][t] = "drop"
    /\ row' = [row EXCEPT ![c] = NoUser]
    /\ delStage' = [delStage EXCEPT ![c][t] = "close"]
    /\ UNCHANGED <<discord, tracked, creating, handler, delReg, handovers, restarts>>

\* channel.delete(): whoever joined since is disconnected with it.
CloseChannel(c, t) ==
    /\ delStage[c][t] = "close"
    /\ Evict(c)
    /\ handler' = Evicted(c, handler)
    /\ open' = open \ {c}
    /\ DeleteEnds(c, t)
    /\ UNCHANGED <<created, database, creating, handovers, restarts>>

DeleteFault(c, t) ==
    /\ delStage[c][t] \in FaultPoints \cap DeleteAwaits
    /\ DeleteEnds(c, t)
    /\ UNCHANGED <<discord, database, creating, handler, handovers, restarts>>

-----------------------------------------------------------------------------
(* The delayed owner transfer.                                             *)

TransferEnds(c, t) ==
    /\ transfer' = [transfer EXCEPT ![c][t] = NoTransfer]
    /\ ownReg' = [ownReg EXCEPT ![c] = NoTimer]

\* The sleep is over and the room is read: nothing happens when the owner has
\* changed or is back, or when no one else is there.
FireTransfer(c, t) ==
    LET old == transfer[c][t].old
        heirs == Members(c) \ {old}
    IN
    /\ transfer[c][t].stage = "sleep"
    /\ \/ /\ row[c] # old \/ where[old] = c \/ heirs = {}
          /\ TransferEnds(c, t)
       \/ /\ row[c] = old
          /\ where[old] # c
          /\ \E heir \in heirs :
                 transfer' = [transfer EXCEPT ![c][t].stage = "grant",
                                              ![c][t].heir = heir]
          /\ UNCHANGED ownReg
    /\ UNCHANGED <<discord, database, creating, handler, deletes, restarts>>

\* Mutation: an update that inserts a missing row.
OwnerUpdated_Upsert(c, u) == row' = [row EXCEPT ![c] = u]

\* update_owner, which does nothing to a room without a row.
OwnerUpdated(c, u) ==
    row' = IF Live(c) THEN [row EXCEPT ![c] = u] ELSE row

\* _grant_owner ends with the update of the row; before it it moves the
\* overwrites, which may raise.
GrantOwner(c, t) ==
    /\ transfer[c][t].stage = "grant"
    /\ \/ OwnerUpdated(c, transfer[c][t].heir)
       \/ "grant" \in FaultPoints /\ row' = row
    /\ TransferEnds(c, t)
    /\ UNCHANGED <<discord, tracked, creating, handler, deletes, restarts>>

-----------------------------------------------------------------------------

\* The bot stops (shutdown cancels the tasks; a crash loses them) and starts
\* again: the tables stay, no room is looked at, and the users who left in the
\* meantime are missing from the new cache.
Restart ==
    /\ restarts < MaxRestarts
    /\ restarts' = restarts + 1
    /\ \E gone \in SUBSET Users :
           where' = [u \in Users |-> IF u \in gone THEN Out ELSE where[u]]
    /\ bots' \in SUBSET bots
    /\ creating' = {}
    /\ handler' = [u \in Users |-> [i \in Slots |-> Idle]]
    /\ delReg' = [c \in Channels |-> NoTimer]
    /\ delStage' = [c \in Channels |-> [t \in Timers |-> "idle"]]
    /\ ownReg' = [c \in Channels |-> NoTimer]
    /\ transfer' = [c \in Channels |-> [t \in Timers |-> NoTransfer]]
    /\ UNCHANGED <<open, created, deserted, database>>

CreateStep(u, i) ==
    \/ Enter(u, i) \/ Vet(u, i) \/ DropStale(u, i) \/ Redirect(u, i)
    \/ MakeChannel(u, i) \/ MoveIn(u, i) \/ InsertRow(u, i)
    \/ TrackOwner(u, i) \/ RollBack(u, i)
PresenceStep(u, i) ==
    Leave(u, i) \/ Untrack(u, i) \/ Join(u, i) \/ Add(u, i) \/ Eject(u, i)
DeleteStep(c, t) ==
    FireDelete(c, t) \/ ClearMembers(c, t) \/ DropRow(c, t) \/ CloseChannel(c, t)
TransferStep(c, t) == FireTransfer(c, t) \/ GrantOwner(c, t)

Next ==
    \/ \E u \in Users : \E to \in Places : Move(u, to)
    \/ \E c \in Channels : BotEnters(c) \/ BotLeaves(c)
    \/ \E u \in Users : \E i \in Slots : CreateStep(u, i)
    \/ \E u \in Users : \E i \in Slots : PresenceStep(u, i)
    \/ \E u \in Users : \E i \in Slots : HandlerFault(u, i)
    \/ \E c \in Channels : \E t \in Timers : DeleteStep(c, t)
    \/ \E c \in Channels : \E t \in Timers : DeleteFault(c, t)
    \/ \E c \in Channels : \E t \in Timers : TransferStep(c, t)
    \/ Restart

\* The event loop runs every coroutine that can go on; users and bots owe
\* nothing.
Fairness ==
    /\ \A u \in Users, i \in Slots :
           WF_vars(CreateStep(u, i) \/ PresenceStep(u, i))
    /\ \A c \in Channels, t \in Timers :
           WF_vars(DeleteStep(c, t)) /\ WF_vars(TransferStep(c, t))

Spec == Init /\ [][Next]_vars
FairSpec == Spec /\ Fairness

-----------------------------------------------------------------------------
(* Properties.                                                             *)

\* A row of voice_rooms names a channel that exists.  delete() removes the row
\* first and create() inserts it last, and no timer or call in between may
\* undo that order, however late it runs.
RowHasChannel == \A c \in Channels : Live(c) => c \in open

\* Why it holds: until its row is inserted, the channel create has made belongs
\* to one call and no leave and no delayed delete knows of it; and a delayed
\* delete that is about to close a channel has dropped the row, which nothing
\* inserts again.
Building(u, i) == handler[u][i].stage \in {"move", "insert", "rollback"}
Scheduled(c) == \E t \in Timers : delStage[c][t] # "idle"
BeingLeft(c) ==
    \E u \in Users : \E i \in Slots : At(u, i, "untrack") /\ handler[u][i].before = c
BuiltUnseen ==
    \A u \in Users : \A i \in Slots : \A c \in Channels :
        Building(u, i) /\ handler[u][i].room = c
            => c \in open /\ ~Live(c) /\ ~Scheduled(c) /\ ~BeingLeft(c)
BuiltByOne ==
    \A u, v \in Users : \A i, j \in Slots :
        Building(u, i) /\ Building(v, j) /\ handler[u][i].room = handler[v][j].room
            => u = v /\ i = j
SeenIsCreated == \A c \in Channels : Scheduled(c) \/ BeingLeft(c) => c \in created
ClosedIsDropped ==
    \A c \in Channels : \A t \in Timers : delStage[c][t] = "close" => ~Live(c)
RowInv ==
    /\ TypeOK
    /\ RowHasChannel
    /\ BuiltUnseen
    /\ BuiltByOne
    /\ SeenIsCreated
    /\ ClosedIsDropped

\* The key _creating keeps against a second creation is given back on every
\* path out of create: a key nobody holds would refuse its user for good.
CreatingIsHeld ==
    \A u \in creating : \E i \in Slots :
        handler[u][i].stage \in {"make", "move", "insert", "track", "rollback"}

\* Someone is in charge of a room its last user left empty: a delayed delete
\* that still runs, or a listener call that will schedule one, whatever timers
\* were cancelled, replaced or taken out of the dictionary, and whichever bots
\* were there in between.  A room a bot was the last to leave is excepted: the
\* listener returns for bots, and nobody looks at the room again.
EmptyRoomInCharge ==
    \A c \in Channels : Live(c) /\ Empty(c) /\ c \notin deserted =>
        \/ \E t \in Timers : delStage[c][t] # "idle"
        \/ \E u \in Users : \E i \in Slots :
               handler[u][i].stage \in {"leave", "untrack"} /\ handler[u][i].before = c

\* With no call and no task running, voice_room_members lists no one who left.
Settled ==
    /\ \A u \in Users : Quiet(u)
    /\ \A c \in Channels : \A t \in Timers : delStage[c][t] = "idle"
TrackedArePresent ==
    Settled => \A c \in Channels : Live(c) => tracked[c] \subseteq Members(c)

\* Once the return of an owner has been handled, no handover that was under way
\* takes the room from them.
ReturnedOwnerKeepsRoom ==
    \A c \in Channels : \A t \in Timers :
        LET old == transfer[c][t].old IN
        transfer[c][t].stage = "grant" /\ where[old] = c /\ row[c] = old
            => ~Quiet(old)

\* A room its last user left empty is cleaned up, unless someone comes.
EmptyRoomCleaned ==
    \A c \in Channels :
        (Live(c) /\ Empty(c) /\ c \notin deserted) ~> (~Live(c) \/ ~Empty(c))

\* No empty channel made for a room stays, with or without its row.
NoEmptyChannelStays ==
    \A c \in Channels :
        (c \in open /\ Empty(c)) ~> (c \notin open \/ ~Empty(c))

-----------------------------------------------------------------------------
(* The rooms implement the ledger.                                         *)

\* A channel create has made and not yet entered in voice_rooms.
Pending(c) ==
    \E u \in Users : \E i \in Slots :
        handler[u][i].stage \in {"move", "insert"} /\ handler[u][i].room = c

Phase(c) ==
    IF Live(c) THEN "live"
    ELSE IF c \in created /\ ~Pending(c) THEN "gone" ELSE "unborn"

Ledger == INSTANCE RoomLedger
    WITH phase <- [c \in Channels |-> Phase(c)], owner <- row

\* Each channel id is a room at most once, whatever call, task or restart is
\* late: an update of a room already removed does not bring it back.
LedgerSpec == Ledger!Spec
=============================================================================

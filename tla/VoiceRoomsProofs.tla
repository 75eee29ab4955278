--------------------------- MODULE VoiceRoomsProofs ---------------------------
(***************************************************************************)
(* Proofs about VoiceRooms for every set of users, channels, slots and     *)
(* timers: type correctness, that the table voice_rooms never names a      *)
(* channel that is gone as long as the two writes of create do not fail,   *)
(* that a channel id becomes a room at most once (RoomLedger), and, when   *)
(* the bot is not interrupted, that an empty room is in charge of someone, *)
(* that the list of members is right and that an owner keeps his room.     *)
(***************************************************************************)
EXTENDS VoiceRooms, FiniteSetTheorems, TLAPS

LEMMA IdleIsCall == Idle \in Call
  BY VoiceRoomsAssumption DEF Idle, Call, Places, HandlerAwaits

LEMMA DispatchIsCall ==
  ASSUME NEW from \in Places, NEW to \in Places
  PROVE  Dispatch(from, to) \in Call
  BY VoiceRoomsAssumption DEF Dispatch, Start, Idle, Call, Places, HandlerAwaits

LEMMA ThenJoinIsCall ==
  ASSUME NEW call \in Call PROVE ThenJoin(call) \in Call
  BY IdleIsCall DEF ThenJoin, Call, HandlerAwaits

LEMMA EvictedType ==
  ASSUME TypeOK, NEW c \in Channels, NEW calls \in [Users -> [Slots -> Call]]
  PROVE  Evicted(c, calls) \in [Users -> [Slots -> Call]]
  <1>1. Dispatch(c, Out) \in Call
    BY DispatchIsCall DEF Places
  <1> QED
    BY <1>1 DEF Evicted

\* A call goes on to another stage, or takes up a room on the way.
LEMMA StageType ==
  ASSUME TypeOK, NEW u \in Users, NEW i \in Slots, NEW s,
         [handler[u][i] EXCEPT !.stage = s] \in Call
  PROVE  [handler EXCEPT ![u][i].stage = s] \in [Users -> [Slots -> Call]]
  BY DEF TypeOK

LEMMA StageRoomType ==
  ASSUME TypeOK, NEW u \in Users, NEW i \in Slots, NEW s, NEW c,
         [handler[u][i] EXCEPT !.stage = s, !.room = c] \in Call
  PROVE  [handler EXCEPT ![u][i].stage = s, ![u][i].room = c]
             \in [Users -> [Slots -> Call]]
  BY DEF TypeOK

LEMMA ReturnType ==
  ASSUME TypeOK, NEW u \in Users, NEW i \in Slots
  PROVE  [handler EXCEPT ![u][i] = Idle] \in [Users -> [Slots -> Call]]
  BY IdleIsCall DEF TypeOK

LEMMA ScheduleDeleteType ==
  ASSUME TypeOK, NEW c \in Channels, ScheduleDelete(c)
  PROVE  /\ delReg' \in [Channels -> Timers \cup {NoTimer}]
         /\ delStage' \in [Channels -> [Timers -> {"idle", "sleep"} \cup DeleteAwaits]]
  BY DEF ScheduleDelete, TypeOK

LEMMA CancelDeleteType ==
  ASSUME TypeOK, NEW c \in Channels, CancelDelete(c)
  PROVE  /\ delReg' \in [Channels -> Timers \cup {NoTimer}]
         /\ delStage' \in [Channels -> [Timers -> {"idle", "sleep"} \cup DeleteAwaits]]
  BY DEF CancelDelete, TypeOK

LEMMA ScheduleTransferType ==
  ASSUME TypeOK, NEW c \in Channels, NEW u \in Users, ScheduleTransfer(c, u)
  PROVE  /\ ownReg' \in [Channels -> Timers \cup {NoTimer}]
         /\ transfer' \in [Channels -> [Timers -> Transfer]]
  BY DEF ScheduleTransfer, TypeOK, Transfer, NoTransfer

LEMMA CancelTransferType ==
  ASSUME TypeOK, NEW c \in Channels, CancelTransfer(c)
  PROVE  /\ ownReg' \in [Channels -> Timers \cup {NoTimer}]
         /\ transfer' \in [Channels -> [Timers -> Transfer]]
  BY DEF CancelTransfer, TypeOK, Transfer, NoTransfer

LEMMA TypeInit == Init => TypeOK
  BY IdleIsCall, VoiceRoomsAssumption
     DEF Init, TypeOK, Places, NoTransfer, Transfer

LEMMA TypeNext == TypeOK /\ [Next]_vars => TypeOK'
  <1> SUFFICES ASSUME TypeOK, [Next]_vars PROVE TypeOK'
    OBVIOUS
  <1> USE VoiceRoomsAssumption DEF TypeOK, discord, database, deletes, handovers
  <1>1. ASSUME NEW u \in Users, NEW to \in Places, Move(u, to) PROVE TypeOK'
    <2>1. Dispatch(where[u], to) \in Call
      BY DispatchIsCall
    <2> QED
      BY <1>1, <2>1 DEF Move, Arrives
  <1>2. ASSUME NEW u \in Users, NEW i \in Slots, CreateStep(u, i) PROVE TypeOK'
    <2>0. handler[u][i] \in Call
      OBVIOUS
    <2>1. CASE Enter(u, i)
      <3>1. [handler[u][i] EXCEPT !.stage = "vet"] \in Call
        BY <2>0 DEF Call, HandlerAwaits
      <3>2. ASSUME NEW c \in Channels
            PROVE  [handler[u][i] EXCEPT !.stage = "redirect", !.room = c] \in Call
        BY <2>0 DEF Call, HandlerAwaits
      <3>3. handler' \in [Users -> [Slots -> Call]]
        <4>1. [handler EXCEPT ![u][i].stage = "vet"] \in [Users -> [Slots -> Call]]
          BY <3>1, StageType
        <4>2. ASSUME NEW c \in Channels,
                     handler' = [handler EXCEPT ![u][i].stage = "redirect", ![u][i].room = c]
              PROVE  handler' \in [Users -> [Slots -> Call]]
          <5>1. [handler EXCEPT ![u][i].stage = "redirect", ![u][i].room = c]
                    \in [Users -> [Slots -> Call]]
            BY <3>2, StageRoomType
          <5> QED
            BY <4>2, <5>1
        <4>3. [handler EXCEPT ![u][i] = Idle] \in [Users -> [Slots -> Call]]
          BY ReturnType
        <4>4. \/ handler' = [handler EXCEPT ![u][i].stage = "vet"]
              \/ handler' = [handler EXCEPT ![u][i] = Idle]
              \/ \E c \in Channels : handler' =
                     [handler EXCEPT ![u][i].stage = "redirect", ![u][i].room = c]
          BY <2>1 DEF Enter, Goto, Return, RoomsOf
        <4> QED
          BY <4>1, <4>2, <4>3, <4>4
      <3> QED
        BY <2>1, <3>3 DEF Enter
    <2>2. CASE Vet(u, i)
      <3>1. [handler[u][i] EXCEPT !.stage = "make"] \in Call
        BY <2>0 DEF Call, HandlerAwaits
      <3>2. ASSUME NEW c \in Channels, NEW s \in {"redirect", "stale"}
            PROVE  [handler[u][i] EXCEPT !.stage = s, !.room = c] \in Call
        BY <2>0 DEF Call, HandlerAwaits
      <3>3. CASE RoomsOf(u) = {}
        <4>1. [handler EXCEPT ![u][i].stage = "make"] \in [Users -> [Slots -> Call]]
          BY <3>1, StageType
        <4>2. ~ \E c \in RoomsOf(u) : TRUE
          BY <3>3
        <4> QED
          BY <2>2, <4>1, <4>2 DEF Vet, Goto
      <3>4. ASSUME NEW c \in RoomsOf(u),
                   handler' = [handler EXCEPT
                     ![u][i].stage = IF c \in open THEN "redirect" ELSE "stale",
                     ![u][i].room = c]
            PROVE  handler' \in [Users -> [Slots -> Call]]
        <4>1. c \in Channels
          BY DEF RoomsOf
        <4> DEFINE s == IF c \in open THEN "redirect" ELSE "stale"
        <4>2. s \in {"redirect", "stale"}
          OBVIOUS
        <4> HIDE DEF s
        <4>3. [handler EXCEPT ![u][i].stage = s, ![u][i].room = c]
                  \in [Users -> [Slots -> Call]]
          BY <4>1, <4>2, <3>2, StageRoomType
        <4> QED
          BY <3>4, <4>3 DEF s
      <3> QED
        BY <2>2, <3>3, <3>4 DEF Vet
    <2>3. CASE DropStale(u, i)
      <3>1. [handler[u][i] EXCEPT !.stage = "make", !.room = NoChannel] \in Call
        BY <2>0 DEF Call, HandlerAwaits
      <3>2. handler' \in [Users -> [Slots -> Call]]
        BY <2>3, <3>1, StageRoomType DEF DropStale
      <3> QED
        BY <2>3, <3>2 DEF DropStale
    <2>4. CASE Redirect(u, i)
      <3>1. handler[u][i].room \in Channels
        BY <2>4, <2>0 DEF Redirect, At, Call
      <3>2. Dispatch(where[u], handler[u][i].room) \in Call
        BY <3>1, DispatchIsCall DEF Places
      <3> QED
        <4>1. [handler EXCEPT ![u][i] = Idle] \in [Users -> [Slots -> Call]]
          BY ReturnType
        <4>2. [handler EXCEPT ![u][i] = Dispatch(where[u], handler[u][i].room)]
                  \in [Users -> [Slots -> Call]]
          BY <3>2
        <4>3. [where EXCEPT ![u] = handler[u][i].room] \in [Users -> Places]
          BY <3>1 DEF Places
        <4> QED
          BY <2>4, <4>1, <4>2, <4>3 DEF Redirect, Return, Arrives
    <2>5. CASE MakeChannel(u, i)
      <3>1. ASSUME NEW c \in Channels
            PROVE  [handler[u][i] EXCEPT !.stage = "move", !.room = c] \in Call
        BY <2>0 DEF Call, HandlerAwaits
      <3>2. handler' \in [Users -> [Slots -> Call]]
        <4>1. [handler EXCEPT ![u][i] = Idle] \in [Users -> [Slots -> Call]]
          BY ReturnType
        <4>2. ASSUME NEW c \in Channels,
                     handler' = [handler EXCEPT ![u][i].stage = "move", ![u][i].room = c]
              PROVE  handler' \in [Users -> [Slots -> Call]]
          <5>1. [handler EXCEPT ![u][i].stage = "move", ![u][i].room = c]
                    \in [Users -> [Slots -> Call]]
            BY <3>1, StageRoomType
          <5> QED
            BY <4>2, <5>1
        <4>3. \/ handler' = [handler EXCEPT ![u][i] = Idle]
              \/ \E c \in Channels : handler' =
                     [handler EXCEPT ![u][i].stage = "move", ![u][i].room = c]
          BY <2>5 DEF MakeChannel, Return, Fresh
        <4> QED
          BY <4>1, <4>2, <4>3
      <3> QED
        BY <2>5, <3>2 DEF MakeChannel, Fresh, ReleaseKey
    <2>6. CASE MoveIn(u, i)
      <3>1. handler[u][i].room \in Channels
        BY <2>6, <2>0 DEF MoveIn, At, Call
      <3>2. Dispatch(where[u], handler[u][i].room) \in Call
        BY <3>1, DispatchIsCall DEF Places
      <3>3. [handler[u][i] EXCEPT !.stage = "insert"] \in Call
        BY <3>1, <2>0 DEF Call, HandlerAwaits
      <3>4. [handler[u][i] EXCEPT !.stage = "rollback"] \in Call
        BY <3>1, <2>0 DEF Call, HandlerAwaits
      <3> QED
        <4>1. CASE where[u] = Out \/ where[u] = handler[u][i].room
          <5>1. /\ [handler EXCEPT ![u][i].stage = "insert"] \in [Users -> [Slots -> Call]]
                /\ [handler EXCEPT ![u][i].stage = "rollback"] \in [Users -> [Slots -> Call]]
            BY <3>3, <3>4, StageType
          <5> QED
            BY <2>6, <4>1, <5>1 DEF MoveIn, Goto, Arrives
        <4>2. CASE where[u] \notin {Out, handler[u][i].room}
          <5>1. PICK j \in Slots : handler' = [handler EXCEPT
                    ![u][i].stage = "insert",
                    ![u][j] = Dispatch(where[u], handler[u][i].room)]
            BY <2>6, <4>2 DEF MoveIn, Free
          <5>2. [handler EXCEPT ![u][i].stage = "insert"] \in [Users -> [Slots -> Call]]
            BY <3>3, StageType
          <5>3. handler' \in [Users -> [Slots -> Call]]
            BY <5>1, <5>2, <3>2
          <5> QED
            BY <2>6, <4>2, <5>3, <3>1 DEF MoveIn, Places, Arrives
        <4> QED
          BY <4>1, <4>2
    <2>7. CASE InsertRow(u, i)
      BY <2>7, <2>0 DEF InsertRow, Goto, At, Call, HandlerAwaits
    <2>8. CASE TrackOwner(u, i)
      BY <2>8, IdleIsCall DEF TrackOwner, Return, ReleaseKey
    <2>9. CASE RollBack(u, i)
      <3>1. handler[u][i].room \in Channels
        BY <2>9, <2>0 DEF RollBack, At, Call
      <3>2. [handler EXCEPT ![u][i] = Idle] \in [Users -> [Slots -> Call]]
        BY IdleIsCall
      <3>3. handler' \in [Users -> [Slots -> Call]]
        BY <2>9, <3>1, <3>2, EvictedType DEF RollBack
      <3> QED
        BY <2>9, <3>1, <3>3 DEF RollBack, Evict, ReleaseKey, Places
    <2> QED
      BY <1>2, <2>1, <2>2, <2>3, <2>4, <2>5, <2>6, <2>7, <2>8, <2>9 DEF CreateStep
  <1>3. ASSUME NEW u \in Users, NEW i \in Slots, PresenceStep(u, i) PROVE TypeOK'
    <2>0. handler[u][i] \in Call
      OBVIOUS
    <2>1. CASE Leave(u, i)
      <3>1. ThenJoin(handler[u][i]) \in Call
        BY <2>0, ThenJoinIsCall
      <3> QED
        BY <2>1, <2>0, <3>1 DEF Leave, At, Call, HandlerAwaits
    <2>2. CASE Untrack(u, i)
      <3>1. ThenJoin(handler[u][i]) \in Call
        BY <2>0, ThenJoinIsCall
      <3>2. handler[u][i].before \in Channels
        BY <2>2, <2>0 DEF Untrack, At, Call
      <3>3. tracked' \in [Channels -> SUBSET Users]
        BY <2>2 DEF Untrack, MemberRemoved
      <3>4. /\ delReg' \in [Channels -> Timers \cup {NoTimer}]
            /\ delStage' \in [Channels -> [Timers -> {"idle", "sleep"} \cup DeleteAwaits]]
        BY <2>2, <3>2, ScheduleDeleteType DEF Untrack, AfterLeave
      <3>5. /\ ownReg' \in [Channels -> Timers \cup {NoTimer}]
            /\ transfer' \in [Channels -> [Timers -> Transfer]]
        BY <2>2, <3>2, ScheduleTransferType DEF Untrack, AfterLeave
      <3> QED
        BY <2>2, <3>1, <3>3, <3>4, <3>5 DEF Untrack
    <2>3. CASE Join(u, i)
      <3>1. handler[u][i].after \in Channels
        BY <2>3, <2>0 DEF Join, At, Call
      <3>2. /\ ownReg' \in [Channels -> Timers \cup {NoTimer}]
            /\ transfer' \in [Channels -> [Timers -> Transfer]]
        BY <2>3, <3>1, CancelTransferType DEF Join, OwnerReturns
      <3>3. handler' \in [Users -> [Slots -> Call]]
        <4>1. \A s \in {"eject", "add"} : [handler[u][i] EXCEPT !.stage = s] \in Call
          BY <2>0, <3>1 DEF Call, HandlerAwaits
        <4> QED
          <5>1. \A s \in {"eject", "add"} :
                    [handler EXCEPT ![u][i].stage = s] \in [Users -> [Slots -> Call]]
            BY <4>1, StageType
          <5>2. [handler EXCEPT ![u][i] = Idle] \in [Users -> [Slots -> Call]]
            BY ReturnType
          <5> QED
            BY <2>3, <5>1, <5>2 DEF Join, Goto, Return
      <3> QED
        BY <2>3, <3>2, <3>3 DEF Join
    <2>4. CASE Add(u, i)
      <3>1. handler[u][i].after \in Channels
        BY <2>4, <2>0 DEF Add, At, Call
      <3>2. /\ delReg' \in [Channels -> Timers \cup {NoTimer}]
            /\ delStage' \in [Channels -> [Timers -> {"idle", "sleep"} \cup DeleteAwaits]]
        BY <2>4, <3>1, CancelDeleteType DEF Add
      <3> QED
        BY <2>4, <3>1, <3>2, IdleIsCall DEF Add, Return
    <2>5. CASE Eject(u, i)
      <3>1. Dispatch(where[u], Out) \in Call
        BY DispatchIsCall DEF Places
      <3> QED
        BY <2>5, <3>1, IdleIsCall DEF Eject, Places
    <2> QED
      BY <1>3, <2>1, <2>2, <2>3, <2>4, <2>5 DEF PresenceStep
  <1>4. ASSUME NEW u \in Users, NEW i \in Slots, HandlerFault(u, i) PROVE TypeOK'
    <2>0. handler[u][i] \in Call
      OBVIOUS
    <2>1. row' \in [Channels -> Users \cup {NoUser}]
      BY <1>4 DEF HandlerFault
    <2>2. handler' \in [Users -> [Slots -> Call]]
      <3>1. CASE handler' = [handler EXCEPT ![u][i] = Idle]
        BY <3>1, ReturnType
      <3>2. CASE /\ handler[u][i].stage \in {"move", "track", "insert"}
                 /\ handler' = [handler EXCEPT ![u][i].stage = "rollback"]
        <4>1. [handler[u][i] EXCEPT !.stage = "rollback"] \in Call
          BY <2>0, <3>2 DEF Call, HandlerAwaits
        <4> QED
          BY <3>2, <4>1, StageType
      <3> QED
        BY <1>4, <3>1, <3>2 DEF HandlerFault, Goto, Return
    <2>3. creating' \subseteq Users
      BY <1>4 DEF HandlerFault, ReleaseKey
    <2> QED
      BY <1>4, <2>1, <2>2, <2>3 DEF HandlerFault
  <1>5. ASSUME NEW c \in Channels, NEW t \in Timers, DeleteStep(c, t) PROVE TypeOK'
    <2>1. CASE FireDelete(c, t)
      <3>1. /\ ownReg' \in [Channels -> Timers \cup {NoTimer}]
            /\ transfer' \in [Channels -> [Timers -> Transfer]]
        BY <2>1, CancelTransferType DEF FireDelete
      <3> QED
        <4>1. delStage' \in [Channels -> [Timers -> {"idle", "sleep"} \cup DeleteAwaits]]
          <5>1. \A s \in {"idle", "clear"} : [delStage EXCEPT ![c][t] = s]
                    \in [Channels -> [Timers -> {"idle", "sleep"} \cup DeleteAwaits]]
            BY DEF DeleteAwaits
          <5>2. \E s \in {"idle", "clear"} : delStage' = [delStage EXCEPT ![c][t] = s]
            BY <2>1 DEF FireDelete, DeleteEnds
          <5> QED
            BY <5>1, <5>2
        <4>2. delReg' \in [Channels -> Timers \cup {NoTimer}]
          BY <2>1 DEF FireDelete, DeleteEnds
        <4> QED
          BY <2>1, <3>1, <4>1, <4>2 DEF FireDelete
    <2>2. CASE ClearMembers(c, t)
      BY <2>2 DEF ClearMembers, DeleteAwaits
    <2>3. CASE DropRow(c, t)
      BY <2>3 DEF DropRow, DeleteAwaits
    <2>4. CASE CloseChannel(c, t)
      <3>1. handler' \in [Users -> [Slots -> Call]]
        BY <2>4, EvictedType DEF CloseChannel
      <3> QED
        BY <2>4, <3>1 DEF CloseChannel, Evict, DeleteEnds, Places
    <2> QED
      BY <1>5, <2>1, <2>2, <2>3, <2>4 DEF DeleteStep
  <1>6. ASSUME NEW c \in Channels, NEW t \in Timers, DeleteFault(c, t) PROVE TypeOK'
    BY <1>6 DEF DeleteFault, DeleteEnds
  <1>7. ASSUME NEW c \in Channels, NEW t \in Timers, TransferStep(c, t) PROVE TypeOK'
    <2>1. transfer[c][t] \in Transfer
      OBVIOUS
    <2>2. NoTransfer \in Transfer
      BY DEF NoTransfer, Transfer
    <2>3. CASE FireTransfer(c, t)
      <3>1. CASE TransferEnds(c, t)
        BY <2>2, <2>3, <3>1 DEF FireTransfer, TransferEnds
      <3>2. ASSUME NEW heir \in Members(c) \ {transfer[c][t].old},
                   transfer' = [transfer EXCEPT ![c][t].stage = "grant", ![c][t].heir = heir]
            PROVE  transfer' \in [Channels -> [Timers -> Transfer]]
        <4>1. [transfer[c][t] EXCEPT !.stage = "grant", !.heir = heir] \in Transfer
          BY <2>1 DEF Transfer, Members
        <4> QED
          BY <3>2, <4>1
      <3> QED
        BY <2>3, <3>1, <3>2 DEF FireTransfer
    <2>4. CASE GrantOwner(c, t)
      <3>1. row' \in [Channels -> Users \cup {NoUser}]
        BY <2>1, <2>4 DEF GrantOwner, OwnerUpdated, Transfer
      <3> QED
        BY <2>2, <2>4, <3>1 DEF GrantOwner, TransferEnds
    <2> QED
      BY <1>7, <2>3, <2>4 DEF TransferStep
  <1>8. ASSUME Restart PROVE TypeOK'
    BY <1>8, IdleIsCall DEF Restart, NoTransfer, Transfer, Places
  <1>9. CASE UNCHANGED vars
    BY <1>9 DEF vars
  <1>10. ASSUME NEW c \in Channels, BotEnters(c) \/ BotLeaves(c) PROVE TypeOK'
    BY <1>10 DEF BotEnters, BotLeaves
  <1> QED
    BY <1>1, <1>2, <1>3, <1>4, <1>5, <1>6, <1>7, <1>8, <1>9, <1>10 DEF Next

\* The variables keep their types.
THEOREM TypeCorrect == Spec => []TypeOK
  <1>1. Init => TypeOK
    BY TypeInit
  <1>2. TypeOK /\ [Next]_vars => TypeOK'
    BY TypeNext
  <1> QED
    BY <1>1, <1>2, PTL DEF Spec
-----------------------------------------------------------------------------
(* What a step does to the listener calls: the call it belongs to goes on,  *)
(* and calls may begin in free slots; no other call is touched.             *)

Beginnings == {"idle", "enter", "leave", "join"}
Kept(v, j) ==
    \/ handler'[v][j] = handler[v][j]
    \/ handler[v][j].stage = "idle" /\ handler'[v][j].stage \in Beginnings
OthersKept(u, i) ==
    \A v \in Users : \A j \in Slots : Kept(v, j) \/ (v = u /\ j = i)
AllKept == \A v \in Users : \A j \in Slots : Kept(v, j)

LEMMA GotoStage ==
  ASSUME TypeOK, NEW u \in Users, NEW i \in Slots, NEW s, Goto(u, i, s)
  PROVE  handler'[u][i].stage = s
  BY DEF Goto, TypeOK, Call

LEMMA DispatchBegins ==
  ASSUME NEW from, NEW to PROVE Dispatch(from, to).stage \in Beginnings
  BY DEF Dispatch, Start, Idle, Beginnings

LEMMA ThenJoinBegins ==
  ASSUME NEW call \in Call PROVE ThenJoin(call).stage \in Beginnings
  BY DEF ThenJoin, Idle, Beginnings, Call

LEMMA EvictedKept ==
  ASSUME TypeOK, NEW c \in Channels, Evict(c),
         NEW calls \in [Users -> [Slots -> Call]],
         handler' = Evicted(c, calls),
         NEW v \in Users, NEW j \in Slots
  PROVE  \/ handler'[v][j] = calls[v][j]
         \/ handler[v][j].stage = "idle" /\ handler'[v][j].stage \in Beginnings
  <1>1. CASE where[v] # c
    BY <1>1 DEF Evicted
  <1>2. CASE where[v] = c
    <2>1. PICK k \in Free(v) : handler'[v] = [calls[v] EXCEPT ![k] = Dispatch(c, Out)]
      BY <1>2 DEF Evicted, Evict, Members
    <2>2. k \in Slots /\ handler[v][k].stage = "idle"
      BY <2>1 DEF Free, At
    <2> QED
      BY <2>1, <2>2, DispatchBegins
  <1> QED
    BY <1>1, <1>2

LEMMA MoveKept ==
  ASSUME TypeOK, NEW u \in Users, NEW to \in Places, Move(u, to) PROVE AllKept
  <1>1. Free(u) # {}
    BY FS_EmptySet DEF Move
  <1>2. PICK k \in Free(u) : handler' = [handler EXCEPT ![u][k] = Dispatch(where[u], to)]
    BY <1>1 DEF Move
  <1>3. k \in Slots /\ handler[u][k].stage = "idle"
    BY DEF Free, At
  <1> QED
    BY <1>2, <1>3, DispatchBegins DEF AllKept, Kept, TypeOK

LEMMA CreateStepKept ==
  ASSUME TypeOK, NEW u \in Users, NEW i \in Slots, CreateStep(u, i)
  PROVE  OthersKept(u, i)
  <1> USE DEF OthersKept, Kept, TypeOK, At
  <1>1. CASE Enter(u, i)
    BY <1>1 DEF Enter, Goto, Return
  <1>2. CASE Vet(u, i)
    <2>1. CASE Goto(u, i, "make")
      BY <2>1 DEF Goto
    <2>2. CASE \E c \in RoomsOf(u), s \in {"redirect", "stale"} :
                   handler' = [handler EXCEPT ![u][i].stage = s, ![u][i].room = c]
      BY <2>2
    <2> QED
      BY <1>2, <2>1, <2>2 DEF Vet
  <1>3. CASE DropStale(u, i)
    BY <1>3 DEF DropStale
  <1>4. CASE Redirect(u, i)
    BY <1>4 DEF Redirect, Return
  <1>5. CASE MakeChannel(u, i)
    BY <1>5 DEF MakeChannel, Return
  <1>6. CASE MoveIn(u, i)
    <2>1. CASE where[u] \in {Out, handler[u][i].room}
      BY <1>6, <2>1 DEF MoveIn, Goto
    <2>2. CASE where[u] \notin {Out, handler[u][i].room}
      <3>1. PICK k \in Free(u) : handler' = [handler EXCEPT
                ![u][i].stage = "insert",
                ![u][k] = Dispatch(where[u], handler[u][i].room)]
        BY <1>6, <2>2 DEF MoveIn
      <3>2. k \in Slots /\ handler[u][k].stage = "idle"
        BY DEF Free
      <3> QED
        BY <3>1, <3>2, DispatchBegins
    <2> QED
      BY <2>1, <2>2
  <1>7. CASE InsertRow(u, i)
    BY <1>7 DEF InsertRow, Goto
  <1>8. CASE TrackOwner(u, i)
    BY <1>8 DEF TrackOwner, Return
  <1>9. CASE RollBack(u, i)
    <2>1. handler[u][i].room \in Channels
      BY <1>9 DEF RollBack, Call
    <2>2. [handler EXCEPT ![u][i] = Idle] \in [Users -> [Slots -> Call]]
      BY IdleIsCall
    <2> DEFINE calls == [handler EXCEPT ![u][i] = Idle]
    <2>3. ASSUME NEW v \in Users, NEW j \in Slots
          PROVE  \/ handler'[v][j] = calls[v][j]
                 \/ handler[v][j].stage = "idle" /\ handler'[v][j].stage \in Beginnings
      <3>1. handler' = Evicted(handler[u][i].room, calls) /\ Evict(handler[u][i].room)
        BY <1>9 DEF RollBack
      <3> HIDE DEF calls
      <3> QED
        BY <2>1, <2>2, <3>1, EvictedKept DEF calls
    <2> QED
      BY <2>3
  <1> QED
    BY <1>1, <1>2, <1>3, <1>4, <1>5, <1>6, <1>7, <1>8, <1>9 DEF CreateStep

LEMMA PresenceStepKept ==
  ASSUME TypeOK, NEW u \in Users, NEW i \in Slots, PresenceStep(u, i)
  PROVE  OthersKept(u, i)
  BY DEF OthersKept, Kept, TypeOK, PresenceStep, Leave, Untrack, Join, Add, Eject,
         Goto, Return

LEMMA FaultKept ==
  ASSUME TypeOK, NEW u \in Users, NEW i \in Slots, HandlerFault(u, i)
  PROVE  OthersKept(u, i)
  BY DEF OthersKept, Kept, TypeOK, HandlerFault, Goto, Return

LEMMA DeleteStepKept ==
  ASSUME TypeOK, NEW c \in Channels, NEW t \in Timers, DeleteStep(c, t)
  PROVE  AllKept
  <1>1. CASE CloseChannel(c, t)
    BY <1>1, EvictedKept DEF CloseChannel, AllKept, Kept, TypeOK
  <1> QED
    BY <1>1 DEF DeleteStep, FireDelete, ClearMembers, DropRow, AllKept, Kept

-----------------------------------------------------------------------------
(* Where the call a step belongs to is afterwards.                          *)

LEMMA TriggerStepEnds ==
  ASSUME TypeOK, NEW u \in Users, NEW i \in Slots,
         Enter(u, i) \/ Vet(u, i) \/ Redirect(u, i) \/ TrackOwner(u, i)
  PROVE  ~Building(u, i)' /\ ~At(u, i, "untrack")'
  <1>1. CASE Enter(u, i)
    BY <1>1 DEF Enter, Goto, Return, Building, At, Idle, TypeOK, Call
  <1>2. CASE Vet(u, i)
    <2>1. CASE Goto(u, i, "make")
      BY <2>1, GotoStage DEF Building, At
    <2>2. CASE \E c \in RoomsOf(u), s \in {"redirect", "stale"} :
                   handler' = [handler EXCEPT ![u][i].stage = s, ![u][i].room = c]
      BY <2>2 DEF Building, At, TypeOK, Call
    <2> QED
      BY <1>2, <2>1, <2>2 DEF Vet
  <1>3. CASE Redirect(u, i)
    <2>1. handler'[u][i] \in {Idle, Dispatch(where[u], handler[u][i].room)}
      BY <1>3 DEF Redirect, Return, TypeOK
    <2>2. handler'[u][i].stage \in Beginnings
      BY <2>1, DispatchBegins DEF Idle, Beginnings
    <2> QED
      BY <2>2 DEF Building, At, Beginnings
  <1>4. CASE TrackOwner(u, i)
    BY <1>4 DEF TrackOwner, Return, Building, At, Idle, TypeOK
  <1> QED
    BY <1>1, <1>2, <1>3, <1>4

LEMMA MoveInGoesOn ==
  ASSUME TypeOK, NEW u \in Users, NEW i \in Slots, MoveIn(u, i)
  PROVE  /\ handler'[u][i].stage \in {"insert", "rollback"}
         /\ handler'[u][i].room = handler[u][i].room
  <1>1. CASE where[u] \in {Out, handler[u][i].room}
    <2>1. PICK s \in {"insert", "rollback"} : Goto(u, i, s)
      BY <1>1 DEF MoveIn
    <2>2. handler'[u][i] = [handler[u][i] EXCEPT !.stage = s]
      BY <2>1 DEF Goto, TypeOK
    <2> QED
      BY <2>2 DEF TypeOK, Call
  <1>2. CASE where[u] \notin {Out, handler[u][i].room}
    <2>1. PICK k \in Free(u) : handler' = [handler EXCEPT
              ![u][i].stage = "insert",
              ![u][k] = Dispatch(where[u], handler[u][i].room)]
      BY <1>2 DEF MoveIn
    <2>2. k \in Slots /\ k # i
      BY DEF Free, MoveIn, At
    <2>3. handler'[u][i] = [handler[u][i] EXCEPT !.stage = "insert"]
      BY <2>1, <2>2 DEF TypeOK
    <2> QED
      BY <2>3 DEF TypeOK, Call
  <1> QED
    BY <1>1, <1>2

LEMMA PresenceStepEnds ==
  ASSUME TypeOK, NEW u \in Users, NEW i \in Slots, PresenceStep(u, i)
  PROVE  /\ ~Building(u, i)'
         /\ At(u, i, "untrack")' => Live(handler'[u][i].before)
  <1>0. handler[u][i] \in Call
    BY DEF TypeOK
  <1>1. CASE Leave(u, i)
    <2>1. CASE Live(handler[u][i].before)
      <3>1. handler'[u][i] = [handler[u][i] EXCEPT !.stage = "untrack",
                 !.owned = (row[handler[u][i].before] = u)]
        BY <1>1, <2>1 DEF Leave, TypeOK
      <3>2. handler'[u][i].stage = "untrack" /\ handler'[u][i].before = handler[u][i].before
        BY <1>0, <3>1 DEF Call
      <3> QED
        BY <2>1, <3>2 DEF Building
    <2>2. CASE ~Live(handler[u][i].before)
      <3>1. handler'[u][i] = ThenJoin(handler[u][i])
        BY <1>1, <2>2 DEF Leave, TypeOK
      <3>2. handler'[u][i].stage \in Beginnings
        BY <1>0, <3>1, ThenJoinBegins
      <3> QED
        BY <3>2 DEF Building, At, Beginnings
    <2> QED
      BY <2>1, <2>2
  <1>2. CASE Untrack(u, i)
    <2>1. handler'[u][i] = ThenJoin(handler[u][i])
      BY <1>2 DEF Untrack, TypeOK
    <2>2. handler'[u][i].stage \in Beginnings
      BY <1>0, <2>1, ThenJoinBegins
    <2> QED
      BY <2>2 DEF Building, At, Beginnings
  <1>3. CASE Join(u, i) \/ Add(u, i)
    BY <1>3, GotoStage DEF Join, Add, Return, Building, At, Idle, TypeOK
  <1>4. CASE Eject(u, i)
    <2>1. handler'[u][i] \in {Idle, Dispatch(where[u], Out)}
      BY <1>4 DEF Eject, TypeOK
    <2>2. handler'[u][i].stage \in Beginnings
      BY <2>1, DispatchBegins DEF Idle, Beginnings
    <2> QED
      BY <2>2 DEF Building, At, Beginnings
  <1> QED
    BY <1>1, <1>2, <1>3, <1>4 DEF PresenceStep

-----------------------------------------------------------------------------
(* The key of a creation.                                                   *)

Holds(u, i) == handler[u][i].stage \in {"make", "move", "insert", "track", "rollback"}

LEMMA KeyKept ==
  ASSUME CreatingIsHeld, creating' = creating,
         \A v \in Users : \A j \in Slots : Holds(v, j) => Holds(v, j)',
         creating \subseteq Users
  PROVE  CreatingIsHeld'
  BY DEF CreatingIsHeld, Holds

LEMMA KeyTaken ==
  ASSUME CreatingIsHeld, creating \subseteq Users,
         NEW u \in Users, NEW i \in Slots, creating' = creating \cup {u}, Holds(u, i)',
         \A v \in Users : \A j \in Slots : v # u /\ Holds(v, j) => Holds(v, j)'
  PROVE  CreatingIsHeld'
  BY DEF CreatingIsHeld, Holds

LEMMA KeyReleased ==
  ASSUME CreatingIsHeld, creating \subseteq Users,
         NEW u \in Users, creating' = creating \ {u},
         \A v \in Users : \A j \in Slots : v # u /\ Holds(v, j) => Holds(v, j)'
  PROVE  CreatingIsHeld'
  BY DEF CreatingIsHeld, Holds

LEMMA CreatingNext ==
  ASSUME TypeOK, CreatingIsHeld, [Next]_vars PROVE CreatingIsHeld'
  <1>0. creating \subseteq Users
    BY DEF TypeOK
  <1>a. ASSUME AllKept, creating' = creating PROVE CreatingIsHeld'
    BY <1>0, <1>a, KeyKept DEF AllKept, Kept, Holds
  <1>1. ASSUME NEW u \in Users, NEW to \in Places, Move(u, to) PROVE CreatingIsHeld'
    BY <1>1, <1>a, MoveKept DEF Move
  <1>2. ASSUME NEW u \in Users, NEW i \in Slots, CreateStep(u, i) PROVE CreatingIsHeld'
    <2>0. \A v \in Users : \A j \in Slots : Holds(v, j) /\ (v # u \/ j # i) => Holds(v, j)'
      BY <1>2, CreateStepKept DEF OthersKept, Kept, Holds
    <2> USE DEF Holds, At
    <2>1. CASE Enter(u, i) \/ Redirect(u, i)
      BY <2>0, <2>1, <1>0, KeyKept DEF Enter, Redirect
    <2>2. CASE Vet(u, i)
      <3>1. CASE UNCHANGED creating
        BY <2>0, <2>2, <3>1, <1>0, KeyKept DEF Vet
      <3>2. CASE creating' = creating \cup {u} /\ Goto(u, i, "make")
        BY <2>0, <3>2, <1>0, KeyTaken DEF Goto, TypeOK
      <3> QED
        BY <2>2, <3>1, <3>2 DEF Vet
    <2>3. CASE DropStale(u, i)
      BY <2>0, <2>3, <1>0, KeyTaken DEF DropStale, TypeOK
    <2>4. CASE MakeChannel(u, i)
      <3>1. CASE UNCHANGED creating /\ handler'[u][i].stage = "move"
        BY <2>0, <3>1, <1>0, KeyKept
      <3>2. CASE ReleaseKey(u)
        BY <2>0, <3>2, <1>0, KeyReleased DEF ReleaseKey
      <3>3. ASSUME NEW c, handler' = [handler EXCEPT ![u][i].stage = "move", ![u][i].room = c]
            PROVE  handler'[u][i].stage = "move"
        BY <3>3 DEF TypeOK, Call
      <3> QED
        BY <2>4, <3>1, <3>2, <3>3 DEF MakeChannel
    <2>5. CASE MoveIn(u, i)
      <3>1. handler'[u][i].stage \in {"insert", "rollback"}
        <4>1. CASE where[u] \in {Out, handler[u][i].room}
          BY <2>5, <4>1, GotoStage DEF MoveIn
        <4>2. CASE where[u] \notin {Out, handler[u][i].room}
          <5>1. PICK k \in Free(u) : handler' = [handler EXCEPT
                    ![u][i].stage = "insert",
                    ![u][k] = Dispatch(where[u], handler[u][i].room)]
            BY <2>5, <4>2 DEF MoveIn
          <5>2. k \in Slots /\ k # i
            BY <2>5 DEF Free, MoveIn
          <5>3. handler'[u][i] = [handler[u][i] EXCEPT !.stage = "insert"]
            BY <5>1, <5>2 DEF TypeOK
          <5> QED
            BY <5>3 DEF TypeOK, Call
        <4> QED
          BY <4>1, <4>2
      <3> QED
        BY <2>0, <2>5, <3>1, <1>0, KeyKept DEF MoveIn
    <2>6. CASE InsertRow(u, i)
      BY <2>0, <2>6, <1>0, KeyKept DEF InsertRow, Goto, TypeOK
    <2>7. CASE TrackOwner(u, i) \/ RollBack(u, i)
      BY <2>0, <2>7, <1>0, KeyReleased DEF TrackOwner, RollBack, ReleaseKey
    <2> QED
      BY <1>2, <2>1, <2>2, <2>3, <2>4, <2>5, <2>6, <2>7 DEF CreateStep
  <1>3. ASSUME NEW u \in Users, NEW i \in Slots, PresenceStep(u, i) PROVE CreatingIsHeld'
    <2>1. \A v \in Users : \A j \in Slots : Holds(v, j) => Holds(v, j)'
      <3>1. ~Holds(u, i)
        BY <1>3 DEF Holds, PresenceStep, At, Leave, Untrack, Join, Add, Eject
      <3>2. OthersKept(u, i)
        BY <1>3, PresenceStepKept
      <3> QED
        BY <3>1, <3>2 DEF OthersKept, Kept, Holds
    <2> QED
      BY <1>3, <2>1, <1>0, KeyKept DEF PresenceStep, Leave, Untrack, Join, Add, Eject
  <1>4. ASSUME NEW u \in Users, NEW i \in Slots, HandlerFault(u, i) PROVE CreatingIsHeld'
    <2>1. \A v \in Users : \A j \in Slots : Holds(v, j) /\ (v # u \/ j # i) => Holds(v, j)'
      BY <1>4, FaultKept DEF OthersKept, Kept, Holds
    <2>2. CASE ReleaseKey(u)
      BY <2>1, <2>2, <1>0, KeyReleased DEF ReleaseKey
    <2>3. CASE UNCHANGED creating /\ Goto(u, i, "rollback")
      BY <2>1, <2>3, <1>0, KeyKept DEF Goto, Holds, TypeOK
    <2>4. CASE UNCHANGED creating /\ ~Holds(u, i)
      BY <2>1, <2>4, <1>0, KeyKept
    <2> QED
      BY <1>4, <2>2, <2>3, <2>4 DEF HandlerFault, Holds
  <1>5. ASSUME NEW c \in Channels, NEW t \in Timers, DeleteStep(c, t) PROVE CreatingIsHeld'
    BY <1>5, <1>a, DeleteStepKept
       DEF DeleteStep, FireDelete, ClearMembers, DropRow, CloseChannel
  <1>6. ASSUME NEW c \in Channels, NEW t \in Timers,
               DeleteFault(c, t) \/ TransferStep(c, t)
        PROVE  CreatingIsHeld'
    BY <1>6 DEF CreatingIsHeld, DeleteFault, TransferStep, FireTransfer, GrantOwner
  <1>7. CASE Restart
    BY <1>7 DEF Restart, CreatingIsHeld
  <1>8. CASE UNCHANGED vars
    BY <1>8 DEF vars, CreatingIsHeld
  <1>9. ASSUME NEW c \in Channels, BotEnters(c) \/ BotLeaves(c) PROVE CreatingIsHeld'
    BY <1>9 DEF BotEnters, BotLeaves, CreatingIsHeld
  <1> QED
    BY <1>1, <1>2, <1>3, <1>4, <1>5, <1>6, <1>7, <1>8, <1>9 DEF Next

\* The key that keeps a user from creating two rooms is held by a call that is
\* still creating one: every path out of create gives it back.
THEOREM CreatingCorrect == Spec => []CreatingIsHeld
  <1>1. Init => TypeOK /\ CreatingIsHeld
    BY TypeInit DEF Init, CreatingIsHeld
  <1>2. TypeOK /\ CreatingIsHeld /\ [Next]_vars => (TypeOK /\ CreatingIsHeld)'
    BY TypeNext, CreatingNext
  <1> QED
    BY <1>1, <1>2, PTL DEF Spec

-----------------------------------------------------------------------------
(* Rows have channels.  The writes of create are assumed not to fail: the   *)
(* row of a failed creation is left behind when its channel is removed.     *)

\* A step that founds no room: no row appears, no call starts to build; a
\* channel that goes has no row and nobody building it.
RowFrame ==
    /\ created' = created
    /\ open' \subseteq open
    /\ \A c \in Channels : Live(c)' => Live(c)
    /\ \A c \in Channels : Scheduled(c)' => Scheduled(c) \/ BeingLeft(c)
    /\ \A c \in Channels : BeingLeft(c)' => BeingLeft(c) \/ Live(c)
    /\ \A u \in Users : \A i \in Slots : Building(u, i)' =>
           /\ Building(u, i)
           /\ handler'[u][i].room = handler[u][i].room
           /\ handler[u][i].room \in open'
    /\ \A c \in Channels : Live(c)' /\ c \in open => c \in open'
    /\ \A c \in Channels : \A t \in Timers :
           delStage'[c][t] = "close" => delStage[c][t] = "close" \/ ~Live(c)'

LEMMA BuildingRoom ==
  ASSUME RowInv, NEW u \in Users, NEW i \in Slots, Building(u, i)
  PROVE  /\ handler[u][i].room \in Channels
         /\ handler[u][i].room \in open
  BY DEF RowInv, TypeOK, Call, Building, BuiltUnseen

LEMMA RowFrameKeeps ==
  ASSUME RowInv, TypeOK', RowFrame PROVE RowInv'
  <1>1. RowHasChannel'
    BY DEF RowInv, RowFrame, RowHasChannel
  <1>2. BuiltUnseen'
    <2> SUFFICES ASSUME NEW u \in Users, NEW i \in Slots, NEW c \in Channels,
                        Building(u, i)', handler'[u][i].room = c
                 PROVE  c \in open' /\ ~Live(c)' /\ ~Scheduled(c)' /\ ~BeingLeft(c)'
      BY DEF BuiltUnseen
    <2>1. Building(u, i) /\ handler[u][i].room = c /\ c \in open'
      BY DEF RowFrame
    <2>2. c \in open /\ ~Live(c) /\ ~Scheduled(c) /\ ~BeingLeft(c)
      BY <2>1 DEF RowInv, BuiltUnseen
    <2> QED
      BY <2>1, <2>2 DEF RowFrame
  <1>3. BuiltByOne'
    BY DEF RowInv, RowFrame, BuiltByOne
  <1>4. SeenIsCreated'
    <2> SUFFICES ASSUME NEW c \in Channels, Scheduled(c)' \/ BeingLeft(c)'
                 PROVE  c \in created'
      BY DEF SeenIsCreated
    <2>1. Scheduled(c) \/ BeingLeft(c) \/ Live(c)
      BY DEF RowFrame
    <2> QED
      BY <2>1 DEF RowInv, RowFrame, SeenIsCreated, RowHasChannel, TypeOK
  <1>5. ClosedIsDropped'
    BY DEF RowInv, RowFrame, ClosedIsDropped
  <1> QED
    BY <1>1, <1>2, <1>3, <1>4, <1>5 DEF RowInv

\* A step that leaves rows, channels and deletes alone is one when its call
\* starts neither to build nor to leave a room without a row.
LEMMA CallFrame ==
  ASSUME UNCHANGED <<open, created, row, delStage>>,
         NEW u \in Users, NEW i \in Slots, OthersKept(u, i),
         Building(u, i)' => /\ Building(u, i)
                            /\ handler'[u][i].room = handler[u][i].room,
         At(u, i, "untrack")' => Live(handler'[u][i].before),
         RowInv
  PROVE  RowFrame
  <1>1. \A v \in Users : \A j \in Slots : Building(v, j)' =>
            Building(v, j) /\ handler'[v][j].room = handler[v][j].room
    BY DEF OthersKept, Kept, Building, Beginnings
  <1>2. \A v \in Users : \A j \in Slots : Building(v, j)' => handler[v][j].room \in open'
    BY <1>1, BuildingRoom
  <1>3. \A c \in Channels : BeingLeft(c)' => BeingLeft(c) \/ Live(c)
    BY DEF OthersKept, Kept, BeingLeft, At, Beginnings
  <1> QED
    BY <1>1, <1>2, <1>3 DEF RowFrame, Live, Scheduled

\* So is a step that leaves rows and channels alone, starts no call but the
\* listener's first steps, and schedules only the deletion of a room being left.
LEMMA DeleteFrame ==
  ASSUME created' = created, open' = open, row' = row, AllKept, RowInv,
         \A c \in Channels : Scheduled(c)' => Scheduled(c),
         \A c \in Channels : \A t \in Timers :
             delStage'[c][t] = "close" => delStage[c][t] = "close"
  PROVE  RowFrame
  <1>1. \A v \in Users : \A j \in Slots : Building(v, j)' =>
            Building(v, j) /\ handler'[v][j].room = handler[v][j].room
    BY DEF AllKept, Kept, Building, Beginnings
  <1>2. \A v \in Users : \A j \in Slots : Building(v, j)' => handler[v][j].room \in open'
    BY <1>1, BuildingRoom
  <1>3. \A c \in Channels : BeingLeft(c)' => BeingLeft(c)
    BY DEF AllKept, Kept, BeingLeft, At, Beginnings
  <1> QED
    BY <1>1, <1>2, <1>3 DEF RowFrame, Live

LEMMA MakeKeeps ==
  ASSUME RowInv, TypeOK', NEW u \in Users, NEW i \in Slots, MakeChannel(u, i)
  PROVE  RowInv'
  <1>0. OthersKept(u, i)
    BY CreateStepKept DEF CreateStep, RowInv
  <1>1. ASSUME NEW c \in Fresh, open' = open \cup {c}, created' = created \cup {c},
               handler' = [handler EXCEPT ![u][i].stage = "move", ![u][i].room = c]
        PROVE  RowInv'
    <2>1. c \in Channels /\ c \notin created /\ c \notin open
      BY <1>1 DEF Fresh, RowInv, TypeOK
    <2>2. ~Live(c) /\ ~Scheduled(c) /\ ~BeingLeft(c)
      BY <2>1 DEF RowInv, RowHasChannel, SeenIsCreated
    <2>3. \A v \in Users : \A j \in Slots : Building(v, j) => handler[v][j].room # c
      BY <2>1 DEF RowInv, BuiltUnseen
    <2>4. handler'[u][i].stage = "move" /\ handler'[u][i].room = c
      BY <1>1 DEF RowInv, TypeOK, Call
    <2>5. UNCHANGED <<row, delStage>>
      BY DEF MakeChannel, database, deletes
    <2>6. \A v \in Users : \A j \in Slots :
              \/ v = u /\ j = i
              \/ handler'[v][j] = handler[v][j]
      BY <1>1 DEF RowInv, TypeOK
    <2>7. \A d \in Channels : BeingLeft(d)' => BeingLeft(d)
      BY <2>4, <2>6 DEF BeingLeft, At
    <2>8. \A d \in Channels : (Live(d)' <=> Live(d)) /\ (Scheduled(d)' <=> Scheduled(d))
      BY <2>5 DEF Live, Scheduled
    <2>9. RowHasChannel'
      BY <1>1, <2>8 DEF RowInv, RowHasChannel
    <2>10. BuiltUnseen'
      <3> SUFFICES ASSUME NEW v \in Users, NEW j \in Slots, NEW d \in Channels,
                          Building(v, j)', handler'[v][j].room = d
                   PROVE  d \in open' /\ ~Live(d)' /\ ~Scheduled(d)' /\ ~BeingLeft(d)'
        BY DEF BuiltUnseen
      <3>1. CASE v = u /\ j = i
        BY <1>1, <2>2, <2>4, <2>7, <2>8, <3>1
      <3>2. CASE ~(v = u /\ j = i)
        <4>1. handler'[v][j] = handler[v][j] /\ Building(v, j)
          BY <2>6, <3>2 DEF Building
        <4>2. d \in open /\ ~Live(d) /\ ~Scheduled(d) /\ ~BeingLeft(d)
          BY <4>1 DEF RowInv, BuiltUnseen
        <4> QED
          BY <1>1, <2>7, <2>8, <4>2
      <3> QED
        BY <3>1, <3>2
    <2>11. BuiltByOne'
      BY <2>3, <2>4, <2>6 DEF RowInv, BuiltByOne, Building
    <2>12. SeenIsCreated'
      BY <1>1, <2>7, <2>8 DEF RowInv, SeenIsCreated
    <2>13. ClosedIsDropped'
      BY <2>5 DEF RowInv, ClosedIsDropped, Live
    <2> QED
      BY <2>9, <2>10, <2>11, <2>12, <2>13 DEF RowInv
  <1>2. CASE Return(u, i) /\ UNCHANGED <<open, created>>
    <2>1. ~Building(u, i)' /\ ~At(u, i, "untrack")'
      BY <1>2 DEF Return, Building, At, Idle, RowInv, TypeOK
    <2> QED
      BY <1>0, <1>2, <2>1, CallFrame, RowFrameKeeps
         DEF MakeChannel, database, deletes, RowInv
  <1> QED
    BY <1>1, <1>2 DEF MakeChannel

LEMMA InsertKeeps ==
  ASSUME RowInv, TypeOK', NEW u \in Users, NEW i \in Slots, InsertRow(u, i)
  PROVE  RowInv'
  <1> DEFINE c == handler[u][i].room
  <1>1. /\ Building(u, i)
        /\ row' = [row EXCEPT ![c] = u]
        /\ UNCHANGED <<open, created, delStage>>
    BY DEF InsertRow, At, Building, discord, deletes
  <1>2. c \in open /\ c \in Channels /\ ~Scheduled(c)
    BY <1>1 DEF RowInv, BuiltUnseen, TypeOK
  <1>3. handler'[u][i].stage = "track"
    BY GotoStage DEF InsertRow, RowInv
  <1>4. \A v \in Users : \A j \in Slots :
            \/ v = u /\ j = i
            \/ handler'[v][j] = handler[v][j]
    BY DEF InsertRow, Goto, RowInv, TypeOK
  <1> HIDE DEF c
  <1>5. \A d \in Channels : Live(d)' => Live(d) \/ d = c
    BY <1>1, <1>2 DEF Live, RowInv, TypeOK
  <1>6. \A d \in Channels : BeingLeft(d)' => BeingLeft(d)
    BY <1>3, <1>4 DEF BeingLeft, At
  <1>7. RowHasChannel'
    BY <1>1, <1>2, <1>5 DEF RowInv, RowHasChannel
  <1>8. \A v \in Users : \A j \in Slots :
            Building(v, j)' => Building(v, j) /\ handler'[v][j] = handler[v][j] /\ handler[v][j].room # c
    BY <1>1, <1>3, <1>4 DEF Building, RowInv, BuiltByOne, c
  <1>9. BuiltUnseen'
    <2> SUFFICES ASSUME NEW v \in Users, NEW j \in Slots, NEW d \in Channels,
                        Building(v, j)', handler'[v][j].room = d
                 PROVE  d \in open' /\ ~Live(d)' /\ ~Scheduled(d)' /\ ~BeingLeft(d)'
      BY DEF BuiltUnseen
    <2>1. Building(v, j) /\ handler[v][j].room = d /\ d # c
      BY <1>8
    <2>2. d \in open /\ ~Live(d) /\ ~Scheduled(d) /\ ~BeingLeft(d)
      BY <2>1 DEF RowInv, BuiltUnseen
    <2> QED
      BY <1>1, <1>5, <1>6, <2>1, <2>2 DEF Scheduled
  <1>10. BuiltByOne'
    BY <1>8 DEF RowInv, BuiltByOne
  <1>11. SeenIsCreated'
    BY <1>1, <1>6 DEF RowInv, SeenIsCreated, Scheduled
  <1>12. ClosedIsDropped'
    BY <1>1, <1>2, <1>5 DEF RowInv, ClosedIsDropped, Scheduled
  <1> QED
    BY <1>7, <1>9, <1>10, <1>11, <1>12 DEF RowInv

LEMMA RollBackFrame ==
  ASSUME RowInv, NEW u \in Users, NEW i \in Slots, RollBack(u, i)
  PROVE  RowFrame
  <1> DEFINE c == handler[u][i].room
             calls == [handler EXCEPT ![u][i] = Idle]
  <1>1. /\ Building(u, i)
        /\ handler' = Evicted(c, calls) /\ Evict(c)
        /\ open' = open \ {c}
        /\ UNCHANGED <<created, row, delStage>>
    BY DEF RollBack, At, Building, database, deletes
  <1>2. c \in Channels /\ ~Live(c)
    BY <1>1, BuildingRoom DEF RowInv, BuiltUnseen
  <1>3. calls \in [Users -> [Slots -> Call]] /\ calls[u][i].stage = "idle"
    BY IdleIsCall DEF RowInv, TypeOK, Idle
  <1>4. \A v \in Users : \A j \in Slots :
            \/ v = u /\ j = i
            \/ calls[v][j] = handler[v][j]
    BY DEF RowInv, TypeOK
  <1> HIDE DEF c, calls
  <1>5. \A v \in Users : \A j \in Slots :
            \/ v # u \/ j # i
            \/ handler'[v][j].stage \in Beginnings
    BY <1>1, <1>2, <1>3, EvictedKept DEF RowInv, Beginnings
  <1>6. \A v \in Users : \A j \in Slots :
            \/ v = u /\ j = i
            \/ Kept(v, j)
    BY <1>1, <1>2, <1>3, <1>4, EvictedKept DEF RowInv, Kept
  <1>7. \A v \in Users : \A j \in Slots : Building(v, j)' =>
            Building(v, j) /\ handler'[v][j].room = handler[v][j].room
                /\ (v # u \/ j # i)
    BY <1>5, <1>6 DEF Building, Kept, Beginnings
  <1>8. \A v \in Users : \A j \in Slots : Building(v, j)' => handler[v][j].room \in open'
    BY <1>1, <1>7, BuildingRoom DEF RowInv, BuiltByOne, c
  <1>9. \A d \in Channels : BeingLeft(d)' => BeingLeft(d)
    BY <1>5, <1>6 DEF BeingLeft, At, Kept, Beginnings
  <1>10. \A d \in Channels : Live(d)' /\ d \in open => d \in open'
    BY <1>1, <1>2 DEF Live
  <1> QED
    BY <1>1, <1>7, <1>8, <1>9, <1>10 DEF RowFrame, Live, Scheduled

LEMMA CloseFrame ==
  ASSUME RowInv, NEW c \in Channels, NEW t \in Timers, CloseChannel(c, t)
  PROVE  RowFrame
  <1>1. /\ AllKept
        /\ open' = open \ {c}
        /\ UNCHANGED <<created, row>>
        /\ delStage' = [delStage EXCEPT ![c][t] = "idle"]
        /\ delStage[c][t] = "close"
    BY DeleteStepKept DEF DeleteStep, CloseChannel, DeleteEnds, database, RowInv
  <1>2. ~Live(c) /\ Scheduled(c)
    BY <1>1 DEF RowInv, ClosedIsDropped, Scheduled
  <1>3. \A v \in Users : \A j \in Slots : Building(v, j)' =>
            /\ Building(v, j)
            /\ handler'[v][j].room = handler[v][j].room
    BY <1>1 DEF AllKept, Kept, Building, Beginnings
  <1>4. \A v \in Users : \A j \in Slots : Building(v, j) => handler[v][j].room \in open'
    BY <1>1, <1>2, BuildingRoom DEF RowInv, BuiltUnseen
  <1>5. \A d \in Channels : BeingLeft(d)' => BeingLeft(d)
    BY <1>1 DEF BeingLeft, At, AllKept, Kept, Beginnings
  <1>6. \A d \in Channels : \A x \in Timers :
            delStage'[d][x] = delStage[d][x] \/ delStage'[d][x] = "idle"
    BY <1>1 DEF RowInv, TypeOK
  <1>7. \A d \in Channels : Scheduled(d)' => Scheduled(d)
    BY <1>6 DEF Scheduled
  <1> QED
    BY <1>1, <1>2, <1>3, <1>4, <1>5, <1>6, <1>7 DEF RowFrame, Live

LEMMA RowNext ==
  ASSUME FaultPoints \cap {"insert", "track"} = {}, RowInv, [Next]_vars
  PROVE  RowInv'
  <1>0. TypeOK /\ TypeOK'
    BY TypeNext DEF RowInv
  <1> USE DEF discord, database, deletes, handovers
  <1>1. ASSUME NEW u \in Users, NEW to \in Places, Move(u, to) PROVE RowInv'
    BY <1>0, <1>1, MoveKept, DeleteFrame, RowFrameKeeps DEF Move, Scheduled
  <1>2. ASSUME NEW u \in Users, NEW i \in Slots, CreateStep(u, i) PROVE RowInv'
    <2>0. OthersKept(u, i)
      BY <1>0, <1>2, CreateStepKept
    <2>1. CASE Enter(u, i) \/ Vet(u, i) \/ Redirect(u, i) \/ TrackOwner(u, i)
      <3>1. ~Building(u, i)' /\ ~At(u, i, "untrack")'
        BY <1>0, <2>1, TriggerStepEnds
      <3>2. UNCHANGED <<open, created, row, delStage>>
        BY <2>1 DEF Enter, Vet, Redirect, TrackOwner
      <3> QED
        BY <1>0, <2>0, <3>1, <3>2, CallFrame, RowFrameKeeps
    <2>2. CASE DropStale(u, i)
      <3>1. ~Building(u, i)' /\ ~At(u, i, "untrack")'
        BY <1>0, <2>2 DEF DropStale, Building, At, TypeOK, Call
      <3>2. \A c \in Channels : Live(c)' => Live(c)
        BY <1>0, <2>2 DEF DropStale, Live, TypeOK
      <3>3. UNCHANGED <<open, created, delStage>>
        BY <2>2 DEF DropStale
      <3>4. \A v \in Users : \A j \in Slots : Building(v, j)' =>
                Building(v, j) /\ handler'[v][j].room = handler[v][j].room
        BY <2>0, <3>1 DEF OthersKept, Kept, Building, Beginnings
      <3>5. \A v \in Users : \A j \in Slots : Building(v, j)' => handler[v][j].room \in open'
        BY <3>3, <3>4, BuildingRoom
      <3>6. \A c \in Channels : BeingLeft(c)' => BeingLeft(c)
        BY <2>0, <3>1 DEF OthersKept, Kept, BeingLeft, At, Beginnings
      <3>7. RowFrame
        BY <3>2, <3>3, <3>4, <3>5, <3>6 DEF RowFrame, Scheduled
      <3> QED
        BY <1>0, <3>7, RowFrameKeeps
    <2>3. CASE MakeChannel(u, i)
      BY <1>0, <2>3, MakeKeeps
    <2>4. CASE MoveIn(u, i)
      <3>1. /\ handler'[u][i].stage \in {"insert", "rollback"}
            /\ handler'[u][i].room = handler[u][i].room
        BY <1>0, <2>4, MoveInGoesOn
      <3>2. Building(u, i) /\ ~At(u, i, "untrack")'
        BY <2>4, <3>1 DEF MoveIn, Building, At
      <3>3. UNCHANGED <<open, created, row, delStage>>
        BY <2>4 DEF MoveIn
      <3> QED
        BY <1>0, <2>0, <3>1, <3>2, <3>3, CallFrame, RowFrameKeeps
    <2>5. CASE InsertRow(u, i)
      BY <1>0, <2>5, InsertKeeps
    <2>6. CASE RollBack(u, i)
      BY <1>0, <2>6, RollBackFrame, RowFrameKeeps
    <2> QED
      BY <1>2, <2>1, <2>2, <2>3, <2>4, <2>5, <2>6 DEF CreateStep
  <1>3. ASSUME NEW u \in Users, NEW i \in Slots, PresenceStep(u, i) PROVE RowInv'
    <2>0. OthersKept(u, i)
      BY <1>0, <1>3, PresenceStepKept
    <2>1. ~Building(u, i)'
      BY <1>0, <1>3, PresenceStepEnds
    <2>2. At(u, i, "untrack")' => Live(handler'[u][i].before)
      BY <1>0, <1>3, PresenceStepEnds
    <2>3. CASE ~Untrack(u, i) /\ ~Add(u, i)
      BY <1>0, <1>3, <2>0, <2>1, <2>2, <2>3, CallFrame, RowFrameKeeps
         DEF PresenceStep, Leave, Join, Eject
    <2>4. CASE Untrack(u, i) \/ Add(u, i)
      <3>1. UNCHANGED <<open, created, row>>
        BY <2>4 DEF Untrack, Add
      <3>2. \A c \in Channels : \A t \in Timers :
                delStage'[c][t] \in {delStage[c][t], "idle", "sleep"}
        <4>1. CASE Add(u, i)
          BY <1>0, <4>1 DEF Add, CancelDelete, TypeOK
        <4>2. CASE Untrack(u, i)
          <5>1. UNCHANGED delStage \/ ScheduleDelete(handler[u][i].before)
            BY <4>2 DEF Untrack, AfterLeave
          <5>2. delStage \in [Channels -> [Timers -> {"idle", "sleep"} \cup DeleteAwaits]]
            BY <1>0 DEF TypeOK
          <5> DEFINE d == handler[u][i].before
          <5>3. ASSUME NEW y \in Timers,
                       delStage' = [delStage EXCEPT ![d] =
                           [x \in Timers |-> IF x = y THEN "sleep"
                                             ELSE IF x = delReg[d] THEN "idle" ELSE @[x]]]
                PROVE  \A c \in Channels : \A t \in Timers :
                           delStage'[c][t] \in {delStage[c][t], "idle", "sleep"}
            <6> HIDE DEF d
            <6> QED
              BY <5>2, <5>3
          <5> QED
            BY <5>1, <5>3 DEF ScheduleDelete
        <4> QED
          BY <2>4, <4>1, <4>2
      <3>3. \A c \in Channels : Scheduled(c)' => Scheduled(c) \/ BeingLeft(c)
        <4> SUFFICES ASSUME NEW c \in Channels, Scheduled(c)', ~BeingLeft(c)
                     PROVE  Scheduled(c)
          OBVIOUS
        <4>1. CASE Untrack(u, i)
          <5>1. handler[u][i].before # c
            BY <4>1 DEF Untrack, BeingLeft
          <5>2. delStage'[c] = delStage[c]
            BY <1>0, <4>1, <5>1 DEF Untrack, AfterLeave, ScheduleDelete, TypeOK
          <5> QED
            BY <5>2 DEF Scheduled
        <4>2. CASE Add(u, i)
          <5>1. \A t \in Timers : delStage'[c][t] \in {delStage[c][t], "idle"}
            BY <1>0, <4>2 DEF Add, CancelDelete, TypeOK
          <5> QED
            BY <5>1 DEF Scheduled
        <4> QED
          BY <2>4, <4>1, <4>2
      <3>4. \A v \in Users : \A j \in Slots : Building(v, j)' =>
                Building(v, j) /\ handler'[v][j].room = handler[v][j].room
        BY <2>0, <2>1 DEF OthersKept, Kept, Building, Beginnings
      <3>5. \A v \in Users : \A j \in Slots : Building(v, j)' => handler[v][j].room \in open'
        BY <3>1, <3>4, BuildingRoom
      <3>6. \A c \in Channels : BeingLeft(c)' => BeingLeft(c) \/ Live(c)
        BY <2>0, <2>2 DEF OthersKept, Kept, BeingLeft, At, Beginnings
      <3>7. RowFrame
        BY <3>1, <3>2, <3>3, <3>4, <3>5, <3>6 DEF RowFrame, Live
      <3> QED
        BY <1>0, <3>7, RowFrameKeeps
    <2> QED
      BY <2>3, <2>4
  <1>4. ASSUME NEW u \in Users, NEW i \in Slots, HandlerFault(u, i) PROVE RowInv'
    <2>0. OthersKept(u, i)
      BY <1>0, <1>4, FaultKept
    <2>1. /\ UNCHANGED <<open, created, row, delStage>>
          /\ \/ Goto(u, i, "rollback") /\ handler[u][i].stage = "move"
             \/ Return(u, i)
      BY <1>4 DEF HandlerFault
    <2>2. /\ Building(u, i)' => /\ Building(u, i)
                                /\ handler'[u][i].room = handler[u][i].room
          /\ ~At(u, i, "untrack")'
      <3>1. CASE Goto(u, i, "rollback") /\ handler[u][i].stage = "move"
        BY <1>0, <3>1 DEF Goto, Building, At, TypeOK, Call
      <3>2. CASE Return(u, i)
        BY <1>0, <3>2 DEF Return, Building, At, Idle, TypeOK
      <3> QED
        BY <2>1, <3>1, <3>2
    <2> QED
      BY <1>0, <2>0, <2>1, <2>2, CallFrame, RowFrameKeeps
  <1>5. ASSUME NEW c \in Channels, NEW t \in Timers, DeleteStep(c, t) PROVE RowInv'
    <2>0. AllKept
      BY <1>0, <1>5, DeleteStepKept
    <2>1. CASE FireDelete(c, t)
      <3>1. \A d \in Channels : \A x \in Timers :
                \/ delStage'[d][x] = delStage[d][x]
                \/ delStage[d][x] # "idle" /\ delStage'[d][x] \in {"idle", "clear"}
        <4>1. /\ delStage[c][t] = "sleep"
              /\ \/ delStage' = [delStage EXCEPT ![c][t] = "idle"]
                 \/ delStage' = [delStage EXCEPT ![c][t] = "clear"]
          BY <2>1 DEF FireDelete, DeleteEnds
        <4>2. delStage \in [Channels -> [Timers -> {"idle", "sleep"} \cup DeleteAwaits]]
          BY <1>0 DEF TypeOK
        <4>3. CASE delStage' = [delStage EXCEPT ![c][t] = "idle"]
          BY <4>1, <4>2, <4>3
        <4>4. CASE delStage' = [delStage EXCEPT ![c][t] = "clear"]
          BY <4>1, <4>2, <4>4
        <4> QED
          BY <4>1, <4>3, <4>4
      <3>2. UNCHANGED <<open, created, row>>
        BY <2>1 DEF FireDelete
      <3> QED
        BY <1>0, <2>0, <3>1, <3>2, DeleteFrame, RowFrameKeeps DEF Scheduled
    <2>2. CASE ClearMembers(c, t)
      <3>1. \A d \in Channels : \A x \in Timers :
                \/ delStage'[d][x] = delStage[d][x]
                \/ delStage[d][x] # "idle" /\ delStage'[d][x] = "drop"
        BY <1>0, <2>2 DEF ClearMembers, TypeOK
      <3>2. UNCHANGED <<open, created, row>>
        BY <2>2 DEF ClearMembers
      <3> QED
        BY <1>0, <2>0, <3>1, <3>2, DeleteFrame, RowFrameKeeps DEF Scheduled
    <2>3. CASE DropRow(c, t)
      <3>1. \A d \in Channels : \A x \in Timers :
                \/ delStage'[d][x] = delStage[d][x]
                \/ d = c /\ delStage[d][x] # "idle" /\ delStage'[d][x] = "close"
        BY <1>0, <2>3 DEF DropRow, TypeOK
      <3>2. UNCHANGED <<open, created, handler>>
        BY <2>3 DEF DropRow
      <3>3. \A d \in Channels : (Live(d)' => Live(d)) /\ ~Live(c)'
        BY <1>0, <2>3 DEF DropRow, Live, TypeOK
      <3>4. \A v \in Users : \A j \in Slots : Building(v, j) => handler[v][j].room \in open
        BY BuildingRoom
      <3>5. RowFrame
        BY <3>1, <3>2, <3>3, <3>4 DEF RowFrame, Scheduled, BeingLeft, At, Building
      <3> QED
        BY <1>0, <3>5, RowFrameKeeps
    <2>4. CASE CloseChannel(c, t)
      BY <1>0, <2>4, CloseFrame, RowFrameKeeps
    <2> QED
      BY <1>5, <2>1, <2>2, <2>3, <2>4 DEF DeleteStep
  <1>6. ASSUME NEW c \in Channels, NEW t \in Timers, DeleteFault(c, t) PROVE RowInv'
    <2>1. \A d \in Channels : \A x \in Timers :
              delStage'[d][x] \in {delStage[d][x], "idle"}
      BY <1>0, <1>6 DEF DeleteFault, DeleteEnds, TypeOK
    <2>2. AllKept /\ UNCHANGED <<open, created, row>>
      BY <1>6 DEF DeleteFault, AllKept, Kept
    <2> QED
      BY <1>0, <2>1, <2>2, DeleteFrame, RowFrameKeeps DEF Scheduled
  <1>7. ASSUME NEW c \in Channels, NEW t \in Timers, TransferStep(c, t) PROVE RowInv'
    <2>1. UNCHANGED <<open, created, handler, delStage>>
      BY <1>7 DEF TransferStep, FireTransfer, GrantOwner
    <2>2. \A d \in Channels : Live(d)' => Live(d)
      BY <1>0, <1>7 DEF TransferStep, FireTransfer, GrantOwner, OwnerUpdated, Live, TypeOK
    <2>3. \A v \in Users : \A j \in Slots : Building(v, j) => handler[v][j].room \in open
      BY BuildingRoom
    <2>4. RowFrame
      BY <2>1, <2>2, <2>3 DEF RowFrame, Scheduled, BeingLeft, At, Building
    <2> QED
      BY <1>0, <2>4, RowFrameKeeps
  <1>8. CASE Restart
    <2>1. /\ UNCHANGED <<open, created, row>>
          /\ \A u \in Users : \A i \in Slots : handler'[u][i].stage = "idle"
          /\ \A c \in Channels : \A t \in Timers : delStage'[c][t] = "idle"
      BY <1>8 DEF Restart, Idle
    <2>2. RowFrame
      BY <2>1 DEF RowFrame, Live, Scheduled, BeingLeft, At, Building
    <2> QED
      BY <1>0, <2>2, RowFrameKeeps
  <1>9. CASE UNCHANGED vars
    BY <1>9 DEF vars, RowInv, TypeOK, RowHasChannel, BuiltUnseen, BuiltByOne,
       SeenIsCreated, ClosedIsDropped, Live, Scheduled, BeingLeft, Building, At
  <1>10. ASSUME NEW c \in Channels, BotEnters(c) \/ BotLeaves(c) PROVE RowInv'
    <2>1. UNCHANGED <<open, created, row, handler, delStage>>
      BY <1>10 DEF BotEnters, BotLeaves, database, deletes
    <2>2. \A u \in Users : \A i \in Slots :
              Building(u, i) => handler[u][i].room \in open
      BY <1>0, BuildingRoom DEF RowInv, BuiltUnseen
    <2>3. RowFrame
      BY <2>1, <2>2 DEF RowFrame, Live, Scheduled, BeingLeft, At, Building
    <2> QED
      BY <1>0, <2>3, RowFrameKeeps
  <1> QED
    BY <1>1, <1>2, <1>3, <1>4, <1>5, <1>6, <1>7, <1>8, <1>9, <1>10 DEF Next

\* As long as the two writes of create succeed, no row of voice_rooms names a
\* channel that is gone, however late a timer, a call or a restart comes.
THEOREM RowsCorrect ==
  ASSUME FaultPoints \cap {"insert", "track"} = {}
  PROVE  Spec => []RowHasChannel
  <1>1. Init => RowInv
    BY TypeInit DEF Init, Idle, RowInv, RowHasChannel, BuiltUnseen, BuiltByOne,
       SeenIsCreated, ClosedIsDropped, Live, Scheduled, BeingLeft, Building, At
  <1>2. RowInv /\ [Next]_vars => RowInv'
    BY RowNext
  <1>3. RowInv => RowHasChannel
    BY DEF RowInv
  <1> QED
    BY <1>1, <1>2, <1>3, PTL DEF Spec

-----------------------------------------------------------------------------
(* VoiceRooms implements RoomLedger: the invariant the refinement needs.   *)

\* create has made the channel and not yet written its row.
Unentered(u, i) == handler[u][i].stage \in {"move", "insert"}

LiveIsCreated == \A c \in Channels : Live(c) => c \in created
UnenteredIsNew ==
    \A u \in Users : \A i \in Slots : Unentered(u, i) =>
        handler[u][i].room \in created /\ ~Live(handler[u][i].room)
UnenteredByOne ==
    \A u, v \in Users : \A i, j \in Slots :
        Unentered(u, i) /\ Unentered(v, j) /\ handler[u][i].room = handler[v][j].room
            => u = v /\ i = j
LedgerInv == TypeOK /\ LiveIsCreated /\ UnenteredIsNew /\ UnenteredByOne

\* No call takes a channel up to enter it; SameEntries: and none puts one down.
FewerEntries ==
    \A u \in Users : \A i \in Slots : Unentered(u, i)' =>
        Unentered(u, i) /\ handler'[u][i].room = handler[u][i].room
SameEntries ==
    \A u \in Users : \A i \in Slots :
        /\ Unentered(u, i)' = Unentered(u, i)
        /\ Unentered(u, i) => handler'[u][i].room = handler[u][i].room

LEMMA UnenteredRoom ==
  ASSUME TypeOK, NEW u \in Users, NEW i \in Slots, Unentered(u, i)
  PROVE  handler[u][i].room \in Channels
  BY DEF TypeOK, Call, Unentered

LEMMA PendingIsUnentered ==
  ASSUME NEW c \in Channels
  PROVE  Pending(c) <=> \E u \in Users : \E i \in Slots :
                            Unentered(u, i) /\ handler[u][i].room = c
  BY DEF Pending, Unentered

LEMMA AllKeptEntries ==
  ASSUME AllKept PROVE SameEntries
  BY DEF AllKept, Kept, SameEntries, Unentered, Beginnings

LEMMA OtherEntries ==
  ASSUME NEW u \in Users, NEW i \in Slots, OthersKept(u, i),
         Unentered(u, i)' => /\ Unentered(u, i)
                             /\ handler'[u][i].room = handler[u][i].room
  PROVE  FewerEntries
  BY DEF OthersKept, Kept, FewerEntries, Unentered, Beginnings

LEMMA SameEntriesOutside ==
  ASSUME NEW u \in Users, NEW i \in Slots, OthersKept(u, i),
         ~Unentered(u, i), ~Unentered(u, i)'
  PROVE  SameEntries
  BY DEF OthersKept, Kept, SameEntries, Unentered, Beginnings

-----------------------------------------------------------------------------
(* Three kinds of steps.                                                   *)

\* A step that leaves the rows and the created channels alone and lets go of
\* channels at most: the ledger discards those nobody will enter any more.
LEMMA LettingGo ==
  ASSUME LedgerInv, TypeOK', row' = row, created' = created, FewerEntries
  PROVE  LedgerInv' /\ Ledger!Next
  <1>1. \A c \in Channels : Live(c)' = Live(c)
    BY DEF Live
  <1>2. LedgerInv'
    BY <1>1, UnenteredRoom
       DEF LedgerInv, LiveIsCreated, UnenteredIsNew, UnenteredByOne, FewerEntries
  <1> DEFINE cs == {c \in Channels : ~Live(c) /\ Pending(c) /\ ~Pending(c)'}
  <1>3. \A c \in Channels : Pending(c)' => Pending(c)
    BY PendingIsUnentered DEF FewerEntries, Pending, Unentered
  <1>4. \A c \in Channels : Pending(c) => c \in created
    BY DEF LedgerInv, UnenteredIsNew, Unentered, Pending
  <1>5. \A c \in cs : Phase(c) = "unborn"
    BY DEF Phase
  <1>6. \A c \in Channels : Phase(c)' = IF c \in cs THEN "gone" ELSE Phase(c)
    BY <1>1, <1>3, <1>4 DEF Phase
  <1> HIDE DEF cs
  <1>7. cs \in SUBSET Channels
    BY DEF cs
  <1>8. Ledger!Discard(cs)
    BY <1>5, <1>6, <1>7 DEF Ledger!Discard
  <1> QED
    BY <1>2, <1>7, <1>8 DEF Ledger!Next

\* A step that writes the row of a room, or clears a row.
LEMMA Rewriting ==
  ASSUME LedgerInv, TypeOK', SameEntries, created' = created,
         NEW c \in Channels, NEW x \in Users \cup {NoUser},
         row' = [row EXCEPT ![c] = x], Live(c) \/ x = NoUser
  PROVE  LedgerInv' /\ Ledger!Next
  <1>1. \A d \in Channels : Live(d)' => Live(d)
    BY DEF LedgerInv, TypeOK, Live
  <1>2. LedgerInv'
    BY <1>1, UnenteredRoom
       DEF LedgerInv, LiveIsCreated, UnenteredIsNew, UnenteredByOne, SameEntries
  <1>3. \A d \in Channels : Pending(d)' = Pending(d)
    BY DEF SameEntries, Pending, Unentered
  <1>4. \A d \in Channels : d # c => Phase(d)' = Phase(d)
    BY <1>3 DEF Phase, Live, LedgerInv, TypeOK
  <1>5. CASE Live(c) /\ x \in Users
    <2>1. Phase(c) = "live" /\ Phase(c)' = "live"
      BY <1>5, VoiceRoomsAssumption DEF Phase, Live, LedgerInv, TypeOK
    <2>2. Ledger!HandOver(c, x)
      BY <1>4, <2>1 DEF Ledger!HandOver
    <2> QED
      BY <1>2, <1>5, <2>2 DEF Ledger!Next
  <1>6. CASE Live(c) /\ x = NoUser
    <2>1. ~Pending(c)
      BY <1>6 DEF LedgerInv, UnenteredIsNew, Unentered, Pending
    <2>2. Phase(c) = "live" /\ Phase(c)' = "gone"
      BY <1>3, <1>6, <2>1 DEF Phase, Live, LedgerInv, TypeOK, LiveIsCreated
    <2>3. Ledger!Retire(c)
      BY <1>4, <1>6, <2>2 DEF Ledger!Retire
    <2> QED
      BY <1>2, <2>3 DEF Ledger!Next
  <1>7. CASE ~Live(c)
    <2>1. row' = row
      BY <1>7 DEF Live, LedgerInv, TypeOK
    <2> QED
      BY <2>1, LettingGo DEF SameEntries, FewerEntries
  <1> QED
    BY <1>5, <1>6, <1>7

\* The row create writes last.
LEMMA Founding ==
  ASSUME LedgerInv, TypeOK', NEW u \in Users, NEW i \in Slots,
         handler[u][i].stage = "insert", OthersKept(u, i), ~Unentered(u, i)',
         created' = created, row' = [row EXCEPT ![handler[u][i].room] = u]
  PROVE  LedgerInv' /\ Ledger!Next
  <1>0. PICK c \in Channels : c = handler[u][i].room
    BY UnenteredRoom DEF LedgerInv, Unentered
  <1>1. Unentered(u, i) /\ c \in created /\ ~Live(c)
    BY <1>0 DEF LedgerInv, UnenteredIsNew, Unentered
  <1>2. FewerEntries
    BY OtherEntries
  <1>3. \A v \in Users : \A j \in Slots : Unentered(v, j)' => handler'[v][j].room # c
    BY <1>0, <1>1, <1>2 DEF LedgerInv, UnenteredByOne, FewerEntries
  <1>4. \A v \in Users : \A j \in Slots :
            v # u \/ j # i => /\ Unentered(v, j)' = Unentered(v, j)
                              /\ Unentered(v, j) => handler'[v][j].room = handler[v][j].room
    BY DEF OthersKept, Kept, Unentered, Beginnings
  <1>5. row' = [row EXCEPT ![c] = u] /\ Pending(c)
    BY <1>0, <1>1 DEF Pending, Unentered
  <1>6. \A d \in Channels : d # c => Pending(d)' = Pending(d)
    BY <1>0, <1>3, <1>4 DEF Pending, Unentered
  <1>7. \A d \in Channels : d # c => Live(d)' = Live(d)
    BY <1>5 DEF Live, LedgerInv, TypeOK
  <1>8. LedgerInv'
    BY <1>1, <1>2, <1>3, <1>7, UnenteredRoom
       DEF LedgerInv, LiveIsCreated, UnenteredIsNew, UnenteredByOne, FewerEntries
  <1>9. Phase(c) = "unborn" /\ Phase(c)' = "live"
    BY <1>1, <1>5, VoiceRoomsAssumption DEF Phase, Live, LedgerInv, TypeOK
  <1>10. \A d \in Channels : d # c => Phase(d)' = Phase(d)
    BY <1>6, <1>7 DEF Phase
  <1>11. Ledger!Found(c, u)
    BY <1>5, <1>9, <1>10 DEF Ledger!Found
  <1> QED
    BY <1>8, <1>11 DEF Ledger!Next

-----------------------------------------------------------------------------
(* Every step is of one of these kinds, or hands out a fresh channel.      *)

LEMMA MakingAChannel ==
  ASSUME LedgerInv, TypeOK', NEW u \in Users, NEW i \in Slots, MakeChannel(u, i)
  PROVE  LedgerInv' /\ Ledger!Next
  <1>0. OthersKept(u, i) /\ row' = row
    BY CreateStepKept DEF CreateStep, LedgerInv, MakeChannel, database
  <1>1. ASSUME NEW c \in Fresh, created' = created \cup {c},
               handler' = [handler EXCEPT ![u][i].stage = "move", ![u][i].room = c]
        PROVE  LedgerInv' /\ Ledger!Next
    <2>1. c \in Channels /\ c \notin created /\ ~Live(c)
      BY <1>1 DEF Fresh, LedgerInv, LiveIsCreated
    <2>2. Unentered(u, i)' /\ handler'[u][i].room = c /\ ~Unentered(u, i)
      <3>1. handler[u][i] \in Call /\ handler[u][i].stage = "make"
        BY DEF MakeChannel, At, LedgerInv, TypeOK
      <3>2. handler'[u][i] = [handler[u][i] EXCEPT !.stage = "move", !.room = c]
        BY <1>1 DEF LedgerInv, TypeOK
      <3> QED
        BY <3>1, <3>2 DEF Unentered, Call
    <2>3. \A v \in Users : \A j \in Slots :
              v # u \/ j # i => handler'[v][j] = handler[v][j]
      BY <1>1 DEF LedgerInv, TypeOK
    <2>4. \A d \in Channels : Live(d)' = Live(d)
      BY <1>0 DEF Live
    <2>5. \A v \in Users : \A j \in Slots : Unentered(v, j)' /\ (v # u \/ j # i) =>
              /\ Unentered(v, j)
              /\ handler'[v][j].room = handler[v][j].room
              /\ handler[v][j].room \in created /\ ~Live(handler[v][j].room)'
      BY <2>3, <2>4, UnenteredRoom DEF Unentered, LedgerInv, UnenteredIsNew
    <2>6. UnenteredIsNew'
      <3> SUFFICES ASSUME NEW v \in Users, NEW j \in Slots, Unentered(v, j)'
                   PROVE  handler'[v][j].room \in created' /\ ~Live(handler[v][j].room)'
        BY DEF UnenteredIsNew
      <3>1. CASE v = u /\ j = i
        BY <1>1, <2>1, <2>2, <2>4, <3>1 DEF Live
      <3>2. CASE v # u \/ j # i
        <4>1. /\ handler'[v][j].room = handler[v][j].room
              /\ handler[v][j].room \in created /\ ~Live(handler[v][j].room)'
          BY <2>5, <3>2
        <4>2. created \subseteq created'
          BY <1>1
        <4> QED
          BY <4>1, <4>2
      <3> QED
        BY <3>1, <3>2
    <2>7. UnenteredByOne'
      BY <2>1, <2>2, <2>5 DEF UnenteredByOne, LedgerInv
    <2>8. LedgerInv'
      BY <1>1, <2>4, <2>6, <2>7 DEF LedgerInv, LiveIsCreated
    <2>9. \A d \in Channels : d # c => Pending(d)' = Pending(d)
      BY <2>2, <2>3 DEF Pending, Unentered
    <2>10. Pending(c)'
      BY <2>2 DEF Pending, Unentered
    <2>11. \A d \in Channels : Phase(d)' = Phase(d)
      BY <1>1, <2>1, <2>4, <2>9, <2>10 DEF Phase
    <2>12. Ledger!Discard({})
      BY <1>0, <2>11 DEF Ledger!Discard
    <2> QED
      BY <2>8, <2>12 DEF Ledger!Next
  <1>2. CASE Return(u, i) /\ UNCHANGED <<open, created>>
    <2>1. ~Unentered(u, i)'
      BY <1>2 DEF Return, Unentered, Idle, LedgerInv, TypeOK
    <2> QED
      BY <1>0, <1>2, <2>1, OtherEntries, LettingGo
  <1> QED
    BY <1>1, <1>2 DEF MakeChannel

LEMMA LedgerNext ==
  ASSUME LedgerInv, [Next]_vars
  PROVE  /\ LedgerInv'
         /\ Ledger!Next \/ UNCHANGED vars
  <1>0. TypeOK /\ TypeOK'
    BY TypeNext DEF LedgerInv
  <1>a. ASSUME SameEntries, row' = row, created' = created
        PROVE  LedgerInv' /\ Ledger!Next
    BY <1>0, <1>a, LettingGo DEF SameEntries, FewerEntries
  <1> USE DEF discord, database, deletes, handovers
  <1>1. ASSUME NEW u \in Users, NEW to \in Places, Move(u, to)
        PROVE  LedgerInv' /\ Ledger!Next
    BY <1>0, <1>1, <1>a, MoveKept, AllKeptEntries DEF Move
  <1>2. ASSUME NEW u \in Users, NEW i \in Slots, CreateStep(u, i)
        PROVE  LedgerInv' /\ Ledger!Next
    <2>0. OthersKept(u, i)
      BY <1>0, <1>2, CreateStepKept
    <2>1. CASE Enter(u, i) \/ Vet(u, i) \/ Redirect(u, i) \/ TrackOwner(u, i)
      <3>1. ~Unentered(u, i)'
        BY <1>0, <2>1, TriggerStepEnds DEF Building, Unentered
      <3>2. row' = row /\ created' = created
        BY <2>1 DEF Enter, Vet, Redirect, TrackOwner
      <3> QED
        BY <1>0, <2>0, <3>1, <3>2, OtherEntries, LettingGo
    <2>2. CASE DropStale(u, i)
      <3>1. handler[u][i].room \in Channels /\ ~Unentered(u, i)
        BY <1>0, <2>2 DEF DropStale, At, TypeOK, Call, Unentered
      <3>2. ~Unentered(u, i)'
        BY <1>0, <2>2 DEF DropStale, TypeOK, Call, Unentered
      <3>3. SameEntries
        BY <2>0, <3>1, <3>2, SameEntriesOutside
      <3> QED
        BY <1>0, <2>2, <3>1, <3>3, Rewriting DEF DropStale
    <2>3. CASE MakeChannel(u, i)
      BY <1>0, <2>3, MakingAChannel
    <2>4. CASE MoveIn(u, i)
      <3>1. Unentered(u, i) /\ handler'[u][i].room = handler[u][i].room
        BY <1>0, <2>4, MoveInGoesOn DEF MoveIn, At, Unentered
      <3>2. row' = row /\ created' = created
        BY <2>4 DEF MoveIn
      <3> QED
        BY <1>0, <2>0, <3>1, <3>2, OtherEntries, LettingGo
    <2>5. CASE InsertRow(u, i)
      <3>1. handler'[u][i].stage = "track"
        BY <1>0, <2>5, GotoStage DEF InsertRow
      <3> QED
        BY <1>0, <2>0, <2>5, <3>1, Founding DEF InsertRow, At, Unentered
    <2>6. CASE RollBack(u, i)
      <3>1. ~Unentered(u, i)'
        <4> DEFINE calls == [handler EXCEPT ![u][i] = Idle]
        <4>1. handler[u][i].room \in Channels
          BY <1>0, <2>6 DEF RollBack, At, TypeOK, Call
        <4>2. calls \in [Users -> [Slots -> Call]] /\ calls[u][i].stage = "idle"
          BY <1>0, IdleIsCall DEF TypeOK, Idle
        <4>3. handler' = Evicted(handler[u][i].room, calls) /\ Evict(handler[u][i].room)
          BY <2>6 DEF RollBack
        <4> HIDE DEF calls
        <4>4. handler'[u][i].stage \in Beginnings
          BY <1>0, <4>1, <4>2, <4>3, EvictedKept DEF Beginnings
        <4> QED
          BY <4>4 DEF Unentered, Beginnings
      <3>2. row' = row /\ created' = created
        BY <2>6 DEF RollBack
      <3> QED
        BY <1>0, <2>0, <3>1, <3>2, OtherEntries, LettingGo
    <2> QED
      BY <1>2, <2>1, <2>2, <2>3, <2>4, <2>5, <2>6 DEF CreateStep
  <1>3. ASSUME NEW u \in Users, NEW i \in Slots, PresenceStep(u, i)
        PROVE  LedgerInv' /\ Ledger!Next
    <2>1. OthersKept(u, i) /\ ~Unentered(u, i)'
      BY <1>0, <1>3, PresenceStepKept, PresenceStepEnds DEF Building, Unentered
    <2>2. row' = row /\ created' = created
      BY <1>3 DEF PresenceStep, Leave, Untrack, Join, Add, Eject
    <2> QED
      BY <1>0, <2>1, <2>2, OtherEntries, LettingGo
  <1>4. ASSUME NEW u \in Users, NEW i \in Slots, HandlerFault(u, i)
        PROVE  LedgerInv' /\ Ledger!Next
    <2>1. OthersKept(u, i) /\ created' = created
      BY <1>0, <1>4, FaultKept DEF HandlerFault
    <2>2. ~Unentered(u, i)'
      <3>1. handler'[u][i].stage \in {"rollback", "idle"}
        <4>1. CASE Goto(u, i, "rollback")
          BY <1>0, <4>1, GotoStage
        <4>2. CASE Return(u, i)
          BY <1>0, <4>2 DEF Return, Idle, TypeOK
        <4> QED
          BY <1>4, <4>1, <4>2 DEF HandlerFault
      <3> QED
        BY <3>1 DEF Unentered
    <2>3. CASE row' = row
      BY <1>0, <2>1, <2>2, <2>3, OtherEntries, LettingGo
    <2>4. CASE /\ handler[u][i].stage = "insert"
               /\ row' = [row EXCEPT ![handler[u][i].room] = u]
      BY <1>0, <2>1, <2>2, <2>4, Founding
    <2> QED
      BY <1>4, <2>3, <2>4 DEF HandlerFault
  <1>5. ASSUME NEW c \in Channels, NEW t \in Timers, DeleteStep(c, t)
        PROVE  LedgerInv' /\ Ledger!Next
    <2>1. SameEntries
      BY <1>0, <1>5, DeleteStepKept, AllKeptEntries
    <2>2. CASE DropRow(c, t)
      BY <1>0, <2>1, <2>2, Rewriting DEF DropRow
    <2>3. CASE ~DropRow(c, t)
      BY <1>5, <1>a, <2>1, <2>3
         DEF DeleteStep, FireDelete, ClearMembers, CloseChannel
    <2> QED
      BY <2>2, <2>3
  <1>6. ASSUME NEW c \in Channels, NEW t \in Timers, DeleteFault(c, t)
        PROVE  LedgerInv' /\ Ledger!Next
    BY <1>6, <1>a, AllKeptEntries DEF DeleteFault, AllKept, Kept
  <1>7. ASSUME NEW c \in Channels, NEW t \in Timers, TransferStep(c, t)
        PROVE  LedgerInv' /\ Ledger!Next
    <2>1. SameEntries /\ created' = created
      BY <1>7, AllKeptEntries DEF TransferStep, FireTransfer, GrantOwner, AllKept, Kept
    <2>2. CASE row' = row
      BY <1>a, <2>1, <2>2
    <2>3. CASE Live(c) /\ row' = [row EXCEPT ![c] = transfer[c][t].heir]
      <3>1. transfer[c][t].heir \in Users \cup {NoUser}
        BY <1>0 DEF TypeOK, Transfer
      <3> QED
        BY <1>0, <2>1, <2>3, <3>1, Rewriting
    <2> QED
      BY <1>7, <2>2, <2>3 DEF TransferStep, FireTransfer, GrantOwner, OwnerUpdated
  <1>8. CASE Restart
    <2>1. FewerEntries /\ row' = row /\ created' = created
      BY <1>8 DEF Restart, FewerEntries, Unentered, Idle
    <2> QED
      BY <1>0, <2>1, LettingGo
  <1>9. CASE UNCHANGED vars
    BY <1>9 DEF vars, LedgerInv, TypeOK, LiveIsCreated, UnenteredIsNew, UnenteredByOne,
       Live, Unentered
  <1>10. ASSUME NEW c \in Channels, BotEnters(c) \/ BotLeaves(c)
         PROVE  LedgerInv' /\ Ledger!Next
    <2>1. UNCHANGED <<created, row, handler>>
      BY <1>10 DEF BotEnters, BotLeaves, database
    <2>2. FewerEntries
      BY <2>1 DEF FewerEntries, Unentered
    <2> QED
      BY <1>0, <2>1, <2>2, LettingGo
  <1> QED
    BY <1>1, <1>2, <1>3, <1>4, <1>5, <1>6, <1>7, <1>8, <1>9, <1>10 DEF Next

\* The voice rooms implement the ledger whatever call fails and however often
\* the bot restarts: a channel id is a room at most once, changes hands only
\* while it is one, and is never a room again.
THEOREM LedgerRefined == Spec => LedgerSpec
  <1>1. Init => LedgerInv /\ Ledger!Init
    <2> SUFFICES ASSUME Init PROVE LedgerInv /\ Ledger!Init
      OBVIOUS
    <2>1. LedgerInv
      BY TypeInit DEF Init, Idle, LedgerInv, LiveIsCreated, UnenteredIsNew,
         UnenteredByOne, Live, Unentered
    <2>2. \A c \in Channels : Phase(c) = "unborn"
      BY DEF Init, Phase, Live
    <2> QED
      BY <2>1, <2>2 DEF Init, Ledger!Init
  <1>2. LedgerInv /\ [Next]_vars
            => LedgerInv' /\ [Ledger!Next]_<<[c \in Channels |-> Phase(c)], row>>
    <2>1. UNCHANGED vars => UNCHANGED <<[c \in Channels |-> Phase(c)], row>>
      BY DEF vars, Phase, Live, Pending
    <2> QED
      BY <2>1, LedgerNext
  <1> QED
    BY <1>1, <1>2, PTL DEF Spec, LedgerSpec, Ledger!Spec

-----------------------------------------------------------------------------
(* Empty rooms, lists and owners: the invariant they need together.        *)
(*                                                                         *)
(* It holds of users who move when the bot has served them, without the    *)
(* move from a room into the trigger, without restarts, and when only      *)
(* calls fail that leave nothing half done.                                *)

\* The stages of a creation outside the new room, those about a room entered or left, and the
\* calls whose failure leaves something half done for good.
Pipeline == {"enter", "vet", "redirect", "make", "move", "rollback"}
Coming == {"leave", "untrack", "join", "add", "eject"}
Going == {"leave", "untrack"}
Harmful == {"insert", "track", "leave", "untrack", "join", "clear", "drop"}

\* A creation is under way only while its user waits in the trigger, and alone.
Waits(u, i) ==
    LET call == handler[u][i] IN
    /\ call.stage # "stale"
    /\ call.stage \in Pipeline =>
           where[u] = Trigger /\ \A j \in Slots \ {i} : At(u, j, "idle")

\* Who has been moved into the room made for him is there, and no timer knows of it.
Founds(u, i) ==
    LET call == handler[u][i] IN
    /\ call.stage \in {"insert", "track"} =>
           /\ where[u] = call.room
           /\ ~Scheduled(call.room)
           /\ ownReg[call.room] = NoTimer
           /\ \A j \in Slots \ {i} : handler[u][j].stage \in {"idle", "join", "add"}
    /\ call.stage = "track" => row[call.room] = u

\* A call about a room entered is the only one of its user, who is there unless it is gone.
Comes(u, i) ==
    LET call == handler[u][i] IN
    call.stage \in Coming /\ call.after \in Channels =>
        /\ call.after \in created
        /\ where[u] = call.after \/ call.after \notin open
        /\ \A j \in Slots \ {i} :
               handler[u][j].stage \in Coming => handler[u][j].after \notin Channels

\* A call about a room left is the only one about it of its user, who is not back.
Goes(u, i) ==
    LET call == handler[u][i] IN
    call.stage \in Going =>
        /\ where[u] # call.before
        /\ \A j \in Slots \ {i} :
               handler[u][j].stage \in Going => handler[u][j].before # call.before

\* The owner who leaves is the one who will schedule the handover, and nobody has yet.
Owns(u, i) ==
    LET call == handler[u][i] IN
    /\ call.stage = "leave" /\ row[call.before] = u => ownReg[call.before] = NoTimer
    /\ call.stage = "untrack" /\ call.owned =>
           /\ ownReg[call.before] = NoTimer
           /\ row[call.before] \in {u, NoUser}
           /\ \A v \in Users \ {u} : \A j \in Slots :
                  ~(At(v, j, "untrack") /\ handler[v][j].owned
                      /\ handler[v][j].before = call.before)

\* A call is still to hear that u came to c, or that he left it.
Returning(u, c) ==
    \E i \in Slots : handler[u][i].stage \in {"leave", "untrack", "join"} /\ handler[u][i].after = c
Leaving(u, c) ==
    \E i \in Slots : handler[u][i].stage \in Going /\ handler[u][i].before = c

\* The one handover that runs is the registered one, of the owner, who is away or coming back.
HandoverOK(c) ==
    \A t \in Timers :
        LET old == transfer[c][t].old IN
        /\ transfer[c][t].stage # "idle" <=> ownReg[c] = t
        /\ transfer[c][t].stage # "idle" =>
             /\ old \in Users
             /\ row[c] \in {old, NoUser}
             /\ Live(c) /\ where[old] = c => Returning(old, c)

\* Who is listed is there, or leaving.
ListOK(c) == Live(c) => \A u \in tracked[c] : where[u] = c \/ Leaving(u, c)

\* Nothing is known of a channel that is not a room yet.
Unborn(c) ==
    c \in created => \E u \in Users : \E i \in Slots : Building(u, i) /\ handler[u][i].room = c
UnbornOK(c) ==
    Unborn(c) =>
        /\ tracked[c] = {} /\ ownReg[c] = NoTimer
        /\ \A u \in Users : \A i \in Slots :
               handler[u][i].stage \in {"add", "eject"} => handler[u][i].after # c

\* A room no user is in is in charge of a delayed delete, or of a call that will schedule one,
\* unless a bot is there or has left it last.
Excused(c) == c \in bots \cup deserted
ExcusesKept == \A d \in Channels : Excused(d) => Excused(d)'
InCharge(c) ==
    Live(c) /\ Members(c) = {} /\ ~Excused(c) => Scheduled(c) \/ \E u \in Users : Leaving(u, c)

\* The calls and the rooms together.
PatientInv ==
    /\ RowInv
    /\ \A u \in Users : \A i \in Slots :
           Waits(u, i) /\ Founds(u, i) /\ Comes(u, i) /\ Goes(u, i) /\ Owns(u, i)
    /\ \A c \in Channels : HandoverOK(c) /\ ListOK(c) /\ UnbornOK(c) /\ InCharge(c)

CallsInv == \A u \in Users : \A i \in Slots :
    Waits(u, i) /\ Founds(u, i) /\ Comes(u, i) /\ Goes(u, i) /\ Owns(u, i)

LEMMA CallFacts ==
  ASSUME TypeOK, NEW u \in Users, NEW i \in Slots
  PROVE  /\ handler[u][i].stage \in Going => handler[u][i].before \in Channels
         /\ handler[u][i].stage \in {"join", "add", "eject"} => handler[u][i].after \in Channels
         /\ handler[u][i].stage \in {"redirect", "move", "insert", "track", "rollback"}
               => handler[u][i].room \in Channels
         /\ handler[u][i].stage \in HandlerAwaits \cup {"idle"}
         /\ where[u] \in Places
  BY DEF TypeOK, Call, Going

\* No call but that of u in slot i is touched.
Only(u, i) ==
    \A v \in Users : \A j \in Slots : (v # u \/ j # i) => handler'[v][j] = handler[v][j]

LEMMA GotoCall ==
  ASSUME TypeOK, NEW u \in Users, NEW i \in Slots, NEW s, Goto(u, i, s)
  PROVE  /\ handler'[u][i].stage = s
         /\ handler'[u][i].before = handler[u][i].before
         /\ handler'[u][i].after = handler[u][i].after
         /\ handler'[u][i].room = handler[u][i].room
         /\ handler'[u][i].owned = handler[u][i].owned
         /\ Only(u, i)
<1>1. handler'[u][i] = [handler[u][i] EXCEPT !.stage = s] /\ Only(u, i)
  BY DEF Goto, TypeOK, Only
<1>2. handler[u][i] \in Call  BY DEF TypeOK
<1> QED  BY <1>1, <1>2 DEF Call

Takes(u, i, s, c) == handler' = [handler EXCEPT ![u][i].stage = s, ![u][i].room = c]

LEMMA RoomCall ==
  ASSUME TypeOK, NEW u \in Users, NEW i \in Slots, NEW s, NEW c, Takes(u, i, s, c)
  PROVE  /\ handler'[u][i].stage = s
         /\ handler'[u][i].before = handler[u][i].before
         /\ handler'[u][i].after = handler[u][i].after
         /\ handler'[u][i].room = c
         /\ Only(u, i)
<1>1. handler'[u][i] = [handler[u][i] EXCEPT !.stage = s, !.room = c] /\ Only(u, i)
  BY DEF TypeOK, Only, Takes
<1>2. ASSUME NEW call \in Call, NEW new, new = [call EXCEPT !.stage = s, !.room = c]
      PROVE  /\ new.stage = s /\ new.room = c
             /\ new.before = call.before /\ new.after = call.after
  BY <1>2 DEF Call
<1>3. handler[u][i] \in Call  BY DEF TypeOK
<1> QED  BY <1>1, <1>2, <1>3

LEMMA SlotCall ==
  ASSUME TypeOK, NEW u \in Users, NEW i \in Slots, NEW call,
         handler' = [handler EXCEPT ![u][i] = call]
  PROVE  handler'[u][i] = call /\ Only(u, i)
BY DEF TypeOK, Only

LEMMA DispatchIs ==
  ASSUME NEW from \in Places, NEW to \in Places, NEW call, call = Dispatch(from, to)
  PROVE  /\ call.stage = "enter" => to = Trigger
         /\ call.stage = "leave" => from \in Channels /\ call.before = from /\ to # Trigger
         /\ call.stage = "join" => from \notin Channels /\ to \in Channels
         /\ call.stage # "idle" => call.after = to
         /\ call.stage \in {"enter", "leave", "join", "idle"}
         /\ from \in Channels /\ to # Trigger => call.stage = "leave"
         /\ from \notin Channels /\ to \in Channels => call.stage = "join"
         /\ from \notin Channels /\ to = Out => call.stage = "idle"
BY VoiceRoomsAssumption DEF Dispatch, Start, Idle, Places

LEMMA ThenJoinIs ==
  ASSUME NEW from \in Call, NEW call, call = ThenJoin(from)
  PROVE  /\ call.stage = IF from.after \in Channels THEN "join" ELSE "idle"
         /\ from.after \in Channels => call.after = from.after
BY DEF ThenJoin, Call, Idle

-----------------------------------------------------------------------------
\* A step of a timer, which touches no call and no user.
LEMMA CallsAround ==
  ASSUME PatientInv, UNCHANGED <<handler, where, created>>, open' = open,
         \A c \in Channels : Scheduled(c)' => Scheduled(c),
         \A c \in Channels : ownReg'[c] \in {ownReg[c], NoTimer},
         \A c \in Channels : \/ row'[c] = row[c]
                             \/ row'[c] = NoUser /\ Scheduled(c)
                             \/ ownReg[c] # NoTimer /\ ownReg'[c] = NoTimer
  PROVE  CallsInv'
<1> USE DEF PatientInv
<1>0. TypeOK  BY DEF RowInv
<1> SUFFICES ASSUME NEW u \in Users, NEW i \in Slots
             PROVE  Waits(u, i)' /\ Founds(u, i)' /\ Comes(u, i)' /\ Goes(u, i)' /\ Owns(u, i)'
  BY DEF CallsInv
<1>1. Waits(u, i)'  BY DEF Waits, At
<1>2. Founds(u, i)'
  <2>1. handler[u][i].stage \in {"insert", "track"} => handler[u][i].room \in Channels
    BY <1>0, CallFacts
  <2> QED  BY <2>1 DEF Founds
<1>3. Comes(u, i)'  BY DEF Comes
<1>4. Goes(u, i)'  BY DEF Goes
<1>5. Owns(u, i)'
  <2>1. handler[u][i].stage \in {"leave", "untrack"} => handler[u][i].before \in Channels
    BY <1>0, CallFacts DEF Going
  <2> QED  BY <2>1, VoiceRoomsAssumption DEF Owns, At
<1> QED  BY <1>1, <1>2, <1>3, <1>4, <1>5

-----------------------------------------------------------------------------
\* No handover of c runs; a step leaves the handovers of c alone.
Gone(c) == ownReg[c] = NoTimer /\ \A t \in Timers : transfer[c][t].stage = "idle"
SameHandover(c) == transfer'[c] = transfer[c] /\ ownReg'[c] = ownReg[c]

LEMMA GoneIsOK == ASSUME NEW c \in Channels, Gone(c) PROVE HandoverOK(c)
  BY VoiceRoomsAssumption DEF Gone, HandoverOK

LEMMA UnregisteredIsGone ==
  ASSUME NEW c \in Channels, HandoverOK(c), ownReg[c] = NoTimer PROVE Gone(c)
  BY VoiceRoomsAssumption DEF Gone, HandoverOK

LEMMA Cancelled ==
  ASSUME TypeOK, NEW c \in Channels, HandoverOK(c), CancelTransfer(c)
  PROVE  Gone(c)' /\ \A d \in Channels : d # c => SameHandover(d)
<1>1. ownReg'[c] = NoTimer /\ \A d \in Channels : d # c => SameHandover(d)
  BY DEF CancelTransfer, SameHandover, TypeOK
<1>2. ASSUME NEW t \in Timers  PROVE transfer'[c][t].stage = "idle"
  <2>1. transfer'[c][t] = IF t = ownReg[c] THEN NoTransfer ELSE transfer[c][t]
    BY DEF CancelTransfer, TypeOK
  <2> QED  BY <2>1 DEF HandoverOK, NoTransfer
<1> QED  BY <1>1, <1>2 DEF Gone

LEMMA Ended ==
  ASSUME TypeOK, NEW c \in Channels, NEW t \in Timers, HandoverOK(c),
         transfer[c][t].stage # "idle", TransferEnds(c, t)
  PROVE  /\ ownReg[c] # NoTimer /\ Gone(c)'
         /\ \A d \in Channels : d # c => SameHandover(d)
<1>1. ownReg'[c] = NoTimer /\ \A d \in Channels : d # c => SameHandover(d)
  BY DEF TransferEnds, SameHandover, TypeOK
<1>2. ASSUME NEW s \in Timers  PROVE transfer'[c][s].stage = "idle"
  <2>1. transfer'[c][s] = IF s = t THEN NoTransfer ELSE transfer[c][s]
    BY DEF TransferEnds, TypeOK
  <2> QED  BY <2>1 DEF HandoverOK, NoTransfer
<1> QED  BY <1>1, <1>2, VoiceRoomsAssumption DEF Gone, HandoverOK

LEMMA HandoverKept ==
  ASSUME TypeOK, NEW c \in Channels, HandoverOK(c), SameHandover(c),
         row'[c] \in {row[c], NoUser},
        \A u \in Users : where'[u] = c /\ Live(c)' /\ row[c] = u =>
             Returning(u, c)' \/ (where[u] = c /\ ~Returning(u, c))
  PROVE  HandoverOK(c)'
<1>1. row[c] \in Users \cup {NoUser} /\ transfer'[c] = transfer[c] /\ ownReg'[c] = ownReg[c]
  BY DEF TypeOK, SameHandover
<1>2. ASSUME NEW t \in Timers, NEW old, old = transfer[c][t].old, transfer[c][t].stage # "idle",
             Live(c)', where'[old] = c
      PROVE  Returning(old, c)'
  <2>1. row[c] \in {old, NoUser} /\ row[c] # NoUser  BY <1>2 DEF HandoverOK, Live
  <2>2. Live(c) /\ old \in Users  BY <1>1, <2>1 DEF Live
  <2>3. where[old] = c => Returning(old, c)  BY <1>2, <2>2 DEF HandoverOK
  <2> QED  BY <1>2, <2>1, <2>2, <2>3
<1>3. ASSUME NEW t \in Timers
      PROVE  /\ transfer[c][t].stage # "idle" <=> ownReg[c] = t
             /\ transfer[c][t].stage # "idle" =>
                   transfer[c][t].old \in Users /\ row'[c] \in {transfer[c][t].old, NoUser}
  BY DEF HandoverOK
<1> QED  BY <1>1, <1>2, <1>3 DEF HandoverOK

LEMMA ListKept ==
  ASSUME NEW c \in Channels, ListOK(c), tracked'[c] \subseteq tracked[c], Live(c)' => Live(c),
         \A u \in Users : Live(c) /\ (where[u] = c \/ Leaving(u, c))
                              => where'[u] = c \/ Leaving(u, c)' \/ u \notin tracked'[c] \/ ~Live(c)',
         TypeOK
  PROVE  ListOK(c)'
BY DEF ListOK, TypeOK

LEMMA UnbornKept ==
  ASSUME NEW c \in Channels, UnbornOK(c), Unborn(c)' => Unborn(c),
         Unborn(c)' => tracked'[c] \subseteq tracked[c] /\ ownReg'[c] \in {ownReg[c], NoTimer},
         Unborn(c)' => \A u \in Users : \A i \in Slots :
             handler'[u][i].stage \in {"add", "eject"} /\ handler'[u][i].after = c =>
                 handler[u][i].stage \in {"add", "eject"} /\ handler[u][i].after = c
  PROVE  UnbornOK(c)'
BY DEF UnbornOK

LEMMA SameBuilding ==
  ASSUME NEW c \in Channels, created' = created,
         \A u \in Users : \A i \in Slots : Building(u, i)' =>
             Building(u, i) /\ handler'[u][i].room = handler[u][i].room
  PROVE  Unborn(c)' => Unborn(c)
BY DEF Unborn

-----------------------------------------------------------------------------
(* The timers.                                                             *)

\* The lists and the channels being made, when a timer touches no call and no user.
LEMMA ListsAround ==
  ASSUME PatientInv, UNCHANGED <<handler, where, created>>, NEW d \in Channels,
         tracked'[d] \subseteq tracked[d], Live(d)' => Live(d),
         ownReg'[d] \in {ownReg[d], NoTimer}
  PROVE  ListOK(d)' /\ UnbornOK(d)'
<1>0. TypeOK /\ ListOK(d) /\ UnbornOK(d)  BY DEF PatientInv, RowInv
<1>1. ListOK(d)'  BY <1>0, ListKept DEF Leaving
<1>2. Unborn(d)' => Unborn(d)  BY DEF Unborn, Building
<1>3. UnbornOK(d)'  BY <1>0, <1>2, UnbornKept
<1> QED  BY <1>1, <1>3

LEMMA DeleteTimer ==
  ASSUME PatientInv, RowInv', NEW c \in Channels, NEW t \in Timers,
         \/ FireDelete(c, t) \/ ClearMembers(c, t) \/ DropRow(c, t)
         \/ delStage[c][t] = "close" /\ DeleteFault(c, t)
  PROVE  PatientInv'
<1>0. TypeOK /\ TypeOK' /\ \A d \in Channels : HandoverOK(d) /\ InCharge(d)
  BY DEF PatientInv, RowInv
<1>1. UNCHANGED <<handler, where, created, open, bots, deserted>>
  BY DEF FireDelete, ClearMembers, DropRow, DeleteFault, discord
<1>2. \A d \in Channels, s \in Timers : (d # c \/ s # t) => delStage'[d][s] = delStage[d][s]
  BY <1>0 DEF FireDelete, ClearMembers, DropRow, DeleteFault, DeleteEnds, TypeOK
<1>3. delStage[c][t] # "idle" /\ (delStage'[c][t] # "idle" \/ Members(c) # {} \/ Excused(c) \/ ~Live(c))
  BY <1>0 DEF PatientInv, RowInv, ClosedIsDropped, FireDelete, LeftEmpty, Empty, Excused, ClearMembers, DropRow, TypeOK
<1>4. \A d \in Channels : Scheduled(d)' => Scheduled(d)  BY <1>2, <1>3 DEF Scheduled
<1>5. \A d \in Channels : (Gone(d)' \/ SameHandover(d)) /\ ownReg'[d] \in {ownReg[d], NoTimer}
  <2>1. CASE CancelTransfer(c)
    BY <1>0, <2>1, Cancelled DEF Gone, SameHandover
  <2>2. CASE UNCHANGED handovers  BY <2>2 DEF handovers, SameHandover
  <2> QED  BY <2>1, <2>2 DEF FireDelete, ClearMembers, DropRow, DeleteFault
<1>6. \A d \in Channels : row'[d] = row[d] \/ (row'[d] = NoUser /\ Scheduled(d))
  BY <1>0, <1>3 DEF FireDelete, ClearMembers, DropRow, DeleteFault, database, Scheduled, TypeOK
<1>7. \A d \in Channels : tracked'[d] \subseteq tracked[d] /\ (Live(d)' => Live(d))
  BY <1>0, <1>6 DEF FireDelete, ClearMembers, DropRow, DeleteFault, database, TypeOK, Live
<1>8. CallsInv'  BY <1>1, <1>4, <1>5, <1>6, CallsAround
<1>9. ASSUME NEW d \in Channels  PROVE (HandoverOK(d) /\ ListOK(d) /\ UnbornOK(d) /\ InCharge(d))'
  <2>1. HandoverOK(d)'
    <3>1. CASE Gone(d)'  BY <3>1, VoiceRoomsAssumption DEF Gone, HandoverOK
    <3>2. CASE SameHandover(d)
      <4>1. \A u \in Users : where'[u] = d => Returning(u, d)' \/ (where[u] = d /\ ~Returning(u, d))
        BY <1>1 DEF Returning
      <4> QED  BY <1>0, <1>6, <3>2, <4>1, HandoverKept
    <3> QED  BY <1>5, <3>1, <3>2
  <2>2. ListOK(d)' /\ UnbornOK(d)'  BY <1>1, <1>5, <1>7, ListsAround
  <2>3. Members(d)' = Members(d) /\ Excused(d)' = Excused(d) /\ \A u \in Users : Leaving(u, d)' = Leaving(u, d)
    BY <1>1 DEF Members, Excused, Leaving
  <2>4. Scheduled(d)' \/ Members(d) # {} \/ Excused(d) \/ ~Scheduled(d) \/ ~Live(d)
    BY <1>2, <1>3 DEF Scheduled
  <2>5. InCharge(d)'  BY <1>0, <1>7, <2>3, <2>4 DEF InCharge
  <2> QED  BY <2>1, <2>2, <2>5
<1> QED  BY <1>8, <1>9 DEF PatientInv, CallsInv

LEMMA TransferTimer ==
  ASSUME PatientInv, RowInv', NEW c \in Channels, NEW t \in Timers, TransferStep(c, t)
  PROVE  PatientInv'
<1>0. TypeOK /\ TypeOK' /\ \A d \in Channels : HandoverOK(d) /\ InCharge(d)
  BY DEF PatientInv, RowInv
<1>1. UNCHANGED <<handler, where, created, open, bots, deserted, tracked, delStage>>
  BY DEF TransferStep, FireTransfer, GrantOwner, discord, database, deletes
<1>2. transfer[c][t].stage # "idle"  BY DEF TransferStep, FireTransfer, GrantOwner
<1>3. \/ /\ UNCHANGED <<row, ownReg>>
         /\ \E heir : transfer' = [transfer EXCEPT ![c][t].stage = "grant", ![c][t].heir = heir]
      \/ /\ TransferEnds(c, t)
         /\ \A d \in Channels : row'[d] = row[d] \/ (d = c /\ Live(c))
  BY <1>0 DEF TransferStep, FireTransfer, GrantOwner, OwnerUpdated, database, TypeOK
<1>4. \A d \in Channels : Live(d)' => Live(d)  BY <1>3 DEF Live
<1>5. CASE TransferEnds(c, t) /\ \A d \in Channels : row'[d] = row[d] \/ (d = c /\ Live(c))
  <2>1. ownReg[c] # NoTimer /\ Gone(c)' /\ \A d \in Channels : d # c => SameHandover(d)
    BY <1>0, <1>2, <1>5, Ended
  <2>2. \A d \in Channels : row'[d] = row[d] \/ (ownReg[d] # NoTimer /\ ownReg'[d] = NoTimer)
    BY <1>5, <2>1 DEF Gone
  <2>3. \A d \in Channels : ownReg'[d] \in {ownReg[d], NoTimer}
    BY <2>1 DEF Gone, SameHandover
  <2>4. CallsInv'  BY <1>1, <2>2, <2>3, CallsAround DEF Scheduled
  <2>5. ASSUME NEW d \in Channels  PROVE (HandoverOK(d) /\ ListOK(d) /\ UnbornOK(d) /\ InCharge(d))'
    <3>1. HandoverOK(d)'
      <4>1. CASE d = c  BY <2>1, <4>1, VoiceRoomsAssumption DEF Gone, HandoverOK
      <4>2. CASE d # c
        <5>1. \A u \in Users : where'[u] = d => Returning(u, d)' \/ (where[u] = d /\ ~Returning(u, d))
          BY <1>1 DEF Returning
        <5> QED  BY <1>0, <1>5, <2>1, <4>2, <5>1, HandoverKept
      <4> QED  BY <4>1, <4>2
    <3>2. ListOK(d)' /\ UnbornOK(d)'  BY <1>1, <1>4, <2>3, ListsAround
    <3>3. InCharge(d)'  BY <1>0, <1>1, <1>4 DEF InCharge, Members, Excused, Leaving, Scheduled
    <3> QED  BY <3>1, <3>2, <3>3
  <2> QED  BY <2>4, <2>5 DEF PatientInv, CallsInv
<1>6. ASSUME NEW heir, UNCHANGED <<row, ownReg>>,
             transfer' = [transfer EXCEPT ![c][t].stage = "grant", ![c][t].heir = heir]
      PROVE  PatientInv'
  <2>1. CallsInv'  BY <1>1, <1>6, CallsAround DEF Scheduled
  <2>2. \A d \in Channels, s \in Timers :
           /\ transfer'[d][s].old = transfer[d][s].old
           /\ (transfer'[d][s].stage # "idle") <=> (transfer[d][s].stage # "idle")
    <3>1. \A d \in Channels, s \in Timers : (d # c \/ s # t) => transfer'[d][s] = transfer[d][s]
      BY <1>0, <1>6 DEF TypeOK
    <3>2. transfer'[c][t] = [transfer[c][t] EXCEPT !.stage = "grant", !.heir = heir]
      BY <1>0, <1>6 DEF TypeOK
    <3>3. transfer[c][t] \in Transfer  BY <1>0 DEF TypeOK
    <3>4. ASSUME NEW x \in Transfer, NEW y, NEW s, y = [x EXCEPT !.stage = s, !.heir = heir]
          PROVE  y.stage = s /\ y.old = x.old
      BY <3>4 DEF Transfer
    <3>5. transfer'[c][t].stage = "grant" /\ transfer'[c][t].old = transfer[c][t].old
      BY <3>2, <3>3, <3>4
    <3> QED  BY <1>2, <3>1, <3>5
  <2>3. ASSUME NEW d \in Channels  PROVE (HandoverOK(d) /\ ListOK(d) /\ UnbornOK(d) /\ InCharge(d))'
    <3>1. Live(d)' = Live(d) /\ ownReg'[d] = ownReg[d] /\ row'[d] = row[d] /\ where' = where
      BY <1>1, <1>6 DEF Live
    <3>2. \A u : Returning(u, d)' = Returning(u, d)  BY <1>1 DEF Returning
    <3>3. HandoverOK(d)'
      <4> SUFFICES ASSUME NEW s \in Timers, NEW old, old = transfer'[d][s].old
                   PROVE  /\ transfer'[d][s].stage # "idle" <=> ownReg'[d] = s
                          /\ transfer'[d][s].stage # "idle" =>
                               /\ old \in Users
                               /\ row'[d] \in {old, NoUser}
                               /\ Live(d)' /\ where'[old] = d => Returning(old, d)'
        BY DEF HandoverOK
      <4>1. old = transfer[d][s].old /\ ((transfer'[d][s].stage # "idle") <=> (transfer[d][s].stage # "idle"))
        BY <2>2
      <4>2. /\ transfer[d][s].stage # "idle" <=> ownReg[d] = s
            /\ transfer[d][s].stage # "idle" =>
                 /\ old \in Users
                 /\ row[d] \in {old, NoUser}
                 /\ Live(d) /\ where[old] = d => Returning(old, d)
        BY <1>0, <4>1 DEF HandoverOK
      <4> QED  BY <3>1, <3>2, <4>1, <4>2
    <3>4. ListOK(d)' /\ UnbornOK(d)'  BY <1>1, <1>4, <1>6, ListsAround
    <3>5. InCharge(d)'  BY <1>0, <1>1, <1>4 DEF InCharge, Members, Excused, Leaving, Scheduled
    <3> QED  BY <3>3, <3>4, <3>5
  <2> QED  BY <2>1, <2>3 DEF PatientInv, CallsInv
<1> QED  BY <1>3, <1>5, <1>6

-----------------------------------------------------------------------------
(* The listener calls of one user.                                         *)

LEMMA OthersAround ==
  ASSUME PatientInv, NEW u \in Users,
         \A v \in Users : v # u => handler'[v] = handler[v] /\ where'[v] = where[v],
         created \subseteq created', \A c \in created : c \in open' => c \in open,
         \A c \in Channels : Scheduled(c)' => Scheduled(c) \/ Members(c) = {},
         \A c \in Channels :
             \/ ownReg'[c] \in {ownReg[c], NoTimer}
             \/ \E i \in Slots : /\ handler[u][i].stage = "untrack" /\ handler[u][i].owned
                                 /\ handler[u][i].before = c,
         \A c \in Channels : row'[c] = row[c] \/ (~Live(c) /\ row'[c] = u /\ ~BeingLeft(c)),
         \A i \in Slots : handler'[u][i].stage = "untrack" /\ handler'[u][i].owned =>
             \/ row[handler'[u][i].before] = u
             \/ /\ handler[u][i].stage = "untrack" /\ handler[u][i].owned
                /\ handler[u][i].before = handler'[u][i].before,
         NEW v \in Users, v # u, NEW j \in Slots
  PROVE  (Waits(v, j) /\ Founds(v, j) /\ Comes(v, j) /\ Goes(v, j) /\ Owns(v, j))'
<1>0. TypeOK /\ BuiltUnseen /\ Waits(v, j) /\ Founds(v, j) /\ Comes(v, j) /\ Goes(v, j) /\ Owns(v, j)
  BY DEF PatientInv, RowInv
<1>1. \A i \in Slots : Owns(u, i)  BY DEF PatientInv
<1>2. Waits(v, j)'  BY <1>0 DEF Waits, At
<1>3. Comes(v, j)'
  <2>1. open' \cap created \subseteq open  OBVIOUS
  <2> QED  BY <1>0, <2>1 DEF Comes
<1>4. Goes(v, j)'  BY <1>0 DEF Goes
<1>5. Founds(v, j)'
  <2> SUFFICES ASSUME handler[v][j].stage \in {"insert", "track"}  PROVE Founds(v, j)'
    BY DEF Founds
  <2>1. PICK c \in Channels : c = handler[v][j].room  BY <1>0, CallFacts
  <2>2. where[v] = c /\ ~Scheduled(c) /\ ownReg[c] = NoTimer
    BY <1>0, <2>1 DEF Founds
  <2>3. ~Scheduled(c)'  BY <2>2 DEF Members
  <2>4. handler[v][j].stage = "insert" => ~Live(c) /\ ~BeingLeft(c)
    BY <1>0, <2>1 DEF BuiltUnseen, Building
  <2>5. handler[v][j].stage = "track" => row[c] = v /\ Live(c)
    BY <1>0, <2>1, VoiceRoomsAssumption DEF Founds, Live
  <2>6. ownReg'[c] = NoTimer
    <3> SUFFICES ASSUME NEW i \in Slots, handler[u][i].stage = "untrack", handler[u][i].owned,
                        handler[u][i].before = c
                 PROVE  FALSE
      BY <2>2
    <3>1. row[c] \in {u, NoUser} /\ BeingLeft(c)  BY <1>1 DEF Owns, BeingLeft, At
    <3> QED  BY <2>4, <2>5, <3>1, VoiceRoomsAssumption
  <2>7. handler[v][j].stage = "track" => row'[c] = v  BY <2>5
  <2> QED  BY <1>0, <2>1, <2>2, <2>3, <2>6, <2>7 DEF Founds
<1>6. Owns(v, j)'
  <2> SUFFICES ASSUME handler[v][j].stage \in {"leave", "untrack"}  PROVE Owns(v, j)'
    BY DEF Owns
  <2>1. PICK c \in Channels : c = handler[v][j].before  BY <1>0, CallFacts DEF Going
  <2>2. \A i \in Slots : /\ handler[u][i].stage = "untrack" /\ handler[u][i].owned
                         /\ handler[u][i].before = c
                => /\ row[c] \in {u, NoUser}
                   /\ ~(handler[v][j].stage = "untrack" /\ handler[v][j].owned)
    BY <1>1, <2>1 DEF Owns, At
  <2>3. CASE handler[v][j].stage = "leave"
    <3>1. row'[c] = v => row[c] = v  OBVIOUS
    <3>2. row[c] = v => ownReg'[c] = NoTimer
      BY <1>0, <2>1, <2>2, <2>3, VoiceRoomsAssumption DEF Owns
    <3> QED  BY <2>1, <2>3, <3>1, <3>2 DEF Owns, At
  <2>4. CASE handler[v][j].stage = "untrack" /\ handler[v][j].owned
    <3>1. BeingLeft(c)  BY <2>1, <2>4 DEF BeingLeft, At
    <3>2. /\ row[c] \in {v, NoUser} /\ ownReg[c] = NoTimer
          /\ \A w \in Users \ {v} : \A i \in Slots :
                ~(handler[w][i].stage = "untrack" /\ handler[w][i].owned /\ handler[w][i].before = c)
      BY <1>0, <2>1, <2>4 DEF Owns, At
    <3>3. row'[c] = row[c] /\ ownReg'[c] = NoTimer  BY <2>2, <2>4, <3>1, <3>2
    <3>4. \A w \in Users \ {v} : \A i \in Slots :
             ~(handler'[w][i].stage = "untrack" /\ handler'[w][i].owned /\ handler'[w][i].before = c)
      BY <3>2, VoiceRoomsAssumption
    <3> QED  BY <2>1, <2>4, <3>2, <3>3, <3>4 DEF Owns, At
  <2>5. CASE handler[v][j].stage = "untrack" /\ ~handler[v][j].owned
    BY <2>5 DEF Owns
  <2> QED  BY <2>3, <2>4, <2>5
<1> QED  BY <1>2, <1>3, <1>4, <1>5, <1>6

\* A call of u goes on, u stays where he is, and no row is written.
LEMMA Onward ==
  ASSUME PatientInv, NEW u \in Users, NEW i \in Slots, Only(u, i), TypeOK',
         NEW old, NEW new, old = handler[u][i], new = handler'[u][i],
         UNCHANGED <<where, row>>,
         created \subseteq created', \A c \in created : c \in open' => c \in open,
         \A c \in Channels : Scheduled(c)' => Scheduled(c) \/ Members(c) = {},
         \A c \in Channels : \/ ownReg'[c] \in {ownReg[c], NoTimer}
                             \/ old.stage = "untrack" /\ old.owned /\ old.before = c,
         old.stage # "idle",
         new.stage \notin {"stale", "insert", "track", "leave"},
         new.stage \in Pipeline => old.stage \in Pipeline,
         new.stage \in Coming => old.stage \in Coming /\ new.after = old.after,
         new.stage \in Going => old.stage \in Going /\ new.before = old.before,
         new.stage = "untrack" /\ new.owned =>
             old.stage = "leave" /\ row[old.before] = u /\ ownReg' = ownReg,
         old.stage \in {"join", "add"} =>
             \/ new.stage \in {"idle", "join", "add"}
             \/ \A j \in Slots : handler[u][j].stage \notin {"insert", "track"}
  PROVE  CallsInv'
<1>0. TypeOK /\ \A j \in Slots : Waits(u, j) /\ Founds(u, j) /\ Comes(u, j) /\ Goes(u, j) /\ Owns(u, j)
  BY DEF PatientInv, RowInv
<1>1. \A v \in Users : v # u => handler'[v] = handler[v]  BY <1>0 DEF Only, TypeOK
<1>2. \A j \in Slots : j # i => handler'[u][j] = handler[u][j]  BY DEF Only
<1>3. ASSUME NEW v \in Users, v # u, NEW j \in Slots
      PROVE  (Waits(v, j) /\ Founds(v, j) /\ Comes(v, j) /\ Goes(v, j) /\ Owns(v, j))'
  <2>1. \A c \in Channels :
             \/ ownReg'[c] \in {ownReg[c], NoTimer}
             \/ \E k \in Slots : /\ handler[u][k].stage = "untrack" /\ handler[u][k].owned
                                 /\ handler[u][k].before = c
    OBVIOUS
  <2>2. \A k \in Slots : handler'[u][k].stage = "untrack" /\ handler'[u][k].owned =>
             \/ row[handler'[u][k].before] = u
             \/ /\ handler[u][k].stage = "untrack" /\ handler[u][k].owned
                /\ handler[u][k].before = handler'[u][k].before
    BY <1>2 DEF Going
  <2>3. \A c \in Channels : row'[c] = row[c]  OBVIOUS
  <2> QED  BY <1>1, <1>3, <2>1, <2>2, <2>3, OthersAround
<1>4. ASSUME NEW j \in Slots, j # i
      PROVE  (Waits(u, j) /\ Founds(u, j) /\ Comes(u, j) /\ Goes(u, j) /\ Owns(u, j))'
  <2>1. Waits(u, j)'  BY <1>0, <1>2, <1>4 DEF Waits, At
  <2>2. Founds(u, j)'
    <3> SUFFICES ASSUME handler[u][j].stage \in {"insert", "track"}  PROVE Founds(u, j)'
      BY <1>2, <1>4 DEF Founds
    <3>1. PICK c \in Channels : c = handler[u][j].room  BY <1>0, CallFacts
    <3>2. where[u] = c /\ ~Scheduled(c) /\ ownReg[c] = NoTimer /\ old.stage \in {"join", "add"}
      BY <1>0, <1>4, <3>1 DEF Founds
    <3>3. ~Scheduled(c)' /\ ownReg'[c] = NoTimer  BY <3>2 DEF Members
    <3>4. new.stage \in {"idle", "join", "add"}  BY <3>2
    <3> QED  BY <1>0, <1>2, <1>4, <3>1, <3>2, <3>3, <3>4 DEF Founds
  <2>3. Comes(u, j)'
    <3>1. open' \cap created \subseteq open  OBVIOUS
    <3> QED  BY <1>0, <1>2, <1>4, <3>1 DEF Comes
  <2>4. Goes(u, j)'  BY <1>0, <1>2, <1>4 DEF Goes
  <2>5. Owns(u, j)'
    <3> SUFFICES ASSUME handler[u][j].stage \in {"leave", "untrack"}  PROVE Owns(u, j)'
      BY <1>2, <1>4 DEF Owns
    <3>1. PICK c \in Channels : c = handler[u][j].before  BY <1>0, CallFacts DEF Going
    <3>2. old.stage = "untrack" => old.before # c  BY <1>0, <1>4, <3>1 DEF Goes, Going
    <3>3. ownReg'[c] \in {ownReg[c], NoTimer}  BY <3>2
    <3> QED  BY <1>0, <1>1, <1>2, <1>4, <3>1, <3>3 DEF Owns, At
  <2> QED  BY <2>1, <2>2, <2>3, <2>4, <2>5
<1>5. (Waits(u, i) /\ Founds(u, i) /\ Comes(u, i) /\ Goes(u, i) /\ Owns(u, i))'
  <2>1. Waits(u, i)'  BY <1>0, <1>2 DEF Waits, At
  <2>2. Founds(u, i)'  BY DEF Founds
  <2>3. Comes(u, i)'
    <3>1. open' \cap created \subseteq open  OBVIOUS
    <3> QED  BY <1>0, <1>2, <3>1 DEF Comes
  <2>4. Goes(u, i)'  BY <1>0, <1>2 DEF Goes
  <2>5. Owns(u, i)'
    <3> SUFFICES ASSUME new.stage = "untrack", new.owned  PROVE Owns(u, i)'
      BY DEF Owns
    <3>1. PICK c \in Channels : c = old.before /\ c = new.before  BY <1>0, CallFacts DEF Going
    <3>2. row[c] = u /\ ownReg'[c] = NoTimer  BY <1>0, <3>1 DEF Owns
    <3>3. ASSUME NEW v \in Users \ {u}, NEW j \in Slots, handler[v][j].stage = "untrack",
                 handler[v][j].owned, handler[v][j].before = c
          PROVE  FALSE
      <4>1. Owns(v, j)  BY DEF PatientInv
      <4>2. row[c] \in {v, NoUser}  BY <3>3, <4>1 DEF Owns
      <4> QED  BY <3>2, <4>2, VoiceRoomsAssumption
    <3> QED  BY <1>1, <3>1, <3>2, <3>3 DEF Owns, At
  <2> QED  BY <2>1, <2>2, <2>3, <2>4, <2>5
<1> QED  BY <1>3, <1>4, <1>5 DEF CallsInv

\* The stages at which a call has made a channel and not given it a row.
Makes == {"move", "insert", "rollback"}

\* What a call of u that goes on leaves of a room.
LEMMA ListsOnward ==
  ASSUME PatientInv, NEW u \in Users, NEW i \in Slots, Only(u, i),
         NEW old, NEW new, old = handler[u][i], new = handler'[u][i],
         UNCHANGED <<where, row, created>>, ExcusesKept, NEW c \in Channels,
         tracked'[c] \subseteq tracked[c], Scheduled(c) => Scheduled(c)',
         Unborn(c) => ownReg'[c] \in {ownReg[c], NoTimer},
         new.stage \in Makes => old.stage \in Makes /\ new.room = old.room,
         new.stage \in {"add", "eject"} => Live(new.after),
         old.stage \in Going /\ old.before = c /\ Live(c) =>
             \/ new.stage \in Going /\ new.before = c
             \/ u \notin tracked'[c] /\ (Scheduled(c)' \/ Members(c) # {} \/ Excused(c))
  PROVE  (ListOK(c) /\ UnbornOK(c) /\ InCharge(c))'
<1>0. TypeOK /\ ListOK(c) /\ UnbornOK(c) /\ InCharge(c) /\ BuiltUnseen /\ RowHasChannel
  BY DEF PatientInv, RowInv
<1>1. \A v \in Users : \A j \in Slots :
         handler'[v][j] = handler[v][j] \/ (v = u /\ j = i)
  BY DEF Only
<1>2. \A v \in Users : Leaving(v, c) /\ Live(c) =>
         Leaving(v, c)' \/ (v = u /\ v \notin tracked'[c] /\ (Scheduled(c)' \/ Members(c) # {} \/ Excused(c)))
  BY <1>1 DEF Leaving
<1>3. Live(c)' = Live(c) /\ Members(c)' = Members(c)  BY DEF Live, Members
<1>4. ListOK(c)'  BY <1>0, <1>2, <1>3, ListKept
<1>5. Unborn(c)' => Unborn(c)
  BY <1>1, SameBuilding DEF Building, Makes
<1>6. Unborn(c) => ~Live(c)
  BY <1>0 DEF Unborn, BuiltUnseen, RowHasChannel, TypeOK
<1>7. Unborn(c)' => \A v \in Users : \A j \in Slots :
             handler'[v][j].stage \in {"add", "eject"} /\ handler'[v][j].after = c =>
                 handler[v][j].stage \in {"add", "eject"} /\ handler[v][j].after = c
  BY <1>1, <1>5, <1>6
<1>8. UnbornOK(c)'  BY <1>0, <1>5, <1>7, UnbornKept
<1>9. InCharge(c)'  BY <1>0, <1>2, <1>3 DEF InCharge, ExcusesKept
<1> QED  BY <1>4, <1>8, <1>9

LEMMA ReturningOnward ==
  ASSUME PatientInv, NEW u \in Users, NEW i \in Slots, Only(u, i),
         NEW old, NEW new, old = handler[u][i], new = handler'[u][i],
         UNCHANGED <<where, row>>, NEW c \in Channels, SameHandover(c),
         old.stage \in {"leave", "untrack", "join"} /\ old.after = c /\ Live(c) /\ row[c] = u =>
             new.stage \in {"leave", "untrack", "join"} /\ new.after = c
  PROVE  HandoverOK(c)'
<1>1. \A v \in Users : Live(c) /\ row[c] = v /\ Returning(v, c) => Returning(v, c)'
  BY DEF Only, Returning
<1>2. Live(c)' = Live(c)  BY DEF Live
<1> QED  BY <1>1, <1>2, HandoverKept DEF PatientInv, RowInv

\* A call of u goes on and nothing but its stage and creating changes.
LEMMA StageOnly ==
  ASSUME PatientInv, RowInv', NEW u \in Users, NEW i \in Slots, Only(u, i),
         NEW old, NEW new, old = handler[u][i], new = handler'[u][i],
         UNCHANGED <<where, row, created, open, tracked, deletes, handovers>>, ExcusesKept,
         old.stage # "idle",
         new.stage \in {"idle", "join"} \/ (new.stage = "untrack" /\ old.stage = "leave")
             \/ (new.stage \in {"vet", "redirect", "make"} /\ old.stage \in Pipeline)
             \/ (new.stage = "rollback" /\ old.stage = "move" /\ new.room = old.room),
         old.stage \in Going /\ Live(old.before) => new.stage = "untrack" /\ new.before = old.before,
         old.stage = "leave" /\ new.stage = "untrack" =>
             new.before = old.before /\ (new.owned => row[old.before] = u),
         new.stage \in {"join", "untrack"} => old.stage \in Coming /\ new.after = old.after,
         old.stage \in {"leave", "untrack", "join"} /\ old.after \in Channels
             /\ Live(old.after) /\ row[old.after] = u
                => new.stage \in {"untrack", "join"} /\ new.after = old.after
  PROVE  PatientInv'
<1>0. TypeOK'  BY DEF RowInv
<1>1. UNCHANGED <<delStage, ownReg, transfer>>  BY DEF deletes, handovers
<1>2. CallsInv'
  <2>1. /\ new.stage \notin {"stale", "insert", "track", "leave"}
        /\ new.stage \in Pipeline => old.stage \in Pipeline
        /\ new.stage \in Coming => old.stage \in Coming /\ new.after = old.after
        /\ new.stage \in Going => old.stage \in Going /\ new.before = old.before
        /\ new.stage = "untrack" /\ new.owned =>
              old.stage = "leave" /\ row[old.before] = u /\ ownReg' = ownReg
        /\ old.stage \in {"join", "add"} => new.stage \in {"idle", "join", "add"}
    BY <1>1 DEF Pipeline, Coming, Going
  <2>2. \A c \in Channels : ownReg'[c] = ownReg[c] /\ Scheduled(c)' = Scheduled(c)
    BY <1>1 DEF Scheduled
  <2> QED  BY <1>0, <2>1, <2>2, Onward
<1>3. ASSUME NEW c \in Channels  PROVE (HandoverOK(c) /\ ListOK(c) /\ UnbornOK(c) /\ InCharge(c))'
  <2>1. Scheduled(c)' = Scheduled(c) /\ SameHandover(c)  BY <1>1 DEF Scheduled, SameHandover
  <2>2. HandoverOK(c)'  BY <2>1, ReturningOnward
  <2>3. /\ new.stage \in Makes => old.stage \in Makes /\ new.room = old.room
        /\ new.stage \notin {"add", "eject"}
        /\ old.stage \in Going /\ old.before = c /\ Live(c) => new.stage \in Going /\ new.before = c
    BY DEF Going, Makes
  <2>4. (ListOK(c) /\ UnbornOK(c) /\ InCharge(c))'  BY <1>1, <2>1, <2>3, ListsOnward
  <2> QED  BY <2>2, <2>4
<1> QED  BY <1>2, <1>3 DEF PatientInv, CallsInv

-----------------------------------------------------------------------------
(* The calls, one by one.                                                  *)

LEMMA ReturnCall ==
  ASSUME TypeOK, NEW u \in Users, NEW i \in Slots, Return(u, i)
  PROVE  handler'[u][i].stage = "idle" /\ Only(u, i)
<1>1. handler'[u][i] = Idle /\ Only(u, i)  BY SlotCall DEF Return
<1> QED  BY <1>1 DEF Idle

\* Calls that give up, or look once more, on the way to a room.
LEMMA EarlySteps ==
  ASSUME PatientInv, RowInv', NEW u \in Users, NEW i \in Slots,
         \/ Enter(u, i) \/ Vet(u, i)
         \/ /\ handler[u][i].stage \in Pipeline \cup {"add", "eject"}
            /\ Return(u, i)
            /\ UNCHANGED <<where, row, created, open, tracked, deletes, handovers>>
            /\ ExcusesKept
  PROVE  PatientInv'
<1>0. TypeOK /\ RowHasChannel  BY DEF PatientInv, RowInv
<1>1. UNCHANGED <<where, row, created, open, tracked, deletes, handovers>> /\ ExcusesKept
  BY DEF Enter, Vet, discord, database, ExcusesKept, Excused
<1>2. handler[u][i].stage \in Pipeline \cup {"add", "eject"}
  BY DEF Enter, Vet, At, Pipeline
<1>3. \/ Return(u, i)
      \/ /\ handler[u][i].stage \in Pipeline
         /\ \E s \in {"vet", "make"} : Goto(u, i, s)
      \/ /\ handler[u][i].stage \in Pipeline
         /\ \E c : handler' = [handler EXCEPT ![u][i].stage = "redirect", ![u][i].room = c]
  <2>1. CASE Enter(u, i)  BY <2>1 DEF Enter, At, Pipeline
  <2>2. CASE Vet(u, i)
    <3>1. ASSUME NEW c \in RoomsOf(u)  PROVE c \in open
      BY <1>0, <3>1, VoiceRoomsAssumption DEF RoomsOf, RowHasChannel, Live
    <3>2. ASSUME NEW c \in RoomsOf(u),
                 handler' = [handler EXCEPT
                     ![u][i].stage = IF c \in open THEN "redirect" ELSE "stale",
                     ![u][i].room = c]
          PROVE  handler' = [handler EXCEPT ![u][i].stage = "redirect", ![u][i].room = c]
      BY <3>1, <3>2
    <3> QED  BY <2>2, <3>2 DEF Vet, At, Pipeline
  <2> QED  BY <2>1, <2>2
<1>4. /\ Only(u, i)
      /\ \/ handler'[u][i].stage = "idle"
         \/ handler[u][i].stage \in Pipeline /\ handler'[u][i].stage \in {"vet", "redirect", "make"}
  <2>1. CASE Return(u, i)  BY <1>0, <2>1, ReturnCall
  <2>2. ASSUME NEW s \in {"vet", "make"}, Goto(u, i, s)
        PROVE  handler'[u][i].stage \in {"vet", "redirect", "make"} /\ Only(u, i)
    BY <1>0, <2>2, GotoCall
  <2>3. ASSUME NEW c, handler' = [handler EXCEPT ![u][i].stage = "redirect", ![u][i].room = c]
        PROVE  handler'[u][i].stage \in {"vet", "redirect", "make"} /\ Only(u, i)
    <3>1. Takes(u, i, "redirect", c)  BY <2>3 DEF Takes
    <3> QED  BY <1>0, <3>1, RoomCall
  <2> QED  BY <1>3, <2>1, <2>2, <2>3
<1> QED  BY <1>1, <1>2, <1>4, StageOnly DEF Going, Pipeline

LEMMA LeaveStep ==
  ASSUME PatientInv, RowInv', NEW u \in Users, NEW i \in Slots, Leave(u, i)
  PROVE  PatientInv'
<1>0. TypeOK  BY DEF PatientInv, RowInv
<1>1. UNCHANGED <<where, row, created, open, tracked, deletes, handovers>> /\ ExcusesKept
  BY DEF Leave, discord, database, ExcusesKept, Excused
<1>2. handler[u][i] \in Call /\ handler[u][i].stage = "leave"  BY <1>0 DEF Leave, At, TypeOK
<1>3. PICK old \in Call : old = handler[u][i]  BY <1>2
<1>4. PICK new : new = IF Live(old.before)
                       THEN [old EXCEPT !.stage = "untrack", !.owned = (row[old.before] = u)]
                       ELSE ThenJoin(old)
  OBVIOUS
<1>5. handler' = [handler EXCEPT ![u][i] = new]  BY <1>3, <1>4 DEF Leave
<1>6. new = handler'[u][i] /\ Only(u, i)  BY <1>0, <1>5, SlotCall
<1>7. CASE Live(old.before)
  <2>1. new = [old EXCEPT !.stage = "untrack", !.owned = (row[old.before] = u)]  BY <1>4, <1>7
  <2>2. /\ new.stage = "untrack" /\ new.before = old.before /\ new.after = old.after
        /\ new.owned => row[old.before] = u
    BY <2>1 DEF Call
  <2> QED  BY <1>1, <1>2, <1>3, <1>6, <2>2, StageOnly DEF Coming
<1>8. CASE ~Live(old.before)
  <2>1. /\ new.stage = IF old.after \in Channels THEN "join" ELSE "idle"
        /\ old.after \in Channels => new.after = old.after
    BY <1>4, <1>8, ThenJoinIs
  <2> QED  BY <1>1, <1>2, <1>3, <1>6, <1>8, <2>1, StageOnly DEF Coming
<1> QED  BY <1>7, <1>8

LEMMA DeleteScheduled ==
  ASSUME TypeOK, NEW c \in Channels, ScheduleDelete(c)
  PROVE  Scheduled(c)' /\ \A d \in Channels : d # c => Scheduled(d)' = Scheduled(d)
<1>1. PICK t \in Timers : delStage' = [delStage EXCEPT ![c] =
               [x \in Timers |-> IF x = t THEN "sleep"
                                 ELSE IF x = delReg[c] THEN "idle" ELSE @[x]]]
  BY DEF ScheduleDelete
<1>2. delStage'[c][t] = "sleep" /\ \A d \in Channels : d # c => delStage'[d] = delStage[d]
  BY <1>1 DEF TypeOK
<1> QED  BY <1>2 DEF Scheduled

LEMMA HandoverScheduled ==
  ASSUME TypeOK, NEW c \in Channels, Gone(c), NEW u \in Users, ScheduleTransfer(c, u),
         row'[c] \in {u, NoUser}, where'[u] # c
  PROVE  HandoverOK(c)' /\ \A d \in Channels : d # c => SameHandover(d)
<1>1. PICK t \in Timers :
        /\ transfer' = [transfer EXCEPT ![c] =
               [x \in Timers |->
                   IF x = t THEN [stage |-> "sleep", old |-> u, heir |-> NoUser]
                   ELSE IF x = ownReg[c] THEN NoTransfer ELSE @[x]]]
        /\ ownReg' = [ownReg EXCEPT ![c] = IF @ = NoTimer THEN t ELSE NoTimer]
  BY DEF ScheduleTransfer
<1>2. ownReg'[c] = t /\ \A d \in Channels : d # c => SameHandover(d)
  BY <1>1 DEF TypeOK, SameHandover, Gone
<1>3. transfer'[c][t].stage = "sleep" /\ transfer'[c][t].old = u  BY <1>1 DEF TypeOK
<1>4. ASSUME NEW s \in Timers, s # t  PROVE transfer'[c][s].stage = "idle"
  <2>1. transfer'[c][s] = transfer[c][s]
    BY <1>1, <1>4, VoiceRoomsAssumption DEF TypeOK, Gone
  <2> QED  BY <2>1 DEF Gone
<1> QED  BY <1>2, <1>3, <1>4 DEF HandoverOK

LEMMA UntrackStep ==
  ASSUME PatientInv, RowInv', NEW u \in Users, NEW i \in Slots, Untrack(u, i)
  PROVE  PatientInv'
<1>0. TypeOK /\ TypeOK' /\ BuiltUnseen /\ SeenIsCreated  BY DEF PatientInv, RowInv
<1>1. UNCHANGED <<where, row, created, open>> /\ ExcusesKept
  BY DEF Untrack, discord, ExcusesKept, Excused
<1>2. PICK old \in Call : old = handler[u][i]  BY <1>0 DEF TypeOK
<1>3. PICK new : new = ThenJoin(old)  OBVIOUS
<1>4. handler' = [handler EXCEPT ![u][i] = new]  BY <1>2, <1>3 DEF Untrack
<1>5. new = handler'[u][i] /\ Only(u, i)  BY <1>0, <1>4, SlotCall
<1>6. /\ new.stage = IF old.after \in Channels THEN "join" ELSE "idle"
      /\ old.after \in Channels => new.after = old.after
  BY <1>3, ThenJoinIs
<1>7. PICK c \in Channels : c = old.before
  BY <1>0, <1>2, CallFacts DEF Untrack, At, Going
<1>8. old.stage = "untrack" /\ MemberRemoved(c, u) /\ AfterLeave(c, u, old.owned)
  BY <1>2, <1>7 DEF Untrack, At
<1>9. Goes(u, i) /\ Owns(u, i)  BY DEF PatientInv
<1>10. where[u] # c /\ BeingLeft(c)  BY <1>2, <1>7, <1>8, <1>9 DEF Goes, Going, BeingLeft, At
<1>11. old.owned => ownReg[c] = NoTimer /\ row[c] \in {u, NoUser}
  BY <1>2, <1>7, <1>8, <1>9 DEF Owns
<1>12. ~Unborn(c)
  <2>1. c \in created  BY <1>0, <1>10 DEF SeenIsCreated
  <2> QED  BY <1>0, <1>10, <2>1 DEF Unborn, BuiltUnseen
<1>13. /\ \A d \in Channels : d # c => Scheduled(d)' = Scheduled(d)
       /\ Scheduled(c) => Scheduled(c)'
       /\ Members(c) = {} => Scheduled(c)' \/ Excused(c)
       /\ Scheduled(c)' => Scheduled(c) \/ Members(c) = {}
  <2>1. CASE Empty(c) /\ ScheduleDelete(c)  BY <1>0, <2>1, DeleteScheduled DEF Empty
  <2>2. CASE ~Empty(c) /\ UNCHANGED deletes  BY <2>2 DEF deletes, Scheduled, Empty, Excused
  <2> QED  BY <1>8, <2>1, <2>2 DEF AfterLeave
<1>14. \/ \A d \in Channels : SameHandover(d)
       \/ /\ old.owned /\ HandoverOK(c)'
          /\ \A d \in Channels : d # c => SameHandover(d)
  <2>1. CASE UNCHANGED handovers  BY <2>1 DEF handovers, SameHandover
  <2>2. CASE old.owned /\ ScheduleTransfer(c, u)
    <3>1. Gone(c)  BY <1>11, <2>2, UnregisteredIsGone DEF PatientInv
    <3> QED  BY <1>0, <1>1, <1>10, <1>11, <2>2, <3>1, HandoverScheduled
  <2> QED  BY <1>8, <2>1, <2>2 DEF AfterLeave
<1>15. \A d \in Channels : tracked'[d] \subseteq tracked[d] /\ (d = c /\ Live(c) => u \notin tracked'[d])
  BY <1>0, <1>8 DEF MemberRemoved, TypeOK
<1>16. CallsInv'
  <2>1. \A d \in Channels : Scheduled(d)' => Scheduled(d) \/ Members(d) = {}  BY <1>13
  <2>2. \A d \in Channels : \/ ownReg'[d] \in {ownReg[d], NoTimer}
                            \/ old.stage = "untrack" /\ old.owned /\ old.before = d
    BY <1>7, <1>8, <1>14 DEF SameHandover
  <2>3. new.stage \in {"idle", "join"} /\ (new.stage = "join" => new.after = old.after)
    BY <1>6
  <2> QED  BY <1>0, <1>1, <1>2, <1>5, <1>8, <2>1, <2>2, <2>3, Onward DEF Pipeline, Coming, Going
<1>17. ASSUME NEW d \in Channels  PROVE (HandoverOK(d) /\ ListOK(d) /\ UnbornOK(d) /\ InCharge(d))'
  <2>1. HandoverOK(d)'
    <3>1. CASE SameHandover(d)  BY <1>1, <1>2, <1>5, <1>6, <3>1, ReturningOnward
    <3> QED  BY <1>14, <3>1
  <2>2. Scheduled(d) => Scheduled(d)'  BY <1>13
  <2>3. Unborn(d) => ownReg'[d] \in {ownReg[d], NoTimer}  BY <1>12, <1>14 DEF SameHandover
  <2>4. new.stage \notin Makes \cup {"add", "eject"}  BY <1>6 DEF Makes
  <2>5. old.before = d /\ Live(d) => u \notin tracked'[d] /\ (Scheduled(d)' \/ Members(d) # {} \/ Excused(d))
    BY <1>7, <1>13, <1>15
  <2>6. (ListOK(d) /\ UnbornOK(d) /\ InCharge(d))'
    BY <1>1, <1>2, <1>5, <1>15, <2>2, <2>3, <2>4, <2>5, ListsOnward
  <2> QED  BY <2>1, <2>6
<1> QED  BY <1>16, <1>17 DEF PatientInv, CallsInv

LEMMA JoinStep ==
  ASSUME PatientInv, RowInv', NEW u \in Users, NEW i \in Slots, Join(u, i)
  PROVE  PatientInv'
<1>0. TypeOK /\ TypeOK' /\ BuiltUnseen /\ RowHasChannel  BY DEF PatientInv, RowInv
<1>1. UNCHANGED <<where, row, created, open, tracked, deletes>> /\ ExcusesKept
  BY DEF Join, discord, database, ExcusesKept, Excused
<1>2. PICK old, new : old = handler[u][i] /\ new = handler'[u][i]  OBVIOUS
<1>3. PICK c \in Channels : c = old.after /\ old.stage = "join"
  BY <1>0, <1>2, CallFacts DEF Join, At
<1>4. CASE ~Live(c)
  <2>1. Return(u, i) /\ UNCHANGED handovers  BY <1>2, <1>3, <1>4 DEF Join
  <2>2. new.stage = "idle" /\ Only(u, i)  BY <1>0, <1>2, <2>1, ReturnCall
  <2> QED  BY <1>1, <1>2, <1>3, <1>4, <2>1, <2>2, StageOnly DEF Going
<1>5. CASE Live(c)
  <2>1. \/ Denied(c, u) /\ Goto(u, i, "eject") /\ UNCHANGED handovers
        \/ Goto(u, i, "add") /\ OwnerReturns(c, u)
    BY <1>2, <1>3, <1>5 DEF Join
  <2>2. /\ new.stage \in {"eject", "add"} /\ new.after = c /\ Only(u, i)
        /\ new.stage = "eject" => row[c] # u /\ UNCHANGED handovers
        /\ new.stage = "add" => OwnerReturns(c, u)
    BY <1>0, <1>2, <1>3, <2>1, GotoCall DEF Denied
  <2>3. \A d \in Channels : (Gone(d)' \/ SameHandover(d)) /\ ownReg'[d] \in {ownReg[d], NoTimer}
    <3>1. CASE UNCHANGED handovers  BY <3>1 DEF handovers, SameHandover
    <3>2. CASE CancelTransfer(c)
      BY <1>0, <3>2, Cancelled DEF PatientInv, Gone, SameHandover
    <3> QED  BY <2>2, <3>1, <3>2 DEF OwnerReturns
  <2>4. row[c] = u => Gone(c)'
    BY <1>0, <2>2, Cancelled DEF OwnerReturns, PatientInv
  <2>5. \A d \in Channels : Scheduled(d)' = Scheduled(d)  BY <1>1 DEF deletes, Scheduled
  <2>6. ASSUME new.stage = "eject", NEW j \in Slots, handler[u][j].stage \in {"insert", "track"}
        PROVE  FALSE
    <3>1. Comes(u, i) /\ Founds(u, j)  BY DEF PatientInv
    <3>2. where[u] = c  BY <1>0, <1>2, <1>3, <1>5, <3>1 DEF Comes, Coming, RowHasChannel
    <3>3. handler[u][j].room = c  BY <2>6, <3>1, <3>2 DEF Founds
    <3>4. handler[u][j].stage = "track"  BY <1>0, <1>5, <2>6, <3>3 DEF BuiltUnseen, Building
    <3> QED  BY <2>2, <2>6, <3>1, <3>3, <3>4 DEF Founds
  <2>7. CallsInv'
    <3>1. \A d \in Channels : Scheduled(d)' => Scheduled(d) \/ Members(d) = {}  BY <2>5
    <3>2. \/ new.stage \in {"idle", "join", "add"}
          \/ \A j \in Slots : handler[u][j].stage \notin {"insert", "track"}
      BY <2>2, <2>6
    <3> QED  BY <1>0, <1>1, <1>2, <1>3, <2>2, <2>3, <3>1, <3>2, Onward DEF Pipeline, Coming, Going
  <2>8. ASSUME NEW d \in Channels  PROVE (HandoverOK(d) /\ ListOK(d) /\ UnbornOK(d) /\ InCharge(d))'
    <3>1. HandoverOK(d)'
      <4>1. CASE Gone(d)'  BY <4>1, VoiceRoomsAssumption DEF Gone, HandoverOK
      <4>2. CASE SameHandover(d) /\ ~Gone(d)'
        BY <1>1, <1>2, <1>3, <2>2, <2>4, <4>2, ReturningOnward
      <4> QED  BY <2>3, <4>1, <4>2
    <3>2. new.stage \notin Makes  BY <2>2 DEF Makes
    <3>3. (ListOK(d) /\ UnbornOK(d) /\ InCharge(d))'
      BY <1>1, <1>2, <1>3, <1>5, <2>2, <2>3, <2>5, <3>2, ListsOnward DEF Going
    <3> QED  BY <3>1, <3>3
  <2> QED  BY <2>7, <2>8 DEF PatientInv, CallsInv
<1> QED  BY <1>4, <1>5

LEMMA AddStep ==
  ASSUME PatientInv, RowInv', NEW u \in Users, NEW i \in Slots, Add(u, i)
  PROVE  PatientInv'
<1>0. TypeOK /\ TypeOK' /\ RowHasChannel  BY DEF PatientInv, RowInv
<1>1. UNCHANGED <<where, row, created, open, handovers>> /\ ExcusesKept
  BY DEF Add, discord, ExcusesKept, Excused
<1>2. PICK old, new : old = handler[u][i] /\ new = handler'[u][i]  OBVIOUS
<1>3. PICK c \in Channels : c = old.after /\ old.stage = "add"
  BY <1>0, <1>2, CallFacts DEF Add, At
<1>4. new.stage = "idle" /\ Only(u, i)  BY <1>0, <1>2, ReturnCall DEF Add
<1>5. /\ \A d \in Channels : d # c => Scheduled(d)' = Scheduled(d)
      /\ Scheduled(c)' => Scheduled(c)
  <2>1. /\ \A d \in Channels : d # c => delStage'[d] = delStage[d]
        /\ \A t \in Timers : delStage'[c][t] \in {"idle", delStage[c][t]}
    BY <1>0, <1>2, <1>3 DEF Add, CancelDelete, TypeOK
  <2> QED  BY <2>1 DEF Scheduled
<1>6. tracked'[c] = tracked[c] \cup {u} /\ \A d \in Channels : d # c => tracked'[d] = tracked[d]
  BY <1>0, <1>2, <1>3 DEF Add, TypeOK
<1>7. CallsInv'
  <2>1. \A d \in Channels : Scheduled(d)' => Scheduled(d) \/ Members(d) = {}  BY <1>5
  <2>2. \A d \in Channels : ownReg'[d] = ownReg[d]  BY <1>1 DEF handovers
  <2> QED  BY <1>0, <1>1, <1>2, <1>3, <1>4, <2>1, <2>2, Onward DEF Pipeline, Coming, Going
<1>8. ASSUME NEW d \in Channels  PROVE (HandoverOK(d) /\ ListOK(d) /\ UnbornOK(d) /\ InCharge(d))'
  <2>0. SameHandover(d)  BY <1>1 DEF handovers, SameHandover
  <2>1. HandoverOK(d)'  BY <1>1, <1>2, <1>3, <1>4, <2>0, ReturningOnward
  <2>2. CASE d # c
    <3>1. (ListOK(d) /\ UnbornOK(d) /\ InCharge(d))'
      BY <1>1, <1>2, <1>3, <1>4, <1>5, <1>6, <2>0, <2>2, ListsOnward DEF Going, SameHandover, Makes
    <3> QED  BY <2>1, <3>1
  <2>3. CASE d = c
    <3>1. Live(c) => where[u] = c
      <4>1. Comes(u, i)  BY DEF PatientInv
      <4> QED  BY <1>0, <1>2, <1>3, <4>1 DEF Comes, Coming, RowHasChannel
    <3>2. ~Unborn(c)  BY <1>2, <1>3 DEF PatientInv, UnbornOK
    <3>3. Unborn(c)' => Unborn(c)
      BY <1>1, <1>2, <1>4, SameBuilding DEF Building, Only
    <3>4. Live(c)' = Live(c) /\ Members(c)' = Members(c)  BY <1>1 DEF Live, Members
    <3>5. \A w \in Users : Leaving(w, c) => Leaving(w, c)'
      BY <1>2, <1>3, <1>4 DEF Only, Leaving, Going
    <3>6. ListOK(c)'
      BY <1>1, <1>6, <3>1, <3>4, <3>5 DEF PatientInv, ListOK, RowInv, TypeOK
    <3>7. UnbornOK(c)'  BY <3>2, <3>3 DEF UnbornOK
    <3>8. InCharge(c)'  BY <3>1, <3>4 DEF InCharge, Members
    <3> QED  BY <2>1, <2>3, <3>6, <3>7, <3>8
  <2> QED  BY <2>2, <2>3
<1> QED  BY <1>7, <1>8 DEF PatientInv, CallsInv

\* A user goes from one place to another, or is moved, and a call starts in slot k, which was
\* free or held the call that moved him.
LEMMA MoveStep ==
  ASSUME PatientInv, RowInv', NEW u \in Users, NEW k \in Slots, NEW to \in Places,
         NEW old, NEW new, old = handler[u][k], new = handler'[u][k],
         where' = [where EXCEPT ![u] = to], where[u] # to,
         new = Dispatch(where[u], to), Only(u, k),
         UNCHANGED <<open, created, row, tracked, deletes, handovers>>,
         \A d \in Channels \ {to} : Excused(d) => Excused(d)',
         to \in Channels => to \in open,
         to = Trigger => where[u] \notin Channels,
         \/ /\ old.stage \in {"idle", "redirect"}
            /\ \A j \in Slots \ {k} : handler[u][j].stage = "idle"
         \/ old.stage = "eject" /\ to = Out
  PROVE  PatientInv'
<1>0. /\ TypeOK /\ TypeOK' /\ RowHasChannel
      /\ \A j \in Slots : Waits(u, j) /\ Founds(u, j) /\ Comes(u, j) /\ Goes(u, j) /\ Owns(u, j)
  BY DEF PatientInv, RowInv
<1>1. PICK from \in Places : from = where[u]  BY <1>0 DEF TypeOK
<1>2. where'[u] = to /\ \A v \in Users : v # u => where'[v] = where[v]  BY <1>0 DEF TypeOK
<1>3. /\ new.stage = "enter" => to = Trigger
      /\ new.stage = "leave" => from \in Channels /\ new.before = from
      /\ new.stage \in {"leave", "join"} => new.after = to
      /\ new.stage \in {"enter", "leave", "join", "idle"}
      /\ from \in Channels => new.stage = "leave"
      /\ to \in Channels => new.stage \in {"leave", "join"}
  <2>1. Trigger \notin Channels  BY VoiceRoomsAssumption
  <2> QED  BY <1>1, <2>1, DispatchIs
<1>4. UNCHANGED <<delStage, ownReg, transfer>> /\ \A d \in Channels : SameHandover(d)
  BY DEF deletes, handovers, SameHandover
<1>5. Trigger \notin Channels /\ Out # Trigger  BY VoiceRoomsAssumption
<1>6. \A v \in Users : \A j \in Slots : handler'[v][j] = handler[v][j] \/ (v = u /\ j = k)
  BY DEF Only
<1>7. \A v \in Users : v # u => handler'[v] = handler[v]  BY <1>0 DEF Only, TypeOK
<1>8. \A d \in Channels : Scheduled(d)' = Scheduled(d)  BY <1>4 DEF Scheduled
<1>9. ASSUME NEW v \in Users, v # u, NEW j \in Slots
      PROVE  (Waits(v, j) /\ Founds(v, j) /\ Comes(v, j) /\ Goes(v, j) /\ Owns(v, j))'
  <2>1. \A m \in Slots : handler'[u][m].stage = "untrack" /\ handler'[u][m].owned =>
             \/ row[handler'[u][m].before] = u
             \/ /\ handler[u][m].stage = "untrack" /\ handler[u][m].owned
                /\ handler[u][m].before = handler'[u][m].before
    BY <1>3, <1>6
  <2>2. /\ \A d \in Channels : Scheduled(d)' => Scheduled(d) \/ Members(d) = {}
        /\ \A d \in Channels : ownReg'[d] \in {ownReg[d], NoTimer}
        /\ \A d \in Channels : row'[d] = row[d]
        /\ created \subseteq created' /\ \A d \in created : d \in open' => d \in open
    BY <1>4, <1>8
  <2> QED  BY <1>2, <1>7, <1>9, <2>1, <2>2, OthersAround
<1>10. \A j \in Slots : j # k /\ handler[u][j].stage # "idle" => old.stage = "eject" /\ to = Out
  OBVIOUS
<1>11. old.stage = "eject" =>
         /\ old.after \in Channels
         /\ \A j \in Slots : j # k /\ handler[u][j].stage \in Coming
                               => handler[u][j].after \notin Channels
  BY <1>0, CallFacts DEF Comes, Coming
<1>12. ASSUME NEW j \in Slots, j # k
       PROVE  (Waits(u, j) /\ Founds(u, j) /\ Comes(u, j) /\ Goes(u, j) /\ Owns(u, j))'
  <2>0. handler'[u][j] = handler[u][j]  BY <1>6, <1>12
  <2>1. CASE handler[u][j].stage = "idle"
    BY <2>0, <2>1 DEF Waits, Founds, Comes, Goes, Owns, Pipeline, Coming, Going
  <2>2. CASE handler[u][j].stage # "idle"
    <3>0. old.stage = "eject" /\ to = Out  BY <1>10, <1>12, <2>2
    <3>1. handler[u][j].stage \notin Pipeline \cup {"insert", "track", "stale"}
      BY <1>0, <1>12, <3>0 DEF Waits, Founds, At
    <3>2. handler[u][j].stage \in Coming => handler[u][j].after \notin Channels
      BY <1>11, <1>12, <3>0
    <3>3. Waits(u, j)' /\ Founds(u, j)'  BY <2>0, <3>1 DEF Waits, Founds
    <3>4. Comes(u, j)'  BY <2>0, <3>2 DEF Comes
    <3>5. Goes(u, j)'
      <4> SUFFICES ASSUME handler[u][j].stage \in Going  PROVE Goes(u, j)'
        BY <2>0 DEF Goes
      <4>1. handler[u][j].before \in Channels /\ handler[u][j].before # Out
        BY <1>0, CallFacts, VoiceRoomsAssumption
      <4>2. handler[u][j].before # from  BY <1>0, <1>1 DEF Goes
      <4>3. \A m \in Slots \ {j} : handler'[u][m].stage \in Going
                                    => handler'[u][m].before # handler[u][j].before
        BY <1>0, <1>3, <1>6, <4>2 DEF Goes, Going
      <4> QED  BY <1>2, <2>0, <3>0, <4>1, <4>3 DEF Goes
    <3>6. Owns(u, j)'
      <4>1. \A v \in Users \ {u} : handler'[v] = handler[v]  BY <1>7
      <4> QED  BY <1>0, <1>4, <2>0, <4>1 DEF Owns, At
    <3> QED  BY <3>3, <3>4, <3>5, <3>6
  <2> QED  BY <2>1, <2>2
<1>13. (Waits(u, k) /\ Founds(u, k) /\ Comes(u, k) /\ Goes(u, k) /\ Owns(u, k))'
  <2>1. Waits(u, k)'
    <3>1. new.stage = "enter" => \A j \in Slots \ {k} : handler'[u][j].stage = "idle"
      BY <1>3, <1>5, <1>6, <1>10
    <3> QED  BY <1>2, <1>3, <3>1 DEF Waits, At, Pipeline
  <2>2. Founds(u, k)'  BY <1>3 DEF Founds
  <2>3. Comes(u, k)'
    <3> SUFFICES ASSUME new.stage \in {"leave", "join"}, to \in Channels  PROVE Comes(u, k)'
      BY <1>3 DEF Comes, Coming
    <3>1. to # Out  BY VoiceRoomsAssumption
    <3>2. \A j \in Slots \ {k} : handler'[u][j].stage = "idle"  BY <1>6, <1>10, <3>1
    <3>3. to \in created'  BY <1>0 DEF TypeOK
    <3> QED  BY <1>2, <1>3, <3>2, <3>3 DEF Comes, Coming
  <2>4. Goes(u, k)'
    <3> SUFFICES ASSUME new.stage = "leave"  PROVE Goes(u, k)'
      BY <1>3 DEF Goes, Going
    <3>1. new.before = from /\ where'[u] # from  BY <1>1, <1>2, <1>3
    <3>2. \A j \in Slots \ {k} : handler'[u][j].stage \in Going => handler'[u][j].before # from
      BY <1>0, <1>1, <1>6 DEF Goes
    <3> QED  BY <3>1, <3>2 DEF Goes
  <2>5. Owns(u, k)'
    <3> SUFFICES ASSUME new.stage = "leave", row[from] = u  PROVE ownReg[from] = NoTimer
      BY <1>3, <1>4 DEF Owns
    <3> SUFFICES ASSUME ownReg[from] # NoTimer  PROVE FALSE
      OBVIOUS
    <3>1. from \in Channels  BY <1>3
    <3>2. PICK t \in Timers : ownReg[from] = t  BY <1>0, <3>1 DEF TypeOK
    <3>3. HandoverOK(from) /\ Live(from) /\ u # NoUser
      BY <3>1, VoiceRoomsAssumption DEF PatientInv, Live
    <3>4. transfer[from][t].stage # "idle" /\ transfer[from][t].old = u
      BY <3>2, <3>3 DEF HandoverOK
    <3>5. Returning(u, from)  BY <1>1, <3>3, <3>4 DEF HandoverOK
    <3>6. PICK m \in Slots : handler[u][m].stage \in {"leave", "untrack", "join"}
                              /\ handler[u][m].after = from
      BY <3>5 DEF Returning
    <3>7. m # k /\ old.stage = "eject"  BY <1>10, <3>6
    <3> QED  BY <1>11, <3>1, <3>6, <3>7 DEF Coming
  <2> QED  BY <2>1, <2>2, <2>3, <2>4, <2>5
<1>14. ASSUME NEW d \in Channels  PROVE (HandoverOK(d) /\ ListOK(d) /\ UnbornOK(d) /\ InCharge(d))'
  <2>0. HandoverOK(d) /\ ListOK(d) /\ UnbornOK(d) /\ InCharge(d) /\ Live(d)' = Live(d)
    BY DEF PatientInv, Live
  <2>1. HandoverOK(d)'
    <3>1. \A w \in Users : w # u => Returning(w, d)' = Returning(w, d)  BY <1>7 DEF Returning
    <3>2. to = d => Returning(u, d)'  BY <1>3 DEF Returning
    <3> QED  BY <1>0, <1>2, <1>4, <2>0, <3>1, <3>2, HandoverKept
  <2>2. \A w \in Users : Leaving(w, d) => Leaving(w, d)'
    BY <1>6 DEF Leaving, Going
  <2>3. from = d => Leaving(u, d)'  BY <1>3 DEF Leaving, Going
  <2>4. \A w \in Users : where[w] = d => where'[w] = d \/ Leaving(w, d)'
    BY <1>1, <1>2, <2>3
  <2>5. ListOK(d)'  BY <1>0, <2>0, <2>2, <2>4, ListKept
  <2>6. Unborn(d)' => Unborn(d)
    BY <1>3, <1>6, SameBuilding DEF Building
  <2>7. \A w \in Users : \A j \in Slots :
             handler'[w][j].stage \in {"add", "eject"} => handler'[w][j] = handler[w][j]
    BY <1>3, <1>6
  <2>8. UnbornOK(d)'  BY <1>4, <2>0, <2>6, <2>7, UnbornKept
  <2>9. InCharge(d)'
    <3>1. Members(d) = {} \/ Members(d)' # {} \/ Leaving(u, d)'
      BY <2>4, <1>2 DEF Members
    <3>2. d = to => Members(d)' # {}  BY <1>2 DEF Members
    <3> QED  BY <1>8, <2>0, <2>2, <3>1, <3>2 DEF InCharge
  <2> QED  BY <2>1, <2>5, <2>8, <2>9
<1> QED  BY <1>9, <1>12, <1>13, <1>14 DEF PatientInv

LEMMA UserMoves ==
  ASSUME PatientInv, RowInv', Patient = Users, ~RoomToTrigger,
         NEW u \in Users, NEW to \in Places, Move(u, to)
  PROVE  PatientInv'
<1>0. TypeOK  BY DEF PatientInv, RowInv
<1>1. Quiet(u) /\ Free(u) # {}  BY FS_EmptySet DEF Move
<1>2. PICK k \in Free(u) : handler' = [handler EXCEPT ![u][k] = Dispatch(where[u], to)]
  BY <1>1 DEF Move
<1>3. k \in Slots /\ \A j \in Slots : handler[u][j].stage = "idle"  BY <1>1 DEF Free, Quiet, At
<1>4. handler'[u][k] = Dispatch(where[u], to) /\ Only(u, k)  BY <1>0, <1>2, <1>3, SlotCall
<1>5. UNCHANGED <<open, created, row, tracked, deletes, handovers>>  BY DEF Move, database
<1>6. /\ where' = [where EXCEPT ![u] = to] /\ where[u] # to
      /\ to \in Channels => to \in open
      /\ to = Trigger => where[u] \notin Channels
  BY VoiceRoomsAssumption DEF Move
<1>7. \A d \in Channels \ {to} : Excused(d) => Excused(d)'  BY DEF Move, Arrives, Excused
<1> QED  BY <1>3, <1>4, <1>5, <1>6, <1>7, MoveStep

LEMMA RedirectStep ==
  ASSUME PatientInv, RowInv', NEW u \in Users, NEW i \in Slots, Redirect(u, i)
  PROVE  PatientInv'
<1>0. TypeOK /\ Waits(u, i)  BY DEF PatientInv, RowInv
<1>1. handler[u][i].stage = "redirect"  BY DEF Redirect, At
<1>2. where[u] = Trigger /\ \A j \in Slots \ {i} : handler[u][j].stage = "idle"
  BY <1>0, <1>1 DEF Waits, At, Pipeline
<1>3. UNCHANGED <<open, created, row, tracked, deletes, handovers>>  BY DEF Redirect, database
<1>4. CASE Return(u, i) /\ UNCHANGED <<where, bots, deserted>>
  <2>1. ExcusesKept  BY <1>4 DEF ExcusesKept, Excused
  <2> QED  BY <1>1, <1>3, <1>4, <2>1, EarlySteps DEF Pipeline
<1>5. CASE ~(Return(u, i) /\ UNCHANGED <<where, bots, deserted>>)
  <2>1. PICK c \in Channels : c = handler[u][i].room  BY <1>0, <1>1, CallFacts
  <2>2. /\ where[u] # c /\ c \in open /\ where' = [where EXCEPT ![u] = c]
        /\ handler' = [handler EXCEPT ![u][i] = Dispatch(where[u], c)]
        /\ Arrives(c)
    BY <1>5, <2>1 DEF Redirect
  <2>3. handler'[u][i] = Dispatch(where[u], c) /\ Only(u, i)  BY <1>0, <2>2, SlotCall
  <2>4. c \in Places /\ c # Trigger  BY VoiceRoomsAssumption DEF Places
  <2>5. \A d \in Channels \ {c} : Excused(d) => Excused(d)'  BY <2>2 DEF Arrives, Excused
  <2> QED  BY <1>1, <1>2, <1>3, <2>1, <2>2, <2>3, <2>4, <2>5, MoveStep
<1> QED  BY <1>4, <1>5

LEMMA EjectStep ==
  ASSUME PatientInv, RowInv', NEW u \in Users, NEW i \in Slots, Eject(u, i)
  PROVE  PatientInv'
<1>0. TypeOK  BY DEF PatientInv, RowInv
<1>1. handler[u][i].stage = "eject" /\ where' = [where EXCEPT ![u] = Out]
  BY DEF Eject, At
<1>2. UNCHANGED <<open, created, row, tracked, deletes, handovers>> /\ ExcusesKept
  BY DEF Eject, database, ExcusesKept, Excused
<1>3. CASE where[u] = Out
  <2>1. Return(u, i) /\ where' = where  BY <1>0, <1>1, <1>3 DEF Eject, Return, TypeOK
  <2> QED  BY <1>1, <1>2, <2>1, EarlySteps
<1>4. CASE where[u] # Out
  <2>1. handler' = [handler EXCEPT ![u][i] = Dispatch(where[u], Out)]  BY <1>4 DEF Eject
  <2>2. handler'[u][i] = Dispatch(where[u], Out) /\ Only(u, i)  BY <1>0, <2>1, SlotCall
  <2>3. Out \in Places /\ Out \notin Channels /\ Out # Trigger  BY VoiceRoomsAssumption DEF Places
  <2>4. \A d \in Channels \ {Out} : Excused(d) => Excused(d)'  BY <1>2 DEF ExcusesKept
  <2> QED  BY <1>1, <1>2, <1>4, <2>2, <2>3, <2>4, MoveStep
<1> QED  BY <1>3, <1>4

LEMMA TrackStep ==
  ASSUME PatientInv, RowInv', NEW u \in Users, NEW i \in Slots, TrackOwner(u, i)
  PROVE  PatientInv'
<1>0. TypeOK /\ TypeOK' /\ RowHasChannel /\ BuiltUnseen /\ Founds(u, i)
  BY DEF PatientInv, RowInv
<1>1. UNCHANGED <<where, row, created, open, deletes, handovers>> /\ ExcusesKept
  BY DEF TrackOwner, discord, ExcusesKept, Excused
<1>2. PICK old, new : old = handler[u][i] /\ new = handler'[u][i]  OBVIOUS
<1>3. PICK c \in Channels : c = old.room /\ old.stage = "track"
  BY <1>0, <1>2, CallFacts DEF TrackOwner, At
<1>4. new.stage = "idle" /\ Only(u, i)  BY <1>0, <1>2, ReturnCall DEF TrackOwner
<1>5. where[u] = c /\ row[c] = u /\ Live(c)
  BY <1>0, <1>2, <1>3, VoiceRoomsAssumption DEF Founds, Live
<1>6. tracked'[c] = tracked[c] \cup {u} /\ \A d \in Channels : d # c => tracked'[d] = tracked[d]
  BY <1>0, <1>2, <1>3 DEF TrackOwner, TypeOK
<1>7. \A d \in Channels : Scheduled(d)' = Scheduled(d) /\ ownReg'[d] = ownReg[d] /\ SameHandover(d)
  BY <1>1 DEF deletes, handovers, Scheduled, SameHandover
<1>8. CallsInv'
  BY <1>0, <1>1, <1>2, <1>3, <1>4, <1>7, Onward DEF Pipeline, Coming, Going
<1>9. ASSUME NEW d \in Channels  PROVE (HandoverOK(d) /\ ListOK(d) /\ UnbornOK(d) /\ InCharge(d))'
  <2>1. HandoverOK(d)'  BY <1>1, <1>2, <1>3, <1>4, <1>7, ReturningOnward
  <2>2. CASE d # c
    <3>1. (ListOK(d) /\ UnbornOK(d) /\ InCharge(d))'
      BY <1>1, <1>2, <1>3, <1>4, <1>6, <1>7, <2>2, ListsOnward DEF Going, Makes
    <3> QED  BY <2>1, <3>1
  <2>3. CASE d = c
    <3>1. Live(c)' = Live(c) /\ Members(c)' = Members(c) /\ u \in Members(c)
      BY <1>1, <1>5 DEF Live, Members
    <3>2. ~Unborn(c)  BY <1>0, <1>5 DEF Unborn, BuiltUnseen, RowHasChannel, TypeOK
    <3>3. Unborn(c)' => Unborn(c)
      BY <1>1, <1>2, <1>4, SameBuilding DEF Building, Only
    <3>4. \A w \in Users : Leaving(w, c) => Leaving(w, c)'
      BY <1>2, <1>3, <1>4 DEF Only, Leaving, Going
    <3>5. ListOK(c)'
      BY <1>1, <1>5, <1>6, <3>1, <3>4 DEF PatientInv, ListOK, RowInv, TypeOK
    <3>6. UnbornOK(c)'  BY <3>2, <3>3 DEF UnbornOK
    <3>7. InCharge(c)'  BY <3>1 DEF InCharge
    <3> QED  BY <2>1, <2>3, <3>5, <3>6, <3>7
  <2> QED  BY <2>2, <2>3
<1> QED  BY <1>8, <1>9 DEF PatientInv, CallsInv

LEMMA InsertStep ==
  ASSUME PatientInv, RowInv', NEW u \in Users, NEW i \in Slots, InsertRow(u, i)
  PROVE  PatientInv'
<1>0. /\ TypeOK /\ TypeOK' /\ BuiltUnseen
      /\ \A j \in Slots : Waits(u, j) /\ Founds(u, j) /\ Comes(u, j) /\ Goes(u, j) /\ Owns(u, j)
  BY DEF PatientInv, RowInv
<1>1. UNCHANGED <<where, created, open, tracked, deletes, handovers>> /\ ExcusesKept
  BY DEF InsertRow, discord, ExcusesKept, Excused
<1>2. PICK old, new : old = handler[u][i] /\ new = handler'[u][i]  OBVIOUS
<1>3. PICK c \in Channels : c = old.room /\ old.stage = "insert"
  BY <1>0, <1>2, CallFacts DEF InsertRow, At
<1>4. new.stage = "track" /\ new.room = c /\ Only(u, i)
  BY <1>0, <1>2, <1>3, GotoCall DEF InsertRow
<1>5. row'[c] = u /\ \A d \in Channels : d # c => row'[d] = row[d]
  BY <1>0, <1>2, <1>3 DEF InsertRow, TypeOK
<1>6. /\ where[u] = c /\ ~Scheduled(c) /\ ownReg[c] = NoTimer
      /\ \A j \in Slots \ {i} : handler[u][j].stage \in {"idle", "join", "add"}
  BY <1>0, <1>2, <1>3 DEF Founds
<1>7. ~Live(c) /\ ~BeingLeft(c) /\ Unborn(c)
  BY <1>0, <1>2, <1>3 DEF BuiltUnseen, Building, Unborn
<1>8. \A d \in Channels : Scheduled(d)' = Scheduled(d) /\ ownReg'[d] = ownReg[d] /\ SameHandover(d)
  BY <1>1 DEF deletes, handovers, Scheduled, SameHandover
<1>9. \A v \in Users : \A j \in Slots : handler'[v][j] = handler[v][j] \/ (v = u /\ j = i)
  BY <1>4 DEF Only
<1>10. \A v \in Users : v # u => handler'[v] = handler[v]  BY <1>0, <1>4 DEF Only, TypeOK
<1>11. ASSUME NEW v \in Users, v # u, NEW j \in Slots
       PROVE  (Waits(v, j) /\ Founds(v, j) /\ Comes(v, j) /\ Goes(v, j) /\ Owns(v, j))'
  <2>1. \A m \in Slots : handler'[u][m].stage = "untrack" => handler'[u][m] = handler[u][m]
    BY <1>2, <1>4, <1>9
  <2>2. \A d \in Channels : row'[d] = row[d] \/ (~Live(d) /\ row'[d] = u /\ ~BeingLeft(d))
    BY <1>5, <1>7
  <2> QED  BY <1>1, <1>8, <1>10, <1>11, <2>1, <2>2, OthersAround
<1>12. ASSUME NEW j \in Slots, j # i
       PROVE  (Waits(u, j) /\ Founds(u, j) /\ Comes(u, j) /\ Goes(u, j) /\ Owns(u, j))'
  <2>1. handler'[u][j] = handler[u][j] /\ handler[u][j].stage \in {"idle", "join", "add"}
    BY <1>6, <1>9, <1>12
  <2>2. Comes(u, j)'  BY <1>0, <1>1, <1>2, <1>4, <1>9, <1>12, <2>1 DEF Comes, Coming
  <2> QED  BY <2>1, <2>2 DEF Waits, Founds, Goes, Owns, Pipeline, Going
<1>13. (Waits(u, i) /\ Founds(u, i) /\ Comes(u, i) /\ Goes(u, i) /\ Owns(u, i))'
  <2>1. Founds(u, i)'  BY <1>1, <1>2, <1>4, <1>5, <1>6, <1>8, <1>9 DEF Founds
  <2> QED  BY <1>2, <1>4, <2>1 DEF Waits, Comes, Goes, Owns, Pipeline, Coming, Going
<1>14. ASSUME NEW d \in Channels  PROVE (HandoverOK(d) /\ ListOK(d) /\ UnbornOK(d) /\ InCharge(d))'
  <2>0. HandoverOK(d) /\ ListOK(d) /\ UnbornOK(d) /\ InCharge(d)  BY DEF PatientInv
  <2>1. \A w \in Users : Returning(w, d)' = Returning(w, d) /\ Leaving(w, d)' = Leaving(w, d)
    BY <1>2, <1>3, <1>4, <1>9 DEF Returning, Leaving, Going
  <2>2. Members(d)' = Members(d)  BY <1>1 DEF Members
  <2>3. Unborn(d)' => Unborn(d)
    BY <1>1, <1>2, <1>4, <1>9, SameBuilding DEF Building
  <2>4. \A w \in Users : \A j \in Slots :
             handler'[w][j].stage \in {"add", "eject"} => handler'[w][j] = handler[w][j]
    BY <1>2, <1>4, <1>9
  <2>5. UnbornOK(d)'
    <3>1. tracked'[d] \subseteq tracked[d] /\ ownReg'[d] \in {ownReg[d], NoTimer}  BY <1>1, <1>8
    <3> QED  BY <2>0, <2>3, <2>4, <3>1, UnbornKept
  <2>6. CASE d # c
    <3>1. Live(d)' = Live(d) /\ row'[d] = row[d]  BY <1>5, <2>6 DEF Live
    <3>2. HandoverOK(d)'
      <4>1. row'[d] \in {row[d], NoUser} /\ where' = where  BY <1>1, <3>1
      <4> QED  BY <1>0, <1>8, <2>0, <2>1, <4>1, HandoverKept
    <3>3. ListOK(d)'  BY <1>0, <1>1, <2>0, <2>1, <3>1, ListKept
    <3>4. InCharge(d)'  BY <1>1, <1>8, <2>0, <2>1, <2>2, <3>1 DEF InCharge, ExcusesKept
    <3> QED  BY <2>5, <3>2, <3>3, <3>4
  <2>7. CASE d = c
    <3>1. Gone(c)  BY <1>6, <2>0, <2>7, UnregisteredIsGone
    <3>2. Gone(c)'  BY <1>8, <3>1 DEF Gone, SameHandover
    <3>3. HandoverOK(c)'  BY <3>2, VoiceRoomsAssumption DEF Gone, HandoverOK
    <3>4. ListOK(c)'  BY <1>1, <1>7, <2>0, <2>7 DEF UnbornOK, ListOK
    <3>5. InCharge(c)'  BY <1>1, <1>6 DEF InCharge, Members
    <3> QED  BY <2>5, <2>7, <3>3, <3>4, <3>5
  <2> QED  BY <2>6, <2>7
<1> QED  BY <1>11, <1>12, <1>13, <1>14 DEF PatientInv

LEMMA MakeStep ==
  ASSUME PatientInv, RowInv', NEW u \in Users, NEW i \in Slots, MakeChannel(u, i)
  PROVE  PatientInv'
<1>0. TypeOK /\ TypeOK' /\ RowHasChannel  BY DEF PatientInv, RowInv
<1>1. UNCHANGED <<where, row, tracked, deletes, handovers>> /\ ExcusesKept
  BY DEF MakeChannel, database, ExcusesKept, Excused
<1>2. handler[u][i].stage = "make"  BY DEF MakeChannel, At
<1>3. CASE Return(u, i) /\ UNCHANGED <<open, created>>
  BY <1>1, <1>2, <1>3, EarlySteps DEF Pipeline
<1>4. CASE ~(Return(u, i) /\ UNCHANGED <<open, created>>)
  <2>1. PICK c \in Fresh : open' = open \cup {c} /\ created' = created \cup {c}
                            /\ Takes(u, i, "move", c)
    BY <1>4 DEF MakeChannel, Takes
  <2>2. PICK old, new : old = handler[u][i] /\ new = handler'[u][i]  OBVIOUS
  <2>3. new.stage = "move" /\ new.room = c /\ Only(u, i)  BY <1>0, <2>1, <2>2, RoomCall
  <2>4. c \in Channels /\ c \notin created  BY <2>1 DEF Fresh
  <2>5. \A d \in Channels : Scheduled(d)' = Scheduled(d) /\ ownReg'[d] = ownReg[d] /\ SameHandover(d)
    BY <1>1 DEF deletes, handovers, Scheduled, SameHandover
  <2>6. CallsInv'
    BY <1>0, <1>1, <1>2, <2>1, <2>2, <2>3, <2>4, <2>5, Onward DEF Pipeline, Coming, Going
  <2>7. \A v \in Users : \A j \in Slots : handler'[v][j] = handler[v][j] \/ (v = u /\ j = i)
    BY <2>3 DEF Only
  <2>8. ASSUME NEW d \in Channels  PROVE (HandoverOK(d) /\ ListOK(d) /\ UnbornOK(d) /\ InCharge(d))'
    <3>0. HandoverOK(d) /\ ListOK(d) /\ UnbornOK(d) /\ InCharge(d) /\ Live(d)' = Live(d)
      BY <1>1 DEF PatientInv, Live
    <3>1. HandoverOK(d)'  BY <1>1, <1>2, <2>2, <2>3, <2>5, ReturningOnward
    <3>2. \A w \in Users : Leaving(w, d)' = Leaving(w, d)
      BY <1>2, <2>2, <2>3, <2>7 DEF Leaving, Going
    <3>3. ListOK(d)'  BY <1>0, <1>1, <3>0, <3>2, ListKept
    <3>4. Unborn(d)' => Unborn(d)
      <4> SUFFICES ASSUME Unborn(d)', d \in created  PROVE Unborn(d)
        BY DEF Unborn
      <4>1. PICK v \in Users, j \in Slots : Building(v, j)' /\ handler'[v][j].room = d
        BY <2>1 DEF Unborn
      <4>2. handler'[v][j] = handler[v][j]  BY <2>2, <2>3, <2>4, <2>7, <4>1
      <4> QED  BY <4>1, <4>2 DEF Unborn, Building
    <3>5. \A w \in Users : \A j \in Slots :
             handler'[w][j].stage \in {"add", "eject"} => handler'[w][j] = handler[w][j]
      BY <2>2, <2>3, <2>7
    <3>6. tracked'[d] \subseteq tracked[d] /\ ownReg'[d] \in {ownReg[d], NoTimer}  BY <1>1, <2>5
    <3>7. UnbornOK(d)'  BY <3>0, <3>4, <3>5, <3>6, UnbornKept
    <3>8. InCharge(d)'  BY <1>1, <2>5, <3>0, <3>2 DEF InCharge, Members, ExcusesKept
    <3> QED  BY <3>1, <3>3, <3>7, <3>8
  <2> QED  BY <2>6, <2>8 DEF PatientInv, CallsInv
<1> QED  BY <1>3, <1>4

\* The move by the bot into the new room, which starts a call of its own.
LEMMA MoveInStep ==
  ASSUME PatientInv, RowInv', NEW u \in Users, NEW i \in Slots, MoveIn(u, i)
  PROVE  PatientInv'
<1>0. TypeOK /\ TypeOK' /\ BuiltUnseen /\ Waits(u, i)  BY DEF PatientInv, RowInv
<1>1. UNCHANGED <<open, created, row, tracked, deletes, handovers>>  BY DEF MoveIn, database
<1>2. handler[u][i].stage = "move"  BY DEF MoveIn, At
<1>3. PICK c \in Channels : c = handler[u][i].room  BY <1>0, <1>2, CallFacts
<1>4. where[u] = Trigger /\ \A m \in Slots \ {i} : handler[u][m].stage = "idle"
  BY <1>0, <1>2 DEF Waits, At, Pipeline
<1>5. c \in open /\ c \in created /\ ~Live(c) /\ ~Scheduled(c) /\ Unborn(c)
  BY <1>0, <1>2, <1>3 DEF BuiltUnseen, Building, Unborn, TypeOK
<1>6. c # Trigger /\ Trigger \notin Channels /\ Out # Trigger  BY VoiceRoomsAssumption
<1>7. PICK j \in Slots : /\ j # i /\ where' = [where EXCEPT ![u] = c] /\ Arrives(c)
                         /\ handler' = [handler EXCEPT ![u][i].stage = "insert",
                                                       ![u][j] = Dispatch(where[u], c)]
  <2>1. Free(u) # {} /\ where' = [where EXCEPT ![u] = c] /\ Arrives(c)
        /\ handler' = [handler EXCEPT ![u][i].stage = "insert",
                                      ![u][CHOOSE j \in Free(u) : TRUE] = Dispatch(where[u], c)]
    BY <1>3, <1>4, <1>6 DEF MoveIn
  <2>2. PICK j \in Free(u) : j = CHOOSE k \in Free(u) : TRUE  BY <2>1
  <2>3. j \in Slots /\ j # i  BY <1>2 DEF Free, At
  <2> QED  BY <2>1, <2>2, <2>3
<1>8. PICK call : call = Dispatch(where[u], c)  OBVIOUS
<1>9. call.stage = "join" /\ call.after = c
  <2>1. Trigger \in Places /\ c \in Places  BY DEF Places
  <2> QED  BY <1>4, <1>6, <1>8, <2>1, DispatchIs
<1>10. /\ handler'[u][i] = [handler[u][i] EXCEPT !.stage = "insert"]
       /\ handler'[u][j] = call
       /\ \A m \in Slots \ {i, j} : handler'[u][m] = handler[u][m]
       /\ \A v \in Users \ {u} : handler'[v] = handler[v]
  BY <1>0, <1>7, <1>8 DEF TypeOK
<1>11. handler'[u][i].stage = "insert" /\ handler'[u][i].room = c
  <2>1. handler[u][i] \in Call  BY <1>0 DEF TypeOK
  <2> QED  BY <1>3, <1>10, <2>1 DEF Call
<1>12. where'[u] = c /\ \A v \in Users \ {u} : where'[v] = where[v]  BY <1>0, <1>7 DEF TypeOK
<1>13. \A d \in Channels : Scheduled(d)' = Scheduled(d) /\ ownReg'[d] = ownReg[d] /\ SameHandover(d)
  BY <1>1 DEF deletes, handovers, Scheduled, SameHandover
<1>14. \A m \in Slots \ {i, j} : handler'[u][m].stage = "idle"  BY <1>4, <1>10
<1>15. ASSUME NEW v \in Users, v # u, NEW m \in Slots
       PROVE  (Waits(v, m) /\ Founds(v, m) /\ Comes(v, m) /\ Goes(v, m) /\ Owns(v, m))'
  <2>1. \A k \in Slots : handler'[u][k].stage # "untrack"  BY <1>9, <1>10, <1>11, <1>14
  <2>2. \A d \in Channels : row'[d] = row[d]  BY <1>1
  <2> QED  BY <1>1, <1>10, <1>12, <1>13, <1>15, <2>1, <2>2, OthersAround
<1>16. ASSUME NEW m \in Slots
       PROVE  (Waits(u, m) /\ Founds(u, m) /\ Comes(u, m) /\ Goes(u, m) /\ Owns(u, m))'
  <2>1. ownReg[c] = NoTimer  BY <1>5 DEF PatientInv, UnbornOK
  <2>2. CASE m = i
    <3>1. \A k \in Slots \ {i} : handler'[u][k].stage \in {"idle", "join"}  BY <1>9, <1>10, <1>14
    <3>2. Founds(u, i)'  BY <1>5, <1>11, <1>12, <1>13, <2>1, <3>1 DEF Founds
    <3> QED  BY <1>11, <2>2, <3>2 DEF Waits, Comes, Goes, Owns, Pipeline, Coming, Going
  <2>3. CASE m = j
    <3>1. \A k \in Slots \ {j} : handler'[u][k].stage \in {"idle", "insert"}  BY <1>11, <1>14
    <3>2. Comes(u, j)'  BY <1>1, <1>5, <1>9, <1>10, <1>12, <3>1 DEF Comes, Coming
    <3> QED  BY <1>9, <1>10, <2>3, <3>2 DEF Waits, Founds, Goes, Owns, Pipeline, Going
  <2>4. CASE m \notin {i, j}
    BY <1>14, <2>4 DEF Waits, Founds, Comes, Goes, Owns, Pipeline, Coming, Going
  <2> QED  BY <2>2, <2>3, <2>4
<1>17. ASSUME NEW d \in Channels  PROVE (HandoverOK(d) /\ ListOK(d) /\ UnbornOK(d) /\ InCharge(d))'
  <2>0. HandoverOK(d) /\ ListOK(d) /\ UnbornOK(d) /\ InCharge(d) /\ Live(d)' = Live(d)
    BY <1>1 DEF PatientInv, Live
  <2>1. HandoverOK(d)'
    <3>1. \A w \in Users : w # u => Returning(w, d)' = Returning(w, d)  BY <1>10 DEF Returning
    <3>2. c = d => Returning(u, d)'  BY <1>9, <1>10 DEF Returning
    <3>3. row'[d] = row[d]  BY <1>1
    <3> QED  BY <1>0, <1>12, <1>13, <2>0, <3>1, <3>2, <3>3, HandoverKept
  <2>2. \A w \in Users : Leaving(w, d) => Leaving(w, d)'
    <3>1. ~Leaving(u, d)  BY <1>2, <1>4 DEF Leaving, Going
    <3> QED  BY <1>10, <3>1 DEF Leaving
  <2>3. \A w \in Users : where[w] = d => where'[w] = d  BY <1>4, <1>6, <1>12
  <2>4. ListOK(d)'  BY <1>0, <1>1, <2>0, <2>2, <2>3, ListKept
  <2>5. Unborn(d)' => Unborn(d)
    <3>1. \A w \in Users : \A k \in Slots : Building(w, k)' =>
             Building(w, k) /\ handler'[w][k].room = handler[w][k].room
      BY <1>2, <1>3, <1>9, <1>10, <1>11, <1>14 DEF Building
    <3> QED  BY <1>1, <3>1, SameBuilding
  <2>6. \A w \in Users : \A k \in Slots :
             handler'[w][k].stage \in {"add", "eject"} => handler'[w][k] = handler[w][k]
    BY <1>9, <1>10, <1>11, <1>14
  <2>7. UnbornOK(d)'
    <3>1. tracked'[d] \subseteq tracked[d] /\ ownReg'[d] \in {ownReg[d], NoTimer}  BY <1>1, <1>13
    <3> QED  BY <2>0, <2>5, <2>6, <3>1, UnbornKept
  <2>8. InCharge(d)'
    <3>1. CASE d = c  BY <1>5, <2>0, <3>1 DEF InCharge
    <3>2. CASE d # c
      <4>1. Excused(d) => Excused(d)'  BY <1>7, <3>2 DEF Arrives, Excused
      <4> QED  BY <1>13, <2>0, <2>2, <2>3, <4>1 DEF InCharge, Members
    <3> QED  BY <3>1, <3>2
  <2> QED  BY <2>1, <2>4, <2>7, <2>8
<1> QED  BY <1>15, <1>16, <1>17 DEF PatientInv

\* Whoever is in a channel that is closed is put out of it, and a call starts for each of them;
\* the call that has rolled its creation back ends.
LEMMA Eviction ==
  ASSUME PatientInv, RowInv', NEW c \in Channels, ~Live(c), open' = open \ {c},
         UNCHANGED <<created, row, tracked, handovers>>,
         NEW calls \in [Users -> [Slots -> Call]], Evict(c), handler' = Evicted(c, calls),
         \A v \in Users : \A j \in Slots :
             \/ calls[v][j] = handler[v][j]
             \/ handler[v][j].stage = "rollback" /\ calls[v][j].stage = "idle",
         \A v \in Users : \A j \in Slots :
             handler[v][j].stage = "insert" => handler[v][j].room # c,
         \A d \in Channels : Scheduled(d)' => Scheduled(d),
         \A d \in Channels : d # c => Scheduled(d)' = Scheduled(d)
  PROVE  PatientInv'
<1>0. TypeOK /\ TypeOK' /\ CallsInv
  BY DEF PatientInv, RowInv, CallsInv
<1>5. \A d \in Channels : SameHandover(d) /\ ownReg'[d] = ownReg[d] /\ Live(d)' = Live(d)
  BY DEF handovers, SameHandover, Live
<1>6. PICK call : call = Dispatch(c, Out)  OBVIOUS
<1>7. call.stage = "leave" /\ call.before = c /\ call.after = Out
  <2>1. c \in Places /\ Out \in Places /\ Out # Trigger  BY VoiceRoomsAssumption DEF Places
  <2> QED  BY <1>6, <2>1, DispatchIs
<1>8. Out \notin Channels /\ c # Trigger /\ c # Out  BY VoiceRoomsAssumption
<1>9. \A v \in Users : where[v] # c => where'[v] = where[v] /\ handler'[v] = calls[v]
  BY DEF Evict, Evicted
<1>10. ASSUME NEW v \in Users, where[v] = c
       PROVE  where'[v] = Out /\ \E k \in Slots :
                 /\ handler[v][k].stage = "idle" /\ handler'[v][k] = call
                 /\ \A j \in Slots \ {k} : handler'[v][j] = handler[v][j]
  <2>0. calls[v] = handler[v]
    <3>1. \A j \in Slots : handler[v][j].stage # "rollback"
      BY <1>0, <1>8, <1>10 DEF CallsInv, Waits, Pipeline
    <3>2. \A j \in Slots : calls[v][j] = handler[v][j]  BY <3>1
    <3>3. calls[v] \in [Slots -> Call] /\ handler[v] \in [Slots -> Call]  BY <1>0 DEF TypeOK
    <3> QED  BY <3>2, <3>3
  <2>1. PICK k \in Free(v) : handler'[v] = [handler[v] EXCEPT ![k] = Dispatch(c, Out)]
    BY <1>10, <2>0 DEF Evicted, Evict, Members
  <2>2. k \in Slots /\ handler[v][k].stage = "idle"  BY <2>1 DEF Free, At
  <2>3. where'[v] = Out  BY <1>10 DEF Evict
  <2> QED  BY <1>0, <1>6, <2>1, <2>2, <2>3 DEF TypeOK
<1>11. \A v \in Users : \A j \in Slots :
          \/ handler'[v][j] = handler[v][j]
          \/ handler[v][j].stage = "rollback" /\ handler'[v][j].stage = "idle"
          \/ where[v] = c /\ handler[v][j].stage = "idle" /\ handler'[v][j] = call
  BY <1>9, <1>10
<1>12. ASSUME NEW v \in Users, NEW j \in Slots
       PROVE  (Waits(v, j) /\ Founds(v, j) /\ Comes(v, j) /\ Goes(v, j) /\ Owns(v, j))'
  <2>0. Waits(v, j) /\ Founds(v, j) /\ Comes(v, j) /\ Goes(v, j) /\ Owns(v, j)
    BY <1>0 DEF CallsInv
  <2>1. CASE where[v] # c
    <3>1. /\ where'[v] = where[v]
          /\ \A m \in Slots :
                \/ handler'[v][m] = handler[v][m]
                \/ handler[v][m].stage = "rollback" /\ handler'[v][m].stage = "idle"
      BY <1>9, <2>1
    <3>2. Waits(v, j)' /\ Goes(v, j)'
      BY <2>0, <3>1 DEF Waits, Goes, At, Pipeline, Going
    <3>3. Founds(v, j)'
      <4>1. handler[v][j].stage \in {"insert", "track"} => handler[v][j].room \in Channels
        BY <1>0, CallFacts
      <4> QED  BY <1>5, <2>0, <3>1, <4>1 DEF Founds
    <3>4. Comes(v, j)'  BY <2>0, <3>1 DEF Comes, Coming
    <3>5. Owns(v, j)'
      <4>1. handler[v][j].stage \in {"leave", "untrack"} => handler[v][j].before \in Channels
        BY <1>0, CallFacts DEF Going
      <4>2. \A w \in Users : \A m \in Slots :
               handler'[w][m].stage = "untrack" => handler'[w][m] = handler[w][m]
        BY <1>7, <1>11
      <4>3. /\ handler'[v][j] = handler[v][j] \/ handler'[v][j].stage = "idle"
            /\ row' = row /\ \A d \in Channels : ownReg'[d] = ownReg[d]
        BY <1>5, <3>1
      <4> QED  BY <2>0, <4>1, <4>2, <4>3 DEF Owns, At
    <3> QED  BY <3>2, <3>3, <3>4, <3>5
  <2>2. CASE where[v] = c
    <3>1. PICK k \in Slots : /\ handler[v][k].stage = "idle" /\ handler'[v][k] = call
                             /\ \A m \in Slots \ {k} : handler'[v][m] = handler[v][m]
      BY <1>10, <2>2
    <3>2. where'[v] = Out  BY <1>10, <2>2
    <3>3. \A m \in Slots : handler[v][m].stage \notin Pipeline \cup {"insert", "track"}
      <4> SUFFICES ASSUME NEW m \in Slots, handler[v][m].stage \in Pipeline \cup {"insert", "track"}
                   PROVE  FALSE
        OBVIOUS
      <4>1. Waits(v, m) /\ Founds(v, m)  BY <1>0 DEF CallsInv
      <4> QED  BY <1>8, <2>2, <4>1, VoiceRoomsAssumption DEF Waits, Founds, Live
    <3>4. \A m \in Slots : handler[v][m].stage \in Going => handler[v][m].before # c
      <4>1. \A m \in Slots : Goes(v, m)  BY <1>0 DEF CallsInv
      <4> QED  BY <2>2, <4>1 DEF Goes
    <3>5. CASE j = k
      <4>1. Goes(v, k)'
        BY <1>7, <1>8, <3>1, <3>2, <3>4 DEF Goes
      <4>2. Owns(v, k)'
        BY <1>7, <3>1, VoiceRoomsAssumption DEF Owns, Live
      <4> QED  BY <1>7, <1>8, <3>1, <3>5, <4>1, <4>2 DEF Waits, Founds, Comes, Pipeline
    <3>6. CASE j # k
      <4>0. handler'[v][j] = handler[v][j]  BY <3>1, <3>6
      <4>1. Waits(v, j)' /\ Founds(v, j)'  BY <2>0, <3>3, <4>0 DEF Waits, Founds
      <4>2. Comes(v, j)'
        <5>1. \A m \in Slots : handler'[v][m].after \notin Channels
                                  \/ handler'[v][m] = handler[v][m]
          BY <1>7, <1>8, <3>1
        <5> QED  BY <2>0, <2>2, <4>0, <5>1 DEF Comes
      <4>3. Goes(v, j)'
        <5>1. handler[v][j].stage \in Going => handler[v][j].before \in Channels
          BY <1>0, CallFacts
        <5> QED  BY <1>7, <1>8, <2>0, <3>1, <3>2, <3>4, <4>0, <5>1 DEF Goes
      <4>4. Owns(v, j)'
        <5>1. handler[v][j].stage \in {"leave", "untrack"} => handler[v][j].before \in Channels
          BY <1>0, CallFacts DEF Going
        <5>2. \A w \in Users : \A m \in Slots :
                 handler'[w][m].stage = "untrack" => handler'[w][m] = handler[w][m]
          BY <1>7, <1>11
        <5>3. row' = row /\ \A d \in Channels : ownReg'[d] = ownReg[d]  BY <1>5
        <5> QED  BY <2>0, <4>0, <5>1, <5>2, <5>3 DEF Owns, At
      <4> QED  BY <4>1, <4>2, <4>3, <4>4
    <3> QED  BY <3>5, <3>6
  <2> QED  BY <2>1, <2>2
<1>13. ASSUME NEW d \in Channels  PROVE (HandoverOK(d) /\ ListOK(d) /\ UnbornOK(d) /\ InCharge(d))'
  <2>0. HandoverOK(d) /\ ListOK(d) /\ UnbornOK(d) /\ InCharge(d)  BY DEF PatientInv
  <2>1. \A w \in Users : /\ Returning(w, d) => Returning(w, d)'
                         /\ Leaving(w, d) => Leaving(w, d)'
    BY <1>11 DEF Returning, Leaving, Going
  <2>2. \A w \in Users : Returning(w, d)' => Returning(w, d)
    BY <1>7, <1>8, <1>11 DEF Returning
  <2>3. \A w \in Users : where'[w] = d => where[w] = d  BY <1>8, <1>9, <1>10
  <2>4. d # c => \A w \in Users : where[w] = d => where'[w] = d  BY <1>9
  <2>5. HandoverOK(d)'
    <3>1. row'[d] = row[d]  OBVIOUS
    <3> QED  BY <1>0, <1>5, <2>0, <2>1, <2>2, <2>3, <3>1, HandoverKept
  <2>6. ListOK(d)'
    <3>1. Live(d) => d # c  OBVIOUS
    <3> QED  BY <1>0, <1>5, <2>0, <2>1, <2>4, <3>1, ListKept
  <2>7. \A w \in Users : \A k \in Slots :
             handler'[w][k].stage \notin {"leave", "idle"} => handler'[w][k] = handler[w][k]
    BY <1>7, <1>11
  <2>8. UnbornOK(d)'
    <3>1. Unborn(d)' => Unborn(d)  BY <2>7, SameBuilding DEF Building
    <3>2. tracked'[d] \subseteq tracked[d] /\ ownReg'[d] \in {ownReg[d], NoTimer}  BY <1>5
    <3> QED  BY <2>0, <2>7, <3>1, <3>2, UnbornKept
  <2>9. InCharge(d)'
    <3>1. Live(d)' => d # c /\ Live(d) /\ Scheduled(d)' = Scheduled(d)  BY <1>5
    <3>2. d # c => Members(d)' = Members(d)  BY <2>3, <2>4 DEF Members
    <3>3. d # c /\ Excused(d) => Excused(d)'  BY DEF Evict, Excused
    <3> QED  BY <2>0, <2>1, <3>1, <3>2, <3>3 DEF InCharge
  <2> QED  BY <2>5, <2>6, <2>8, <2>9
<1> QED  BY <1>12, <1>13 DEF PatientInv

LEMMA CloseStep ==
  ASSUME PatientInv, RowInv', NEW c \in Channels, NEW t \in Timers, CloseChannel(c, t)
  PROVE  PatientInv'
<1>0. TypeOK /\ ClosedIsDropped /\ BuiltUnseen  BY DEF PatientInv, RowInv
<1>1. ~Live(c)  BY <1>0 DEF ClosedIsDropped, CloseChannel
<1>2. UNCHANGED <<created, row, tracked, handovers>> /\ open' = open \ {c} /\ Evict(c)
      /\ handler' = Evicted(c, handler) /\ DeleteEnds(c, t)
  BY DEF CloseChannel, database
<1>3. /\ \A d \in Channels, s \in Timers : (d # c \/ s # t) => delStage'[d][s] = delStage[d][s]
      /\ delStage'[c][t] = "idle"
  BY <1>0, <1>2 DEF DeleteEnds, TypeOK
<1>4. /\ \A d \in Channels : Scheduled(d)' => Scheduled(d)
      /\ \A d \in Channels : d # c => Scheduled(d)' = Scheduled(d)
  BY <1>3 DEF Scheduled
<1>5. PICK calls \in [Users -> [Slots -> Call]] : calls = handler  BY <1>0 DEF TypeOK
<1>6. handler' = Evicted(c, calls)
      /\ \A v \in Users : \A j \in Slots : calls[v][j] = handler[v][j]
  BY <1>2, <1>5
<1>7. \A v \in Users : \A j \in Slots :
         handler[v][j].stage = "insert" => handler[v][j].room # c
  BY <1>0 DEF BuiltUnseen, Building, Scheduled, CloseChannel
<1> QED  BY <1>1, <1>2, <1>4, <1>6, <1>7, Eviction

LEMMA RollBackStep ==
  ASSUME PatientInv, RowInv', NEW u \in Users, NEW i \in Slots, RollBack(u, i)
  PROVE  PatientInv'
<1>0. TypeOK /\ BuiltUnseen /\ BuiltByOne  BY DEF PatientInv, RowInv
<1>1. handler[u][i].stage = "rollback"  BY DEF RollBack, At
<1>2. PICK c \in Channels : c = handler[u][i].room  BY <1>0, <1>1, CallFacts
<1>3. ~Live(c)  BY <1>0, <1>1, <1>2 DEF BuiltUnseen, Building
<1>4. PICK calls : calls = [handler EXCEPT ![u][i] = Idle]  OBVIOUS
<1>5. UNCHANGED <<created, row, tracked, deletes, handovers>> /\ open' = open \ {c} /\ Evict(c)
      /\ handler' = Evicted(c, calls)
  BY <1>2, <1>4 DEF RollBack, database
<1>6. calls \in [Users -> [Slots -> Call]]  BY <1>0, <1>4, IdleIsCall DEF TypeOK
<1>7. \A v \in Users : \A j \in Slots :
         \/ calls[v][j] = handler[v][j]
         \/ handler[v][j].stage = "rollback" /\ calls[v][j].stage = "idle"
  BY <1>0, <1>1, <1>4 DEF TypeOK, Idle
<1>8. \A d \in Channels : Scheduled(d)' = Scheduled(d)  BY <1>5 DEF deletes, Scheduled
<1>9. \A v \in Users : \A j \in Slots :
         handler[v][j].stage = "insert" => handler[v][j].room # c
  BY <1>0, <1>1, <1>2 DEF BuiltByOne, Building
<1> QED  BY <1>3, <1>5, <1>6, <1>7, <1>8, <1>9, Eviction

\* What the theorems about empty rooms, lists and owners suppose: each of these, when it does not
\* hold, makes one of the three false.
Orderly ==
    /\ Patient = Users
    /\ ~RoomToTrigger
    /\ MaxRestarts = 0
    /\ FaultPoints \cap Harmful = {}

LEMMA FaultStep ==
  ASSUME PatientInv, RowInv', FaultPoints \cap Harmful = {},
         NEW u \in Users, NEW i \in Slots, HandlerFault(u, i)
  PROVE  PatientInv'
<1>0. TypeOK  BY DEF PatientInv, RowInv
<1>1. handler[u][i].stage \in {"enter", "vet", "make", "rollback", "add", "eject", "move"}
  BY DEF HandlerFault, Harmful, HandlerAwaits, PatientInv, Waits
<1>2. UNCHANGED <<where, row, created, open, tracked, deletes, handovers>> /\ ExcusesKept
  BY <1>1 DEF HandlerFault, discord, ExcusesKept, Excused
<1>3. CASE handler[u][i].stage # "move"
  BY <1>1, <1>2, <1>3, EarlySteps DEF HandlerFault, Pipeline
<1>4. CASE handler[u][i].stage = "move"
  <2>1. Goto(u, i, "rollback")  BY <1>4 DEF HandlerFault
  <2>2. /\ handler'[u][i].stage = "rollback" /\ handler'[u][i].room = handler[u][i].room
        /\ Only(u, i)
    BY <1>0, <2>1, GotoCall
  <2> QED  BY <1>2, <1>4, <2>2, StageOnly DEF Going
<1> QED  BY <1>3, <1>4

\* Nothing happens, or a bot comes or goes.
LEMMA BotStep ==
  ASSUME PatientInv, RowInv',
         UNCHANGED <<handler, where, created, open, row, tracked, delStage, ownReg, transfer>>,
         \A d \in Channels : Members(d) = {} /\ Excused(d) => Excused(d)'
  PROVE  PatientInv'
<1>1. CallsInv'  BY CallsAround DEF Scheduled
<1>2. ASSUME NEW d \in Channels  PROVE (HandoverOK(d) /\ ListOK(d) /\ UnbornOK(d) /\ InCharge(d))'
  <2>1. HandoverOK(d) /\ ListOK(d) /\ UnbornOK(d) /\ InCharge(d)  BY DEF PatientInv
  <2>2. (ListOK(d) /\ UnbornOK(d))'  BY ListsAround DEF Live
  <2>3. InCharge(d)'
    <3>1. Live(d)' = Live(d) /\ Members(d)' = Members(d) /\ Scheduled(d)' = Scheduled(d)
      BY DEF Live, Members, Scheduled
    <3>2. \A u \in Users : Leaving(u, d)' = Leaving(u, d)  BY DEF Leaving
    <3> QED  BY <2>1, <3>1, <3>2 DEF InCharge
  <2>4. HandoverOK(d)'  BY <2>1 DEF HandoverOK, Live, Returning
  <2> QED  BY <2>2, <2>3, <2>4
<1> QED  BY <1>1, <1>2 DEF PatientInv, CallsInv

LEMMA PatientNext ==
  ASSUME Orderly, PatientInv, [Next]_vars
  PROVE  PatientInv'
<1>0. TypeOK /\ RowInv' /\ FaultPoints \cap Harmful = {}
  <2>1. FaultPoints \cap {"insert", "track"} = {}  BY DEF Orderly, Harmful
  <2> QED  BY <2>1, RowNext DEF PatientInv, RowInv, Orderly
<1>1. ASSUME NEW u \in Users, NEW to \in Places, Move(u, to)  PROVE PatientInv'
  BY <1>0, <1>1, UserMoves DEF Orderly
<1>2. ASSUME NEW u \in Users, NEW i \in Slots, CreateStep(u, i)  PROVE PatientInv'
  <2>1. ~DropStale(u, i)  BY DEF PatientInv, Waits, DropStale, At
  <2> QED
    BY <1>0, <1>2, <2>1, EarlySteps, RedirectStep, MakeStep, MoveInStep, InsertStep, TrackStep,
       RollBackStep DEF CreateStep
<1>3. ASSUME NEW u \in Users, NEW i \in Slots, PresenceStep(u, i)  PROVE PatientInv'
  BY <1>0, <1>3, LeaveStep, UntrackStep, JoinStep, AddStep, EjectStep DEF PresenceStep
<1>4. ASSUME NEW u \in Users, NEW i \in Slots, HandlerFault(u, i)  PROVE PatientInv'
  BY <1>0, <1>4, FaultStep
<1>5. ASSUME NEW c \in Channels, NEW t \in Timers, DeleteStep(c, t)  PROVE PatientInv'
  BY <1>0, <1>5, DeleteTimer, CloseStep DEF DeleteStep
<1>6. ASSUME NEW c \in Channels, NEW t \in Timers, DeleteFault(c, t)  PROVE PatientInv'
  <2>1. delStage[c][t] = "close"  BY <1>0, <1>6 DEF DeleteFault, Harmful, DeleteAwaits
  <2> QED  BY <1>0, <1>6, <2>1, DeleteTimer
<1>7. ASSUME NEW c \in Channels, NEW t \in Timers, TransferStep(c, t)  PROVE PatientInv'
  BY <1>0, <1>7, TransferTimer
<1>8. ~Restart  BY <1>0 DEF Restart, TypeOK, Orderly
<1>9. CASE UNCHANGED vars
  <2>1. UNCHANGED <<handler, where, created, open, row, tracked, delStage, ownReg, transfer>>
    BY <1>9 DEF vars
  <2>2. \A d \in Channels : Excused(d) => Excused(d)'  BY <1>9 DEF vars, Excused
  <2> QED  BY <1>0, <2>1, <2>2, BotStep
<1>10. ASSUME NEW c \in Channels, BotEnters(c) \/ BotLeaves(c)  PROVE PatientInv'
  <2>1. UNCHANGED <<handler, where, created, open, row, tracked, delStage, ownReg, transfer>>
    BY <1>10 DEF BotEnters, BotLeaves, database, deletes, handovers
  <2>2. \A d \in Channels : Members(d) = {} /\ Excused(d) => Excused(d)'
    BY <1>10 DEF BotEnters, BotLeaves, Excused
  <2> QED  BY <1>0, <2>1, <2>2, BotStep
<1> QED  BY <1>1, <1>2, <1>3, <1>4, <1>5, <1>6, <1>7, <1>8, <1>9, <1>10 DEF Next

LEMMA PatientInit == Init => PatientInv
<1> SUFFICES ASSUME Init  PROVE PatientInv
  OBVIOUS
<1>1. RowInv
  BY TypeInit DEF Init, Idle, RowInv, RowHasChannel, BuiltUnseen, BuiltByOne,
     SeenIsCreated, ClosedIsDropped, Live, Scheduled, BeingLeft, Building, At
<1>2. \A u \in Users : \A i \in Slots : handler[u][i].stage = "idle"  BY DEF Init, Idle
<1>3. ASSUME NEW u \in Users, NEW i \in Slots
      PROVE  Waits(u, i) /\ Founds(u, i) /\ Comes(u, i) /\ Goes(u, i) /\ Owns(u, i)
  BY <1>2 DEF Waits, Founds, Comes, Goes, Owns, Pipeline, Coming, Going
<1>4. ASSUME NEW c \in Channels  PROVE HandoverOK(c) /\ ListOK(c) /\ UnbornOK(c) /\ InCharge(c)
  <2>1. Gone(c) /\ ~Live(c) /\ tracked[c] = {}  BY DEF Init, Gone, NoTransfer, Live
  <2>2. UnbornOK(c)  BY <1>2, <2>1 DEF UnbornOK, Gone
  <2> QED  BY <2>1, <2>2, GoneIsOK DEF ListOK, InCharge
<1> QED  BY <1>1, <1>3, <1>4 DEF PatientInv

\* No cancel_delete and no finally clause of a cancelled task leaves a room its last user left to
\* nobody, whatever the users, channels, slots and timers, and whichever bots come and go.
THEOREM EmptyRoomsCorrect ==
  ASSUME Orderly
  PROVE  Spec => []EmptyRoomInCharge
<1>1. PatientInv => EmptyRoomInCharge
  BY DEF PatientInv, InCharge, EmptyRoomInCharge, Empty, Excused, Leaving, Going, Scheduled
<1> QED  BY PatientInit, PatientNext, <1>1, PTL DEF Spec

\* With no call and no task running, voice_room_members lists no one who left.
THEOREM ListsCorrect ==
  ASSUME Orderly
  PROVE  Spec => []TrackedArePresent
<1>1. PatientInv => TrackedArePresent
  <2> SUFFICES ASSUME PatientInv, Settled, NEW c \in Channels, Live(c), NEW u \in tracked[c]
               PROVE  u \in Members(c)
    BY DEF TrackedArePresent
  <2>1. u \in Users  BY DEF PatientInv, RowInv, TypeOK
  <2>2. where[u] = c \/ Leaving(u, c)  BY DEF PatientInv, ListOK
  <2>3. \A i \in Slots : handler[u][i].stage = "idle"  BY <2>1 DEF Settled, Quiet, Free, At
  <2>4. ~Leaving(u, c)  BY <2>3 DEF Leaving, Going
  <2> QED  BY <2>1, <2>2, <2>4 DEF Members
<1> QED  BY PatientInit, PatientNext, <1>1, PTL DEF Spec

\* A handover that is about to take the room from an owner who is back has not been told yet: the
\* call about the return is under way and will cancel it.
THEOREM OwnersKeepRooms ==
  ASSUME Orderly
  PROVE  Spec => []ReturnedOwnerKeepsRoom
<1>1. PatientInv => ReturnedOwnerKeepsRoom
  <2> SUFFICES ASSUME PatientInv, NEW c \in Channels, NEW t \in Timers, NEW old,
                      old = transfer[c][t].old, transfer[c][t].stage = "grant",
                      where[old] = c, row[c] = old
               PROVE  ~Quiet(old)
    BY DEF ReturnedOwnerKeepsRoom
  <2>1. old \in Users  BY DEF PatientInv, HandoverOK
  <2>2. Live(c)  BY <2>1, VoiceRoomsAssumption DEF Live
  <2>3. Returning(old, c)  BY <2>2 DEF PatientInv, HandoverOK
  <2> QED  BY <2>3 DEF Returning, Quiet, Free, At
<1> QED  BY PatientInit, PatientNext, <1>1, PTL DEF Spec
=============================================================================

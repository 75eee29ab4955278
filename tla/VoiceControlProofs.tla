-------------------------- MODULE VoiceControlProofs --------------------------
(***************************************************************************)
(* Who holds the seat of a room, who has the power on its channel and who  *)
(* is kept out, for every number of users and of operations in flight.     *)
(***************************************************************************)
EXTENDS VoiceControl, TLAPS

-----------------------------------------------------------------------------
(* Where an operation can be, and what it carries.                         *)

Assigning == {"read", "clear", "unpower", "vacate", "power", "seat"}
Giving == {"read", "clear", "unpower", "vacate"}
StagesOf(kind) ==
    CASE kind = "none"     -> {"idle"}
      [] kind = "claim"    -> {"read", "cas", "power", "undo"}
      [] kind = "release"  -> Giving
      [] kind = "leave"    -> Giving \cup {"look"}
      [] kind = "assign"   -> Assigning
      [] kind = "transfer" -> {"read", "vacate", "unpower", "power", "crown"}
      [] kind = "kick"     -> {"control", "read", "deny", "moveOut"}
      [] kind = "ban"      -> {"control", "read", "clear", "unpower", "vacate", "deny", "moveOut"}
      [] kind = "invite"   -> {"control", "allow"}
      [] kind = "aban"     -> {"read", "get", "patch", "moveOut", "update"}
      [] OTHER             -> {"read", "get", "patch", "update"}

Shape(p) ==
    /\ op[p].stage \in StagesOf(op[p].kind)
    /\ op[p].kind # "none" => op[p].kind \in Kinds /\ op[p].who \in Users
    /\ op[p].kind \in {"kick", "ban", "invite"} => op[p].target \in Users
    /\ op[p].kind = "aban" /\ op[p].stage # "read" => op[p].target \in Users
    /\ op[p].kind = "assign" /\ op[p].stage \in {"power", "seat"} => op[p].target \in Users
    /\ op[p].kind = "transfer" /\ op[p].stage # "read" => op[p].target \in Users
    /\ op[p].kind # "transfer" /\ op[p].stage \in {"clear", "unpower", "vacate"} =>
           op[p].seen \in Users
Formed == TypeOK /\ \A p \in Procs : Shape(p)

-----------------------------------------------------------------------------
(* Claims, releases and leaves in any order.                               *)

\* The admin has the power, or a claim is about to give it or to give the seat
\* back, or the seat is about to be cleared.
Backed ==
    admin # NoUser =>
        \/ perm[admin].power
        \/ \E p \in Procs : op[p].kind = "claim" /\ op[p].stage \in {"power", "undo"}
                            /\ op[p].who = admin
        \/ \E p \in Procs : op[p].stage = "vacate"

-----------------------------------------------------------------------------
(* One operation at a time.                                                *)

\* A ban from the Activity that goes on while the listener serves its target.
Follows(p, q) ==
    /\ op[p].kind = "aban" /\ op[p].stage = "update"
    /\ op[q].kind = "leave" /\ op[q].who = op[p].target
Alone == \A p, q \in Procs : p # q /\ ~Idle(p) /\ ~Idle(q) => Follows(p, q) \/ Follows(q, p)

\* Nobody is on the way to being owner and admin at once.
Apart(p) ==
    /\ op[p].kind = "claim" /\ op[p].stage = "cas" => op[p].who # owner
    /\ op[p].kind = "assign" /\ op[p].stage # "read" => op[p].target # owner
    /\ op[p].kind = "transfer" /\ op[p].stage \in {"unpower", "power", "crown"} =>
           op[p].target # admin
    /\ op[p].kind \in ActivityRequests /\ op[p].stage # "read" => NewAdmin(p) # owner
SeatInv == Formed /\ Alone /\ AdminNeverOwner /\ \A p \in Procs : Apart(p)

\* Whom an operation has given the power, or leaves it, ahead of the table.
Extra(p) ==
    IF \/ op[p].kind = "assign" /\ op[p].stage = "seat"
       \/ op[p].kind = "transfer" /\ op[p].stage # "read"
    THEN {op[p].target}
    ELSE IF op[p].kind \in {"aclaim", "aassign"} /\ op[p].stage = "update" THEN {NewAdmin(p)} ELSE {}

\* What an operation knows of the seat, and of the power of whom it takes it from.
Knows(p) ==
    /\ op[p].stage # "undo"
    /\ op[p].kind = "claim" /\ op[p].stage = "power" => admin = op[p].who
    /\ op[p].kind \notin {"transfer", "none"} /\ op[p].stage \in {"clear", "unpower", "vacate"} =>
           admin \in {NoUser, op[p].seen} /\ op[p].seen # owner
    /\ op[p].kind \notin {"transfer", "none"} /\ op[p].stage = "vacate" => ~perm[op[p].seen].power
    /\ op[p].kind = "assign" /\ op[p].stage \in {"power", "seat"} => admin = NoUser
    /\ op[p].kind = "ban" /\ op[p].stage \in {"deny", "moveOut"} => admin # op[p].target
    /\ op[p].kind = "transfer" /\ op[p].stage # "read" => op[p].who = owner /\ op[p].target # owner
    /\ op[p].kind = "transfer" /\ op[p].stage = "vacate" => admin = op[p].target
    /\ op[p].kind = "transfer" /\ op[p].stage \in {"power", "crown"} => ~perm[owner].power
    /\ op[p].kind \in ActivityRequests \ {"aban"} /\ op[p].stage # "read" => admin = op[p].seen
    /\ op[p].kind \in ActivityRequests \ {"aban"} /\ op[p].stage = "patch" =>
           \A u \in Users : op[p].list[u].power => u \in {owner, NewAdmin(p)}
    /\ op[p].kind \in ActivityRequests \ {"aban"} /\ op[p].stage = "update" =>
           \A u \in Users : perm[u].power => u \in {owner, NewAdmin(p)}
    /\ op[p].kind = "aban" /\ op[p].stage \in {"get", "patch", "moveOut"} => admin = op[p].seen
    /\ op[p].kind = "aban" /\ op[p].stage = "update" => admin \in {NoUser, op[p].target}
    /\ op[p].kind = "aban" /\ op[p].stage = "patch" =>
           /\ \A u \in Users : op[p].list[u].power => perm[u].power
           /\ op[p].seen = op[p].target => ~op[p].list[op[p].target].power
    /\ op[p].kind = "aban" /\ op[p].stage \in {"moveOut", "update"} /\ op[p].seen = op[p].target =>
           ~perm[op[p].target].power
    /\ op[p].kind = "aban" /\ op[p].stage = "update" => op[p].seen = op[p].target
PowerInv ==
    /\ SeatInv
    /\ \A p \in Procs : Knows(p)
    /\ \A u \in Users : perm[u].power => u \in {owner, admin} \/ \E p \in Procs : u \in Extra(p)

\* Without bans from the Activity: a banned user is not in charge nor about to
\* be, and is connected only until a ban under way disconnects them.
Enters(p) ==
    IF op[p].kind = "claim" /\ op[p].stage \in {"read", "cas", "power"} THEN {op[p].who}
    ELSE IF op[p].kind = "assign" /\ op[p].stage = "seat" THEN {op[p].target}
    ELSE IF op[p].kind = "transfer" /\ op[p].stage # "read" THEN {op[p].who, op[p].target}
    ELSE IF op[p].kind = "aclaim" /\ op[p].stage \in {"patch", "update"} THEN {op[p].who}
    ELSE IF op[p].kind = "aassign" /\ op[p].stage = "update" THEN {NewAdmin(p)}
    ELSE IF op[p].kind = "leave" /\ op[p].stage \in {"clear", "unpower", "vacate"} THEN {op[p].seen}
    ELSE IF op[p].kind \in {"release", "assign", "ban"} /\ op[p].stage \in {"clear", "unpower", "vacate"}
    THEN {op[p].seen}
    ELSE {}
Spares(p) ==
    /\ \A u \in Enters(p) : u \notin banned
    /\ op[p].kind \in ActivityRequests /\ op[p].stage = "patch" =>
           \A u \in banned : u # NewAdmin(p) => op[p].list[u].connect = "deny"
    /\ op[p].kind = "ban" /\ op[p].stage \notin {"control", "read"} => op[p].target # owner
Ousts(p, u) == op[p].kind = "ban" /\ op[p].stage = "moveOut" /\ op[p].target = u
Denied == \A u \in banned : perm[u].connect = "deny"
Unbanned == owner \notin banned /\ admin \notin banned
BanInv ==
    /\ PowerInv /\ Denied /\ Unbanned
    /\ \A p \in Procs : Spares(p)
    /\ \A u \in inRoom \cap banned : \E p \in Procs : Ousts(p, u)

-----------------------------------------------------------------------------
(* Operations keep their form.                                             *)

LEMMA InitFormed == Init => Formed
BY VoiceControlAssumption DEF Init, Formed, TypeOK, NoOp, Blank, Power, Overwrite, Op, Stages, Shape, StagesOf

\* What going on, ending and beginning leave of the operations.
Others(p) == \A q \in Procs \ {p} : op'[q] = op[q]
LEMMA GotoOp ==
  ASSUME TypeOK, NEW p \in Procs, NEW stage \in Stages, Goto(p, stage)
  PROVE  /\ op' \in [Procs -> Op] /\ Others(p)
         /\ op'[p].stage = stage /\ op'[p].kind = op[p].kind /\ op'[p].who = op[p].who
         /\ op'[p].target = op[p].target /\ op'[p].seen = op[p].seen /\ op'[p].list = op[p].list
  BY DEF TypeOK, Goto, Op, Others

LEMMA NoOpType == NoOp \in Op
  BY DEF NoOp, Op, Blank, Overwrite, Stages

LEMMA DoneOp ==
  ASSUME TypeOK, NEW p \in Procs, Done(p)
  PROVE  op' \in [Procs -> Op] /\ Others(p) /\ op'[p] = NoOp
  BY NoOpType DEF TypeOK, Done, Others

\* A step of one operation keeps the form of all if it keeps that of its own.
LEMMA OneMoves ==
  ASSUME Formed, NEW p \in Procs, op' \in [Procs -> Op], Others(p), Shape(p)',
         owner' \in Users, admin' \in Users \cup {NoUser}, perm' \in [Users -> Overwrite],
         inRoom' \in SUBSET Users, banned' \in SUBSET Users
  PROVE  Formed'
<1>1. TypeOK'  BY DEF TypeOK
<1>2. ASSUME NEW q \in Procs  PROVE Shape(q)'
  <2>1. CASE q = p  BY <2>1
  <2>2. CASE q # p  BY <2>2 DEF Others, Formed, Shape
  <2> QED  BY <2>1, <2>2
<1> QED  BY <1>1, <1>2 DEF Formed

LEMMA StagesAre == \A kind \in AllKinds \cup {"none"} : StagesOf(kind) \subseteq Stages
  BY DEF AllKinds, Requests, ActivityRequests, StagesOf, Stages, Giving, Assigning

LEMMA RequestFormed ==
  ASSUME Formed, NEW p \in Procs, NEW kind \in Kinds, NEW u \in Users, NEW v \in Users \cup {NoUser},
         Request(p, kind, u, v)
  PROVE  Formed'
<1>1. kind \in AllKinds /\ TypeOK  BY VoiceControlAssumption DEF Formed
<1>0. "read" \in Stages /\ "control" \in Stages  BY DEF Stages
<1>2. CASE kind \in {"claim", "release", "assign"} /\ op' = [op EXCEPT ![p] = Begin(kind, "read", u, v)]
  <2>1. /\ op' \in [Procs -> Op] /\ Others(p)
        /\ op'[p].stage = "read" /\ op'[p].kind = kind /\ op'[p].who = u /\ op'[p].target = v
    BY <1>0, <1>1, <1>2 DEF TypeOK, Op, Others, Begin, NoOp, Blank, Overwrite
  <2>2. Shape(p)'  BY <1>2, <2>1 DEF Shape, StagesOf, Giving, Assigning
  <2> QED  BY <2>1, <2>2, OneMoves DEF Request, Formed, TypeOK
<1>3. CASE kind \in {"kick", "ban", "invite"} /\ v \in Users
           /\ op' = [op EXCEPT ![p] = Begin(kind, "control", u, v)]
  <2>1. /\ op' \in [Procs -> Op] /\ Others(p)
        /\ op'[p].stage = "control" /\ op'[p].kind = kind /\ op'[p].who = u /\ op'[p].target = v
    BY <1>0, <1>1, <1>3 DEF TypeOK, Op, Others, Begin, NoOp, Blank, Overwrite
  <2>2. Shape(p)'  BY <1>3, <2>1 DEF Shape, StagesOf, Giving, Assigning
  <2> QED  BY <2>1, <2>2, OneMoves DEF Request, Formed, TypeOK
<1>4. CASE kind \in ActivityRequests /\ op' = [op EXCEPT ![p] = Begin(kind, "read", u, v)]
  <2>1. /\ op' \in [Procs -> Op] /\ Others(p)
        /\ op'[p].stage = "read" /\ op'[p].kind = kind /\ op'[p].who = u /\ op'[p].target = v
    BY <1>0, <1>1, <1>4 DEF TypeOK, Op, Others, Begin, NoOp, Blank, Overwrite
  <2>2. Shape(p)'  BY <1>4, <2>1 DEF Shape, StagesOf, Giving, Assigning, ActivityRequests
  <2> QED  BY <2>1, <2>2, OneMoves DEF Request, Formed, TypeOK
<1> QED  BY <1>2, <1>3, <1>4 DEF Request

LEMMA DoneFormed ==
  ASSUME Formed, NEW p \in Procs, Done(p),
         owner' \in Users, admin' \in Users \cup {NoUser}, perm' \in [Users -> Overwrite],
         inRoom' \in SUBSET Users, banned' \in SUBSET Users
  PROVE  Formed'
<1>1. op' \in [Procs -> Op] /\ Others(p) /\ op'[p] = NoOp  BY DoneOp DEF Formed
<1>2. Shape(p)'  BY <1>1 DEF Shape, NoOp, StagesOf
<1> QED  BY <1>1, <1>2, OneMoves

\* Going on to a stage of its kind, with a target when that stage needs one.
LEMMA GotoFormed ==
  ASSUME Formed, NEW p \in Procs, NEW stage \in StagesOf(op[p].kind), Goto(p, stage), ~Idle(p),
         op[p].kind \in {"aban", "transfer"} => op[p].target \in Users,
         op[p].kind = "assign" /\ stage \in {"power", "seat"} => op[p].target \in Users,
         op[p].kind # "transfer" /\ stage \in {"clear", "unpower", "vacate"} => op[p].seen \in Users,
         owner' \in Users, admin' \in Users \cup {NoUser}, perm' \in [Users -> Overwrite],
         inRoom' \in SUBSET Users, banned' \in SUBSET Users
  PROVE  Formed'
<1>0. op[p].kind \in AllKinds \cup {"none"}  BY DEF Formed, TypeOK, Op
<1>1. stage \in Stages  BY <1>0, StagesAre
<1>2. /\ op' \in [Procs -> Op] /\ Others(p)
      /\ op'[p].stage = stage /\ op'[p].kind = op[p].kind /\ op'[p].who = op[p].who
      /\ op'[p].target = op[p].target /\ op'[p].seen = op[p].seen
  BY <1>1, GotoOp DEF Formed
<1>3. op[p].kind # "none"  BY DEF Idle, Formed, Shape, StagesOf
<1>4. Shape(p)'  BY <1>2, <1>3 DEF Shape, Formed
<1> QED  BY <1>2, <1>4, OneMoves

\* Going on with the admin seen.
See(p, stage, u) == op' = [op EXCEPT ![p].stage = stage, ![p].seen = u]
LEMMA SeenFormed ==
  ASSUME Formed, NEW p \in Procs, NEW stage \in StagesOf(op[p].kind), NEW u \in Users \cup {NoUser},
         See(p, stage, u), ~Idle(p),
         op[p].kind # "transfer", op[p].kind = "aban" => op[p].target \in Users,
         stage \notin {"power", "seat"}, stage \in {"clear", "unpower", "vacate"} => u \in Users,
         UNCHANGED <<owner, admin, perm, inRoom, banned>>
  PROVE  Formed'
<1>0. op[p].kind \in AllKinds \cup {"none"}  BY DEF Formed, TypeOK, Op
<1>1. stage \in Stages  BY <1>0, StagesAre
<1>2. /\ op' \in [Procs -> Op] /\ Others(p)
      /\ op'[p].stage = stage /\ op'[p].kind = op[p].kind /\ op'[p].who = op[p].who
      /\ op'[p].target = op[p].target /\ op'[p].seen = u
  BY <1>1 DEF Formed, TypeOK, Op, Others, See
<1>3. op[p].kind # "none"  BY DEF Idle, Formed, Shape, StagesOf
<1>4. Shape(p)'  BY <1>2, <1>3 DEF Shape, Formed
<1> QED  BY <1>2, <1>4, OneMoves DEF Formed, TypeOK

LEMMA StepFormed ==
  ASSUME Formed, NEW p \in Procs, Step(p)
  PROVE  Formed'
<1>0. /\ owner \in Users /\ admin \in Users \cup {NoUser} /\ perm \in [Users -> Overwrite]
      /\ inRoom \in SUBSET Users /\ banned \in SUBSET Users
      /\ TypeOK /\ Shape(p) /\ Overwrite = [power : BOOLEAN, connect : {"unset", "allow", "deny"}]
  BY DEF Formed, TypeOK, Overwrite
<1>a. /\ op[p].kind \in AllKinds \cup {"none"}
      /\ op[p].target \in Users \cup {NoUser} /\ op[p].seen \in Users \cup {NoUser}
      /\ op[p].list \in [Users -> Overwrite]
      /\ op[p].kind # "none" => op[p].kind \in Kinds /\ op[p].who \in Users
  BY <1>0 DEF TypeOK, Op, Shape
<1>s. op[p].stage \in StagesOf(op[p].kind)  BY <1>0 DEF Shape
<1>b. StagesOf("claim") = {"read", "cas", "power", "undo"} /\ StagesOf("none") = {"idle"}
      /\ StagesOf("release") = Giving /\ StagesOf("leave") = Giving \cup {"look"}
      /\ StagesOf("assign") = Assigning
      /\ StagesOf("transfer") = {"read", "vacate", "unpower", "power", "crown"}
      /\ StagesOf("kick") = {"control", "read", "deny", "moveOut"}
      /\ StagesOf("ban") = {"control", "read", "clear", "unpower", "vacate", "deny", "moveOut"}
      /\ StagesOf("invite") = {"control", "allow"}
      /\ StagesOf("aban") = {"read", "get", "patch", "moveOut", "update"}
      /\ StagesOf("aclaim") = {"read", "get", "patch", "update"}
      /\ StagesOf("arelease") = {"read", "get", "patch", "update"}
      /\ StagesOf("aassign") = {"read", "get", "patch", "update"}
  BY DEF StagesOf
<1>1. CASE ClaimReads(p)
  <2>1. CASE Goto(p, "cas")
    BY <1>0, <1>1, <2>1, <1>a, <1>b, GotoFormed DEF ClaimReads, Is, At, Idle
  <2>2. CASE Done(p)  BY <1>0, <1>1, <2>2, DoneFormed DEF ClaimReads
  <2> QED  BY <1>1, <2>1, <2>2 DEF ClaimReads
<1>2. CASE ClaimWrites(p)
  <2>1. op[p].kind = "claim"  BY <1>2, <1>a, <1>b, <1>s DEF ClaimWrites, At, AllKinds, Requests, ActivityRequests, Giving, Assigning
  <2>2. CASE Goto(p, "power") /\ admin' = op[p].who
    BY <1>0, <1>2, <2>1, <2>2, <1>a, <1>b, GotoFormed DEF ClaimWrites, At, Idle
  <2>3. CASE Done(p) /\ UNCHANGED admin  BY <1>0, <1>2, <2>3, DoneFormed DEF ClaimWrites
  <2> QED  BY <1>2, <2>2, <2>3 DEF ClaimWrites
<1>3. CASE ClaimUndone(p)
  BY <1>0, <1>3, DoneFormed DEF ClaimUndone
<1>4. CASE Empower(p)
  <2>1. op[p].kind \in {"claim", "assign", "transfer"}
    BY <1>4, <1>a, <1>b, <1>s DEF Empower, At, AllKinds, Requests, ActivityRequests, Giving, Assigning
  <2>2. perm' \in [Users -> Overwrite] /\ banned' \in SUBSET Users
    BY <1>0, <1>4 DEF Empower, Power
  <2>3. CASE op[p].kind = "claim"  BY <1>0, <1>4, <2>2, <2>3, DoneFormed DEF Empower, Is
  <2>4. CASE op[p].kind = "assign"
    <3>1. Goto(p, "seat") /\ op[p].target \in Users  BY <1>0, <1>4, <2>4 DEF Empower, Is, At, Shape
    <3> QED  BY <1>0, <1>4, <2>2, <2>4, <3>1, <1>b, GotoFormed DEF Empower, Assigning, Idle, At
  <2>5. CASE op[p].kind = "transfer"
    <3>1. Goto(p, "crown") /\ op[p].target \in Users  BY <1>0, <1>4, <2>5 DEF Empower, Is, At, Shape
    <3> QED  BY <1>0, <1>4, <2>2, <2>5, <3>1, <1>b, GotoFormed DEF Empower, Idle, At
  <2> QED  BY <2>1, <2>3, <2>4, <2>5
<1>5. CASE ReleaseReads(p)
  <2>1. CASE Done(p)  BY <1>0, <1>5, <2>1, DoneFormed DEF ReleaseReads
  <2>2. CASE admin = op[p].who /\ op' = [op EXCEPT ![p].stage = "clear", ![p].seen = admin]
    <3>1. admin \in Users  BY <1>5, <1>a, <2>2 DEF ReleaseReads, Is
    <3>2. See(p, "clear", admin)  BY <2>2 DEF See
    <3> QED  BY <1>0, <1>5, <3>1, <3>2, <1>b, SeenFormed DEF ReleaseReads, Is, At, Idle, Giving
  <2> QED  BY <1>5, <2>1, <2>2 DEF ReleaseReads
<1>6. CASE LeaveLooks(p)
  <2>1. CASE Done(p)  BY <1>0, <1>6, <2>1, DoneFormed DEF LeaveLooks
  <2>2. CASE At(p, "look") /\ Goto(p, "read")
    BY <1>0, <1>6, <2>2, <1>b, GotoFormed DEF LeaveLooks, Is, At, Idle, Giving
  <2>3. CASE At(p, "read") /\ op' = [op EXCEPT ![p].stage = "clear", ![p].seen = op[p].who]
    <3>1. op[p].who \in Users  BY <1>6, <1>a DEF LeaveLooks, Is
    <3>2. See(p, "clear", op[p].who)  BY <2>3 DEF See
    <3> QED  BY <1>0, <1>6, <2>3, <3>1, <3>2, <1>b, SeenFormed DEF LeaveLooks, Is, At, Idle, Giving
  <2> QED  BY <1>6, <2>1, <2>2, <2>3 DEF LeaveLooks
<1>7. CASE AssignReads(p)
  <2>1. CASE Done(p)  BY <1>0, <1>7, <2>1, DoneFormed DEF AssignReads
  <2>2. CASE admin # NoUser /\ op' = [op EXCEPT ![p].stage = "clear", ![p].seen = admin]
    <3>1. admin \in Users  BY <1>0, <2>2
    <3>2. See(p, "clear", admin)  BY <2>2 DEF See
    <3> QED  BY <1>0, <1>7, <3>1, <3>2, <1>b, SeenFormed DEF AssignReads, Is, At, Idle, Assigning
  <2>3. CASE op[p].target # NoUser /\ Goto(p, "power")
    <3>1. op[p].target \in Users  BY <1>a, <2>3
    <3> QED  BY <1>0, <1>7, <2>3, <3>1, <1>b, GotoFormed DEF AssignReads, Is, At, Idle, Assigning
  <2> QED  BY <1>7, <2>1, <2>2, <2>3 DEF AssignReads
<1>8. CASE ClearReads(p)
  <2>1. op[p].kind \in {"release", "leave", "assign", "ban"}
    BY <1>8, <1>a, <1>b, <1>s DEF ClearReads, At, AllKinds, Requests, ActivityRequests, Giving, Assigning
  <2>2. op[p].seen \in Users  BY <1>0, <1>8, <2>1 DEF ClearReads, At, Shape
  <2>3. CASE Goto(p, "unpower")
    BY <1>0, <1>8, <2>1, <2>2, <2>3, <1>b, GotoFormed DEF ClearReads, At, Idle, Giving, Assigning
  <2>4. CASE Goto(p, "vacate")
    BY <1>0, <1>8, <2>1, <2>2, <2>4, <1>b, GotoFormed DEF ClearReads, At, Idle, Giving, Assigning
  <2> QED  BY <1>8, <2>3, <2>4 DEF ClearReads
<1>9. CASE Unpower(p)
  <2>1. op[p].kind \in {"release", "leave", "assign", "ban", "transfer"}
    BY <1>9, <1>a, <1>b, <1>s DEF Unpower, At, AllKinds, Requests, ActivityRequests, Giving, Assigning
  <2>2. perm' \in [Users -> Overwrite]  BY <1>0, <1>9 DEF Unpower, Cleared, Blank
  <2>3. CASE op[p].kind = "transfer"
    <3>1. Goto(p, "power") /\ op[p].target \in Users  BY <1>0, <1>9, <2>3 DEF Unpower, Is, At, Shape
    <3> QED  BY <1>0, <1>9, <2>2, <2>3, <3>1, <1>b, GotoFormed DEF Unpower, At, Idle
  <2>4. CASE op[p].kind # "transfer"
    <3>1. Goto(p, "vacate") /\ op[p].seen \in Users  BY <1>0, <1>9, <2>4 DEF Unpower, Is, At, Shape
    <3> QED  BY <1>0, <1>9, <2>1, <2>2, <2>4, <3>1, <1>b, GotoFormed DEF Unpower, At, Idle, Giving, Assigning
  <2> QED  BY <2>3, <2>4
<1>10. CASE Vacate(p)
  <2>1. op[p].kind \in {"release", "leave", "assign", "ban", "transfer"}
    BY <1>10, <1>a, <1>b, <1>s DEF Vacate, At, AllKinds, Requests, ActivityRequests, Giving, Assigning
  <2>2. CASE Done(p)  BY <1>0, <1>10, <2>2, DoneFormed DEF Vacate
  <2>3. CASE op[p].kind = "assign" /\ op[p].target # NoUser /\ Goto(p, "power")
    BY <1>0, <1>10, <2>3, <1>a, <1>b, GotoFormed DEF Vacate, At, Idle, Assigning
  <2>4. CASE op[p].kind = "ban" /\ Goto(p, "deny")
    BY <1>0, <1>10, <2>4, <1>a, <1>b, GotoFormed DEF Vacate, At, Idle
  <2>5. CASE op[p].kind = "transfer" /\ Goto(p, "unpower")
    <3>1. op[p].target \in Users  BY <1>0, <1>10, <2>5 DEF Vacate, At, Shape
    <3> QED  BY <1>0, <1>10, <2>5, <3>1, <1>a, <1>b, GotoFormed DEF Vacate, At, Idle
  <2> QED  BY <1>10, <2>1, <2>2, <2>3, <2>4, <2>5 DEF Vacate, Is
<1>11. CASE Seat(p)
  BY <1>0, <1>11, <1>a, DoneFormed DEF Seat
<1>12. CASE TransferReads(p)
  <2>1. CASE Done(p)  BY <1>0, <1>12, <2>1, DoneFormed DEF TransferReads
  <2>2. ASSUME NEW heir \in Heirs(op[p].who),
               op' = [op EXCEPT ![p].stage = HeirsSeat(heir), ![p].target = heir]
        PROVE  Formed'
    <3>1. /\ HeirsSeat(heir) \in {"vacate", "unpower"} /\ heir \in Users
          /\ HeirsSeat(heir) \in Stages
      BY <1>0 DEF HeirsSeat, Heirs, Stages
    <3>2. /\ op' \in [Procs -> Op] /\ Others(p)
          /\ op'[p].stage = HeirsSeat(heir) /\ op'[p].kind = op[p].kind /\ op'[p].who = op[p].who
          /\ op'[p].target = heir
      BY <2>2, <3>1 DEF Formed, TypeOK, Op, Others
    <3>3. Shape(p)'  BY <1>12, <1>a, <1>b, <3>1, <3>2 DEF Shape, TransferReads, Is
    <3> QED  BY <1>0, <1>12, <3>2, <3>3, OneMoves DEF TransferReads
  <2> QED  BY <1>12, <2>1, <2>2 DEF TransferReads
<1>13. CASE Crown(p)
  <2>1. op[p].kind = "transfer"  BY <1>13, <1>a, <1>b, <1>s DEF Crown, At, AllKinds, Requests, ActivityRequests, Giving, Assigning
  <2>2. op[p].target \in Users  BY <1>0, <1>13, <2>1 DEF Crown, At, Shape
  <2> QED  BY <1>0, <1>13, <2>2, DoneFormed DEF Crown
<1>14. CASE Controls(p)
  <2>1. op[p].kind \in {"kick", "ban", "invite"}
    BY <1>14, <1>a, <1>b, <1>s DEF Controls, At, AllKinds, Requests, ActivityRequests, Giving, Assigning
  <2>2. CASE Done(p)  BY <1>0, <1>14, <2>2, DoneFormed DEF Controls
  <2>3. CASE op[p].kind = "invite" /\ Goto(p, "allow")
    BY <1>0, <1>14, <2>1, <2>3, <1>b, GotoFormed DEF Controls, At, Idle
  <2>4. CASE op[p].kind # "invite" /\ Goto(p, "read")
    BY <1>0, <1>14, <2>1, <2>4, <1>b, GotoFormed DEF Controls, At, Idle
  <2> QED  BY <1>14, <2>2, <2>3, <2>4 DEF Controls, Is
<1>15. CASE Allow(p)
  <2>1. perm' \in [Users -> Overwrite]  BY <1>0, <1>15 DEF Allow, Blank
  <2> QED  BY <1>0, <1>15, <2>1, DoneFormed DEF Allow
<1>16. CASE RemovalReads(p)
  <2>1. CASE Done(p)  BY <1>0, <1>16, <2>1, DoneFormed DEF RemovalReads
  <2>2. ASSUME NEW s \in {"clear", "deny"}, s = "clear" => op[p].kind = "ban",
               op' = [op EXCEPT ![p].stage = s, ![p].seen = op[p].target]
        PROVE  Formed'
    <3>1. op[p].target \in Users  BY <1>0, <1>16 DEF RemovalReads, Is, Shape
    <3>2. See(p, s, op[p].target)  BY <2>2 DEF See
    <3> QED  BY <1>0, <1>16, <2>2, <3>1, <3>2, <1>a, <1>b, SeenFormed DEF RemovalReads, Is, At, Idle
  <2> QED  BY <1>16, <2>1, <2>2 DEF RemovalReads, SeatLost, Is
<1>17. CASE Deny(p)
  <2>1. op[p].kind \in {"kick", "ban"}
    BY <1>17, <1>a, <1>b, <1>s DEF Deny, At, AllKinds, Requests, ActivityRequests, Giving, Assigning
  <2>2. op[p].target \in Users  BY <1>0, <2>1 DEF Shape
  <2>3. perm' \in [Users -> Overwrite]  BY <1>0, <1>17 DEF Deny, Blank
  <2>4. banned' \in SUBSET Users  BY <1>0, <1>17, <2>2 DEF Deny
  <2> QED  BY <1>0, <1>17, <2>1, <2>3, <2>4, <1>b, GotoFormed DEF Deny, At, Idle
<1>18. CASE MoveOut(p)
  <2>1. op[p].kind \in {"kick", "ban", "aban"}
    BY <1>18, <1>a, <1>b, <1>s DEF MoveOut, At, AllKinds, Requests, ActivityRequests, Giving, Assigning
  <2>2. op[p].target \in Users  BY <1>0, <1>18, <2>1 DEF Shape, MoveOut, At
  <2> DEFINE next == IF Is(p, {"aban"}) /\ op[p].seen = op[p].target
                     THEN [op EXCEPT ![p].stage = "update"] ELSE [op EXCEPT ![p] = NoOp]
  <2>3. /\ next \in [Procs -> Op] /\ next[p].stage \in {"update", "idle"}
        /\ \A q \in Procs \ {p} : next[q] = op[q]
        /\ next[p].stage = "update" => op[p].kind = "aban" /\ next[p].kind = op[p].kind
                                       /\ next[p].who = op[p].who /\ next[p].target = op[p].target
        /\ next[p].stage = "idle" => next[p] = NoOp
    <3>1. CASE Is(p, {"aban"}) /\ op[p].seen = op[p].target
      <4>1. "update" \in Stages  BY DEF Stages
      <4>2. next = [op EXCEPT ![p].stage = "update"]  BY <3>1
      <4>3. op \in [Procs -> Op]  BY DEF Formed, TypeOK
      <4> HIDE DEF next
      <4>4. next \in [Procs -> Op]  BY <4>1, <4>2, <4>3 DEF Op
      <4> QED  BY <3>1, <4>2, <4>3, <4>4 DEF Op, Is
    <3>2. CASE ~(Is(p, {"aban"}) /\ op[p].seen = op[p].target)
      <4>1. next = [op EXCEPT ![p] = NoOp]  BY <3>2
      <4>2. NoOp.stage = "idle"  BY DEF NoOp
      <4>3. op \in [Procs -> Op]  BY DEF Formed, TypeOK
      <4> HIDE DEF next
      <4> QED  BY <4>1, <4>2, <4>3, NoOpType
    <3> QED  BY <3>1, <3>2
  <2> HIDE DEF next
  <2>4. inRoom' \in SUBSET Users /\ UNCHANGED <<owner, admin, perm, banned>>
    BY <1>0, <1>18 DEF MoveOut
  <2>5. ASSUME op' = next  PROVE Formed'
    <3>1. Shape(p)'  BY <1>0, <2>2, <2>3, <2>5, <1>b, <1>a DEF Shape, NoOp
    <3>2. op' \in [Procs -> Op] /\ Others(p)  BY <2>3, <2>5 DEF Others
    <3> QED  BY <1>0, <2>4, <3>1, <3>2, OneMoves
  <2>6. ASSUME NEW q \in Procs, next[q].stage = "idle", "leave" \in Kinds,
               op' = [next EXCEPT ![q] = Begin("leave", "look", op[p].target, op[p].target)]
        PROVE  Formed'
    <3>1. Begin("leave", "look", op[p].target, op[p].target) \in Op
      BY <2>2 DEF Begin, NoOp, Op, Blank, Overwrite, AllKinds, Stages
    <3>2. op' \in [Procs -> Op]  BY <2>3, <2>6, <3>1
    <3>3. Shape(q)'
      <4>1. op'[q] = Begin("leave", "look", op[p].target, op[p].target)  BY <2>3, <2>6
      <4>2. op'[q].kind = "leave" /\ op'[q].stage = "look" /\ op'[q].who = op[p].target
        BY <4>1 DEF Begin, NoOp
      <4> QED  BY <2>2, <2>6, <4>2, <1>b DEF Shape
    <3>4. ASSUME NEW r \in Procs, r # q  PROVE Shape(r)'
      <4>1. op'[r] = next[r]  BY <2>3, <2>6, <3>4
      <4>2. CASE r = p  BY <1>0, <1>a, <1>b, <2>2, <2>3, <4>1, <4>2 DEF Shape, NoOp
      <4>3. CASE r # p  BY <2>3, <4>1, <4>3 DEF Shape, Formed
      <4> QED  BY <4>2, <4>3
    <3> QED  BY <1>0, <2>4, <3>2, <3>3, <3>4 DEF Formed, TypeOK
  <2> QED  BY <1>18, <2>5, <2>6 DEF MoveOut, next
<1>19. CASE ActivityReads(p)
  <2>1. CASE Done(p)  BY <1>0, <1>19, <2>1, DoneFormed DEF ActivityReads
  <2>2. CASE ~Refused(p) /\ op' = [op EXCEPT ![p].stage = "get", ![p].seen = admin]
    <3>1. op[p].kind = "aban" => op[p].target \in Users  BY <1>a, <2>2 DEF Refused, Is
    <3>2. See(p, "get", admin)  BY <2>2 DEF See
    <3> QED  BY <1>0, <1>19, <3>1, <3>2, <1>b, SeenFormed DEF ActivityReads, Is, At, Idle, ActivityRequests
  <2> QED  BY <1>19, <2>1, <2>2 DEF ActivityReads
<1>20. CASE ActivityFetches(p)
  <2>1. CASE Done(p)  BY <1>0, <1>20, <2>1, DoneFormed DEF ActivityFetches
  <2>2. ASSUME NEW l \in [Users -> Overwrite], op' = [op EXCEPT ![p].stage = "patch", ![p].list = l]
        PROVE  Formed'
    <3>1. op[p].kind \in ActivityRequests
      BY <1>20, <1>a, <1>b, <1>s DEF ActivityFetches, At, AllKinds, Requests, ActivityRequests, Giving, Assigning
    <3>0. "patch" \in Stages  BY DEF Stages
    <3>2. /\ op' \in [Procs -> Op] /\ Others(p)
          /\ op'[p].stage = "patch" /\ op'[p].kind = op[p].kind /\ op'[p].who = op[p].who
          /\ op'[p].target = op[p].target
      BY <2>2, <3>0 DEF Formed, TypeOK, Op, Others
    <3>3. Shape(p)'  BY <1>0, <1>20, <1>a, <1>b, <3>1, <3>2 DEF Shape, ActivityFetches, ActivityRequests, At
    <3> QED  BY <1>0, <1>20, <3>2, <3>3, OneMoves DEF ActivityFetches
  <2>3. ASSUME NEW u \in Users \cup {NoUser}, NEW l \in [Users -> Overwrite]
        PROVE  WithoutAdmin(l, u) \in [Users -> Overwrite] /\ WithAdmin(l, u) \in [Users -> Overwrite]
    BY DEF WithoutAdmin, WithAdmin, Blank, Power, Overwrite
  <2>4. ASSUME NEW u \in Users, NEW l \in [Users -> Overwrite]
        PROVE  WithBan(l, u) \in [Users -> Overwrite]
    BY DEF WithBan, Overwrite
  <2>5. CASE op[p].kind = "aban"
    <3>1. op[p].target \in Users  BY <1>0, <1>20, <2>5 DEF ActivityFetches, At, Shape
    <3>2. /\ WithBan(WithoutAdmin(perm, op[p].target), op[p].target) \in [Users -> Overwrite]
          /\ WithBan(perm, op[p].target) \in [Users -> Overwrite]
      BY <1>0, <2>3, <2>4, <3>1
    <3> QED  BY <1>20, <2>1, <2>2, <2>5, <3>2 DEF ActivityFetches, Is
  <2>6. CASE op[p].kind # "aban"
    <3>1. NewAdmin(p) \in Users \cup {NoUser}  BY <1>a DEF NewAdmin, Is
    <3>2. WithAdmin(WithoutAdmin(perm, op[p].seen), NewAdmin(p)) \in [Users -> Overwrite]
      BY <1>0, <1>a, <2>3, <3>1
    <3> QED  BY <1>20, <2>1, <2>2, <2>6, <3>2 DEF ActivityFetches, Is
  <2> QED  BY <2>5, <2>6
<1>21. CASE ActivityPatches(p)
  <2>1. op[p].kind \in ActivityRequests
    BY <1>21, <1>a, <1>b, <1>s DEF ActivityPatches, At, AllKinds, Requests, ActivityRequests, Giving, Assigning
  <2>2. op[p].kind = "aban" => op[p].target \in Users  BY <1>0, <1>21 DEF Shape, ActivityPatches, At
  <2>3. perm' \in [Users -> Overwrite]  BY <1>a, <1>21 DEF ActivityPatches
  <2>4. banned' \in SUBSET Users  BY <1>0, <1>21, <2>2 DEF ActivityPatches, Is
  <2>5. CASE op[p].kind = "aban" /\ Goto(p, "moveOut")
    BY <1>0, <1>21, <2>2, <2>3, <2>4, <2>5, <1>b, GotoFormed DEF ActivityPatches, At, Idle
  <2>6. CASE op[p].kind # "aban" /\ Goto(p, "update")
    BY <1>0, <1>21, <2>1, <2>3, <2>4, <2>6, <1>b, GotoFormed DEF ActivityPatches, At, Idle, ActivityRequests
  <2> QED  BY <1>21, <2>5, <2>6 DEF ActivityPatches, Is
<1>22. CASE ActivityUpdates(p)
  <2>1. NewAdmin(p) \in Users \cup {NoUser}
    BY <1>a DEF NewAdmin, Is
  <2> QED  BY <1>0, <1>22, <2>1, DoneFormed DEF ActivityUpdates
<1> QED
  BY <1>1, <1>2, <1>3, <1>4, <1>5, <1>6, <1>7, <1>8, <1>9, <1>10, <1>11, <1>12, <1>13, <1>14, <1>15,
     <1>16, <1>17, <1>18, <1>19, <1>20, <1>21, <1>22 DEF Step

LEMMA NextFormed ==
  ASSUME Formed, [Next]_vars
  PROVE  Formed'
<1>0. TypeOK  BY DEF Formed
<1>1. ASSUME NEW p \in Procs, NEW kind \in Kinds, NEW u \in Users, NEW v \in Users \cup {NoUser},
             Request(p, kind, u, v)
      PROVE  Formed'
  BY <1>1, RequestFormed
<1>2. ASSUME NEW p \in Procs, NEW u \in Users, Leave(p, u)  PROVE Formed'
  <2>1. CASE "leave" \in Kinds
    <3>1. op' = [op EXCEPT ![p] = Begin("leave", "look", u, u)]  BY <1>2, <2>1 DEF Leave
    <3>2. "leave" \in AllKinds /\ "look" \in Stages  BY DEF AllKinds, Stages
    <3>3. /\ op' \in [Procs -> Op] /\ Others(p) /\ op'[p].stage = "look" /\ op'[p].kind = "leave"
          /\ op'[p].who = u /\ op'[p].target = u
      BY <1>0, <3>1, <3>2 DEF TypeOK, Op, Others, Begin, NoOp, Blank, Overwrite
    <3>4. Shape(p)'  BY <2>1, <3>3 DEF Shape, StagesOf
    <3> QED  BY <1>0, <1>2, <3>3, <3>4, OneMoves DEF Leave, TypeOK
  <2>2. CASE "leave" \notin Kinds
    <3>1. op' = op  BY <1>2, <2>2 DEF Leave
    <3> QED  BY <1>2, <3>1 DEF Leave, Formed, TypeOK, Shape
  <2> QED  BY <2>1, <2>2
<1>3. ASSUME NEW u \in Users, Join(u)  PROVE Formed'
  BY <1>3 DEF Join, Formed, TypeOK, Shape
<1>4. ASSUME NEW p \in Procs, TransferFires(p)  PROVE Formed'
  <2>1. op' = [op EXCEPT ![p] = Begin("transfer", "read", owner, NoUser)] /\ "transfer" \in Kinds
    BY <1>4 DEF TransferFires
  <2>2. "transfer" \in AllKinds /\ "read" \in Stages  BY DEF AllKinds, Stages
  <2>3. /\ op' \in [Procs -> Op] /\ Others(p) /\ op'[p].stage = "read" /\ op'[p].kind = "transfer"
        /\ op'[p].who = owner
    BY <1>0, <2>1, <2>2 DEF TypeOK, Op, Others, Begin, NoOp, Blank, Overwrite
  <2>4. Shape(p)'  BY <1>0, <2>1, <2>3 DEF Shape, StagesOf, TypeOK
  <2> QED  BY <1>0, <1>4, <2>3, <2>4, OneMoves DEF TransferFires, TypeOK
<1>5. ASSUME NEW p \in Procs, Step(p)  PROVE Formed'
  BY <1>5, StepFormed
<1>6. ASSUME NEW p \in Procs, Raises(p)  PROVE Formed'
  <2>1. CASE Done(p)  BY <1>0, <1>6, <2>1, DoneFormed DEF Raises, TypeOK
  <2>2. CASE op[p].kind = "claim" /\ Goto(p, "undo")
    <3>1. "undo" \in StagesOf(op[p].kind)  BY <2>2 DEF StagesOf
    <3> QED  BY <1>0, <1>6, <2>2, <3>1, GotoFormed DEF Raises, TypeOK, Idle
  <2> QED  BY <1>6, <2>1, <2>2 DEF Raises, Is
<1>7. CASE UNCHANGED vars
  BY <1>7 DEF vars, Formed, TypeOK, Shape
<1> QED  BY <1>1, <1>2, <1>3, <1>4, <1>5, <1>6, <1>7 DEF Next

\* The variables keep their types, and every operation is at a stage of its kind with what that
\* stage needs, whatever operations overlap and whatever call to Discord fails.
THEOREM TypeCorrect == Spec => []TypeOK
<1>1. Formed /\ [Next]_vars => Formed'  BY NextFormed
<1>2. Formed => TypeOK  BY DEF Formed
<1> QED  BY InitFormed, <1>1, <1>2, PTL DEF Spec

-----------------------------------------------------------------------------
(* Claims, releases and leaves in any order.                               *)

LEMMA NoUserIsNone == NoUser \notin Users  BY VoiceControlAssumption

Simple == Kinds \subseteq {"claim", "release", "leave"}

\* Of these kinds, what takes the power away is about to clear the seat.
LEMMA NextBacked ==
  ASSUME Simple, Formed, Formed', Backed, [Next]_vars
  PROVE  Backed'
<1> USE NoUserIsNone
<1> DEFINE Giver(p, a) == op[p].kind = "claim" /\ op[p].stage \in {"power", "undo"} /\ op[p].who = a
<1>0. /\ TypeOK /\ \A p \in Procs : Shape(p)  BY DEF Formed
<1>a. ASSUME NEW p \in Procs
      PROVE  /\ op[p].kind \in {"none", "claim", "release", "leave"}
             /\ op[p].kind = "none" => op[p].stage = "idle"
             /\ op[p].kind = "claim" => op[p].stage \in {"read", "cas", "power", "undo"}
             /\ op[p].kind \in {"release", "leave"} => op[p].stage \in Giving \cup {"look"}
             /\ op[p].kind # "none" => op[p].who \in Users
             /\ op[p].stage = "unpower" => op[p].seen \in Users
  BY <1>0 DEF Simple, Shape, StagesOf
\* What holds the seat up stays, unless its operation moves.
<1>b. ASSUME NEW p \in Procs, Others(p), admin' = admin, UNCHANGED perm,
             op[p].stage \notin {"power", "undo", "vacate"}
      PROVE  Backed'
  BY <1>b DEF Backed, Others
<1>c. ASSUME NEW p \in Procs, Done(p)  PROVE Others(p)
  BY <1>0, <1>c, DoneOp
<1>d. ASSUME NEW p \in Procs, NEW s \in Stages, Goto(p, s)
      PROVE  Others(p) /\ op'[p].stage = s /\ op'[p].kind = op[p].kind /\ op'[p].who = op[p].who
  BY <1>0, <1>d, GotoOp

<1>1. ASSUME NEW p \in Procs, Idle(p), Others(p), UNCHANGED <<admin, perm>>  PROVE Backed'
  BY <1>1, <1>b DEF Idle
<1>2. ASSUME NEW p \in Procs, NEW kind \in Kinds, NEW u \in Users, NEW v \in Users \cup {NoUser},
             Request(p, kind, u, v)
      PROVE  Backed'
  <2>1. Others(p)  BY <1>0, <1>2 DEF Request, TypeOK, Others
  <2> QED  BY <1>1, <1>2, <2>1 DEF Request
<1>3. ASSUME NEW p \in Procs, NEW u \in Users, Leave(p, u)  PROVE Backed'
  <2>1. Others(p)  BY <1>0, <1>3 DEF Leave, TypeOK, Others
  <2> QED  BY <1>1, <1>3, <2>1 DEF Leave
<1>4. ASSUME NEW u \in Users, Join(u)  PROVE Backed'
  BY <1>4 DEF Join, Backed
<1>5. ASSUME NEW p \in Procs, TransferFires(p)  PROVE Backed'
  BY <1>5 DEF TransferFires, Simple
<1>6. ASSUME NEW p \in Procs, Raises(p)  PROVE Backed'
  <2>1. CASE op[p].kind = "claim"
    <3>1. Goto(p, "undo") /\ UNCHANGED <<admin, perm>>  BY <1>6, <2>1 DEF Raises, Is
    <3>2. "undo" \in Stages  BY DEF Stages
    <3> QED  BY <1>a, <1>d, <2>1, <3>1, <3>2, <1>6 DEF Backed, Raises, Others
  <2>2. CASE op[p].kind # "claim"
    <3>1. Done(p) /\ UNCHANGED <<admin, perm>>  BY <1>6, <2>2 DEF Raises, Is
    <3>2. op[p].stage \notin {"power", "undo", "vacate"}  BY <1>6, <1>a, <2>2 DEF Raises, Giving
    <3> QED  BY <1>b, <1>c, <3>1, <3>2
  <2> QED  BY <2>1, <2>2
<1>7. ASSUME NEW p \in Procs, Step(p)  PROVE Backed'
  <2>1. CASE ClaimReads(p) \/ ReleaseReads(p) \/ LeaveLooks(p) \/ ClearReads(p)
    <3>1. op[p].stage \notin {"power", "undo", "vacate"} /\ UNCHANGED <<admin, perm>>
      BY <2>1 DEF ClaimReads, ReleaseReads, LeaveLooks, ClearReads, At
    <3>2. Others(p)  BY <1>0, <2>1 DEF ClaimReads, ReleaseReads, LeaveLooks, ClearReads, Goto, Done, Others, TypeOK
    <3> QED  BY <1>b, <3>1, <3>2
  <2>2. CASE ClaimWrites(p)
    <3>1. op[p].kind = "claim" /\ op[p].stage = "cas"  BY <2>2, <1>a DEF ClaimWrites, At, Giving
    <3>2. CASE Done(p) /\ UNCHANGED admin
      BY <1>b, <1>c, <2>2, <3>1, <3>2 DEF ClaimWrites
    <3>3. CASE Goto(p, "power") /\ admin' = op[p].who
      <4>1. "power" \in Stages  BY DEF Stages
      <4> QED  BY <1>d, <3>1, <3>3, <4>1 DEF Backed
    <3> QED  BY <2>2, <3>2, <3>3 DEF ClaimWrites
  <2>3. CASE ClaimUndone(p)
    <3>1. op[p].kind = "claim" /\ Others(p) /\ op[p].stage = "undo" /\ UNCHANGED perm
      BY <2>3, <1>a, <1>c DEF ClaimUndone, At, Giving
    <3>2. CASE admin = op[p].who  BY <2>3, <3>2 DEF ClaimUndone, Backed
    <3>3. CASE admin # op[p].who  BY <2>3, <3>1, <3>3 DEF ClaimUndone, Backed, Others
    <3> QED  BY <3>2, <3>3
  <2>4. CASE Empower(p)
    <3>1. op[p].kind = "claim" /\ op[p].who \in Users  BY <2>4, <1>a DEF Empower, At, Giving
    <3>2. Done(p) /\ perm' = [perm EXCEPT ![op[p].who] = Power] /\ UNCHANGED admin
      BY <2>4, <3>1 DEF Empower, Is
    <3>3. Others(p)  BY <1>c, <3>2
    <3>4. CASE admin = op[p].who  BY <1>0, <3>1, <3>2, <3>4 DEF Backed, TypeOK, Power
    <3>5. CASE admin # op[p].who
      <4>1. perm'[admin] = perm[admin]  BY <1>0, <3>1, <3>2, <3>5 DEF TypeOK
      <4> QED  BY <2>4, <3>2, <3>3, <3>5, <4>1 DEF Backed, Others, Empower, At
    <3> QED  BY <3>4, <3>5
  <2>5. CASE Unpower(p)
    <3>1. op[p].kind \in {"release", "leave"}  BY <2>5, <1>a DEF Unpower, At
    <3>2. Goto(p, "vacate")  BY <2>5, <3>1 DEF Unpower, Is
    <3>3. "vacate" \in Stages  BY DEF Stages
    <3> QED  BY <1>d, <3>2, <3>3 DEF Backed
  <2>6. CASE Vacate(p)
    BY <2>6 DEF Vacate, Backed
  <2>7. CASE AssignReads(p) \/ Seat(p) \/ TransferReads(p) \/ Crown(p) \/ Controls(p) \/ Allow(p)
             \/ RemovalReads(p) \/ Deny(p) \/ MoveOut(p) \/ ActivityReads(p) \/ ActivityFetches(p)
             \/ ActivityPatches(p) \/ ActivityUpdates(p)
    <3>1. op[p].kind \notin ActivityRequests  BY <1>a DEF ActivityRequests
    <3> QED  BY <1>a, <2>7, <3>1 DEF AssignReads, Seat, TransferReads, Crown, Controls, Allow, RemovalReads, Deny,
               MoveOut, ActivityReads, ActivityFetches, ActivityPatches, ActivityUpdates, At, Is, Giving
  <2> QED  BY <1>7, <2>1, <2>2, <2>3, <2>4, <2>5, <2>6, <2>7 DEF Step
<1>8. CASE UNCHANGED vars
  BY <1>8 DEF vars, Backed
<1> QED  BY <1>2, <1>3, <1>4, <1>5, <1>6, <1>7, <1>8 DEF Next

\* Whatever claims, releases and leaves overlap, and whatever call of theirs fails, an admin has
\* the power on the channel when nothing is under way.
THEOREM AdminEmpowered ==
  ASSUME Kinds \subseteq {"claim", "release", "leave"}
  PROVE  Spec => []AdminHasPower
<1>0. Simple  BY DEF Simple
<1>1. Init => Formed /\ Backed
  BY InitFormed DEF Init, Backed
<1>2. Formed /\ Backed /\ [Next]_vars => (Formed /\ Backed)'
  BY <1>0, NextFormed, NextBacked
<1>3. Formed /\ Backed => AdminHasPower
  <2> SUFFICES ASSUME Formed, Backed, AllIdle, admin # NoUser  PROVE perm[admin].power
    BY DEF AdminHasPower
  <2> QED  BY DEF Backed, AllIdle, Idle
<1> QED  BY <1>1, <1>2, <1>3, PTL DEF Spec

-----------------------------------------------------------------------------
(* The seat, whatever runs except claims of the Activity.                  *)

\* A step that makes an admin of someone while another is, is not one of a claim.
THEOREM SeatKept ==
  ASSUME "aclaim" \notin Kinds
  PROVE  Spec => SeatNotStolen
<1>1. ASSUME Formed, [Next]_vars, NEW u \in Users, admin \notin {NoUser, u}, admin' = u
      PROVE  ~ClaimWins(u)
  <2> SUFFICES ASSUME NEW q \in Procs, op[q].kind \in {"claim", "aclaim"}, op'[q] # op[q]  PROVE FALSE
    BY DEF ClaimWins
  <2> USE NoUserIsNone
  <2>a. TypeOK /\ Shape(q)  BY <1>1 DEF Formed
  <2>b. op[q].kind = "claim"  BY <2>a DEF Shape
  <2>0. TypeOK /\ Shape(q) /\ op[q].kind = "claim"  BY <2>a, <2>b
  <2>1. op[q].stage \in {"read", "cas", "power", "undo"}  BY <2>0 DEF Shape, StagesOf
  <2>2. admin' # admin /\ admin' # NoUser /\ admin # NoUser  BY <1>1
  <2>3. ASSUME NEW p \in Procs, Step(p)  PROVE FALSE
    <3>1. Seat(p) \/ ActivityUpdates(p)
      BY <2>2, <2>3 DEF Step, ClaimReads, ClaimWrites, ClaimUndone, Empower, ReleaseReads, LeaveLooks, AssignReads,
         ClearReads, Unpower, Vacate, TransferReads, Crown, Controls, Allow, RemovalReads, Deny, MoveOut,
         ActivityReads, ActivityFetches, ActivityPatches, SeatTaken
    <3>2. Done(p) /\ op[p].stage \in {"seat", "update"}  BY <3>1 DEF Seat, ActivityUpdates, At
    <3>3. p # q  BY <2>1, <3>2
    <3> QED  BY <2>0, <3>2, <3>3, DoneOp DEF Others
  <2> QED  BY <1>1, <2>2, <2>3 DEF Next, Request, Leave, Join, TransferFires, Raises, vars
<1>2. Formed /\ [Next]_vars =>
          [\A u \in Users : admin \notin {NoUser, u} /\ admin' = u => ~ClaimWins(u)]_vars
  BY <1>1
<1>3. Formed /\ [Next]_vars => Formed'  BY NextFormed
<1> QED  BY InitFormed, <1>2, <1>3, PTL DEF Spec, SeatNotStolen

-----------------------------------------------------------------------------
(* One operation at a time: the seat and the room have different holders.  *)

\* What a stage says of the kind of its operation.
LEMMA KindsAt ==
  ASSUME Formed, NEW p \in Procs
  PROVE  /\ op[p].kind \in AllKinds \cup {"none"}
         /\ op[p].kind = "none" <=> Idle(p)
         /\ op[p].stage \in {"cas", "undo"} => op[p].kind = "claim"
         /\ op[p].stage = "power" => op[p].kind \in {"claim", "assign", "transfer"}
         /\ op[p].stage \in {"clear", "unpower", "vacate"} =>
                op[p].kind \in {"release", "leave", "assign", "ban", "transfer"}
         /\ op[p].stage = "clear" => op[p].kind # "transfer"
         /\ op[p].stage = "seat" => op[p].kind = "assign"
         /\ op[p].stage = "crown" => op[p].kind = "transfer"
         /\ op[p].stage = "control" => op[p].kind \in {"kick", "ban", "invite"}
         /\ op[p].stage = "allow" => op[p].kind = "invite"
         /\ op[p].stage = "deny" => op[p].kind \in {"kick", "ban"}
         /\ op[p].stage = "moveOut" => op[p].kind \in {"kick", "ban", "aban"}
         /\ op[p].stage \in {"get", "patch", "update"} => op[p].kind \in ActivityRequests
         /\ op[p].stage = "look" => op[p].kind = "leave"
<1>1. op[p].kind \in AllKinds \cup {"none"}  BY DEF Formed, TypeOK, Op
<1>2. op[p].stage \in StagesOf(op[p].kind)  BY DEF Formed, Shape
<1>3. op[p].kind = "none" <=> op[p].stage = "idle"
  BY <1>1, <1>2 DEF AllKinds, Requests, ActivityRequests, StagesOf, Giving, Assigning
<1>4. CASE op[p].kind \in {"none", "claim", "release", "leave", "assign", "transfer"}
  BY <1>1, <1>2, <1>3, <1>4 DEF StagesOf, Giving, Assigning, Idle
<1>5. CASE op[p].kind \in {"kick", "ban", "invite"}
  BY <1>1, <1>2, <1>3, <1>5 DEF StagesOf, Idle
<1>6. CASE op[p].kind \in ActivityRequests
  BY <1>1, <1>2, <1>3, <1>6 DEF StagesOf, ActivityRequests, Idle
<1> QED  BY <1>1, <1>4, <1>5, <1>6 DEF AllKinds, Requests

\* What the steps of an operation do to it: all but a disconnection leave the others alone.
Advances(p) ==
    /\ Others(p)
    /\ \/ op'[p] = NoOp
       \/ /\ op'[p].kind = op[p].kind /\ op'[p].who = op[p].who /\ op'[p].target = op[p].target
          /\ op[p].stage \notin {"update", "idle"}
       \/ /\ op'[p].kind = "transfer" /\ op[p].kind = "transfer"
LEMMA StepAdvances ==
  ASSUME Formed, NEW p \in Procs, Step(p)
  PROVE  Advances(p) \/ MoveOut(p)
<1> USE DEF At, Is
<1>0. TypeOK  BY DEF Formed
<1>d. ASSUME Done(p)  PROVE Advances(p)
  BY <1>0, <1>d, DoneOp DEF Advances
<1>g. ASSUME NEW s, Goto(p, s), op[p].stage \notin {"update", "idle"}  PROVE Advances(p)
  BY <1>0, <1>g DEF Advances, Goto, Others, TypeOK, Op
<1>s. ASSUME NEW s, NEW u, op' = [op EXCEPT ![p].stage = s, ![p].seen = u],
             op[p].stage \notin {"update", "idle"}
      PROVE  Advances(p)
  BY <1>0, <1>s DEF Advances, Others, TypeOK, Op
<1>1. CASE ClaimReads(p)  BY <1>1, <1>d, <1>g DEF ClaimReads
<1>2. CASE ClaimWrites(p)  BY <1>2, <1>d, <1>g DEF ClaimWrites
<1>3. CASE ClaimUndone(p)  BY <1>3, <1>d DEF ClaimUndone
<1>4. CASE Empower(p)
  <2>1. Done(p) \/ Goto(p, "seat") \/ Goto(p, "crown")  BY <1>4, KindsAt DEF Empower
  <2> QED  BY <1>4, <2>1, <1>d, <1>g DEF Empower
<1>5. CASE ReleaseReads(p)  BY <1>5, <1>d, <1>s DEF ReleaseReads
<1>6. CASE LeaveLooks(p)
  BY <1>6, <1>d, <1>g, <1>s DEF LeaveLooks
<1>7. CASE AssignReads(p)  BY <1>7, <1>d, <1>g, <1>s DEF AssignReads
<1>8. CASE ClearReads(p)  BY <1>8, <1>g DEF ClearReads
<1>9. CASE Unpower(p)  BY <1>9, <1>g DEF Unpower
<1>10. CASE Vacate(p)
  <2>1. Done(p) \/ Goto(p, "power") \/ Goto(p, "deny") \/ Goto(p, "unpower")
    BY <1>10, KindsAt DEF Vacate
  <2> QED  BY <1>10, <2>1, <1>d, <1>g DEF Vacate
<1>11. CASE Seat(p)  BY <1>11, <1>d DEF Seat
<1>12. CASE TransferReads(p)
  <2>1. ASSUME NEW s, NEW h, op' = [op EXCEPT ![p].stage = s, ![p].target = h]  PROVE Advances(p)
    BY <1>0, <1>12, <2>1 DEF Advances, Others, TypeOK, Op, TransferReads
  <2> QED  BY <1>12, <2>1, <1>d DEF TransferReads
<1>13. CASE Crown(p)  BY <1>13, <1>d DEF Crown
<1>14. CASE Controls(p)  BY <1>14, <1>d, <1>g DEF Controls
<1>15. CASE Allow(p)  BY <1>15, <1>d DEF Allow
<1>16. CASE RemovalReads(p)
  BY <1>16, <1>d, <1>s DEF RemovalReads
<1>17. CASE Deny(p)  BY <1>17, <1>g DEF Deny
<1>19. CASE ActivityReads(p)  BY <1>19, <1>d, <1>s DEF ActivityReads
<1>20. CASE ActivityFetches(p)
  <2>1. ASSUME NEW l, op' = [op EXCEPT ![p].stage = "patch", ![p].list = l]  PROVE Advances(p)
    BY <1>0, <1>20, <2>1 DEF Advances, Others, TypeOK, Op, ActivityFetches
  <2> QED  BY <1>20, <2>1, <1>d DEF ActivityFetches
<1>21. CASE ActivityPatches(p)  BY <1>21, <1>g DEF ActivityPatches
<1>22. CASE ActivityUpdates(p)  BY <1>22, <1>d DEF ActivityUpdates
<1> QED
  BY <1>1, <1>2, <1>3, <1>4, <1>5, <1>6, <1>7, <1>8, <1>9, <1>10, <1>11, <1>12, <1>13, <1>14, <1>15,
     <1>16, <1>17, <1>19, <1>20, <1>21, <1>22 DEF Step

\* A disconnection ends, or goes on to write the row, and may begin a leave.
Follow(p, q) ==
    /\ q # p => Idle(q)
    /\ \A r \in Procs \ {p, q} : op'[r] = op[r]
    /\ \A r \in {p, q} :
           \/ op'[r] = NoOp
           \/ /\ r = p /\ op[p].kind = "aban" /\ op[p].seen = op[p].target
              /\ op'[p].kind = "aban" /\ op'[p].stage = "update" /\ op'[p].who = op[p].who
              /\ op'[p].target = op[p].target /\ op'[p].seen = op[p].seen
           \/ /\ r = q /\ op'[q].kind = "leave" /\ op'[q].stage = "look"
              /\ op'[q].who = op[p].target
LEMMA MoveOutOp ==
  ASSUME Formed, NEW p \in Procs, MoveOut(p)
  PROVE  \E q \in Procs : Follow(p, q)
<1> DEFINE next == IF Is(p, {"aban"}) /\ op[p].seen = op[p].target
                   THEN [op EXCEPT ![p].stage = "update"] ELSE [op EXCEPT ![p] = NoOp]
<1>0. op \in [Procs -> Op]  BY DEF Formed, TypeOK
<1>1. /\ next \in [Procs -> [kind : AllKinds \cup {"none"}, stage : Stages, who : Users \cup {NoUser},
              target : Users \cup {NoUser}, seen : Users \cup {NoUser}, list : [Users -> Overwrite]]]
      /\ \A r \in Procs \ {p} : next[r] = op[r]
      /\ \/ next[p] = NoOp
         \/ /\ op[p].kind = "aban" /\ op[p].seen = op[p].target
            /\ next[p].kind = "aban" /\ next[p].stage = "update" /\ next[p].who = op[p].who
            /\ next[p].target = op[p].target /\ next[p].seen = op[p].seen
  <2>1. CASE Is(p, {"aban"}) /\ op[p].seen = op[p].target
    <3>1. "update" \in Stages  BY DEF Stages
    <3>2. next = [op EXCEPT ![p].stage = "update"]  BY <2>1
    <3> HIDE DEF next
    <3> QED  BY <1>0, <2>1, <3>1, <3>2 DEF Op, Is
  <2>2. CASE ~(Is(p, {"aban"}) /\ op[p].seen = op[p].target)
    <3>1. next = [op EXCEPT ![p] = NoOp]  BY <2>2
    <3> HIDE DEF next
    <3> QED  BY <1>0, <3>1, NoOpType DEF Op
  <2> QED  BY <2>1, <2>2
<1> HIDE DEF next
<1>2. CASE op' = next
  <2>1. Follow(p, p)  BY <1>1, <1>2 DEF Follow
  <2> QED  BY <2>1
<1>3. ASSUME NEW q \in Procs, next[q].stage = "idle",
             op' = [next EXCEPT ![q] = Begin("leave", "look", op[p].target, op[p].target)]
      PROVE  Follow(p, q)
  <2>1. q # p => Idle(q)  BY <1>1, <1>3 DEF Idle
  <2>2. op'[q] = Begin("leave", "look", op[p].target, op[p].target)  BY <1>1, <1>3
  <2>3. op'[q].kind = "leave" /\ op'[q].stage = "look" /\ op'[q].who = op[p].target
    BY <2>2 DEF Begin, NoOp
  <2>4. \A r \in Procs \ {q} : op'[r] = next[r]  BY <1>1, <1>3
  <2> QED  BY <1>1, <2>1, <2>3, <2>4 DEF Follow
<1> QED  BY <1>2, <1>3 DEF MoveOut, next

LEMMA NextAlone ==
  ASSUME Serial, Formed, Formed', Alone, [Next]_vars
  PROVE  Alone'
<1>0. op \in [Procs -> Op]  BY DEF Formed, TypeOK
<1>n. \A p \in Procs : op'[p] = NoOp => ~(~Idle(p))'  BY DEF NoOp, Idle
<1>1. ASSUME NEW p \in Procs, AllIdle, Others(p)  PROVE Alone'
  BY <1>1 DEF Alone, AllIdle, Others, Idle
<1>2. ASSUME NEW p \in Procs, NEW kind \in Kinds, NEW u \in Users, NEW v \in Users \cup {NoUser},
             Request(p, kind, u, v)
      PROVE  Alone'
  <2>1. Others(p) /\ AllIdle  BY <1>0, <1>2 DEF Request, Others, MayStart
  <2> QED  BY <1>1, <2>1
<1>3. ASSUME NEW p \in Procs, NEW u \in Users, Leave(p, u)  PROVE Alone'
  <2>1. Others(p) /\ AllIdle  BY <1>0, <1>3 DEF Leave, Others, MayStart
  <2> QED  BY <1>1, <2>1
<1>4. ASSUME NEW p \in Procs, TransferFires(p)  PROVE Alone'
  <2>1. Others(p) /\ AllIdle  BY <1>0, <1>4 DEF TransferFires, Others
  <2> QED  BY <1>1, <2>1
<1>5. ASSUME NEW p \in Procs, Advances(p)  PROVE Alone'
  <2> SUFFICES ASSUME NEW q \in Procs, NEW r \in Procs, q # r, ~Idle(q)', ~Idle(r)'
               PROVE  Follows(q, r)' \/ Follows(r, q)'
    BY DEF Alone
  <2>1. CASE q # p /\ r # p
    BY <1>5, <2>1 DEF Alone, Advances, Others, Idle, Follows
  <2>2. ASSUME NEW s \in Procs \ {p}, ~Idle(s)', ~Idle(p)'  PROVE Follows(s, p)'
    <3>1. ~Idle(s) /\ op'[s] = op[s]  BY <1>5, <2>2 DEF Advances, Others, Idle
    <3>2. op'[p] # NoOp  BY <1>n, <2>2
    <3>3. ~Idle(p)  BY <1>5, <3>2, KindsAt DEF Advances, Idle
    <3>4. Follows(s, p) \/ Follows(p, s)  BY <3>1, <3>3 DEF Alone
    <3> QED  BY <1>5, <3>1, <3>2, <3>4 DEF Advances, Follows
  <2> QED  BY <2>1, <2>2
<1>6. ASSUME NEW p \in Procs, MoveOut(p)  PROVE Alone'
  <2>1. PICK q \in Procs : Follow(p, q)  BY <1>6, MoveOutOp
  <2>2. op[p].stage = "moveOut"  BY <1>6 DEF MoveOut, At
  <2>3. ~Idle(p) /\ op[p].kind \notin {"leave"}  BY <2>2, KindsAt DEF Idle
  <2>4. \A r \in Procs \ {p} : Idle(r)  BY <2>2, <2>3 DEF Alone, Follows
  <2>5. \A r \in Procs \ {p, q} : Idle(r)'  BY <2>1, <2>4 DEF Follow, Idle
  <2> QED  BY <1>n, <2>1, <2>5 DEF Alone, Follow, Follows, Idle
<1>7. ASSUME NEW p \in Procs, Step(p)  PROVE Alone'
  BY <1>5, <1>6, <1>7, StepAdvances
<1>8. ASSUME NEW p \in Procs, Raises(p)  PROVE Alone'
  <2>1. CASE Done(p)
    <3>1. Advances(p)  BY <2>1, DoneOp DEF Advances, Formed
    <3> QED  BY <1>5, <3>1
  <2>2. CASE Goto(p, "undo")
    <3>1. Advances(p)  BY <1>0, <1>8, <2>2 DEF Advances, Goto, Others, Op, Raises
    <3> QED  BY <1>5, <3>1
  <2> QED  BY <1>8, <2>1, <2>2 DEF Raises
<1>9. CASE op' = op
  BY <1>9 DEF Alone, Idle, Follows
<1> QED  BY <1>2, <1>3, <1>4, <1>7, <1>8, <1>9 DEF Next, Join, vars

\* Who is not in the way of an operation: idle, or one of the pair of Follows.
Bystander(q) == op[q].kind \in {"none", "leave"} \/ (op[q].kind = "aban" /\ op[q].stage = "update")
LEMMA Bystanders ==
  ASSUME Formed, Alone, NEW p \in Procs, ~Idle(p), NEW q \in Procs \ {p}
  PROVE  Bystander(q)
BY KindsAt DEF Alone, Bystander, Follows

LEMMA BystanderApart ==
  ASSUME Formed', NEW q \in Procs, Bystander(q)'
  PROVE  Apart(q)'
BY NoUserIsNone DEF Formed, TypeOK, Bystander, Apart, NewAdmin, Is, ActivityRequests

LEMMA OneKeepsApart ==
  ASSUME Formed, Formed', Alone, NEW p \in Procs, ~Idle(p), Others(p), Apart(p)'
  PROVE  \A q \in Procs : Apart(q)'
<1>1. ASSUME NEW q \in Procs \ {p}  PROVE Apart(q)'
  <2>1. Bystander(q)'  BY Bystanders DEF Others, Bystander
  <2> QED  BY <2>1, BystanderApart
<1> QED  BY <1>1

LEMMA DoneApart ==
  ASSUME NEW p \in Procs, op'[p] = NoOp
  PROVE  Apart(p)'
BY DEF NoOp, Apart, ActivityRequests

LEMMA NextSeat ==
  ASSUME Serial, SeatInv, Formed', Alone', [Next]_vars
  PROVE  SeatInv'
<1> USE NoUserIsNone
<1>0. /\ Formed /\ Alone /\ AdminNeverOwner /\ TypeOK /\ op \in [Procs -> Op] /\ owner \in Users
      /\ \A p \in Procs : Apart(p) /\ Shape(p)
  BY DEF SeatInv, Formed, TypeOK
<1>1. ASSUME NEW p \in Procs, AllIdle, Others(p), UNCHANGED <<owner, admin>>, Apart(p)'
      PROVE  SeatInv'
  <2>1. ASSUME NEW q \in Procs \ {p}  PROVE Apart(q)'
    <3>1. Bystander(q)'  BY <1>0, <1>1, KindsAt DEF Others, Bystander, AllIdle
    <3> QED  BY <3>1, BystanderApart
  <2> QED  BY <1>0, <1>1, <2>1 DEF SeatInv, AdminNeverOwner
<1>2. ASSUME NEW p \in Procs, NEW kind \in Kinds, NEW u \in Users, NEW v \in Users \cup {NoUser},
             Request(p, kind, u, v)
      PROVE  SeatInv'
  <2>1. Others(p) /\ AllIdle  BY <1>0, <1>2 DEF Request, Others, MayStart
  <2>2. op'[p].stage \in {"read", "control"} /\ op'[p].kind = kind
    BY <1>0, <1>2 DEF Request, Begin, NoOp
  <2>3. op'[p].stage = "control" => kind \in {"kick", "ban", "invite"}
    BY <1>0, <1>2 DEF Request, Begin, NoOp
  <2>4. kind # "transfer"  BY <1>2 DEF Request, ActivityRequests
  <2>5. Apart(p)'  BY <2>2, <2>3, <2>4 DEF Apart, ActivityRequests
  <2> QED  BY <1>1, <1>2, <2>1, <2>5 DEF Request
<1>3. ASSUME NEW p \in Procs, NEW u \in Users, Leave(p, u)  PROVE SeatInv'
  <2>1. Others(p) /\ AllIdle  BY <1>0, <1>3 DEF Leave, Others, MayStart
  <2>2. op'[p].kind \in {"leave", "none"}
    <3>1. op[p].kind = "none"  BY <1>0, <2>1, KindsAt DEF AllIdle
    <3> QED  BY <1>0, <1>3, <3>1 DEF Leave, Begin, NoOp
  <2>3. Apart(p)'  BY <2>2 DEF Apart, ActivityRequests
  <2> QED  BY <1>1, <1>3, <2>1, <2>3 DEF Leave
<1>4. ASSUME NEW p \in Procs, TransferFires(p)  PROVE SeatInv'
  <2>1. Others(p) /\ AllIdle  BY <1>0, <1>4 DEF TransferFires, Others
  <2>2. op'[p].kind = "transfer" /\ op'[p].stage = "read"
    BY <1>0, <1>4 DEF TransferFires, Begin, NoOp
  <2>3. Apart(p)'  BY <2>2 DEF Apart, ActivityRequests
  <2> QED  BY <1>1, <1>4, <2>1, <2>3 DEF TransferFires
<1>5. ASSUME NEW p \in Procs, MoveOut(p)  PROVE SeatInv'
  <2>1. PICK q \in Procs : Follow(p, q)  BY <1>0, <1>5, MoveOutOp
  <2>2. op[p].stage = "moveOut" /\ UNCHANGED <<owner, admin>>  BY <1>5 DEF MoveOut, At
  <2>3. ~Idle(p)  BY <2>2 DEF Idle
  <2>4. ASSUME NEW r \in Procs  PROVE Bystander(r)'
    <3>1. CASE r \notin {p, q}  BY <1>0, <2>1, <2>3, <3>1, Bystanders DEF Follow, Bystander
    <3>2. CASE r \in {p, q}  BY <2>1, <3>2 DEF Follow, Bystander, NoOp
    <3> QED  BY <3>1, <3>2
  <2> QED  BY <1>0, <2>2, <2>4, BystanderApart DEF SeatInv, AdminNeverOwner
<1>6. ASSUME NEW p \in Procs, ~Idle(p), Others(p), Apart(p)', AdminNeverOwner'  PROVE SeatInv'
  BY <1>0, <1>6, OneKeepsApart DEF SeatInv
<1>7. ASSUME NEW p \in Procs, ~Idle(p), Done(p), AdminNeverOwner'  PROVE SeatInv'
  BY <1>0, <1>6, <1>7, DoneOp, DoneApart
<1>8. ASSUME NEW p \in Procs, ~Idle(p), NEW s, Goto(p, s), UNCHANGED owner, AdminNeverOwner',
             op[p].kind = "claim" /\ s = "cas" => op[p].who # owner,
             op[p].kind = "assign" => op[p].target # owner,
             op[p].kind = "transfer" => s = "vacate" \/ op[p].target # admin',
             op[p].kind \in ActivityRequests => NewAdmin(p) # owner
      PROVE  SeatInv'
  <2>1. /\ Others(p) /\ op'[p].stage = s /\ op'[p].kind = op[p].kind /\ op'[p].who = op[p].who
        /\ op'[p].target = op[p].target
    BY <1>0, <1>8 DEF Goto, Others, Op
  <2>2. Apart(p)'  BY <1>8, <2>1 DEF Apart, NewAdmin, Is
  <2> QED  BY <1>6, <1>8, <2>1, <2>2
<1>9. ASSUME NEW p \in Procs, Raises(p)  PROVE SeatInv'
  <2>1. ~Idle(p) /\ AdminNeverOwner'  BY <1>0, <1>9 DEF Raises, Idle, AdminNeverOwner
  <2>2. CASE op[p].kind = "claim" /\ Goto(p, "undo")
    BY <1>8, <1>9, <2>1, <2>2 DEF Raises, ActivityRequests
  <2>3. CASE Done(p)  BY <1>7, <2>1, <2>3
  <2> QED  BY <1>9, <2>2, <2>3 DEF Raises, Is
<1>10. ASSUME NEW p \in Procs, Step(p), ~MoveOut(p)  PROVE SeatInv'
  <2> USE DEF At, Is
  <2>0. /\ Apart(p) /\ Shape(p) /\ admin # owner
        /\ op[p].target \in Users \cup {NoUser}
        /\ op[p].kind # "none" => op[p].who \in Users
    BY <1>0 DEF AdminNeverOwner, Op, Shape
  <2>i. \A s : op[p].stage = s /\ s # "idle" => ~Idle(p)  BY DEF Idle
  <2>g. ASSUME NEW s, Goto(p, s), op[p].stage # "idle", UNCHANGED <<owner, admin>>,
               op[p].kind \notin {"claim", "transfer"} \cup ActivityRequests,
               op[p].kind = "assign" => op[p].target # owner
        PROVE  SeatInv'
    BY <1>0, <1>8, <2>i, <2>g DEF ActivityRequests, AdminNeverOwner
  <2>s. ASSUME NEW s, NEW u, op' = [op EXCEPT ![p].stage = s, ![p].seen = u], op[p].stage # "idle",
               UNCHANGED <<owner, admin>>, op[p].kind \notin {"claim", "transfer"},
               op[p].kind = "assign" => op[p].target # owner,
               op[p].kind \in ActivityRequests => NewAdmin(p) # owner
        PROVE  SeatInv'
    <3>1. /\ Others(p) /\ op'[p].stage = s /\ op'[p].kind = op[p].kind /\ op'[p].who = op[p].who
          /\ op'[p].target = op[p].target
      BY <1>0, <2>s DEF Others, Op
    <3>2. Apart(p)'  BY <2>s, <3>1 DEF Apart, NewAdmin
    <3> QED  BY <1>0, <1>6, <2>i, <2>s, <3>1, <3>2 DEF AdminNeverOwner
  <2>d. ASSUME Done(p), op[p].stage # "idle", UNCHANGED <<owner, admin>>  PROVE SeatInv'
    BY <1>0, <1>7, <2>i, <2>d DEF AdminNeverOwner
  <2>1. CASE ClaimReads(p)
    BY <1>0, <1>8, <2>1, <2>d, <2>i DEF ClaimReads, AdminNeverOwner, ActivityRequests
  <2>2. CASE ClaimWrites(p)
    <3>1. op[p].kind = "claim" /\ op[p].stage = "cas"  BY <1>0, <2>2, KindsAt DEF ClaimWrites
    <3>2. CASE Goto(p, "power") /\ admin' = op[p].who
      <4>1. AdminNeverOwner'  BY <2>0, <2>2, <3>1, <3>2 DEF ClaimWrites, AdminNeverOwner, Apart
      <4> QED  BY <1>8, <2>2, <2>i, <3>1, <3>2, <4>1 DEF ClaimWrites, ActivityRequests
    <3> QED  BY <2>2, <2>d, <3>1, <3>2 DEF ClaimWrites
  <2>3. CASE ClaimUndone(p)
    <3>1. AdminNeverOwner'  BY <1>0, <2>3 DEF ClaimUndone, AdminNeverOwner
    <3> QED  BY <1>7, <2>3, <2>i, <3>1 DEF ClaimUndone
  <2>4. CASE Empower(p)
    <3>1. op[p].kind \in {"claim", "assign", "transfer"}  BY <1>0, <2>4, KindsAt DEF Empower
    <3>2. CASE op[p].kind = "claim"  BY <2>4, <2>d, <3>2 DEF Empower
    <3>3. CASE op[p].kind = "assign"
      BY <2>0, <2>4, <2>g, <3>3 DEF Empower, Apart, ActivityRequests
    <3>4. CASE op[p].kind = "transfer"
      <4>1. Goto(p, "crown") /\ op[p].target # admin /\ UNCHANGED <<owner, admin>>
        BY <2>0, <2>4, <3>4 DEF Empower, Apart
      <4> QED  BY <1>0, <1>8, <2>4, <2>i, <3>4, <4>1 DEF Empower, ActivityRequests, AdminNeverOwner
    <3> QED  BY <3>1, <3>2, <3>3, <3>4
  <2>5. CASE ReleaseReads(p)  BY <2>5, <2>d, <2>s DEF ReleaseReads, ActivityRequests
  <2>6. CASE LeaveLooks(p)
    BY <2>6, <2>d, <2>g, <2>s DEF LeaveLooks, ActivityRequests
  <2>7. CASE AssignReads(p)
    BY <2>7, <2>d, <2>g, <2>s DEF AssignReads, ActivityRequests
  <2>8. CASE ClearReads(p)
    BY <1>0, <2>0, <2>8, <2>g, KindsAt DEF ClearReads, Apart, ActivityRequests
  <2>9. CASE Unpower(p)
    <3>1. op[p].kind \in {"release", "leave", "assign", "ban", "transfer"}  BY <1>0, <2>9, KindsAt DEF Unpower
    <3>2. CASE op[p].kind = "transfer"
      <4>1. Goto(p, "power") /\ op[p].target # admin /\ UNCHANGED <<owner, admin>>
        BY <2>0, <2>9, <3>2 DEF Unpower, Apart
      <4> QED  BY <1>0, <1>8, <2>9, <2>i, <3>2, <4>1 DEF Unpower, ActivityRequests, AdminNeverOwner
    <3>3. CASE op[p].kind # "transfer"
      BY <2>0, <2>9, <2>g, <3>1, <3>3 DEF Unpower, Apart, ActivityRequests
    <3> QED  BY <3>2, <3>3
  <2>10. CASE Vacate(p)
    <3>1. op[p].kind \in {"release", "leave", "assign", "ban", "transfer"}  BY <1>0, <2>10, KindsAt DEF Vacate
    <3>2. AdminNeverOwner' /\ ~Idle(p) /\ admin' = NoUser /\ owner' = owner
      BY <1>0, <2>10 DEF Vacate, AdminNeverOwner, Idle
    <3>3. CASE Done(p)  BY <1>7, <3>2, <3>3
    <3>4. CASE op[p].kind = "transfer" /\ Goto(p, "unpower")
      <4>1. op[p].target \in Users  BY <2>0, <2>10, <3>4 DEF Shape, Vacate
      <4> QED  BY <1>8, <3>2, <3>4, <4>1 DEF ActivityRequests
    <3>5. CASE op[p].kind = "ban" /\ Goto(p, "deny")
      BY <1>8, <3>2, <3>5 DEF ActivityRequests
    <3>6. CASE op[p].kind = "assign" /\ Goto(p, "power")
      BY <1>8, <2>0, <2>10, <3>2, <3>6 DEF ActivityRequests, Apart, Vacate
    <3> QED  BY <2>10, <3>1, <3>3, <3>4, <3>5, <3>6 DEF Vacate
  <2>11. CASE Seat(p)
    <3>1. op[p].kind = "assign"  BY <1>0, <2>11, KindsAt DEF Seat
    <3>2. AdminNeverOwner'  BY <2>0, <2>11, <3>1 DEF Seat, Apart, AdminNeverOwner
    <3> QED  BY <1>7, <2>11, <2>i, <3>2 DEF Seat
  <2>12. CASE TransferReads(p)
    <3>1. ASSUME NEW heir \in Heirs(op[p].who),
                 op' = [op EXCEPT ![p].stage = HeirsSeat(heir), ![p].target = heir]
          PROVE  SeatInv'
      <4>1. /\ Others(p) /\ op'[p].stage = HeirsSeat(heir) /\ op'[p].kind = op[p].kind
            /\ op'[p].target = heir
        BY <1>0, <3>1 DEF Others, Op
      <4>2. Apart(p)'  BY <2>12, <4>1 DEF Apart, TransferReads, HeirsSeat, ActivityRequests
      <4>3. AdminNeverOwner' /\ ~Idle(p)  BY <1>0, <2>12 DEF TransferReads, AdminNeverOwner, Idle
      <4> QED  BY <1>6, <4>1, <4>2, <4>3
    <3> QED  BY <2>12, <2>d, <3>1 DEF TransferReads
  <2>13. CASE Crown(p)
    <3>1. op[p].kind = "transfer"  BY <1>0, <2>13, KindsAt DEF Crown
    <3>2. AdminNeverOwner'  BY <2>0, <2>13, <3>1 DEF Crown, Apart, AdminNeverOwner
    <3> QED  BY <1>7, <2>13, <2>i, <3>2 DEF Crown
  <2>14. CASE Controls(p)
    <3>1. op[p].kind \in {"kick", "ban", "invite"}  BY <1>0, <2>14, KindsAt DEF Controls
    <3> QED  BY <2>14, <2>d, <2>g, <3>1 DEF Controls, ActivityRequests
  <2>15. CASE Allow(p)  BY <2>15, <2>d DEF Allow
  <2>16. CASE RemovalReads(p)
    <3>1. op[p].kind \notin {"claim", "transfer", "assign"} \cup ActivityRequests
      BY <2>16 DEF RemovalReads, ActivityRequests
    <3> QED  BY <2>16, <2>d, <2>s, <3>1 DEF RemovalReads
  <2>17. CASE Deny(p)
    <3>1. op[p].kind \in {"kick", "ban"}  BY <1>0, <2>17, KindsAt DEF Deny
    <3> QED  BY <2>17, <2>g, <3>1 DEF Deny, ActivityRequests
  <2>19. CASE ActivityReads(p)
    <3>1. CASE ~Refused(p) /\ op' = [op EXCEPT ![p].stage = "get", ![p].seen = admin]
      <4>1. NewAdmin(p) # owner  BY <1>0, <2>19, <3>1 DEF NewAdmin, Refused, ActivityReads
      <4> QED  BY <2>19, <2>s, <3>1, <4>1 DEF ActivityReads, ActivityRequests
    <3> QED  BY <2>19, <2>d, <3>1 DEF ActivityReads
  <2>20. CASE ActivityFetches(p)
    <3>1. op[p].kind \in ActivityRequests  BY <1>0, <2>20, KindsAt DEF ActivityFetches
    <3>2. ASSUME NEW l, op' = [op EXCEPT ![p].stage = "patch", ![p].list = l]  PROVE SeatInv'
      <4>1. /\ Others(p) /\ op'[p].stage = "patch" /\ op'[p].kind = op[p].kind /\ op'[p].who = op[p].who
            /\ op'[p].target = op[p].target
        BY <1>0, <3>2 DEF Others, Op
      <4>2. Apart(p)'  BY <2>0, <2>20, <3>1, <4>1 DEF Apart, NewAdmin, ActivityFetches, ActivityRequests
      <4> QED  BY <1>0, <1>6, <2>20, <2>i, <4>1, <4>2 DEF ActivityFetches, AdminNeverOwner
    <3> QED  BY <2>20, <2>d, <3>2 DEF ActivityFetches
  <2>21. CASE ActivityPatches(p)
    <3>1. op[p].kind \in ActivityRequests  BY <1>0, <2>21, KindsAt DEF ActivityPatches
    <3>2. NewAdmin(p) # owner /\ UNCHANGED <<owner, admin>>
      BY <2>0, <2>21, <3>1 DEF Apart, ActivityPatches
    <3>3. \E s : Goto(p, s)  BY <2>21 DEF ActivityPatches
    <3> QED  BY <1>0, <1>8, <2>21, <2>i, <3>1, <3>2, <3>3 DEF ActivityPatches, ActivityRequests, AdminNeverOwner
  <2>22. CASE ActivityUpdates(p)
    <3>1. op[p].kind \in ActivityRequests  BY <1>0, <2>22, KindsAt DEF ActivityUpdates
    <3>2. AdminNeverOwner'  BY <2>0, <2>22, <3>1 DEF Apart, ActivityUpdates, AdminNeverOwner
    <3> QED  BY <1>7, <2>22, <2>i, <3>2 DEF ActivityUpdates
  <2> QED
    BY <1>10, <2>1, <2>2, <2>3, <2>4, <2>5, <2>6, <2>7, <2>8, <2>9, <2>10, <2>11, <2>12, <2>13,
       <2>14, <2>15, <2>16, <2>17, <2>19, <2>20, <2>21, <2>22 DEF Step
<1>11. ASSUME UNCHANGED <<owner, admin, op>>  PROVE SeatInv'
  BY <1>0, <1>11 DEF SeatInv, Apart, AdminNeverOwner, NewAdmin, Is
<1> QED  BY <1>2, <1>3, <1>4, <1>5, <1>9, <1>10, <1>11 DEF Next, Join, vars

LEMMA InitSeat == Init => SeatInv
BY InitFormed, NoUserIsNone, VoiceControlAssumption
   DEF Init, SeatInv, Alone, Idle, NoOp, AdminNeverOwner, Apart, ActivityRequests

\* One operation at a time, the owner of a room is never its admin, whatever call to Discord fails.
THEOREM SeatsApart ==
  ASSUME Serial
  PROVE  Spec => []AdminNeverOwner
<1>1. SeatInv /\ [Next]_vars => SeatInv'
  BY NextSeat, NextAlone, NextFormed DEF SeatInv
<1>2. SeatInv => AdminNeverOwner  BY DEF SeatInv
<1> QED  BY InitSeat, <1>1, <1>2, PTL DEF Spec

-----------------------------------------------------------------------------
(* One operation at a time and no failing call: who has the power.         *)

CoveredBy(p) == \A u \in Users : perm[u].power => u \in {owner, admin} \cup Extra(p)

LEMMA BystanderExtra ==
  ASSUME NEW q \in Procs, Bystander(q)
  PROVE  Extra(q) = {}
BY DEF Bystander, Extra

LEMMA NoneKnows ==
  ASSUME Formed, NEW q \in Procs, op[q].kind = "none"
  PROVE  Knows(q) /\ Extra(q) = {}
BY DEF Formed, Shape, StagesOf, Knows, Extra, ActivityRequests

\* Of the two operations that may be under way together, neither gives the power or the seat.
LEMMA BystanderKnows ==
  ASSUME Formed, NEW q \in Procs, Bystander(q), Knows(q), op'[q] = op[q],
         owner' = owner, admin' \in {admin, NoUser}, \A u \in Users : perm'[u].power => perm[u].power
  PROVE  Knows(q)'
<1>1. CASE op[q].kind = "none"  BY <1>1 DEF Knows, ActivityRequests
<1>2. CASE op[q].kind = "leave"
  <2>1. op[q].stage = "vacate" => op[q].seen \in Users  BY <1>2 DEF Formed, Shape
  <2> QED  BY <1>2, <2>1 DEF Knows, ActivityRequests
<1>3. CASE op[q].kind = "aban" /\ op[q].stage = "update"
  <2>1. op[q].target \in Users  BY <1>3 DEF Formed, Shape
  <2> QED  BY <1>3, <2>1 DEF Knows, ActivityRequests
<1> QED  BY <1>1, <1>2, <1>3 DEF Bystander

LEMMA OneKnows ==
  ASSUME PowerInv, SeatInv', NEW p \in Procs, ~Idle(p), Others(p), Knows(p)', CoveredBy(p)',
         op[p].kind \in {"leave", "aban"} =>
             /\ owner' = owner /\ admin' \in {admin, NoUser}
             /\ \A u \in Users : perm'[u].power => perm[u].power
  PROVE  PowerInv'
<1>0. Formed /\ Alone  BY DEF PowerInv, SeatInv
<1>1. ASSUME NEW q \in Procs \ {p}  PROVE Knows(q)' 
  <2>1. Bystander(q) /\ op'[q] = op[q] /\ Knows(q)  BY <1>0, Bystanders DEF PowerInv, Others
  <2>2. CASE Idle(q)
    <3>1. op[q].kind = "none"  BY <1>0, <2>2, KindsAt
    <3> QED  BY <2>1, <3>1 DEF Knows, ActivityRequests
  <2>3. CASE ~Idle(q)
    <3>1. op[p].kind \in {"leave", "aban"}  BY <1>0, <2>3 DEF Alone, Follows
    <3> QED  BY <1>0, <2>1, <3>1, BystanderKnows
  <2> QED  BY <2>2, <2>3
<1>2. \A u \in Users : perm'[u].power => u \in {owner', admin'} \/ \E q \in Procs : u \in Extra(q)'
  BY DEF CoveredBy
<1> QED  BY <1>1, <1>2 DEF PowerInv

LEMMA NextPower ==
  ASSUME Serial, ~Fallible, PowerInv, SeatInv', [Next]_vars
  PROVE  PowerInv'
<1> USE NoUserIsNone
<1>0. /\ Formed /\ Alone /\ AdminNeverOwner /\ TypeOK /\ op \in [Procs -> Op] /\ owner \in Users
      /\ \A p \in Procs : Apart(p) /\ Shape(p) /\ Knows(p)
  BY DEF PowerInv, SeatInv, Formed, TypeOK
<1>c. ASSUME NEW p \in Procs, ~Idle(p)  PROVE CoveredBy(p)
  <2>1. \A q \in Procs \ {p} : Extra(q) = {}  BY <1>0, <1>c, Bystanders, BystanderExtra
  <2> QED  BY <2>1 DEF PowerInv, CoveredBy
<1>1. ASSUME NEW p \in Procs, AllIdle, Others(p), UNCHANGED <<owner, admin, perm>>, Knows(p)'
      PROVE  PowerInv'
  <2>1. ASSUME NEW q \in Procs \ {p}  PROVE Knows(q)'
    <3>1. op'[q].kind = "none" /\ op'[q].stage = "idle"
      BY <1>0, <1>1, KindsAt DEF Others, AllIdle, Idle
    <3> QED  BY <3>1 DEF Knows, ActivityRequests
  <2>2. \A q \in Procs : Extra(q) = {}  BY <1>0, <1>1, KindsAt, NoneKnows DEF AllIdle
  <2> QED  BY <1>1, <2>1, <2>2 DEF PowerInv
<1>2. ASSUME NEW p \in Procs, NEW kind \in Kinds, NEW u \in Users, NEW v \in Users \cup {NoUser},
             Request(p, kind, u, v)
      PROVE  PowerInv'
  <2>1. Others(p) /\ AllIdle  BY <1>0, <1>2 DEF Request, Others, MayStart
  <2>2. op'[p].stage \in {"read", "control"} /\ op'[p].kind = kind
    BY <1>0, <1>2 DEF Request, Begin, NoOp
  <2>3. kind \in ActivityRequests => op'[p].stage = "read"
    BY <1>0, <1>2 DEF Request, Begin, NoOp, ActivityRequests
  <2>4. kind # "transfer"  BY <1>2 DEF Request, ActivityRequests
  <2>5. Knows(p)'  BY <2>2, <2>3, <2>4 DEF Knows, ActivityRequests
  <2> QED  BY <1>1, <1>2, <2>1, <2>5 DEF Request
<1>3. ASSUME NEW p \in Procs, NEW u \in Users, Leave(p, u)  PROVE PowerInv'
  <2>1. Others(p) /\ AllIdle  BY <1>0, <1>3 DEF Leave, Others, MayStart
  <2>2. \/ op'[p].kind = "none" /\ op'[p].stage = "idle"
        \/ op'[p].kind = "leave" /\ op'[p].stage = "look"
    <3>1. op[p].kind = "none" /\ op[p].stage = "idle"  BY <1>0, <2>1, KindsAt DEF AllIdle, Idle
    <3> QED  BY <1>0, <1>3, <3>1 DEF Leave, Begin, NoOp
  <2>3. Knows(p)'  BY <2>2 DEF Knows, ActivityRequests
  <2> QED  BY <1>1, <1>3, <2>1, <2>3 DEF Leave
<1>4. ASSUME NEW p \in Procs, TransferFires(p)  PROVE PowerInv'
  <2>1. Others(p) /\ AllIdle  BY <1>0, <1>4 DEF TransferFires, Others
  <2>2. op'[p].kind = "transfer" /\ op'[p].stage = "read"
    BY <1>0, <1>4 DEF TransferFires, Begin, NoOp
  <2>3. Knows(p)'  BY <2>2 DEF Knows, ActivityRequests
  <2> QED  BY <1>1, <1>4, <2>1, <2>3 DEF TransferFires
<1>5. ASSUME NEW p \in Procs, MoveOut(p)  PROVE PowerInv'
  <2>1. PICK q \in Procs : Follow(p, q)  BY <1>0, <1>5, MoveOutOp
  <2>2. op[p].stage = "moveOut" /\ UNCHANGED <<owner, admin, perm>>  BY <1>5 DEF MoveOut, At
  <2>3. ~Idle(p) /\ op[p].kind \in {"kick", "ban", "aban"}  BY <1>0, <2>2, KindsAt DEF Idle
  <2>4. CoveredBy(p) /\ Extra(p) = {} /\ Knows(p)  BY <1>0, <1>c, <2>3 DEF Extra
  <2>5. ASSUME NEW r \in Procs  PROVE Knows(r)'
    <3>1. CASE r \notin {p, q}
      <4>1. op'[r] = op[r] /\ Knows(r) /\ Bystander(r)  BY <1>0, <2>1, <2>3, <3>1, Bystanders DEF Follow
      <4> QED  BY <1>0, <2>2, <4>1, BystanderKnows
    <3>2. CASE op'[r] = NoOp  BY <3>2 DEF Knows, NoOp, ActivityRequests
    <3>3. CASE op'[r].kind = "leave" /\ op'[r].stage = "look"  BY <3>3 DEF Knows, ActivityRequests
    <3>4. CASE /\ r = p /\ op[p].kind = "aban" /\ op[p].seen = op[p].target
               /\ op'[p].kind = "aban" /\ op'[p].stage = "update"
               /\ op'[p].target = op[p].target /\ op'[p].seen = op[p].seen
      BY <2>2, <2>4, <3>4 DEF Knows, ActivityRequests
    <3> QED  BY <2>1, <3>1, <3>2, <3>3, <3>4 DEF Follow
  <2> QED  BY <2>2, <2>4, <2>5 DEF PowerInv, CoveredBy
<1>6. ASSUME NEW p \in Procs, ~Idle(p), Done(p), UNCHANGED <<owner, admin, perm>>, Extra(p) = {}
      PROVE  PowerInv'
  <2>1. op'[p] = NoOp /\ Others(p)  BY <1>0, <1>6, DoneOp
  <2>2. Knows(p)' /\ CoveredBy(p)'
    BY <1>c, <1>6, <2>1 DEF Knows, NoOp, ActivityRequests, CoveredBy
  <2> QED  BY <1>6, <2>1, <2>2, OneKnows
<1>7. ASSUME NEW p \in Procs, Step(p), ~MoveOut(p)  PROVE PowerInv'
  <2> USE DEF At, Is
  <2>0. /\ Apart(p) /\ Shape(p) /\ Knows(p)
        /\ admin # owner /\ perm \in [Users -> Overwrite] /\ admin \in Users \cup {NoUser}
        /\ op[p].target \in Users \cup {NoUser}
        /\ op[p].kind # "none" => op[p].who \in Users
    BY <1>0 DEF AdminNeverOwner, Op, Shape, TypeOK
  <2>i. op[p].stage # "idle" => ~Idle(p) /\ CoveredBy(p)  BY <1>c DEF Idle
\* Only the operation moves.
  <2>q. ASSUME op[p].stage # "idle", Others(p), UNCHANGED <<owner, admin, perm>>, Knows(p)', Extra(p) = {}
        PROVE  PowerInv'
    <3>1. CoveredBy(p)'  BY <2>i, <2>q DEF CoveredBy
    <3> QED  BY <2>i, <2>q, <3>1, OneKnows
  <2>d. ASSUME op[p].stage # "idle", Done(p), UNCHANGED <<owner, admin, perm>>, Extra(p) = {}
        PROVE  PowerInv'
    BY <1>6, <2>i, <2>d
  <2>e. op[p].stage \notin {"seat", "update"} /\ op[p].kind # "transfer" => Extra(p) = {}  BY DEF Extra
  <2>g. ASSUME NEW s, Goto(p, s)
        PROVE  /\ Others(p) /\ op'[p].stage = s /\ op'[p].kind = op[p].kind /\ op'[p].who = op[p].who
               /\ op'[p].target = op[p].target /\ op'[p].seen = op[p].seen /\ op'[p].list = op[p].list
    BY <1>0, <2>g DEF Goto, Others, Op
  <2>s. ASSUME NEW s, NEW u, op' = [op EXCEPT ![p].stage = s, ![p].seen = u]
        PROVE  /\ Others(p) /\ op'[p].stage = s /\ op'[p].kind = op[p].kind /\ op'[p].who = op[p].who
               /\ op'[p].target = op[p].target /\ op'[p].seen = u
    BY <1>0, <2>s DEF Others, Op
  <2>n. ASSUME Done(p)
        PROVE  Others(p) /\ Knows(p)' /\ Extra(p)' = {}
    BY <1>0, <2>n, DoneOp DEF Knows, Extra, NoOp, ActivityRequests
  <2>1. CASE ClaimReads(p)
    <3>1. CASE Goto(p, "cas")
      <4>1. Knows(p)'  BY <2>1, <2>g, <3>1 DEF ClaimReads, Knows, ActivityRequests
      <4> QED  BY <2>1, <2>g, <2>q, <2>e, <3>1, <4>1 DEF ClaimReads
    <3> QED  BY <2>1, <2>d, <2>e, <3>1 DEF ClaimReads
  <2>2. CASE ClaimWrites(p)
    <3>1. op[p].kind = "claim" /\ Extra(p) = {}  BY <1>0, <2>2, <2>e, KindsAt DEF ClaimWrites
    <3>2. CASE Goto(p, "power") /\ admin' = op[p].who /\ admin = NoUser
      <4>1. Knows(p)'  BY <2>2, <2>g, <3>1, <3>2 DEF Knows, ActivityRequests
      <4>2. CoveredBy(p)'  BY <2>2, <2>i, <3>1, <3>2 DEF ClaimWrites, CoveredBy
      <4> QED  BY <2>2, <2>g, <2>i, <3>1, <3>2, <4>1, <4>2, OneKnows DEF ClaimWrites
    <3> QED  BY <2>2, <2>d, <3>1, <3>2 DEF ClaimWrites, SeatTaken
  <2>3. CASE ClaimUndone(p)
    BY <2>0, <2>3 DEF ClaimUndone, Knows
  <2>4. CASE Empower(p)
    <3>1. /\ op[p].kind \in {"claim", "assign", "transfer"} /\ ~Idle(p) /\ CoveredBy(p)
          /\ UNCHANGED <<owner, admin>>
      BY <1>0, <2>4, <2>i, KindsAt DEF Empower
    <3>2. CASE op[p].kind = "claim"
      <4>1. Done(p) /\ perm' = [perm EXCEPT ![op[p].who] = Power] /\ op[p].who = admin
        BY <2>0, <2>4, <3>2 DEF Empower, Knows
      <4>2. CoveredBy(p)'  BY <2>0, <2>4, <2>e, <3>1, <3>2, <4>1 DEF CoveredBy, Empower
      <4> QED  BY <2>n, <3>1, <3>2, <4>1, <4>2, OneKnows
    <3>3. CASE op[p].kind = "assign"
      <4>1. Goto(p, "seat") /\ perm' = [perm EXCEPT ![op[p].target] = Power]
        BY <2>4, <3>3 DEF Empower
      <4>2. Knows(p)'  BY <2>0, <2>4, <2>g, <3>1, <3>3, <4>1 DEF Knows, Empower, ActivityRequests
      <4>3. Extra(p)' = {op[p].target}  BY <2>g, <3>3, <4>1 DEF Extra
      <4>4. CoveredBy(p)'  BY <2>0, <2>4, <2>e, <3>1, <3>3, <4>1, <4>3 DEF CoveredBy, Empower
      <4> QED  BY <2>g, <3>1, <3>3, <4>1, <4>2, <4>4, OneKnows
    <3>4. CASE op[p].kind = "transfer"
      <4>1. Goto(p, "crown") /\ perm' = [perm EXCEPT ![op[p].target] = Power]
        BY <2>4, <3>4 DEF Empower
      <4>2. op[p].target # owner /\ op[p].who = owner /\ ~perm[owner].power
        BY <2>0, <2>4, <3>4 DEF Knows, Empower
      <4>3. ~perm'[owner].power  BY <1>0, <2>0, <4>1, <4>2
      <4>4. Knows(p)'  BY <2>0, <2>g, <3>1, <3>4, <4>1, <4>2, <4>3 DEF Knows, ActivityRequests
      <4>5. Extra(p)' = {op[p].target} /\ Extra(p) = {op[p].target}
        BY <2>4, <2>g, <3>4, <4>1 DEF Extra, Empower
      <4>6. CoveredBy(p)'  BY <2>0, <3>1, <4>1, <4>5 DEF CoveredBy
      <4> QED  BY <2>g, <3>1, <3>4, <4>1, <4>4, <4>6, OneKnows
    <3> QED  BY <3>1, <3>2, <3>3, <3>4
  <2>5. CASE ReleaseReads(p)
    <3>1. CASE op' = [op EXCEPT ![p].stage = "clear", ![p].seen = admin]
      <4>a. /\ op'[p].stage = "clear" /\ op'[p].kind = "release" /\ op'[p].seen = admin
            /\ UNCHANGED <<owner, admin>>
        BY <2>5, <2>s, <3>1 DEF ReleaseReads
      <4>1. Knows(p)'  BY <2>0, <4>a DEF Knows, ActivityRequests
      <4> QED  BY <2>5, <2>q, <2>s, <2>e, <3>1, <4>1 DEF ReleaseReads
    <3> QED  BY <2>5, <2>d, <2>e, <3>1 DEF ReleaseReads
  <2>6. CASE LeaveLooks(p)
    <3>1. op[p].stage # "idle" /\ Extra(p) = {} /\ op[p].kind = "leave" /\ UNCHANGED <<owner, admin, perm>>
      BY <2>6, <2>e DEF LeaveLooks
    <3>2. CASE Goto(p, "read")
      <4>1. Knows(p)'  BY <2>g, <3>1, <3>2 DEF Knows, ActivityRequests
      <4> QED  BY <2>g, <2>q, <3>1, <3>2, <4>1
    <3>3. CASE admin = op[p].who /\ op' = [op EXCEPT ![p].stage = "clear", ![p].seen = op[p].who]
      <4>a. op'[p].stage = "clear" /\ op'[p].kind = "leave" /\ op'[p].seen = admin
        BY <2>s, <3>1, <3>3
      <4>1. Knows(p)'  BY <2>0, <3>1, <4>a DEF Knows, ActivityRequests
      <4> QED  BY <2>q, <2>s, <3>1, <3>3, <4>1
    <3> QED  BY <2>6, <2>d, <3>1, <3>2, <3>3 DEF LeaveLooks
  <2>7. CASE AssignReads(p)
    <3>1. op[p].stage # "idle" /\ Extra(p) = {} /\ op[p].kind = "assign" /\ UNCHANGED <<owner, admin, perm>>
      BY <2>7, <2>e DEF AssignReads
    <3>2. CASE op' = [op EXCEPT ![p].stage = "clear", ![p].seen = admin]
      <4>a. op'[p].stage = "clear" /\ op'[p].kind = "assign" /\ op'[p].seen = admin
        BY <2>s, <3>1, <3>2
      <4>1. Knows(p)'  BY <2>0, <3>1, <4>a DEF Knows, ActivityRequests
      <4> QED  BY <2>q, <2>s, <3>1, <3>2, <4>1
    <3>3. CASE admin = NoUser /\ Goto(p, "power")
      <4>1. Knows(p)'  BY <2>0, <2>g, <3>1, <3>3 DEF Knows, ActivityRequests
      <4> QED  BY <2>q, <2>g, <3>1, <3>3, <4>1
    <3> QED  BY <2>7, <2>d, <3>1, <3>2, <3>3 DEF AssignReads
  <2>8. CASE ClearReads(p)
    <3>1. /\ op[p].stage = "clear" /\ Extra(p) = {} /\ op[p].kind \in {"release", "leave", "assign", "ban"}
          /\ UNCHANGED <<owner, admin, perm>>
      BY <1>0, <2>8, <2>e, KindsAt DEF ClearReads
    <3>2. admin \in {NoUser, op[p].seen} /\ op[p].seen # owner  BY <2>0, <3>1 DEF Knows
    <3>3. Goto(p, "unpower")  BY <2>8, <3>2 DEF ClearReads
    <3>4. Knows(p)'  BY <2>0, <2>g, <3>1, <3>2, <3>3 DEF Knows, ActivityRequests
    <3> QED  BY <2>q, <2>g, <3>1, <3>3, <3>4
  <2>9. CASE Unpower(p)
    <3>1. /\ op[p].kind \in {"release", "leave", "assign", "ban", "transfer"} /\ ~Idle(p) /\ CoveredBy(p)
          /\ UNCHANGED <<owner, admin>>
      BY <1>0, <2>9, <2>i, KindsAt DEF Unpower
    <3>2. CASE op[p].kind = "transfer"
      <4>1. Goto(p, "power") /\ perm' = [perm EXCEPT ![owner] = Blank]
        BY <2>0, <2>9, <3>2 DEF Unpower, Cleared, Knows
      <4>2. ~perm'[owner].power /\ \A u \in Users : perm'[u].power => perm[u].power
        BY <1>0, <2>0, <4>1 DEF Blank
      <4>3. Knows(p)'  BY <2>0, <2>9, <2>g, <3>1, <3>2, <4>1, <4>2 DEF Unpower, Knows, ActivityRequests
      <4>4. Extra(p)' = Extra(p)  BY <2>9, <2>g, <3>2, <4>1 DEF Extra, Unpower
      <4>5. CoveredBy(p)'  BY <3>1, <4>2, <4>4 DEF CoveredBy
      <4> QED  BY <2>g, <3>1, <3>2, <4>1, <4>3, <4>5, OneKnows
    <3>3. CASE op[p].kind # "transfer"
      <4>1. Goto(p, "vacate") /\ perm' = [perm EXCEPT ![op[p].seen] = Blank]
        BY <2>9, <3>3 DEF Unpower, Cleared
      <4>2. op[p].seen \in Users  BY <2>0, <2>9, <3>3 DEF Shape, Unpower
      <4>3. ~perm'[op[p].seen].power /\ \A u \in Users : perm'[u].power => perm[u].power
        BY <2>0, <4>1, <4>2 DEF Blank
      <4>4. Knows(p)'  BY <2>0, <2>9, <2>g, <3>1, <3>3, <4>1, <4>3 DEF Unpower, Knows, ActivityRequests
      <4>5. Extra(p) = {}  BY <2>9, <2>e, <3>3 DEF Unpower
      <4>6. CoveredBy(p)'  BY <3>1, <4>3, <4>5 DEF CoveredBy
      <4> QED  BY <2>g, <3>1, <4>1, <4>3, <4>4, <4>6, OneKnows
    <3> QED  BY <3>2, <3>3
  <2>10. CASE Vacate(p)
    <3>1. /\ op[p].kind \in {"release", "leave", "assign", "ban", "transfer"} /\ ~Idle(p) /\ CoveredBy(p)
          /\ owner' = owner /\ admin' = NoUser /\ perm' = perm /\ op[p].stage = "vacate"
      BY <1>0, <2>10, <2>i, KindsAt DEF Vacate
    <3>2. CASE op[p].kind = "transfer"
      <4>1. Goto(p, "unpower") /\ admin = op[p].target  BY <2>0, <2>10, <3>2 DEF Vacate, Knows
      <4>2. Knows(p)'  BY <2>0, <2>g, <3>1, <3>2, <4>1 DEF Knows, ActivityRequests
      <4>3. Extra(p)' = {op[p].target} /\ Extra(p) = {op[p].target}
        BY <2>g, <3>1, <3>2, <4>1 DEF Extra
      <4>4. CoveredBy(p)'  BY <3>1, <4>1, <4>3 DEF CoveredBy
      <4> QED  BY <2>g, <3>1, <3>2, <4>1, <4>2, <4>4, OneKnows
    <3>3. CASE op[p].kind # "transfer"
      <4>1. admin \in {NoUser, op[p].seen} /\ ~perm[op[p].seen].power /\ Extra(p) = {}
        BY <2>0, <2>e, <3>1, <3>3 DEF Knows
      <4>2. \A u \in Users : perm'[u].power => u = owner
        BY <3>1, <4>1 DEF CoveredBy
      <4>3. CoveredBy(p)'  BY <3>1, <4>2 DEF CoveredBy
      <4>4. CASE Done(p)  BY <2>n, <3>1, <4>3, <4>4, OneKnows
      <4>5. CASE op[p].kind = "assign" /\ Goto(p, "power")
        <5>1. Knows(p)'  BY <2>g, <3>1, <4>5 DEF Knows, ActivityRequests
        <5> QED  BY <2>g, <3>1, <4>3, <4>5, <5>1, OneKnows
      <4>6. CASE op[p].kind = "ban" /\ Goto(p, "deny")
        <5>1. op[p].target \in Users  BY <2>0, <4>6 DEF Shape
        <5>2. Knows(p)'  BY <2>g, <3>1, <4>6, <5>1 DEF Knows, ActivityRequests
        <5> QED  BY <2>g, <3>1, <4>3, <4>6, <5>2, OneKnows
      <4> QED  BY <2>10, <3>1, <3>3, <4>4, <4>5, <4>6 DEF Vacate
    <3> QED  BY <3>2, <3>3
  <2>11. CASE Seat(p)
    <3>1. op[p].kind = "assign" /\ ~Idle(p) /\ CoveredBy(p) /\ admin = NoUser
      BY <1>0, <2>0, <2>11, <2>i, KindsAt DEF Seat, Knows
    <3>2. Extra(p) = {op[p].target}  BY <2>11, <3>1 DEF Seat, Extra
    <3>3. CoveredBy(p)'  BY <2>11, <3>1, <3>2 DEF Seat, CoveredBy
    <3> QED  BY <2>11, <2>n, <3>1, <3>3, OneKnows DEF Seat
  <2>12. CASE TransferReads(p)
    <3>1. op[p].stage = "read" /\ op[p].kind = "transfer" /\ Extra(p) = {}  BY <2>12 DEF TransferReads, Extra
    <3>2. ASSUME NEW heir \in Heirs(op[p].who), owner = op[p].who,
                 op' = [op EXCEPT ![p].stage = HeirsSeat(heir), ![p].target = heir]
          PROVE  PowerInv'
      <4>1. /\ Others(p) /\ op'[p].stage = HeirsSeat(heir) /\ op'[p].kind = "transfer"
            /\ op'[p].target = heir /\ op'[p].who = op[p].who
        BY <1>0, <3>1, <3>2 DEF Others, Op
      <4>2. heir # owner /\ HeirsSeat(heir) \in {"vacate", "unpower"}
            /\ (HeirsSeat(heir) = "vacate" => admin = heir)
        BY <3>2 DEF Heirs, HeirsSeat
      <4>3. Knows(p)'  BY <2>12, <3>2, <4>1, <4>2 DEF Knows, TransferReads, ActivityRequests
      <4> QED  BY <2>12, <2>q, <3>1, <4>1, <4>3 DEF TransferReads
    <3> QED  BY <2>12, <2>d, <3>1, <3>2 DEF TransferReads
  <2>13. CASE Crown(p)
    <3>1. op[p].kind = "transfer" /\ ~Idle(p) /\ CoveredBy(p) /\ ~perm[owner].power
      BY <1>0, <2>0, <2>13, <2>i, KindsAt DEF Crown, Knows
    <3>2. Extra(p) = {op[p].target}  BY <2>13, <3>1 DEF Crown, Extra
    <3>3. CoveredBy(p)'  BY <2>13, <3>1, <3>2 DEF Crown, CoveredBy
    <3> QED  BY <2>13, <2>n, <3>1, <3>3, OneKnows DEF Crown
  <2>14. CASE Controls(p)
    <3>1. op[p].kind \in {"kick", "ban", "invite"} /\ Extra(p) = {} /\ op[p].stage = "control"
      BY <1>0, <2>14, <2>e, KindsAt DEF Controls
    <3>2. ASSUME NEW s \in {"allow", "read"}, Goto(p, s)  PROVE PowerInv'
      <4>1. Knows(p)'  BY <2>g, <3>1, <3>2 DEF Knows, ActivityRequests
      <4> QED  BY <2>14, <2>g, <2>q, <3>1, <3>2, <4>1 DEF Controls
    <3> QED  BY <2>14, <2>d, <3>1, <3>2 DEF Controls
  <2>15. CASE Allow(p)
    <3>1. op[p].kind = "invite" /\ ~Idle(p) /\ CoveredBy(p) /\ Extra(p) = {}
      BY <1>0, <2>15, <2>i, <2>e, KindsAt DEF Allow
    <3>2. \A u \in Users : perm'[u].power => perm[u].power  BY <2>0, <2>15 DEF Allow, Blank
    <3>3. CoveredBy(p)'  BY <2>15, <3>1, <3>2 DEF Allow, CoveredBy
    <3> QED  BY <2>15, <2>n, <3>1, <3>3, OneKnows DEF Allow
  <2>16. CASE RemovalReads(p)
    <3>1. op[p].kind \in {"kick", "ban"} /\ Extra(p) = {} /\ op[p].stage = "read"
      BY <2>16, <2>e DEF RemovalReads
    <3>2. ASSUME op[p].target # owner, op' = [op EXCEPT ![p].stage = "clear", ![p].seen = op[p].target],
                 SeatLost(p)
          PROVE  PowerInv'
      <4>a. /\ op'[p].stage = "clear" /\ op'[p].kind = "ban" /\ op'[p].seen = admin
            /\ UNCHANGED <<owner, admin>>
        BY <2>16, <2>s, <3>1, <3>2 DEF RemovalReads, SeatLost
      <4>1. Knows(p)'  BY <2>0, <4>a DEF Knows, ActivityRequests
      <4> QED  BY <2>16, <2>q, <2>s, <3>1, <3>2, <4>1 DEF RemovalReads
    <3>3. ASSUME op' = [op EXCEPT ![p].stage = "deny", ![p].seen = op[p].target], ~SeatLost(p)
          PROVE  PowerInv'
      <4>1. Knows(p)'  BY <2>16, <2>s, <3>1, <3>3 DEF RemovalReads, SeatLost, Knows, ActivityRequests
      <4> QED  BY <2>16, <2>q, <2>s, <3>1, <3>3, <4>1 DEF RemovalReads
    <3> QED  BY <2>16, <2>d, <3>1, <3>2, <3>3 DEF RemovalReads
  <2>17. CASE Deny(p)
    <3>1. op[p].kind \in {"kick", "ban"} /\ ~Idle(p) /\ CoveredBy(p) /\ Extra(p) = {}
      BY <1>0, <2>17, <2>i, <2>e, KindsAt DEF Deny
    <3>2. \A u \in Users : perm'[u].power => perm[u].power  BY <2>0, <2>17 DEF Deny, Blank
    <3>3. CoveredBy(p)'  BY <2>17, <3>1, <3>2 DEF Deny, CoveredBy
    <3>4. Goto(p, "moveOut")  BY <2>17 DEF Deny
    <3>5. Knows(p)'  BY <2>0, <2>17, <2>g, <3>1, <3>4 DEF Deny, Knows, ActivityRequests
    <3> QED  BY <2>17, <2>g, <3>1, <3>3, <3>4, <3>5, OneKnows DEF Deny
  <2>19. CASE ActivityReads(p)
    <3>1. op[p].kind \in ActivityRequests /\ Extra(p) = {} /\ op[p].stage = "read"
      BY <2>19, <2>e DEF ActivityReads, ActivityRequests
    <3>2. CASE op' = [op EXCEPT ![p].stage = "get", ![p].seen = admin]
      <4>1. Knows(p)'  BY <2>19, <2>s, <3>1, <3>2 DEF ActivityReads, Knows, ActivityRequests
      <4> QED  BY <2>19, <2>q, <2>s, <3>1, <3>2, <4>1 DEF ActivityReads
    <3> QED  BY <2>19, <2>d, <3>1, <3>2 DEF ActivityReads
  <2>20. CASE ActivityFetches(p)
    <3>1. op[p].kind \in ActivityRequests /\ Extra(p) = {} /\ op[p].stage = "get" /\ op[p].seen = admin
      BY <1>0, <2>0, <2>20, <2>e, KindsAt DEF ActivityFetches, ActivityRequests, Knows
    <3>2. CoveredBy(p)  BY <2>i, <3>1
    <3>3. ASSUME NEW l, op' = [op EXCEPT ![p].stage = "patch", ![p].list = l]
          PROVE  /\ Others(p) /\ op'[p].stage = "patch" /\ op'[p].kind = op[p].kind
                 /\ op'[p].who = op[p].who /\ op'[p].target = op[p].target /\ op'[p].seen = op[p].seen
                 /\ op'[p].list = l
      BY <1>0, <3>3 DEF Others, Op
    <3>4. ASSUME op[p].kind # "aban",
                 op' = [op EXCEPT ![p].stage = "patch",
                                  ![p].list = WithAdmin(WithoutAdmin(perm, op[p].seen), NewAdmin(p))]
          PROVE  PowerInv'
      <4>1. \A u \in Users : op'[p].list[u].power => u \in {owner, NewAdmin(p)}
        BY <3>1, <3>2, <3>3, <3>4 DEF WithAdmin, WithoutAdmin, CoveredBy, Blank
      <4>2. NewAdmin(p)' = NewAdmin(p)  BY <3>3, <3>4 DEF NewAdmin
      <4>3. Knows(p)'  BY <2>20, <3>1, <3>3, <3>4, <4>1, <4>2 DEF ActivityFetches, Knows, ActivityRequests
      <4> QED  BY <2>20, <2>q, <3>1, <3>3, <3>4, <4>3 DEF ActivityFetches
    <3>5. ASSUME op[p].kind = "aban", NEW l \in {perm, WithoutAdmin(perm, op[p].target)},
                 op[p].seen = op[p].target => l = WithoutAdmin(perm, op[p].target),
                 op' = [op EXCEPT ![p].stage = "patch", ![p].list = WithBan(l, op[p].target)]
          PROVE  PowerInv'
      <4>1. op[p].target \in Users  BY <2>0, <3>1, <3>5 DEF Shape
      <4>2. l \in [Users -> Overwrite]
        <5>1. Blank \in Overwrite  BY DEF Blank, Overwrite
        <5>2. WithoutAdmin(perm, op[p].target) \in [Users -> Overwrite]
          BY <2>0, <5>1 DEF WithoutAdmin
        <5> QED  BY <2>0, <3>5, <5>2
      <4>3. \A u \in Users : l[u].power => perm[u].power  BY <3>5 DEF WithoutAdmin, Blank
      <4>4. op[p].seen = op[p].target => ~l[op[p].target].power  BY <3>5, <4>1 DEF WithoutAdmin, Blank
      <4>5. \A u \in Users : WithBan(l, op[p].target)[u].power = l[u].power
        BY <4>1, <4>2 DEF WithBan, Overwrite
      <4>a. /\ op'[p].stage = "patch" /\ op'[p].kind = "aban" /\ op'[p].seen = op[p].seen
            /\ op'[p].target = op[p].target /\ op'[p].list = WithBan(l, op[p].target)
            /\ UNCHANGED <<owner, admin, perm>>
        BY <2>20, <3>3, <3>5 DEF ActivityFetches
      <4>b. \A u \in Users : op'[p].list[u].power => perm'[u].power  BY <4>3, <4>5, <4>a
      <4>c. op'[p].seen = op'[p].target => ~op'[p].list[op'[p].target].power
        BY <4>1, <4>4, <4>5, <4>a
      <4>6. Knows(p)'  BY <3>1, <4>a, <4>b, <4>c DEF Knows, ActivityRequests
      <4> QED  BY <2>20, <2>q, <3>1, <3>3, <3>5, <4>6 DEF ActivityFetches
    <3> QED  BY <2>20, <2>d, <3>1, <3>4, <3>5 DEF ActivityFetches
  <2>21. CASE ActivityPatches(p)
    <3>1. /\ op[p].kind \in ActivityRequests /\ ~Idle(p) /\ op[p].stage = "patch" /\ CoveredBy(p)
          /\ Extra(p) = {} /\ UNCHANGED <<owner, admin>> /\ perm' = op[p].list /\ op[p].seen = admin
      BY <1>0, <2>0, <2>21, <2>i, <2>e, KindsAt DEF ActivityPatches, ActivityRequests, Knows
    <3>2. CASE op[p].kind = "aban"
      <4>1. Goto(p, "moveOut")  BY <2>21, <3>2 DEF ActivityPatches
      <4>2. /\ \A u \in Users : perm'[u].power => perm[u].power
            /\ op[p].seen = op[p].target => ~perm'[op[p].target].power
        BY <2>0, <3>1, <3>2 DEF Knows
      <4>3. Knows(p)'  BY <2>g, <3>1, <3>2, <4>1, <4>2 DEF Knows, ActivityRequests
      <4>4. CoveredBy(p)'  BY <3>1, <4>2 DEF CoveredBy
      <4> QED  BY <2>g, <3>1, <4>1, <4>2, <4>3, <4>4, OneKnows
    <3>3. CASE op[p].kind # "aban"
      <4>1. Goto(p, "update")  BY <2>21, <3>3 DEF ActivityPatches
      <4>2. \A u \in Users : perm'[u].power => u \in {owner, NewAdmin(p)}
        BY <2>0, <3>1, <3>3 DEF Knows
      <4>3. NewAdmin(p)' = NewAdmin(p)  BY <2>g, <4>1 DEF NewAdmin
      <4>4. Knows(p)'  BY <2>g, <3>1, <3>3, <4>1, <4>2, <4>3 DEF Knows, ActivityRequests
      <4>5. NewAdmin(p) \in Users => NewAdmin(p) \in Extra(p)'
        BY <2>g, <3>1, <3>3, <4>1, <4>3 DEF Extra, NewAdmin, ActivityRequests
      <4>6. CoveredBy(p)'  BY <3>1, <4>2, <4>5 DEF CoveredBy
      <4> QED  BY <2>g, <3>1, <3>3, <4>1, <4>4, <4>6, OneKnows DEF ActivityRequests
    <3> QED  BY <3>2, <3>3
  <2>22. CASE ActivityUpdates(p)
    <3>1. op[p].kind \in ActivityRequests /\ ~Idle(p) /\ op[p].stage = "update" /\ CoveredBy(p)
      BY <1>0, <2>22, <2>i, KindsAt DEF ActivityUpdates
    <3>2. CASE op[p].kind = "aban"
      <4>1. admin \in {NoUser, op[p].target} /\ ~perm[op[p].target].power
        BY <2>0, <3>1, <3>2 DEF Knows
      <4>2. Extra(p) = {}  BY <3>2 DEF Extra
      <4>3. admin' = NoUser /\ owner' = owner /\ perm' = perm
        BY <2>22, <3>2 DEF ActivityUpdates, NewAdmin
      <4>4. CoveredBy(p)'  BY <3>1, <4>1, <4>2, <4>3 DEF CoveredBy
      <4> QED  BY <2>22, <2>n, <3>1, <4>3, <4>4, OneKnows DEF ActivityUpdates
    <3>3. CASE op[p].kind # "aban"
      <4>1. \A u \in Users : perm[u].power => u \in {owner, NewAdmin(p)}
        BY <2>0, <3>1, <3>3 DEF Knows
      <4>2. CoveredBy(p)'  BY <2>22, <4>1 DEF ActivityUpdates, CoveredBy
      <4> QED  BY <2>22, <2>n, <3>1, <3>3, <4>2, OneKnows DEF ActivityUpdates, ActivityRequests
    <3> QED  BY <3>2, <3>3
  <2> QED
    BY <1>7, <2>1, <2>2, <2>3, <2>4, <2>5, <2>6, <2>7, <2>8, <2>9, <2>10, <2>11, <2>12, <2>13,
       <2>14, <2>15, <2>16, <2>17, <2>19, <2>20, <2>21, <2>22 DEF Step
<1>8. ASSUME UNCHANGED <<owner, admin, perm, op>>  PROVE PowerInv'
  BY <1>0, <1>8 DEF PowerInv, Knows, Extra, NewAdmin, Is
<1> QED  BY <1>2, <1>3, <1>4, <1>5, <1>7, <1>8 DEF Next, Join, vars, Raises

LEMMA InitPower == Init => PowerInv
<1> SUFFICES ASSUME Init  PROVE PowerInv
  OBVIOUS
<1>1. \A p \in Procs : Knows(p)  BY DEF Init, Knows, NoOp, ActivityRequests
<1>2. \A u \in Users : perm[u].power => u = owner
  BY DEF Init, Blank
<1> QED  BY <1>1, <1>2, InitSeat DEF PowerInv

\* One operation at a time and as long as no call to Discord fails, only the owner and the admin
\* have the power on the channel when nothing is under way.
THEOREM PowerKept ==
  ASSUME Serial, ~Fallible
  PROVE  Spec => []NoStrayPower
<1>1. PowerInv /\ [Next]_vars => PowerInv'
  BY NextPower, NextSeat, NextAlone, NextFormed DEF PowerInv, SeatInv
<1>2. PowerInv => NoStrayPower
  <2> SUFFICES ASSUME PowerInv, AllIdle  PROVE \A u \in Users : perm[u].power => u \in {owner, admin}
    BY DEF NoStrayPower
  <2>1. \A p \in Procs : Extra(p) = {}
    BY KindsAt, NoneKnows DEF AllIdle, PowerInv, SeatInv
  <2> QED  BY <2>1 DEF PowerInv
<1> QED  BY InitPower, <1>1, <1>2, PTL DEF Spec

-----------------------------------------------------------------------------
(* One operation at a time, no failing call, no ban from the Activity: who *)
(* is kept out.                                                            *)

LEMMA RestSpares ==
  ASSUME NEW q \in Procs, \/ op'[q].kind = "none" /\ op'[q].stage = "idle"
                          \/ op'[q].kind = "leave" /\ op'[q].stage = "look"
  PROVE  Spares(q)'
BY DEF Spares, Enters, ActivityRequests

LEMMA OthersRest ==
  ASSUME Formed, Alone, "aban" \notin Kinds, NEW p \in Procs, ~Idle(p), NEW q \in Procs \ {p}
  PROVE  op[q].kind = "none" /\ op[q].stage = "idle"
<1>1. op[p].kind # "aban" /\ op[q].kind # "aban"  BY DEF Formed, Shape
<1>2. Idle(q)  BY <1>1 DEF Alone, Follows
<1> QED  BY <1>2, KindsAt DEF Idle

LEMMA OneSpares ==
  ASSUME BanInv, PowerInv', "aban" \notin Kinds, NEW p \in Procs, ~Idle(p), Others(p), Spares(p)',
         Denied', Unbanned', \A u \in inRoom' \cap banned' : Ousts(p, u)'
  PROVE  BanInv'
<1>1. Formed /\ Alone  BY DEF BanInv, PowerInv, SeatInv
<1>2. ASSUME NEW q \in Procs \ {p}  PROVE Spares(q)'
  BY <1>1, OthersRest, RestSpares DEF Others
<1> QED  BY <1>2 DEF BanInv

LEMMA NextBan ==
  ASSUME Serial, ~Fallible, "aban" \notin Kinds, BanInv, PowerInv', [Next]_vars
  PROVE  BanInv'
<1> USE NoUserIsNone
<1>0. /\ Formed /\ Alone /\ TypeOK /\ op \in [Procs -> Op] /\ Denied /\ Unbanned
      /\ \A p \in Procs : Apart(p) /\ Shape(p) /\ Knows(p) /\ Spares(p)
      /\ inRoom \in SUBSET Users /\ banned \in SUBSET Users /\ perm \in [Users -> Overwrite]
      /\ owner \in Users /\ admin \in Users \cup {NoUser} /\ NoUser \notin banned
  BY DEF BanInv, PowerInv, SeatInv, Formed, TypeOK
<1>a. AllIdle => inRoom \cap banned = {}  BY DEF BanInv, Ousts, AllIdle, Idle
<1>b. ASSUME NEW p \in Procs, ~Idle(p), ~(op[p].kind = "ban" /\ op[p].stage = "moveOut")
      PROVE  inRoom \cap banned = {}
  <2>1. \A q \in Procs \ {p} : op[q].kind = "none"  BY <1>0, <1>b, OthersRest
  <2> QED  BY <1>b, <2>1 DEF BanInv, Ousts
\* An operation begins.
<1>1. ASSUME NEW p \in Procs, AllIdle, Others(p), UNCHANGED <<owner, admin, perm, banned>>,
             inRoom' \in SUBSET inRoom, Spares(p)'
      PROVE  BanInv'
  <2>1. ASSUME NEW q \in Procs \ {p}  PROVE Spares(q)'
    <3>1. op'[q].kind = "none" /\ op'[q].stage = "idle"
      BY <1>0, <1>1, KindsAt DEF Others, AllIdle, Idle
    <3> QED  BY <3>1, RestSpares
  <2>2. Denied' /\ Unbanned'  BY <1>0, <1>1 DEF Denied, Unbanned
  <2> QED  BY <1>a, <1>1, <2>1, <2>2 DEF BanInv
<1>2. ASSUME NEW p \in Procs, NEW kind \in Kinds, NEW u \in Users, NEW v \in Users \cup {NoUser},
             Request(p, kind, u, v)
      PROVE  BanInv'
  <2>1. Others(p) /\ AllIdle  BY <1>0, <1>2 DEF Request, Others, MayStart
  <2>2. /\ op'[p].kind = kind /\ op'[p].who = u /\ op'[p].stage \in {"read", "control"}
        /\ kind \in {"claim", "release", "assign"} => u \in inRoom
    BY <1>0, <1>2 DEF Request, Begin, NoOp, ActivityRequests
  <2>3. kind # "transfer"  BY <1>2 DEF Request, ActivityRequests
  <2>4. kind = "claim" => u \notin banned  BY <1>a, <2>1, <2>2
  <2>5. Spares(p)'  BY <1>2, <2>2, <2>3, <2>4 DEF Spares, Enters, ActivityRequests, Request
  <2> QED  BY <1>0, <1>1, <1>2, <2>1, <2>5 DEF Request
<1>3. ASSUME NEW p \in Procs, NEW u \in Users, Leave(p, u)  PROVE BanInv'
  <2>1. Others(p) /\ AllIdle  BY <1>0, <1>3 DEF Leave, Others, MayStart
  <2>2. \/ op'[p].kind = "none" /\ op'[p].stage = "idle"
        \/ op'[p].kind = "leave" /\ op'[p].stage = "look"
    <3>1. op[p].kind = "none" /\ op[p].stage = "idle"  BY <1>0, <2>1, KindsAt DEF AllIdle, Idle
    <3> QED  BY <1>0, <1>3, <3>1 DEF Leave, Begin, NoOp
  <2>3. Spares(p)'  BY <2>2, RestSpares
  <2> QED  BY <1>0, <1>1, <1>3, <2>1, <2>3 DEF Leave
<1>4. ASSUME NEW u \in Users, Join(u)  PROVE BanInv'
  <2>1. AllIdle /\ u \notin banned /\ inRoom' = inRoom \cup {u} /\ UNCHANGED <<owner, admin, perm, banned, op>>
    BY <1>0, <1>4 DEF Join, Denied
  <2>2. \A p \in Procs : Spares(p)'  BY <1>0, <2>1 DEF Spares, Enters, NewAdmin, Is
  <2>3. Denied' /\ Unbanned'  BY <1>0, <2>1 DEF Denied, Unbanned
  <2> QED  BY <1>a, <2>1, <2>2, <2>3 DEF BanInv
<1>5. ASSUME NEW p \in Procs, TransferFires(p)  PROVE BanInv'
  <2>1. Others(p) /\ AllIdle  BY <1>0, <1>5 DEF TransferFires, Others
  <2>2. op'[p].kind = "transfer" /\ op'[p].stage = "read"
    BY <1>0, <1>5 DEF TransferFires, Begin, NoOp
  <2>3. Spares(p)'  BY <2>2 DEF Spares, Enters, ActivityRequests
  <2> QED  BY <1>0, <1>1, <1>5, <2>1, <2>3 DEF TransferFires
<1>6. ASSUME NEW p \in Procs, MoveOut(p)  PROVE BanInv'
  <2>1. PICK q \in Procs : Follow(p, q)  BY <1>0, <1>6, MoveOutOp
  <2>2. /\ op[p].stage = "moveOut" /\ UNCHANGED <<owner, admin, perm, banned>>
        /\ inRoom' = inRoom \ {op[p].target}
    BY <1>6 DEF MoveOut, At
  <2>3. ~Idle(p)  BY <2>2 DEF Idle
  <2>4. ASSUME NEW r \in Procs  PROVE Spares(r)'
    <3>1. op[p].kind # "aban"  BY <1>0, <2>2 DEF Formed, Shape
    <3>2. CASE r \notin {p, q}
      BY <1>0, <2>1, <2>3, <3>2, OthersRest, RestSpares DEF Follow
    <3>3. CASE r \in {p, q}
      BY <2>1, <3>1, <3>3, RestSpares DEF Follow, NoOp
    <3> QED  BY <3>2, <3>3
  <2>5. Denied' /\ Unbanned'  BY <1>0, <2>2 DEF Denied, Unbanned
  <2>6. \A u \in inRoom \cap banned : u = op[p].target
    <3>1. \A r \in Procs \ {p} : op[r].kind = "none"  BY <1>0, <2>3, OthersRest
    <3> QED  BY <3>1 DEF BanInv, Ousts
  <2> QED  BY <2>2, <2>4, <2>5, <2>6 DEF BanInv
<1>7. ASSUME NEW p \in Procs, Step(p), ~MoveOut(p)  PROVE BanInv'
  <2> USE DEF At, Is
  <2>0. /\ Apart(p) /\ Shape(p) /\ Knows(p) /\ Spares(p)
        /\ op[p].target \in Users \cup {NoUser}
        /\ op[p].kind # "none" => op[p].who \in Users
        /\ op[p].kind # "aban"
    BY <1>0 DEF Op, Shape
  <2>r. op[p].stage \notin {"idle", "moveOut"} => inRoom \cap banned = {}  BY <1>b DEF Idle
\* The operation goes on, and whoever it is about to put in charge is not banned.
  <2>q. ASSUME op[p].stage \notin {"idle", "moveOut"}, Others(p), UNCHANGED inRoom, banned' \in SUBSET banned,
               Unbanned', Denied', Spares(p)'
        PROVE  BanInv'
    <3>1. \A u \in inRoom' \cap banned' : Ousts(p, u)'  BY <2>r, <2>q
    <3> QED  BY <2>q, <3>1, OneSpares DEF Idle
  <2>u. UNCHANGED <<owner, admin, perm, banned>> => Unbanned' /\ Denied'
    BY <1>0 DEF Unbanned, Denied
  <2>n. Done(p) => Others(p) /\ Spares(p)'
    <3> SUFFICES ASSUME Done(p)  PROVE Others(p) /\ Spares(p)'
      OBVIOUS
    <3>1. Others(p) /\ op'[p] = NoOp  BY <1>0, DoneOp
    <3> QED  BY <3>1, RestSpares DEF NoOp
  <2>d. ASSUME op[p].stage \notin {"idle", "moveOut"}, Done(p), UNCHANGED <<owner, admin, perm, inRoom, banned>>
        PROVE  BanInv'
    BY <2>d, <2>n, <2>q, <2>u
  <2>g. ASSUME NEW s, Goto(p, s)
        PROVE  /\ Others(p) /\ op'[p].stage = s /\ op'[p].kind = op[p].kind /\ op'[p].who = op[p].who
               /\ op'[p].target = op[p].target /\ op'[p].seen = op[p].seen /\ op'[p].list = op[p].list
    BY <1>0, <2>g DEF Goto, Others, Op
  <2>s. ASSUME NEW s, NEW u, op' = [op EXCEPT ![p].stage = s, ![p].seen = u]
        PROVE  /\ Others(p) /\ op'[p].stage = s /\ op'[p].kind = op[p].kind /\ op'[p].who = op[p].who
               /\ op'[p].target = op[p].target /\ op'[p].seen = u
    BY <1>0, <2>s DEF Others, Op
  <2>1. CASE ClaimReads(p)
    <3>1. CASE Goto(p, "cas")
      <4>1. Spares(p)'  BY <2>0, <2>1, <2>g, <3>1 DEF ClaimReads, Spares, Enters, ActivityRequests
      <4> QED  BY <2>1, <2>g, <2>q, <2>u, <3>1, <4>1 DEF ClaimReads
    <3> QED  BY <2>1, <2>d, <3>1 DEF ClaimReads
  <2>2. CASE ClaimWrites(p)
    <3>1. op[p].kind = "claim" /\ op[p].who \notin banned /\ op[p].stage = "cas"
      BY <1>0, <2>0, <2>2, KindsAt DEF ClaimWrites, Spares, Enters
    <3>2. CASE Goto(p, "power") /\ admin' = op[p].who
      <4>0. UNCHANGED <<owner, perm, inRoom, banned>>  BY <2>2 DEF ClaimWrites
      <4>1. Spares(p)'  BY <2>g, <3>1, <3>2, <4>0 DEF Spares, Enters, ActivityRequests
      <4>2. Unbanned' /\ Denied'  BY <1>0, <3>1, <3>2, <4>0 DEF Unbanned, Denied
      <4> QED  BY <2>g, <2>q, <3>1, <3>2, <4>0, <4>1, <4>2
    <3> QED  BY <2>2, <2>d, <3>2 DEF ClaimWrites
  <2>3. CASE ClaimUndone(p)
    BY <2>0, <2>3 DEF ClaimUndone, Knows
  <2>4. CASE Empower(p)
    <3>1. /\ op[p].kind \in {"claim", "assign", "transfer"} /\ op[p].stage = "power"
          /\ UNCHANGED <<owner, admin, inRoom>>
      BY <1>0, <2>4, KindsAt DEF Empower
    <3>2. CASE op[p].kind = "claim"
      <4>1. Done(p) /\ perm' = [perm EXCEPT ![op[p].who] = Power] /\ op[p].who \notin banned /\ banned' = banned
        BY <2>0, <2>4, <3>2 DEF Empower, Spares, Enters
      <4>2. Unbanned' /\ Denied'  BY <1>0, <3>1, <4>1 DEF Unbanned, Denied
      <4> QED  BY <2>n, <2>q, <3>1, <4>1, <4>2
    <3>3. CASE op[p].kind = "assign"
      <4>1. Goto(p, "seat") /\ perm' = [perm EXCEPT ![op[p].target] = Power] /\ banned' = banned \ {op[p].target}
        BY <2>4, <3>3 DEF Empower
      <4>2. Unbanned' /\ Denied'  BY <1>0, <3>1, <4>1 DEF Unbanned, Denied
      <4>3. Spares(p)'  BY <2>g, <3>1, <3>3, <4>1 DEF Spares, Enters, ActivityRequests
      <4> QED  BY <2>g, <2>q, <3>1, <4>1, <4>2, <4>3
    <3>4. CASE op[p].kind = "transfer"
      <4>1. Goto(p, "crown") /\ perm' = [perm EXCEPT ![op[p].target] = Power] /\ op[p].target \notin banned
            /\ op[p].who \notin banned /\ banned' = banned
        BY <2>0, <2>4, <3>4 DEF Empower, Spares, Enters
      <4>2. Unbanned' /\ Denied'  BY <1>0, <3>1, <4>1 DEF Unbanned, Denied
      <4>3. Spares(p)'  BY <2>g, <3>1, <3>4, <4>1 DEF Spares, Enters, ActivityRequests
      <4> QED  BY <2>g, <2>q, <3>1, <4>1, <4>2, <4>3
    <3> QED  BY <3>1, <3>2, <3>3, <3>4
  <2>5. CASE ReleaseReads(p)
    <3>0. UNCHANGED <<owner, admin, perm, inRoom, banned>> /\ op[p].kind = "release" /\ op[p].stage = "read"
      BY <2>5 DEF ReleaseReads
    <3>1. CASE op' = [op EXCEPT ![p].stage = "clear", ![p].seen = admin]
      <4>1. Others(p) /\ op'[p].stage = "clear" /\ op'[p].kind = "release" /\ op'[p].seen = admin
        BY <2>s, <3>0, <3>1
      <4>2. Spares(p)'  BY <1>0, <3>0, <4>1 DEF Unbanned, Spares, Enters, ActivityRequests
      <4> QED  BY <2>q, <2>u, <3>0, <4>1, <4>2
    <3> QED  BY <2>5, <2>d, <3>0, <3>1 DEF ReleaseReads
  <2>6. CASE LeaveLooks(p)
    <3>0. /\ UNCHANGED <<owner, admin, perm, inRoom, banned>> /\ op[p].kind = "leave"
          /\ op[p].stage \in {"look", "read"}
      BY <2>6 DEF LeaveLooks
    <3>1. CASE Goto(p, "read")
      <4>1. Spares(p)'  BY <2>g, <3>0, <3>1 DEF Spares, Enters, ActivityRequests
      <4> QED  BY <2>g, <2>q, <2>u, <3>0, <3>1, <4>1
    <3>2. CASE admin = op[p].who /\ op' = [op EXCEPT ![p].stage = "clear", ![p].seen = op[p].who]
      <4>1. Others(p) /\ op'[p].stage = "clear" /\ op'[p].kind = "leave" /\ op'[p].seen = admin
        BY <2>s, <3>0, <3>2
      <4>2. Spares(p)'  BY <1>0, <3>0, <4>1 DEF Unbanned, Spares, Enters, ActivityRequests
      <4> QED  BY <2>q, <2>u, <3>0, <4>1, <4>2
    <3> QED  BY <2>6, <2>d, <3>0, <3>1, <3>2 DEF LeaveLooks
  <2>7. CASE AssignReads(p)
    <3>0. UNCHANGED <<owner, admin, perm, inRoom, banned>> /\ op[p].kind = "assign" /\ op[p].stage = "read"
      BY <2>7 DEF AssignReads
    <3>1. CASE op' = [op EXCEPT ![p].stage = "clear", ![p].seen = admin]
      <4>1. Others(p) /\ op'[p].stage = "clear" /\ op'[p].kind = "assign" /\ op'[p].seen = admin
        BY <2>s, <3>0, <3>1
      <4>2. Spares(p)'  BY <1>0, <3>0, <4>1 DEF Unbanned, Spares, Enters, ActivityRequests
      <4> QED  BY <2>q, <2>u, <3>0, <4>1, <4>2
    <3>2. CASE Goto(p, "power")
      <4>1. Spares(p)'  BY <2>g, <3>0, <3>2 DEF Spares, Enters, ActivityRequests
      <4> QED  BY <2>g, <2>q, <2>u, <3>0, <3>2, <4>1
    <3> QED  BY <2>7, <2>d, <3>0, <3>1, <3>2 DEF AssignReads
  <2>8. CASE ClearReads(p)
    <3>1. /\ op[p].stage = "clear" /\ op[p].kind \in {"release", "leave", "assign", "ban"}
          /\ UNCHANGED <<owner, admin, perm, inRoom, banned>>
      BY <1>0, <2>8, KindsAt DEF ClearReads
    <3>2. ASSUME NEW s \in {"unpower", "vacate"}, Goto(p, s)  PROVE BanInv'
      <4>1. Spares(p)'  BY <2>0, <2>g, <3>1, <3>2 DEF Spares, Enters, ActivityRequests
      <4> QED  BY <2>g, <2>q, <2>u, <3>1, <3>2, <4>1
    <3> QED  BY <2>8, <3>2 DEF ClearReads
  <2>9. CASE Unpower(p)
    <3>1. /\ op[p].stage = "unpower" /\ UNCHANGED <<owner, admin, inRoom, banned>>
          /\ op[p].kind \in {"release", "leave", "assign", "ban", "transfer"}
      BY <1>0, <2>9, KindsAt DEF Unpower
    <3>2. ASSUME NEW u, u \notin banned, perm' = [perm EXCEPT ![u] = Blank],
                 NEW s \in {"power", "vacate"}, Goto(p, s), s = "power" => op[p].kind = "transfer"
          PROVE  BanInv'
      <4>1. Unbanned' /\ Denied'  BY <1>0, <3>1, <3>2 DEF Unbanned, Denied
      <4>2. Spares(p)'  BY <2>0, <2>g, <3>1, <3>2 DEF Spares, Enters, ActivityRequests
      <4> QED  BY <2>g, <2>q, <3>1, <3>2, <4>1, <4>2
    <3>3. CASE op[p].kind = "transfer"
      <4>1. op[p].who \notin banned  BY <2>0, <3>1, <3>3 DEF Spares, Enters
      <4> QED  BY <2>9, <3>2, <3>3, <4>1 DEF Unpower, Cleared
    <3>4. CASE op[p].kind # "transfer"
      <4>1. op[p].seen \notin banned  BY <2>0, <3>1, <3>4 DEF Spares, Enters
      <4> QED  BY <2>9, <3>2, <3>4, <4>1 DEF Unpower, Cleared
    <3> QED  BY <3>3, <3>4
  <2>10. CASE Vacate(p)
    <3>1. /\ op[p].kind \in {"release", "leave", "assign", "ban", "transfer"} /\ op[p].stage = "vacate"
          /\ admin' = NoUser /\ UNCHANGED <<owner, perm, inRoom, banned>>
      BY <1>0, <2>10, KindsAt DEF Vacate
    <3>2. Unbanned' /\ Denied'  BY <1>0, <3>1 DEF Unbanned, Denied
    <3>3. ASSUME NEW s, Goto(p, s), \/ op[p].kind = "assign" /\ s = "power"
                                    \/ op[p].kind = "ban" /\ s = "deny"
                                    \/ op[p].kind = "transfer" /\ s = "unpower"
          PROVE  BanInv'
      <4>1. Spares(p)'  BY <2>0, <2>g, <3>1, <3>3 DEF Spares, Enters, ActivityRequests
      <4> QED  BY <2>g, <2>q, <3>1, <3>2, <3>3, <4>1
    <3>4. CASE Done(p)  BY <2>n, <2>q, <3>1, <3>2, <3>4
    <3> QED  BY <2>10, <3>1, <3>3, <3>4 DEF Vacate
  <2>11. CASE Seat(p)
    <3>1. /\ op[p].kind = "assign" /\ op[p].stage = "seat" /\ op[p].target \notin banned
          /\ Done(p) /\ admin' = op[p].target /\ UNCHANGED <<owner, perm, inRoom, banned>>
      BY <1>0, <2>0, <2>11, KindsAt DEF Seat, Spares, Enters
    <3>2. Unbanned' /\ Denied'  BY <1>0, <3>1 DEF Unbanned, Denied
    <3> QED  BY <2>n, <2>q, <3>1, <3>2
  <2>12. CASE TransferReads(p)
    <3>1. /\ op[p].stage = "read" /\ op[p].kind = "transfer"
          /\ UNCHANGED <<owner, admin, perm, inRoom, banned>>
      BY <2>12 DEF TransferReads
    <3>2. ASSUME NEW heir \in Heirs(op[p].who), owner = op[p].who,
                 op' = [op EXCEPT ![p].stage = HeirsSeat(heir), ![p].target = heir]
          PROVE  BanInv'
      <4>1. /\ Others(p) /\ op'[p].stage = HeirsSeat(heir) /\ op'[p].kind = "transfer"
            /\ op'[p].target = heir /\ op'[p].who = owner
        BY <1>0, <3>1, <3>2 DEF Others, Op
      <4>2. heir \notin banned /\ owner \notin banned
        BY <1>0, <2>r, <3>1, <3>2 DEF Heirs, Unbanned
      <4>3. Spares(p)'  BY <3>1, <4>1, <4>2 DEF Spares, Enters, ActivityRequests
      <4> QED  BY <2>q, <2>u, <3>1, <4>1, <4>3
    <3> QED  BY <2>12, <2>d, <3>1, <3>2 DEF TransferReads
  <2>13. CASE Crown(p)
    <3>1. /\ op[p].kind = "transfer" /\ op[p].stage = "crown" /\ op[p].target \notin banned
          /\ Done(p) /\ owner' = op[p].target /\ UNCHANGED <<admin, perm, inRoom, banned>>
      BY <1>0, <2>0, <2>13, KindsAt DEF Crown, Spares, Enters
    <3>2. Unbanned' /\ Denied'  BY <1>0, <3>1 DEF Unbanned, Denied
    <3> QED  BY <2>n, <2>q, <3>1, <3>2
  <2>14. CASE Controls(p)
    <3>1. /\ op[p].kind \in {"kick", "ban", "invite"} /\ op[p].stage = "control"
          /\ UNCHANGED <<owner, admin, perm, inRoom, banned>>
      BY <1>0, <2>14, KindsAt DEF Controls
    <3>2. ASSUME NEW s \in {"allow", "read"}, Goto(p, s), s = "allow" => op[p].kind = "invite"
          PROVE  BanInv'
      <4>1. Spares(p)'  BY <2>g, <3>1, <3>2 DEF Spares, Enters, ActivityRequests
      <4> QED  BY <2>g, <2>q, <2>u, <3>1, <3>2, <4>1
    <3> QED  BY <2>14, <2>d, <3>1, <3>2 DEF Controls
  <2>15. CASE Allow(p)
    <3>1. /\ op[p].stage = "allow" /\ Done(p) /\ banned' = banned \ {op[p].target}
          /\ perm' = [perm EXCEPT ![op[p].target] = [Blank EXCEPT !.connect = "allow"]]
          /\ UNCHANGED <<owner, admin, inRoom>>
      BY <2>15 DEF Allow
    <3>2. Unbanned' /\ Denied'  BY <1>0, <3>1 DEF Unbanned, Denied
    <3> QED  BY <2>n, <2>q, <3>1, <3>2
  <2>16. CASE RemovalReads(p)
    <3>1. /\ op[p].kind \in {"kick", "ban"} /\ op[p].stage = "read"
          /\ UNCHANGED <<owner, admin, perm, inRoom, banned>>
      BY <2>16 DEF RemovalReads
    <3>2. ASSUME op[p].target # owner, NEW s \in {"clear", "deny"},
                 op' = [op EXCEPT ![p].stage = s, ![p].seen = op[p].target],
                 s = "clear" => SeatLost(p)
          PROVE  BanInv'
      <4>1. /\ Others(p) /\ op'[p].stage = s /\ op'[p].kind = op[p].kind
            /\ op'[p].seen = op[p].target /\ op'[p].target = op[p].target
        BY <2>s, <3>2
      <4>2. s = "clear" => op[p].kind = "ban" /\ op[p].target \notin banned
        BY <1>0, <3>2 DEF SeatLost, Unbanned
      <4>3. Spares(p)'  BY <3>1, <3>2, <4>1, <4>2 DEF Spares, Enters, ActivityRequests
      <4> QED  BY <2>q, <2>u, <3>1, <4>1, <4>3
    <3> QED  BY <2>16, <2>d, <3>1, <3>2 DEF RemovalReads
  <2>17. CASE Deny(p)
    <3>1. /\ op[p].kind \in {"kick", "ban"} /\ op[p].stage = "deny" /\ Goto(p, "moveOut")
          /\ perm' = [perm EXCEPT ![op[p].target] = [Blank EXCEPT !.connect = "deny"]]
          /\ UNCHANGED <<owner, admin, inRoom>> /\ op[p].target \in Users
      BY <1>0, <2>0, <2>17, KindsAt DEF Deny, Shape
    <3>2. perm'[op[p].target].connect = "deny" /\ \A u \in Users \ {op[p].target} : perm'[u] = perm[u]
      BY <1>0, <3>1 DEF Blank
    <3>3. Others(p) /\ op'[p].stage = "moveOut" /\ op'[p].kind = op[p].kind /\ op'[p].target = op[p].target
      BY <2>g, <3>1
    <3>4. CASE op[p].kind = "kick"
      <4>1. banned' = banned  BY <2>17, <3>4 DEF Deny
      <4>2. Unbanned' /\ Denied'  BY <1>0, <3>1, <3>2, <4>1 DEF Unbanned, Denied
      <4>3. Spares(p)'  BY <3>3, <3>4 DEF Spares, Enters, ActivityRequests
      <4> QED  BY <2>q, <3>1, <3>3, <4>1, <4>2, <4>3
    <3>5. CASE op[p].kind = "ban"
      <4>1. /\ banned' = banned \cup {op[p].target} /\ op[p].target # owner /\ op[p].target # admin
        BY <2>0, <2>17, <3>1, <3>5 DEF Deny, Spares, Knows
      <4>2. Unbanned' /\ Denied'  BY <1>0, <3>1, <3>2, <4>1 DEF Unbanned, Denied
      <4>3. Spares(p)'  BY <3>1, <3>3, <3>5, <4>1 DEF Spares, Enters, ActivityRequests
      <4>4. \A u \in inRoom' \cap banned' : Ousts(p, u)'
        BY <2>r, <3>1, <3>3, <3>5, <4>1 DEF Ousts
      <4> QED  BY <3>1, <3>3, <4>2, <4>3, <4>4, OneSpares DEF Idle
    <3> QED  BY <3>1, <3>4, <3>5
  <2>19. CASE ActivityReads(p)
    <3>1. /\ op[p].kind \in ActivityRequests /\ op[p].stage = "read"
          /\ UNCHANGED <<owner, admin, perm, inRoom, banned>>
      BY <2>19 DEF ActivityReads
    <3>2. CASE op' = [op EXCEPT ![p].stage = "get", ![p].seen = admin]
      <4>1. Others(p) /\ op'[p].stage = "get" /\ op'[p].kind = op[p].kind  BY <2>s, <3>2
      <4>2. Spares(p)'  BY <3>1, <4>1 DEF Spares, Enters, ActivityRequests
      <4> QED  BY <2>q, <2>u, <3>1, <4>1, <4>2
    <3> QED  BY <2>19, <2>d, <3>1, <3>2 DEF ActivityReads
  <2>20. CASE ActivityFetches(p)
    <3>1. /\ op[p].kind \in ActivityRequests \ {"aban"} /\ op[p].stage = "get" /\ op[p].seen = admin
          /\ UNCHANGED <<owner, admin, perm, inRoom, banned>>
      BY <1>0, <2>0, <2>20, KindsAt DEF ActivityFetches, ActivityRequests, Knows
    <3>2. ASSUME NewAdmin(p) # NoUser => NewAdmin(p) \in inRoom,
                 op' = [op EXCEPT ![p].stage = "patch",
                                  ![p].list = WithAdmin(WithoutAdmin(perm, op[p].seen), NewAdmin(p))]
          PROVE  BanInv'
      <4>1. /\ Others(p) /\ op'[p].stage = "patch" /\ op'[p].kind = op[p].kind
            /\ op'[p].who = op[p].who /\ op'[p].target = op[p].target
            /\ op'[p].list = WithAdmin(WithoutAdmin(perm, op[p].seen), NewAdmin(p))
        BY <1>0, <3>2 DEF Others, Op
      <4>2. NewAdmin(p)' = NewAdmin(p)  BY <4>1 DEF NewAdmin
      <4>3. \A u \in banned : u # NewAdmin(p) => op'[p].list[u].connect = "deny"
        BY <1>0, <3>1, <4>1 DEF WithAdmin, WithoutAdmin, Denied, Unbanned
      <4>4. op[p].kind = "aclaim" => op[p].who \notin banned
        BY <2>0, <2>r, <3>1, <3>2 DEF NewAdmin
      <4>5. Spares(p)'  BY <3>1, <4>1, <4>2, <4>3, <4>4 DEF Spares, Enters, ActivityRequests
      <4> QED  BY <2>q, <2>u, <3>1, <4>1, <4>5
    <3> QED  BY <2>20, <2>d, <3>1, <3>2 DEF ActivityFetches
  <2>21. CASE ActivityPatches(p)
    <3>1. /\ op[p].kind \in ActivityRequests \ {"aban"} /\ op[p].stage = "patch"
          /\ UNCHANGED <<owner, admin, inRoom>> /\ perm' = op[p].list /\ Goto(p, "update")
      BY <1>0, <2>0, <2>21, KindsAt DEF ActivityPatches, ActivityRequests
    <3>2. banned' \in SUBSET banned /\ (op[p].kind = "aassign" => NewAdmin(p) \notin banned')
          /\ NewAdmin(p) \notin banned'
      BY <1>0, <2>0, <2>21, <3>1 DEF ActivityPatches, Spares, Enters, NewAdmin, ActivityRequests
    <3>3. Unbanned' /\ Denied'
      BY <1>0, <2>0, <3>1, <3>2 DEF Unbanned, Denied, Spares
    <3>4. NewAdmin(p)' = NewAdmin(p) /\ op'[p].stage = "update" /\ op'[p].kind = op[p].kind
          /\ op'[p].who = op[p].who /\ Others(p)
      BY <2>g, <3>1 DEF NewAdmin
    <3>5. Spares(p)'
      BY <3>1, <3>2, <3>4 DEF Spares, Enters, ActivityRequests, NewAdmin
    <3> QED  BY <2>q, <3>1, <3>2, <3>3, <3>4, <3>5
  <2>22. CASE ActivityUpdates(p)
    <3>1. /\ op[p].kind \in ActivityRequests \ {"aban"} /\ op[p].stage = "update" /\ Done(p)
          /\ admin' = NewAdmin(p) /\ UNCHANGED <<owner, perm, inRoom, banned>>
      BY <1>0, <2>0, <2>22, KindsAt DEF ActivityUpdates
    <3>2. NewAdmin(p) \notin banned
      BY <1>0, <2>0, <3>1 DEF Spares, Enters, NewAdmin, ActivityRequests
    <3>3. Unbanned' /\ Denied'  BY <1>0, <3>1, <3>2 DEF Unbanned, Denied
    <3> QED  BY <2>n, <2>q, <3>1, <3>3
  <2> QED
    BY <1>7, <2>1, <2>2, <2>3, <2>4, <2>5, <2>6, <2>7, <2>8, <2>9, <2>10, <2>11, <2>12, <2>13,
       <2>14, <2>15, <2>16, <2>17, <2>19, <2>20, <2>21, <2>22 DEF Step
<1>8. ASSUME UNCHANGED vars  PROVE BanInv'
  <2>1. \A p \in Procs : Spares(p)'  BY <1>0, <1>8 DEF vars, Spares, Enters, NewAdmin, Is
  <2> QED  BY <1>0, <1>8, <2>1 DEF vars, BanInv, Denied, Unbanned, Ousts
<1> QED  BY <1>2, <1>3, <1>4, <1>5, <1>6, <1>7, <1>8 DEF Next, Raises

LEMMA InitBan == Init => BanInv
<1> SUFFICES ASSUME Init  PROVE BanInv
  OBVIOUS
<1>1. \A p \in Procs : Spares(p)  BY DEF Init, Spares, Enters, NoOp, ActivityRequests
<1>2. banned = {}  BY DEF Init
<1> QED  BY <1>1, <1>2, InitPower DEF BanInv, Denied, Unbanned

\* One operation at a time, as long as no call to Discord fails and nobody bans from the Activity,
\* a ban stands until the member is invited or made admin: claims, handovers and requests of the
\* Activity, which write the whole list of overwrites, leave it.
THEOREM BansKept ==
  ASSUME Serial, ~Fallible, "aban" \notin Kinds
  PROVE  Spec => []BanStands
<1>1. BanInv /\ [Next]_vars => BanInv'
  BY NextBan, NextPower, NextSeat, NextAlone, NextFormed DEF BanInv, PowerInv, SeatInv
<1>2. BanInv => BanStands  BY DEF BanInv, BanStands, Denied
<1> QED  BY InitBan, <1>1, <1>2, PTL DEF Spec
=============================================================================

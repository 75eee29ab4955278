--------------------------- MODULE SharedTablesProofs ---------------------------
(***************************************************************************)
(* What holds of the tables that the bot and the Activity write together:    *)
(* of the labelling and the review desk for any users, messages, labels and *)
(* number of calls at once, and of the alerts of creators for any members,  *)
(* streams, bounds and interval.                                            *)
(***************************************************************************)
EXTENDS CreatorAlerts, Sequences, TLAPS

CONSTANTS Actions, Requesters, MaxRevision, Accounts, Owner, Messages, Labels, Callers

VARIABLES events, decided, items, saves, history, core, past, trusted, roles, labels, log, commands

Desk == INSTANCE ReviewDesk WITH Users <- Accounts, jobs <- commands
Register == INSTANCE ReviewRegister WITH Users <- Accounts, rows <- past, audit <- history, reported <- core

-----------------------------------------------------------------------------
(* The labelling.                                                           *)

\* Whoever is about to audit has done what he will write; only his own label can be revoked, so that
\* nobody undoes it in between except by a request that agrees with it.
Pending(c) == Desk!At(c, "audit") => Desk!Done(commands[c].request)
LabelInv == Desk!LabelTypeOK /\ Desk!AuditIsTrue /\ \A c \in Callers : Pending(c)

LEMMA LabelKinds ==
    /\ \A l \in Desk!Label : l # Desk!NoLabel
    /\ \A j \in Desk!Job : j # Desk!Idle => j \in [stage : Desk!Stages, request : Desk!Requests]
    /\ \A j \in Desk!Job : j.stage # "idle" => j \in [stage : Desk!Stages, request : Desk!Requests]
    /\ \A r \in Desk!LabelRequests : r.key \in Desk!Keys /\ r.actor \in Accounts /\ r.kind \in {"label", "revoke"}
    /\ \A r \in Desk!RoleRequests : r.user \in Accounts /\ r.role \in Desk!Roles
    /\ \A r \in Desk!TrustRequests : r.enabled \in BOOLEAN
BY DEF Desk!Label, Desk!NoLabel, Desk!Job, Desk!Idle, Desk!LabelRequests, Desk!RoleRequests, Desk!TrustRequests

\* A job goes on with its own request, or ends.
LEMMA JobsTyped ==
    ASSUME Desk!LabelTypeOK, NEW c \in Callers
    PROVE  /\ Desk!Leave(c) => commands' \in [Callers -> Desk!Job]
           /\ \A s \in Desk!Stages : ~Desk!At(c, "idle") /\ Desk!Goto(c, s) => commands' \in [Callers -> Desk!Job]
<1>1. commands \in [Callers -> Desk!Job]  BY DEF Desk!LabelTypeOK
<1>2. Desk!Idle \in Desk!Job  BY DEF Desk!Job
<1>3. ASSUME NEW s \in Desk!Stages, ~Desk!At(c, "idle"), Desk!Goto(c, s)
      PROVE  commands' \in [Callers -> Desk!Job]
  <2>1. commands[c].request \in Desk!Requests  BY <1>1, <1>3, LabelKinds DEF Desk!At
  <2>2. [stage |-> s, request |-> commands[c].request] \in Desk!Job  BY <2>1 DEF Desk!Job
  <2> QED  BY <1>1, <1>3, <2>2 DEF Desk!Goto
<1>4. Desk!Leave(c) => commands' \in [Callers -> Desk!Job]  BY <1>1, <1>2 DEF Desk!Leave
<1> QED  BY <1>3, <1>4

LEMMA LabelTypeStep ==
    ASSUME Desk!LabelTypeOK, NEW c \in Callers, Desk!LabelStep(c)
    PROVE  Desk!LabelTypeOK'
<1> USE DEF Desk!Stages
<1>1. ASSUME NEW r \in Desk!Requests, Desk!Ask(c, r)  PROVE Desk!LabelTypeOK'
  <2>1. /\ [stage |-> "write", request |-> r] \in Desk!Job
        /\ [stage |-> "trusted", request |-> r] \in Desk!Job
    BY DEF Desk!Job
  <2> QED  BY <1>1, <2>1 DEF Desk!Ask, Desk!LabelTypeOK
<1>2. CASE Desk!IsTrusted(c)  BY <1>2, JobsTyped DEF Desk!IsTrusted, Desk!At, Desk!LabelTypeOK
<1>3. CASE Desk!CanManage(c)  BY <1>3, JobsTyped DEF Desk!CanManage, Desk!At, Desk!LabelTypeOK
<1>4. CASE Desk!CanLabel(c)  BY <1>4, JobsTyped DEF Desk!CanLabel, Desk!At, Desk!LabelTypeOK
<1>5. CASE Desk!SetTrusted(c)  BY <1>5, JobsTyped, LabelKinds DEF Desk!SetTrusted, Desk!At, Desk!LabelTypeOK
<1>6. CASE Desk!SetRole(c)
  <2>1. <<commands[c].request.user, commands[c].request.role>> \in Accounts \X Desk!Roles  BY <1>6, LabelKinds DEF Desk!SetRole
  <2>2. roles' \subseteq Accounts \X Desk!Roles  BY <1>6, <2>1 DEF Desk!SetRole, Desk!LabelTypeOK
  <2> QED  BY <1>6, <2>2, JobsTyped DEF Desk!SetRole, Desk!At, Desk!LabelTypeOK
<1>7. CASE Desk!CreateLabel(c)
  <2>1. [by |-> commands[c].request.actor, status |-> "ACTIVE"] \in Desk!Label  BY <1>7, LabelKinds DEF Desk!CreateLabel, Desk!Label
  <2> QED  BY <1>7, <2>1, JobsTyped DEF Desk!CreateLabel, Desk!At, Desk!LabelTypeOK
<1>8. CASE Desk!RevokeLabel(c)
  <2>1. [by |-> commands[c].request.actor, status |-> "REVOKED"] \in Desk!Label  BY <1>8, LabelKinds DEF Desk!RevokeLabel, Desk!Label
  <2> QED  BY <1>8, <2>1, JobsTyped DEF Desk!RevokeLabel, Desk!At, Desk!LabelTypeOK
<1>9. CASE Desk!Audit(c)
  <2>1. commands[c].request \in Desk!Requests  BY <1>9, LabelKinds DEF Desk!Audit, Desk!At, Desk!LabelTypeOK
  <2> QED  BY <1>9, <2>1, JobsTyped DEF Desk!Audit, Desk!LabelTypeOK
<1>10. CASE Desk!Broken(c)  BY <1>10, JobsTyped DEF Desk!Broken, Desk!LabelTypeOK
<1> QED  BY <1>1, <1>2, <1>3, <1>4, <1>5, <1>6, <1>7, <1>8, <1>9, <1>10 DEF Desk!LabelStep

\* A row stays, its author too, and a revoked one is never active again.
Stay == \A k \in Desk!Keys : labels[k] # Desk!NoLabel =>
            /\ labels'[k] # Desk!NoLabel /\ labels'[k].by = labels[k].by
            /\ labels[k].status = "REVOKED" => labels'[k].status = "REVOKED"

LEMMA LabelsStay ==
    ASSUME Desk!LabelTypeOK, NEW c \in Callers, Desk!LabelStep(c)
    PROVE  Stay
<1>1. labels \in [Desk!Keys -> Desk!Label \cup {Desk!NoLabel}]  BY DEF Desk!LabelTypeOK
<1>2. CASE UNCHANGED labels  BY <1>2 DEF Stay
<1>3. CASE Desk!CreateLabel(c)
  BY <1>1, <1>3, LabelKinds DEF Desk!CreateLabel, Stay, Desk!NoLabel
<1>4. CASE Desk!RevokeLabel(c)
  BY <1>1, <1>4, LabelKinds DEF Desk!RevokeLabel, Desk!Revocable, Stay, Desk!NoLabel
<1> QED
  BY <1>2, <1>3, <1>4
  DEF Desk!LabelStep, Desk!Ask, Desk!IsTrusted, Desk!CanManage, Desk!CanLabel, Desk!SetTrusted, Desk!SetRole, Desk!Audit, Desk!Broken

LEMMA DoneStays ==
    ASSUME Desk!LabelTypeOK, Stay, NEW r \in Desk!Requests, Desk!Done(r)
    PROVE  Desk!Done(r)'
BY LabelKinds DEF Desk!Done, Stay

LEMMA PendingStep ==
    ASSUME LabelInv, NEW c \in Callers, Desk!LabelStep(c), NEW d \in Callers
    PROVE  Pending(d)'
<1>1. Desk!LabelTypeOK /\ Stay  BY LabelsStay DEF LabelInv
<1>2. commands \in [Callers -> Desk!Job]  BY <1>1 DEF Desk!LabelTypeOK
<1>3. CASE commands'[d] = commands[d]
  <2>1. Desk!At(d, "audit") => commands[d].request \in Desk!Requests  BY <1>2, LabelKinds DEF Desk!At
  <2> QED  BY <1>1, <1>3, <2>1, DoneStays DEF Pending, Desk!At, LabelInv, Desk!Done
<1>4. CASE Desk!CreateLabel(c) /\ d = c
  <2>1. commands[c].request \in Desk!LabelRequests /\ commands[c].request.kind = "label"  BY <1>4 DEF Desk!CreateLabel
  <2>2. labels \in [Desk!Keys -> Desk!Label \cup {Desk!NoLabel}] /\ commands[c].request.key \in Desk!Keys  BY <1>1, <2>1, LabelKinds DEF Desk!LabelTypeOK
  <2>3. CASE labels[commands[c].request.key] = Desk!NoLabel
    <3>1. commands'[c] = [stage |-> "audit", request |-> commands[c].request]  BY <1>2, <1>4, <2>3 DEF Desk!CreateLabel, Desk!Goto
    <3>2. labels'[commands[c].request.key] = [by |-> commands[c].request.actor, status |-> "ACTIVE"]
      BY <1>4, <2>2, <2>3 DEF Desk!CreateLabel
    <3> QED  BY <1>4, <2>1, <3>1, <3>2 DEF Pending, Desk!Done, Desk!NoLabel
  <2>4. CASE labels[commands[c].request.key] # Desk!NoLabel
    BY <1>2, <1>4, <2>4 DEF Desk!CreateLabel, Desk!Leave, Pending, Desk!At, Desk!Idle
  <2> QED  BY <2>3, <2>4
<1>5. CASE Desk!RevokeLabel(c) /\ d = c
  <2>1. commands[c].request \in Desk!LabelRequests  BY <1>5 DEF Desk!RevokeLabel
  <2>2. labels \in [Desk!Keys -> Desk!Label \cup {Desk!NoLabel}] /\ commands[c].request.key \in Desk!Keys  BY <1>1, <2>1, LabelKinds DEF Desk!LabelTypeOK
  <2>3. CASE Desk!Revocable(commands[c].request)
    <3>1. commands'[c] = [stage |-> "audit", request |-> commands[c].request]  BY <1>2, <1>5, <2>3 DEF Desk!RevokeLabel, Desk!Goto
    <3>2. labels'[commands[c].request.key] = [by |-> commands[c].request.actor, status |-> "REVOKED"]
      BY <1>5, <2>2, <2>3 DEF Desk!RevokeLabel
    <3> QED  BY <1>5, <2>1, <3>1, <3>2 DEF Pending, Desk!Done, Desk!NoLabel
  <2>4. CASE ~Desk!Revocable(commands[c].request)
    BY <1>2, <1>5, <2>4 DEF Desk!RevokeLabel, Desk!Leave, Pending, Desk!At, Desk!Idle
  <2> QED  BY <2>3, <2>4
<1>6. CASE (Desk!SetTrusted(c) \/ Desk!SetRole(c)) /\ d = c
  <2>1. commands'[c] = [stage |-> "audit", request |-> commands[c].request] /\ commands[c].request \notin Desk!LabelRequests
    BY <1>2, <1>6 DEF Desk!SetTrusted, Desk!SetRole, Desk!Goto, Desk!TrustRequests, Desk!RoleRequests, Desk!LabelRequests
  <2> QED  BY <1>6, <2>1 DEF Pending, Desk!Done
<1>7. CASE d = c /\ ~(Desk!CreateLabel(c) \/ Desk!RevokeLabel(c) \/ Desk!SetTrusted(c) \/ Desk!SetRole(c))
  BY <1>2, <1>7
  DEF Desk!LabelStep, Desk!Ask, Desk!IsTrusted, Desk!CanManage, Desk!CanLabel, Desk!Audit, Desk!Broken, Desk!Goto, Desk!Leave, Pending, Desk!At, Desk!Idle
<1>8. CASE d # c
  BY <1>2, <1>3, <1>8
  DEF Desk!LabelStep, Desk!Ask, Desk!IsTrusted, Desk!CanManage, Desk!CanLabel, Desk!SetTrusted, Desk!SetRole, Desk!CreateLabel, Desk!RevokeLabel, Desk!Audit,
      Desk!Broken, Desk!Goto, Desk!Leave
<1> QED  BY <1>4, <1>5, <1>6, <1>7, <1>8

LEMMA LabelInvStep == LabelInv /\ [Desk!LabelNext]_(Desk!labelVars) => LabelInv'
<1> SUFFICES ASSUME LabelInv, [Desk!LabelNext]_(Desk!labelVars)  PROVE LabelInv'  OBVIOUS
<1>1. CASE UNCHANGED Desk!labelVars
  BY <1>1 DEF Desk!labelVars, LabelInv, Desk!LabelTypeOK, Desk!AuditIsTrue, Desk!Done, Pending, Desk!At
<1>2. ASSUME NEW c \in Callers, Desk!LabelStep(c)  PROVE LabelInv'
  <2>1. Desk!LabelTypeOK' /\ Stay  BY <1>2, LabelTypeStep, LabelsStay DEF LabelInv
  <2>2. \A d \in Callers : Pending(d)'  BY <1>2, PendingStep
  <2>3. ASSUME NEW r \in log'  PROVE Desk!Done(r)'
    <3>1. CASE r \in log  BY <2>1, <3>1, DoneStays DEF LabelInv, Desk!LabelTypeOK, Desk!AuditIsTrue
    <3>2. CASE r \notin log
      <4>1. Desk!Audit(c) /\ r = commands[c].request
        BY <1>2, <2>3, <3>2
        DEF Desk!LabelStep, Desk!Ask, Desk!IsTrusted, Desk!CanManage, Desk!CanLabel, Desk!SetTrusted, Desk!SetRole, Desk!CreateLabel, Desk!RevokeLabel,
            Desk!Audit, Desk!Broken
      <4>2. Desk!Done(r)  BY <4>1 DEF LabelInv, Pending, Desk!Audit
      <4>3. r \in Desk!Requests  BY <2>1, <2>3 DEF Desk!LabelTypeOK
      <4> QED  BY <2>1, <4>2, <4>3, DoneStays DEF LabelInv
    <3> QED  BY <3>1, <3>2
  <2> QED  BY <2>1, <2>2, <2>3 DEF LabelInv, Desk!AuditIsTrue
<1> QED  BY <1>1, <1>2 DEF Desk!LabelNext

LEMMA LabelInvInit == Desk!LabelInit => LabelInv
<1> SUFFICES ASSUME Desk!LabelInit  PROVE LabelInv  OBVIOUS
<1>1. Desk!LabelTypeOK  BY DEF Desk!LabelInit, Desk!LabelTypeOK, Desk!Job
<1>2. \A c \in Callers : commands[c].stage = "idle"  BY DEF Desk!LabelInit, Desk!Idle
<1> QED  BY <1>1, <1>2 DEF Desk!LabelInit, LabelInv, Desk!AuditIsTrue, Pending, Desk!At

\* The audit of the labelling is true, whoever interleaves.
THEOREM LabelAudit == Desk!LabelSpec => []Desk!AuditIsTrue
<1>1. LabelInv => Desk!AuditIsTrue  BY DEF LabelInv
<1> QED  BY <1>1, LabelInvInit, LabelInvStep, PTL DEF Desk!LabelSpec

\* A revoked label is never given again.
THEOREM Revocation == Desk!LabelSpec => Desk!RevokedForGood
<1>1. ASSUME LabelInv, [Desk!LabelNext]_(Desk!labelVars)
      PROVE  [Stay]_(Desk!labelVars)
  <2>1. CASE UNCHANGED Desk!labelVars  BY <2>1
  <2>2. ASSUME NEW c \in Callers, Desk!LabelStep(c)  PROVE Stay  BY <1>1, <2>2, LabelsStay DEF LabelInv
  <2> QED  BY <1>1, <2>1, <2>2 DEF Desk!LabelNext
<1>2. [Stay]_(Desk!labelVars) => [\A k \in Desk!Keys : labels[k] # Desk!NoLabel =>
            /\ labels'[k] # Desk!NoLabel /\ labels'[k].by = labels[k].by
            /\ labels[k].status = "REVOKED" => labels'[k].status = "REVOKED"]_(Desk!labelVars)
  BY DEF Stay
<1> QED  BY <1>1, <1>2, LabelInvInit, LabelInvStep, PTL DEF Desk!LabelSpec, Desk!RevokedForGood

-----------------------------------------------------------------------------
(* The desk.                                                                *)

\* A save that has read its item: as long as nobody has written, the row it read is the item; once
\* it has written, its revision is past, and no audit has it yet.
Payloads(q) == saves[q].payload
Current(q) ==
    LET m == Payloads(q).message
    IN /\ saves[q].row \in Desk!Item /\ items[m] \in Desk!Item
       /\ saves[q].row.revision = Payloads(q).revision /\ Payloads(q).revision <= items[m].revision
       /\ items[m].revision = Payloads(q).revision => items[m] = saves[q].row
SavedOnce(q) ==
    LET m == Payloads(q).message
    IN /\ saves[q].row \in Desk!Item /\ items[m] \in Desk!Item /\ Payloads(q).revision < items[m].revision
       /\ \A h \in history : ~(h.payload.message = m /\ h.payload.revision = Payloads(q).revision)
Saving(q) ==
    /\ Desk!In(q, "tell") => Current(q)
    /\ Desk!In(q, "write") => Current(q)
    /\ Desk!In(q, "write") /\ Payloads(q).status = "RESOLVED" => Desk!Told(Payloads(q).message, Payloads(q).revision)
    /\ Desk!In(q, "audit") => SavedOnce(q)
OneSaves ==
    \A p, q \in Requesters :
        Desk!In(p, "audit") /\ Desk!In(q, "audit") /\ Payloads(p).message = Payloads(q).message
            /\ Payloads(p).revision = Payloads(q).revision => p = q
Past == \A h \in history : LET m == h.payload.message
                           IN items[m] \in Desk!Item /\ h.payload.revision < items[m].revision
DeskInv ==
    /\ Desk!TypeOK /\ Desk!OneCorrectionPerRevision /\ Desk!ResolvedIsTold
    /\ OneSaves /\ Past /\ \A q \in Requesters : Saving(q)

LEMMA DeskKinds ==
    /\ Desk!NoItem \notin Desk!Item
    /\ \A i \in Desk!Item : i.action \in Actions /\ i.status \in Desk!Status /\ i.revision \in Nat
    /\ \A t \in Desk!Save : t.stage # "idle" => t \in [stage : Desk!SaveStages, payload : Desk!Payload, row : Desk!Item \cup {Desk!NoItem}]
    /\ \A p \in Desk!Payload : /\ p.actor \in Accounts /\ p.message \in Messages /\ p.revision \in Nat
                          /\ p.action \in Actions /\ p.status \in Desk!Status
    /\ Desk!Idle \in Desk!Save /\ Desk!Idle.stage = "idle"
BY DEF Desk!NoItem, Desk!Item, Desk!Status, Desk!Save, Desk!Idle, Desk!Payload

LEMMA NewIsItem == \A a \in Actions : Desk!New(a) \in Desk!Item /\ Desk!New(a).status = "OPEN"
BY DEF Desk!New, Desk!Item, Desk!Status

\* A save goes on with its payload and its row, or ends.
LEMMA SavesTyped ==
    ASSUME saves \in [Requesters -> Desk!Save], NEW q \in Requesters
    PROVE  /\ Desk!Out(q) => saves' \in [Requesters -> Desk!Save]
           /\ \A s \in Desk!SaveStages : ~Desk!In(q, "idle") /\ Desk!Onto(q, s) => saves' \in [Requesters -> Desk!Save]
<1>1. ASSUME NEW s \in Desk!SaveStages, ~Desk!In(q, "idle"), Desk!Onto(q, s)
      PROVE  saves' \in [Requesters -> Desk!Save]
  <2>1. saves[q].payload \in Desk!Payload /\ saves[q].row \in Desk!Item \cup {Desk!NoItem}  BY <1>1, DeskKinds DEF Desk!In
  <2>2. [stage |-> s, payload |-> saves[q].payload, row |-> saves[q].row] \in Desk!Save  BY <2>1 DEF Desk!Save
  <2> QED  BY <1>1, <2>2 DEF Desk!Onto
<1>2. Desk!Out(q) => saves' \in [Requesters -> Desk!Save]  BY DeskKinds DEF Desk!Out
<1> QED  BY <1>1, <1>2

LEMMA WrittenIsItem ==
    \A p \in Desk!Payload : Desk!Written(p) \in Desk!Item /\ Desk!Written(p).revision = p.revision + 1 /\ Desk!Written(p).status = p.status
BY DeskKinds DEF Desk!Written, Desk!Item

LEMMA TypeStep ==
    ASSUME Desk!TypeOK, Desk!DeskStep, \A q \in Requesters : Saving(q)
    PROVE  Desk!TypeOK'
<1> USE DEF Desk!SaveStages
<1>0. saves \in [Requesters -> Desk!Save]  BY DEF Desk!TypeOK
<1>1. ASSUME NEW m \in Messages, NEW a \in Actions, Desk!Record(m, a)  PROVE Desk!TypeOK'
  BY <1>1 DEF Desk!Record, Desk!TypeOK
<1>2. ASSUME NEW m \in Messages, Desk!Enqueue(m)  PROVE Desk!TypeOK'
  <2>1. decided[m] \in Actions  BY <1>2 DEF Desk!Enqueue, Desk!TypeOK
  <2> QED  BY <1>2, <2>1, NewIsItem DEF Desk!Enqueue, Desk!TypeOK
<1>3. CASE Desk!Backfill  BY <1>3, NewIsItem DEF Desk!Backfill, Desk!TypeOK
<1>4. ASSUME NEW q \in Requesters, Desk!SaveStep(q)  PROVE Desk!TypeOK'
  <2>1. ASSUME NEW u \in Accounts, NEW m \in Messages, NEW r \in 1..MaxRevision, NEW a \in Actions, NEW s \in Desk!Status,
               Desk!Begin(q, u, m, r, a, s)
        PROVE  Desk!TypeOK'
    <3>1. r \in Nat
      OBVIOUS
    <3>2. [stage |-> "access", row |-> Desk!NoItem,
           payload |-> [actor |-> u, message |-> m, revision |-> r, action |-> a, status |-> s]] \in Desk!Save
      BY <3>1 DEF Desk!Save, Desk!Payload
    <3> QED  BY <1>0, <2>1, <3>2 DEF Desk!Begin, Desk!TypeOK
  <2>2. CASE Desk!Access(q)  BY <1>0, <2>2, SavesTyped DEF Desk!Access, Desk!In, Desk!TypeOK
  <2>3. CASE Desk!HasRole(q)  BY <1>0, <2>3, SavesTyped DEF Desk!HasRole, Desk!In, Desk!TypeOK
  <2>4. CASE Desk!Read(q)
    <3>1. saves[q].payload \in Desk!Payload  BY <1>0, <2>4, DeskKinds DEF Desk!Read, Desk!In
    <3>2. items[saves[q].payload.message] \in Desk!Item \cup {Desk!NoItem}  BY <3>1, DeskKinds DEF Desk!TypeOK
    <3>3. \A s \in {"tell", "write"} :
             [stage |-> s, payload |-> saves[q].payload, row |-> items[saves[q].payload.message]] \in Desk!Save
      BY <3>1, <3>2 DEF Desk!Save
    <3> QED  BY <1>0, <2>4, <3>3, SavesTyped DEF Desk!Read, Desk!TypeOK
  <2>5. CASE Desk!Tell(q)
    <3>1. saves[q].payload \in Desk!Payload  BY <1>0, <2>5, DeskKinds DEF Desk!Tell, Desk!In
    <3>2. Desk!FeedbackOf(saves[q].payload) \in Desk!Feedback  BY <3>1, DeskKinds DEF Desk!FeedbackOf, Desk!Feedback
    <3>3. core' \subseteq Desk!Feedback  BY <2>5, <3>2 DEF Desk!Tell, Desk!Kept, Desk!TypeOK
    <3> QED  BY <1>0, <2>5, <3>3, SavesTyped DEF Desk!Tell, Desk!In, Desk!TypeOK
  <2>6. CASE Desk!Write(q)
    <3>1. saves[q].payload \in Desk!Payload  BY <1>0, <2>6, DeskKinds DEF Desk!Write, Desk!In
    <3>2. items' \in [Messages -> Desk!Item \cup {Desk!NoItem}]  BY <2>6, <3>1, WrittenIsItem DEF Desk!Write, Desk!TypeOK
    <3> QED  BY <1>0, <2>6, <3>2, SavesTyped DEF Desk!Write, Desk!In, Desk!TypeOK
  <2>7. CASE Desk!WriteAudit(q) /\ saves[q].row \in Desk!Item
    <3>1. saves[q].payload \in Desk!Payload  BY <1>0, <2>7, DeskKinds DEF Desk!WriteAudit, Desk!In
    <3>2. [payload |-> saves[q].payload, before |-> saves[q].row] \in Desk!Correction  BY <2>7, <3>1 DEF Desk!Correction
    <3> QED  BY <1>0, <2>7, <3>2, SavesTyped DEF Desk!WriteAudit, Desk!TypeOK
  <2>8. CASE Desk!Ends(q)  BY <1>0, <2>8, SavesTyped DEF Desk!Ends, Desk!TypeOK
  <2>9. Desk!WriteAudit(q) => saves[q].row \in Desk!Item  BY DEF Desk!WriteAudit, Saving, SavedOnce
  <2> QED  BY <1>4, <2>1, <2>2, <2>3, <2>4, <2>5, <2>6, <2>7, <2>8, <2>9 DEF Desk!SaveStep
<1> QED  BY <1>1, <1>2, <1>3, <1>4 DEF Desk!DeskStep

\* An item changes together with its revision, which grows; feedback stays.
Grow == /\ \A m \in Messages : items[m] \in Desk!Item =>
               /\ items'[m] \in Desk!Item /\ items[m].revision <= items'[m].revision
               /\ items'[m].revision = items[m].revision => items'[m] = items[m]
        /\ core \subseteq core'

LEMMA DeskGrows ==
    ASSUME Desk!TypeOK, Desk!DeskStep
    PROVE  Grow
<1>0. \A i \in Desk!Item : i.revision <= i.revision  BY DeskKinds
<1>1. CASE UNCHANGED <<items, core>>  BY <1>0, <1>1 DEF Grow
<1>2. ASSUME NEW m \in Messages, Desk!Enqueue(m)  PROVE Grow
  BY <1>0, <1>2, DeskKinds DEF Desk!Enqueue, Grow, Desk!TypeOK
<1>3. CASE Desk!Backfill  BY <1>0, <1>3, DeskKinds DEF Desk!Backfill, Grow, Desk!TypeOK
<1>4. ASSUME NEW q \in Requesters, Desk!Tell(q)  PROVE Grow
  BY <1>0, <1>4 DEF Desk!Tell, Desk!Kept, Grow
<1>5. ASSUME NEW q \in Requesters, Desk!Write(q)  PROVE Grow
  <2>1. Payloads(q) \in Desk!Payload  BY <1>5, DeskKinds DEF Desk!Write, Desk!In, Desk!TypeOK, Payloads
  <2>2. CASE UNCHANGED items  BY <1>0, <1>5, <2>2 DEF Desk!Write, Grow
  <2>3. CASE /\ items[Payloads(q).message].revision = Payloads(q).revision
             /\ items' = [items EXCEPT ![Payloads(q).message] = Desk!Written(Payloads(q))]
    BY <1>0, <1>5, <2>1, <2>3, WrittenIsItem, DeskKinds DEF Desk!Write, Grow, Desk!TypeOK
  <2> QED  BY <1>5, <2>2, <2>3 DEF Desk!Write, Payloads
<1> QED
  BY <1>1, <1>2, <1>3, <1>4, <1>5
  DEF Desk!DeskStep, Desk!SaveStep, Desk!Record, Desk!Begin, Desk!Access, Desk!HasRole, Desk!Read, Desk!WriteAudit, Desk!Ends

LEMMA ToldStays == ASSUME Grow, NEW m, NEW r, Desk!Told(m, r)  PROVE Desk!Told(m, r)'
BY DEF Grow, Desk!Told

\* What a save knows of its item stays true while others step.
LEMMA CurrentStays ==
    ASSUME Desk!TypeOK, Grow, NEW q \in Requesters, saves'[q] = saves[q], Payloads(q) \in Desk!Payload, Current(q)
    PROVE  Current(q)'
<1> DEFINE m == Payloads(q).message
<1>1. m \in Messages /\ Payloads(q).revision \in Nat /\ Payloads(q)' = Payloads(q)  BY DeskKinds DEF Payloads
<1>2. items[m] \in Desk!Item /\ items[m].revision \in Nat  BY DeskKinds DEF Current
<1>3. items'[m] \in Desk!Item /\ items'[m].revision \in Nat  BY <1>1, <1>2, DeskKinds DEF Grow
<1>4. items[m].revision <= items'[m].revision /\ (items'[m].revision = items[m].revision => items'[m] = items[m])
  BY <1>1, <1>2 DEF Grow
<1>5. /\ saves[q].row \in Desk!Item /\ saves[q].row.revision = Payloads(q).revision
      /\ Payloads(q).revision <= items[m].revision
      /\ items[m].revision = Payloads(q).revision => items[m] = saves[q].row
  BY DEF Current
<1>6. /\ Payloads(q).revision <= items'[m].revision
      /\ items'[m].revision = Payloads(q).revision => items'[m] = saves[q].row
  <2> HIDE DEF m
  <2> QED  BY <1>1, <1>2, <1>3, <1>4, <1>5
<1> QED  BY <1>1, <1>3, <1>5, <1>6 DEF Current

LEMMA SavingStays ==
    ASSUME Desk!TypeOK, Grow, NEW q \in Requesters, saves'[q] = saves[q], Saving(q),
           Desk!In(q, "audit") => \A h \in history' \ history :
               ~(h.payload.message = Payloads(q).message /\ h.payload.revision = Payloads(q).revision)
    PROVE  Saving(q)'
<1>1. ~Desk!In(q, "idle") => Payloads(q) \in Desk!Payload  BY DeskKinds DEF Desk!In, Payloads, Desk!TypeOK
<1>2. /\ Payloads(q)' = Payloads(q)
      /\ Desk!In(q, "tell")' = Desk!In(q, "tell") /\ Desk!In(q, "write")' = Desk!In(q, "write") /\ Desk!In(q, "audit")' = Desk!In(q, "audit")
  BY DEF Payloads, Desk!In
<1>3. Desk!In(q, "tell") \/ Desk!In(q, "write") => Current(q)'  BY <1>1, CurrentStays DEF Saving, Desk!In
<1>4. ASSUME Desk!In(q, "audit")  PROVE SavedOnce(q)'
  <2> DEFINE m == Payloads(q).message
  <2>1. m \in Messages /\ Payloads(q).revision \in Nat  BY <1>1, <1>4, DeskKinds DEF Desk!In
  <2>2. items[m] \in Desk!Item /\ saves[q].row \in Desk!Item /\ Payloads(q).revision < items[m].revision
    BY <1>4 DEF Saving, SavedOnce
  <2>3. items'[m] \in Desk!Item /\ items[m].revision <= items'[m].revision  BY <2>1, <2>2 DEF Grow
  <2>4. Payloads(q).revision < items'[m].revision  BY <2>1, <2>2, <2>3, DeskKinds
  <2> QED  BY <1>2, <1>4, <2>2, <2>3, <2>4 DEF Saving, SavedOnce
<1>5. Desk!In(q, "write") /\ Payloads(q).status = "RESOLVED" =>
          \E f \in core' : f.message = Payloads(q).message /\ f.revision = Payloads(q).revision
  BY DEF Saving, Desk!Told, Grow
<1>6. (Desk!In(q, "write") /\ Payloads(q).status = "RESOLVED" => Desk!Told(Payloads(q).message, Payloads(q).revision))'
  BY <1>2, <1>5 DEF Desk!Told
<1>7. (Desk!In(q, "tell") => Current(q))' /\ (Desk!In(q, "write") => Current(q))' /\ (Desk!In(q, "audit") => SavedOnce(q))'
  BY <1>2, <1>3, <1>4
<1> QED  BY <1>6, <1>7 DEF Saving

\* Outside of the four stages nothing is claimed of a save.
LEMMA Unclaimed == ASSUME NEW q, saves'[q].stage \notin {"tell", "write", "audit"}  PROVE Saving(q)'
BY DEF Saving, Desk!In

LEMMA ReadSaves ==
    ASSUME DeskInv, NEW q \in Requesters, Desk!Read(q)
    PROVE  Saving(q)'
<1>1. Payloads(q) \in Desk!Payload /\ saves \in [Requesters -> Desk!Save]
  BY DeskKinds DEF Desk!Read, Desk!In, Payloads, DeskInv, Desk!TypeOK
<1> DEFINE p == saves[q].payload
<1>2. CASE items[p.message] # Desk!NoItem /\ items[p.message].revision = p.revision
  <2>1. items[p.message] \in Desk!Item  BY <1>1, <1>2, DeskKinds DEF DeskInv, Desk!TypeOK, Payloads
  <2>2. saves'[q] = [stage |-> IF p.status = "RESOLVED" THEN "tell" ELSE "write", payload |-> p, row |-> items[p.message]]
    BY <1>1, <1>2 DEF Desk!Read
  <2>3. UNCHANGED items /\ p.revision <= p.revision  BY <1>1, DeskKinds DEF Desk!Read, Payloads
  <2>4. Payloads(q)' = p /\ saves'[q].row = items[p.message]  BY <2>2 DEF Payloads
  <2>5. Current(q)'  BY <1>2, <2>1, <2>3, <2>4 DEF Current
  <2>6. Desk!In(q, "write")' => p.status # "RESOLVED"  BY <2>2 DEF Desk!In
  <2>7. ~Desk!In(q, "audit")'  BY <2>2 DEF Desk!In
  <2> QED  BY <2>4, <2>5, <2>6, <2>7 DEF Saving
<1>3. CASE ~(items[p.message] # Desk!NoItem /\ items[p.message].revision = p.revision)
  BY <1>1, <1>3, Unclaimed DEF Desk!Read, Desk!Out, Desk!Idle
<1> QED  BY <1>2, <1>3

LEMMA TellSaves ==
    ASSUME DeskInv, NEW q \in Requesters, Desk!Tell(q)
    PROVE  Saving(q)'
<1>1. Payloads(q) \in Desk!Payload /\ saves \in [Requesters -> Desk!Save]
  BY DeskKinds DEF Desk!Tell, Desk!In, Payloads, DeskInv, Desk!TypeOK
<1>2. CASE Desk!Out(q)  BY <1>1, <1>2, Unclaimed DEF Desk!Out, Desk!Idle
<1>3. CASE Desk!Onto(q, "write")
  <2>1. saves'[q] = [stage |-> "write", payload |-> saves[q].payload, row |-> saves[q].row]  BY <1>1, <1>3 DEF Desk!Onto
  <2>2. UNCHANGED items /\ Payloads(q)' = Payloads(q) /\ saves'[q].row = saves[q].row
    BY <2>1 DEF Desk!Tell, Payloads
  <2>3. Current(q)'  BY <2>2 DEF Desk!Tell, DeskInv, Saving, Current
  <2>4. \E f \in core' : f.message = Payloads(q).message /\ f.revision = Payloads(q).revision
    <3>1. CASE Desk!Told(Payloads(q).message, Payloads(q).revision)  BY <3>1 DEF Desk!Tell, Desk!Kept, Desk!Told
    <3>2. CASE ~Desk!Told(Payloads(q).message, Payloads(q).revision)
      <4>1. Desk!FeedbackOf(Payloads(q)) \in core'  BY <3>2 DEF Desk!Tell, Desk!Kept, Payloads
      <4> QED  BY <4>1 DEF Desk!FeedbackOf
    <3> QED  BY <3>1, <3>2
  <2>5. Desk!Told(Payloads(q).message, Payloads(q).revision)'  BY <2>2, <2>4 DEF Desk!Told
  <2>6. ~Desk!In(q, "audit")' /\ ~Desk!In(q, "tell")'  BY <2>1 DEF Desk!In
  <2> QED  BY <2>3, <2>5, <2>6 DEF Saving
<1> QED  BY <1>2, <1>3 DEF Desk!Tell

LEMMA WriteSaves ==
    ASSUME DeskInv, NEW q \in Requesters, Desk!Write(q)
    PROVE  Saving(q)'
<1> DEFINE p == saves[q].payload
<1>1. p \in Desk!Payload /\ saves \in [Requesters -> Desk!Save]  BY DeskKinds DEF Desk!Write, Desk!In, DeskInv, Desk!TypeOK
<1>2. CASE items[p.message] # Desk!NoItem /\ items[p.message].revision = p.revision
  <2>1. saves'[q] = [stage |-> "audit", payload |-> p, row |-> saves[q].row]  BY <1>1, <1>2 DEF Desk!Write, Desk!Onto
  <2>2. Payloads(q)' = p /\ saves'[q].row = saves[q].row  BY <2>1 DEF Payloads
  <2>3. saves[q].row \in Desk!Item  BY DEF Desk!Write, DeskInv, Saving, Current
  <2>4. items'[p.message] = Desk!Written(p)  BY <1>1, <1>2, DeskKinds DEF Desk!Write, DeskInv, Desk!TypeOK
  <2>5. items'[p.message] \in Desk!Item /\ p.revision < items'[p.message].revision
    BY <1>1, <2>4, WrittenIsItem, DeskKinds
  <2>6. ASSUME NEW h \in history  PROVE ~(h.payload.message = p.message /\ h.payload.revision = p.revision)
    <3>1. h.payload.revision < items[h.payload.message].revision  BY DEF DeskInv, Past
    <3> QED  BY <1>1, <1>2, <3>1, DeskKinds
  <2>7. UNCHANGED history  BY DEF Desk!Write
  <2>8. SavedOnce(q)'  BY <2>2, <2>3, <2>5, <2>6, <2>7 DEF SavedOnce
  <2>9. ~Desk!In(q, "tell")' /\ ~Desk!In(q, "write")'  BY <2>1 DEF Desk!In
  <2> QED  BY <2>8, <2>9 DEF Saving
<1>3. CASE ~(items[p.message] # Desk!NoItem /\ items[p.message].revision = p.revision)
  BY <1>1, <1>3, Unclaimed DEF Desk!Write, Desk!Out, Desk!Idle
<1> QED  BY <1>2, <1>3

\* The step of another leaves the claims of a save alone.
LEMMA OthersSave ==
    ASSUME DeskInv, Desk!DeskStep, NEW q \in Requesters, saves'[q] = saves[q],
           history' # history => \E p \in Requesters : Desk!WriteAudit(p) /\ p # q
    PROVE  Saving(q)'
<1>1. Grow /\ Desk!TypeOK /\ Saving(q)  BY DeskGrows DEF DeskInv
<1>2. ASSUME Desk!In(q, "audit"), NEW h \in history' \ history
      PROVE  ~(h.payload.message = Payloads(q).message /\ h.payload.revision = Payloads(q).revision)
  <2>1. PICK p \in Requesters : Desk!WriteAudit(p) /\ p # q  BY <1>2
  <2>2. h.payload = Payloads(p)  BY <1>2, <2>1 DEF Desk!WriteAudit, Payloads
  <2> QED  BY <1>2, <2>1, <2>2 DEF Desk!WriteAudit, DeskInv, OneSaves
<1> QED  BY <1>1, <1>2, SavingStays

LEMMA SavingStep ==
    ASSUME DeskInv, Desk!DeskStep, NEW q \in Requesters
    PROVE  Saving(q)'
<1>1. saves \in [Requesters -> Desk!Save]  BY DEF DeskInv, Desk!TypeOK
<1>2. CASE UNCHANGED <<saves, history>>  BY <1>2, OthersSave
<1>3. ASSUME NEW p \in Requesters, p # q, Desk!SaveStep(p)  PROVE Saving(q)'
  <2>1. saves'[q] = saves[q]
    BY <1>1, <1>3 DEF Desk!SaveStep, Desk!Begin, Desk!Access, Desk!HasRole, Desk!Read, Desk!Tell, Desk!Write, Desk!WriteAudit, Desk!Ends, Desk!Onto, Desk!Out
  <2>2. history' # history => Desk!WriteAudit(p)
    BY <1>3 DEF Desk!SaveStep, Desk!Begin, Desk!Access, Desk!HasRole, Desk!Read, Desk!Tell, Desk!Write, Desk!WriteAudit, Desk!Ends
  <2> QED  BY <1>3, <2>1, <2>2, OthersSave
<1>4. ASSUME Desk!SaveStep(q)  PROVE Saving(q)'
  <2>1. CASE Desk!Read(q)  BY <2>1, ReadSaves
  <2>2. CASE Desk!Tell(q)  BY <2>2, TellSaves
  <2>3. CASE Desk!Write(q)  BY <2>3, WriteSaves
  <2>4. CASE ~(Desk!Read(q) \/ Desk!Tell(q) \/ Desk!Write(q))
    <3>1. saves'[q].stage \notin {"tell", "write", "audit"}
      BY <1>1, <1>4, <2>4 DEF Desk!SaveStep, Desk!Begin, Desk!Access, Desk!HasRole, Desk!WriteAudit, Desk!Ends, Desk!Onto, Desk!Out, Desk!Idle
    <3> QED  BY <3>1, Unclaimed
  <2> QED  BY <2>1, <2>2, <2>3, <2>4
<1> QED  BY <1>2, <1>3, <1>4 DEF Desk!DeskStep, Desk!Record, Desk!Enqueue, Desk!Backfill

\* Two saves cannot have written the same revision: the item has left it behind.
LEMMA OneSavesStep ==
    ASSUME DeskInv, Desk!DeskStep
    PROVE  OneSaves'
<1>1. saves \in [Requesters -> Desk!Save]  BY DEF DeskInv, Desk!TypeOK
<1>2. CASE UNCHANGED saves  BY <1>2 DEF DeskInv, OneSaves, Desk!In, Payloads
<1>3. ASSUME NEW q \in Requesters, Desk!SaveStep(q)  PROVE OneSaves'
  <2>1. \A p \in Requesters : p # q => saves'[p] = saves[p]
    BY <1>1, <1>3 DEF Desk!SaveStep, Desk!Begin, Desk!Access, Desk!HasRole, Desk!Read, Desk!Tell, Desk!Write, Desk!WriteAudit, Desk!Ends, Desk!Onto, Desk!Out
  <2>2. CASE saves'[q].stage # "audit"  BY <2>1, <2>2 DEF DeskInv, OneSaves, Desk!In, Payloads
  <2>3. CASE saves'[q].stage = "audit"
    <3>1. Desk!Write(q) /\ items[Payloads(q).message].revision = Payloads(q).revision /\ Desk!Onto(q, "audit")
      BY <1>1, <1>3, <2>3
      DEF Desk!SaveStep, Desk!Begin, Desk!Access, Desk!HasRole, Desk!Read, Desk!Tell, Desk!Write, Desk!WriteAudit, Desk!Ends, Desk!Onto, Desk!Out, Desk!Idle, Payloads
    <3>2. Payloads(q)' = Payloads(q) /\ Payloads(q) \in Desk!Payload
      BY <1>1, <3>1, DeskKinds DEF Desk!Onto, Payloads, Desk!Write, Desk!In
    <3>3. ASSUME NEW p \in Requesters, p # q, Desk!In(p, "audit")
          PROVE  ~(Payloads(p).message = Payloads(q).message /\ Payloads(p).revision = Payloads(q).revision)
      <4>1. /\ Payloads(p).revision < items[Payloads(p).message].revision
            /\ items[Payloads(p).message] \in Desk!Item
        BY <3>3 DEF DeskInv, Saving, SavedOnce
      <4> QED  BY <3>1, <3>2, <4>1, DeskKinds
    <3> QED  BY <2>1, <3>2, <3>3 DEF DeskInv, OneSaves, Desk!In, Payloads
  <2> QED  BY <2>2, <2>3
<1> QED  BY <1>2, <1>3 DEF Desk!DeskStep, Desk!Record, Desk!Enqueue, Desk!Backfill

\* What an audit entry corrected is past, and no entry was there for it before.
LEMMA HistoryStep ==
    ASSUME DeskInv, Desk!DeskStep
    PROVE  Past' /\ Desk!OneCorrectionPerRevision'
<1>1. Grow /\ Desk!TypeOK  BY DeskGrows DEF DeskInv
<1>2. ASSUME NEW h \in history
      PROVE  items'[h.payload.message] \in Desk!Item /\ h.payload.revision < items'[h.payload.message].revision
  <2> DEFINE m == h.payload.message
  <2>1. m \in Messages /\ h.payload.revision \in Nat  BY <1>1, <1>2, DeskKinds DEF Desk!TypeOK, Desk!Correction
  <2>2. items[m] \in Desk!Item /\ h.payload.revision < items[m].revision  BY <1>2 DEF DeskInv, Past
  <2>3. items'[m] \in Desk!Item /\ items[m].revision <= items'[m].revision  BY <1>1, <2>1, <2>2 DEF Grow
  <2> QED  BY <2>1, <2>2, <2>3, DeskKinds
<1>3. CASE UNCHANGED history  BY <1>2, <1>3 DEF DeskInv, Past, Desk!OneCorrectionPerRevision
<1>4. ASSUME NEW q \in Requesters, Desk!WriteAudit(q)  PROVE Past' /\ Desk!OneCorrectionPerRevision'
  <2> DEFINE new == [payload |-> saves[q].payload, before |-> saves[q].row]
  <2>1. history' = history \cup {new} /\ UNCHANGED items  BY <1>4 DEF Desk!WriteAudit
  <2>2. new.payload = Payloads(q)  BY DEF Payloads
  <2>3. SavedOnce(q)  BY <1>4 DEF Desk!WriteAudit, DeskInv, Saving
  <2>4. Past'  BY <1>2, <2>1, <2>2, <2>3 DEF SavedOnce, Past
  <2>5. \A h \in history : ~(h.payload.message = new.payload.message /\ h.payload.revision = new.payload.revision)
    BY <2>2, <2>3 DEF SavedOnce
  <2>6. Desk!OneCorrectionPerRevision'
    <3> HIDE DEF new
    <3> QED  BY <2>1, <2>5 DEF DeskInv, Desk!OneCorrectionPerRevision
  <2> QED  BY <2>4, <2>6
<1> QED
  BY <1>3, <1>4
  DEF Desk!DeskStep, Desk!SaveStep, Desk!Record, Desk!Enqueue, Desk!Backfill, Desk!Begin, Desk!Access, Desk!HasRole, Desk!Read, Desk!Tell, Desk!Write, Desk!Ends

\* Only a save whose resolution Core has heard of resolves an item.
LEMMA ToldStep ==
    ASSUME DeskInv, Desk!DeskStep
    PROVE  Desk!ResolvedIsTold'
<1>1. Grow /\ Desk!TypeOK /\ Desk!TypeOK'  BY DeskGrows, TypeStep DEF DeskInv
<1>2. SUFFICES ASSUME NEW m \in Messages, items'[m] \in Desk!Item, items'[m].status = "RESOLVED"
               PROVE  \E f \in core' : f.message = m /\ f.revision = items'[m].revision - 1
  BY <1>1, DeskKinds DEF Desk!ResolvedIsTold, Desk!Told, Desk!TypeOK
<1>3. CASE items'[m] = items[m]
  <2>1. \E f \in core : f.message = m /\ f.revision = items[m].revision - 1
    BY <1>2, <1>3, DeskKinds DEF DeskInv, Desk!ResolvedIsTold, Desk!Told
  <2> QED  BY <1>1, <1>3, <2>1 DEF Grow
<1>4. CASE items'[m] # items[m]
  <2>1. ASSUME NEW n \in Messages, Desk!Enqueue(n)  PROVE FALSE
    <3>1. decided[n] \in Actions  BY <1>1, <2>1 DEF Desk!Enqueue, Desk!TypeOK
    <3> QED  BY <1>1, <1>2, <1>4, <2>1, <3>1, NewIsItem DEF Desk!Enqueue, Desk!TypeOK
  <2>2. ~Desk!Backfill  BY <1>1, <1>2, <1>4, NewIsItem DEF Desk!Backfill, Desk!TypeOK
  <2>3. PICK q \in Requesters : Desk!Write(q)
    BY <1>4, <2>1, <2>2
    DEF Desk!DeskStep, Desk!SaveStep, Desk!Record, Desk!Begin, Desk!Access, Desk!HasRole, Desk!Read, Desk!Tell, Desk!WriteAudit, Desk!Ends
  <2>4. Payloads(q) \in Desk!Payload  BY <1>1, <2>3, DeskKinds DEF Desk!Write, Desk!In, Desk!TypeOK, Payloads
  <2>5. m = Payloads(q).message /\ items'[m] = Desk!Written(Payloads(q))
    BY <1>1, <1>4, <2>3, <2>4, DeskKinds DEF Desk!Write, Desk!TypeOK, Payloads
  <2>6. Desk!Told(m, Payloads(q).revision)  BY <1>2, <2>3, <2>4, <2>5, WrittenIsItem DEF DeskInv, Saving, Desk!Write
  <2>7. items'[m].revision - 1 = Payloads(q).revision  BY <2>4, <2>5, WrittenIsItem, DeskKinds
  <2> QED  BY <1>1, <2>6, <2>7 DEF Desk!Told, Grow
<1> QED  BY <1>3, <1>4

LEMMA DeskInvStep == DeskInv /\ [Desk!Next]_(Desk!vars) => DeskInv'
<1> SUFFICES ASSUME DeskInv, [Desk!Next]_(Desk!vars)  PROVE DeskInv'  OBVIOUS
<1>1. CASE UNCHANGED Desk!deskVars
  BY <1>1
  DEF Desk!deskVars, DeskInv, Desk!TypeOK, Desk!OneCorrectionPerRevision, Desk!ResolvedIsTold, Desk!Told, OneSaves, Past, Saving, Current,
      SavedOnce, Desk!In, Payloads
<1>2. CASE Desk!DeskStep
  BY <1>2, TypeStep, OneSavesStep, HistoryStep, ToldStep, SavingStep DEF DeskInv
<1> QED  BY <1>1, <1>2 DEF Desk!Next, Desk!vars

LEMMA DeskInvInit == Desk!Init => DeskInv
<1> SUFFICES ASSUME Desk!Init  PROVE DeskInv  OBVIOUS
<1>1. Desk!TypeOK  BY DeskKinds DEF Desk!Init, Desk!TypeOK
<1>2. \A q \in Requesters : saves[q].stage = "idle"  BY DeskKinds DEF Desk!Init
<1>3. history = {} /\ \A m \in Messages : items[m] = Desk!NoItem  BY DEF Desk!Init
<1> QED
  BY <1>1, <1>2, <1>3 DEF DeskInv, Desk!OneCorrectionPerRevision, Desk!ResolvedIsTold, OneSaves, Past, Saving, Desk!In

\* The audit of the desk holds at most one correction of each revision.
THEOREM ReviewIsSerial == Desk!Spec => []Desk!OneCorrectionPerRevision
<1>1. DeskInv => Desk!OneCorrectionPerRevision  BY DEF DeskInv
<1> QED  BY <1>1, DeskInvInit, DeskInvStep, PTL DEF Desk!Spec

\* Core has heard of every item that counts as resolved.
THEOREM CoreHears == Desk!Spec => []Desk!ResolvedIsTold
<1>1. DeskInv => Desk!ResolvedIsTold  BY DEF DeskInv
<1> QED  BY <1>1, DeskInvInit, DeskInvStep, PTL DEF Desk!Spec

\* Whoever changes an item that is there had read it as it is when he writes.
THEOREM CorrectionsKept == Desk!Spec => Desk!NoLostCorrection
<1> DEFINE Kept1 ==
      \A m \in Messages :
          items[m] # Desk!NoItem /\ items'[m] # items[m] =>
              \E q \in Requesters : Desk!In(q, "write") /\ saves[q].payload.message = m /\ saves[q].row = items[m]
<1>1. ASSUME DeskInv, [Desk!Next]_(Desk!vars)  PROVE [Kept1]_(Desk!vars)
  <2>1. SUFFICES ASSUME Desk!DeskStep, NEW m \in Messages, items[m] # Desk!NoItem, items'[m] # items[m]
                 PROVE  \E q \in Requesters : Desk!In(q, "write") /\ saves[q].payload.message = m /\ saves[q].row = items[m]
    BY <1>1 DEF Desk!Next, Desk!vars, Desk!deskVars
  <2>2. Desk!TypeOK  BY <1>1 DEF DeskInv
  <2>3. ~Desk!Backfill /\ \A n \in Messages : ~Desk!Enqueue(n)  BY <2>1, <2>2 DEF Desk!Backfill, Desk!Enqueue, Desk!TypeOK
  <2>4. PICK q \in Requesters : Desk!Write(q)
    BY <2>1, <2>3 DEF Desk!DeskStep, Desk!SaveStep, Desk!Record, Desk!Begin, Desk!Access, Desk!HasRole, Desk!Read, Desk!Tell, Desk!WriteAudit, Desk!Ends
  <2>5. Payloads(q) \in Desk!Payload  BY <2>2, <2>4, DeskKinds DEF Desk!Write, Desk!In, Desk!TypeOK, Payloads
  <2>6. m = Payloads(q).message /\ items[m].revision = Payloads(q).revision
    BY <2>1, <2>2, <2>4, <2>5, DeskKinds DEF Desk!Write, Desk!TypeOK, Payloads
  <2>7. items[m] = saves[q].row  BY <1>1, <2>4, <2>6 DEF DeskInv, Saving, Current, Desk!Write
  <2> QED  BY <2>4, <2>6, <2>7 DEF Desk!Write, Payloads
<1> QED  BY <1>1, DeskInvInit, DeskInvStep, PTL DEF Desk!Spec, Desk!NoLostCorrection

-----------------------------------------------------------------------------
(* The desk implements the register.                                        *)

\* The item is the last of its rows, and its revision is their number.
LastRow(m) ==
    IF items[m] = Desk!NoItem THEN past[m] = <<>>
    ELSE /\ Len(past[m]) = items[m].revision /\ items[m].revision > 0
         /\ past[m][Len(past[m])] = items[m]
\* The row a save was shown is the one that had its revision; once it has written, its correction is
\* the row that came next.
Had(q) ==
    saves[q].stage \in {"tell", "write", "audit"} =>
        /\ Payloads(q).revision \in 1 .. Len(past[Payloads(q).message])
        /\ past[Payloads(q).message][Payloads(q).revision] = saves[q].row
Made(q) ==
    saves[q].stage = "audit" =>
        /\ Payloads(q).revision + 1 \in 1 .. Len(past[Payloads(q).message])
        /\ past[Payloads(q).message][Payloads(q).revision + 1] = Desk!Written(Payloads(q))
RowsInv ==
    /\ past \in [Messages -> Seq(Desk!Item)]
    /\ \A m \in Messages : LastRow(m)
    /\ \A q \in Requesters : Had(q) /\ Made(q)

\* An item changes when it is opened, or when a save corrects the revision it was given.
Opened(m) == items[m] = Desk!NoItem /\ \E a \in Actions : items'[m] = Desk!New(a)
CorrectedBy(q, m) ==
    /\ Desk!Write(q) /\ m = Payloads(q).message /\ items[m] # Desk!NoItem
    /\ items[m].revision = Payloads(q).revision /\ items'[m] = Desk!Written(Payloads(q))

LEMMA ItemMoves ==
    ASSUME DeskInv, Desk!DeskStep, NEW m \in Messages, items'[m] # items[m]
    PROVE  Opened(m) \/ \E q \in Requesters : CorrectedBy(q, m)
<1>1. Desk!TypeOK  BY DEF DeskInv
<1>2. ASSUME NEW n \in Messages, Desk!Enqueue(n)  PROVE Opened(m)
  <2>1. decided[n] \in Actions  BY <1>1, <1>2 DEF Desk!Enqueue, Desk!TypeOK
  <2> QED  BY <1>1, <1>2, <2>1 DEF Desk!Enqueue, Desk!TypeOK, Opened
<1>3. Desk!Backfill => Opened(m)  BY <1>1 DEF Desk!Backfill, Desk!TypeOK, Opened
<1>4. ASSUME NEW q \in Requesters, Desk!Write(q)  PROVE CorrectedBy(q, m)
  <2>1. Payloads(q) \in Desk!Payload  BY <1>1, <1>4, DeskKinds DEF Desk!Write, Desk!In, Desk!TypeOK, Payloads
  <2> QED  BY <1>1, <1>4, <2>1, DeskKinds DEF Desk!Write, Desk!TypeOK, Payloads, CorrectedBy
<1> QED
  BY <1>2, <1>3, <1>4
  DEF Desk!DeskStep, Desk!SaveStep, Desk!Record, Desk!Begin, Desk!Access, Desk!HasRole, Desk!Read, Desk!Tell, Desk!WriteAudit, Desk!Ends

\* The rows of an item are kept, and one is added when the item changes.
Longer(m) ==
    /\ Len(past[m]) \in Nat /\ Len(past'[m]) \in Nat /\ Len(past[m]) <= Len(past'[m])
    /\ \A i \in 1 .. Len(past[m]) : past'[m][i] = past[m][i]

LEMMA RowsGrow ==
    ASSUME DeskInv, RowsInv, Desk!DeskStep, Desk!Recall
    PROVE  /\ past' \in [Messages -> Seq(Desk!Item)]
           /\ \A m \in Messages : Longer(m) /\ LastRow(m)'
<1>1. /\ past \in [Messages -> Seq(Desk!Item)] /\ items \in [Messages -> Desk!Item \cup {Desk!NoItem}]
      /\ items' \in [Messages -> Desk!Item \cup {Desk!NoItem}]
  BY TypeStep DEF DeskInv, RowsInv, Desk!TypeOK
<1>2. ASSUME NEW m \in Messages
      PROVE  /\ past'[m] = IF items'[m] = items[m] THEN past[m] ELSE Append(past[m], items'[m])
             /\ past'[m] \in Seq(Desk!Item) /\ Longer(m) /\ LastRow(m)'
  <2>1. past'[m] = IF items'[m] = items[m] THEN past[m] ELSE Append(past[m], items'[m])
    BY DEF Desk!Recall
  <2>2. past[m] \in Seq(Desk!Item) /\ Len(past[m]) \in Nat  BY <1>1
  <2>3. LastRow(m)  BY DEF RowsInv
  <2>4. CASE items'[m] = items[m]
    BY <2>1, <2>2, <2>3, <2>4 DEF LastRow, Longer
  <2>5. CASE items'[m] # items[m]
    <3>1. PICK row \in Desk!Item : row = items'[m] /\ row.revision = Len(past[m]) + 1
      <4>1. CASE Opened(m)
        <5>1. PICK a \in Actions : items'[m] = Desk!New(a)  BY <4>1 DEF Opened
        <5>2. Desk!New(a) \in Desk!Item /\ Desk!New(a).revision = 1  BY NewIsItem DEF Desk!New
        <5>3. Len(past[m]) = 0  BY <2>3, <4>1 DEF Opened, LastRow
        <5> QED  BY <5>1, <5>2, <5>3
      <4>2. ASSUME NEW q \in Requesters, CorrectedBy(q, m)  PROVE \E row \in Desk!Item : row = items'[m] /\ row.revision = Len(past[m]) + 1
        <5>1. Payloads(q) \in Desk!Payload
          BY <4>2, DeskKinds DEF CorrectedBy, Desk!Write, Desk!In, DeskInv, Desk!TypeOK, Payloads
        <5>2. Desk!Written(Payloads(q)) \in Desk!Item
              /\ Desk!Written(Payloads(q)).revision = Payloads(q).revision + 1
          BY <5>1, WrittenIsItem
        <5>3. Len(past[m]) = Payloads(q).revision  BY <2>3, <4>2 DEF CorrectedBy, LastRow
        <5> QED  BY <4>2, <5>2, <5>3 DEF CorrectedBy
      <4> QED  BY <2>5, <4>1, <4>2, ItemMoves
    <3>2. past'[m] = Append(past[m], row)  BY <2>1, <2>5, <3>1
    <3>3. /\ past'[m] \in Seq(Desk!Item) /\ Len(past'[m]) = Len(past[m]) + 1
          /\ past'[m][Len(past[m]) + 1] = row /\ \A i \in 1 .. Len(past[m]) : past'[m][i] = past[m][i]
      BY <2>2, <3>2
    <3>4. items'[m] # Desk!NoItem  BY <3>1, DeskKinds
    <3> QED  BY <2>1, <2>2, <3>1, <3>3, <3>4 DEF Longer, LastRow
  <2> QED  BY <2>1, <2>4, <2>5
<1>3. past' = [m \in Messages |-> IF items'[m] = items[m] THEN past[m] ELSE Append(past[m], items'[m])]
  BY DEF Desk!Recall
<1> QED  BY <1>2, <1>3

LEMMA RowsStay ==
    ASSUME DeskInv, RowsInv, NEW q \in Requesters, saves'[q] = saves[q],
           \A m \in Messages : Longer(m)
    PROVE  (Had(q) /\ Made(q))'
<1>1. Payloads(q)' = Payloads(q) /\ saves'[q].stage = saves[q].stage /\ saves'[q].row = saves[q].row
  BY DEF Payloads
<1>2. CASE saves[q].stage \in {"tell", "write", "audit"}
  <2>1. Payloads(q) \in Desk!Payload  BY <1>2, DeskKinds DEF DeskInv, Desk!TypeOK, Payloads
  <2>2. PICK m \in Messages, r \in Nat : m = Payloads(q).message /\ r = Payloads(q).revision
    BY <2>1, DeskKinds
  <2>3. Longer(m)  BY <2>2
  <2>4. Had(q)'
    <3>1. r \in 1 .. Len(past[m]) /\ past[m][r] = saves[q].row  BY <1>2, <2>2 DEF RowsInv, Had
    <3>2. r \in 1 .. Len(past'[m]) /\ past'[m][r] = saves[q].row  BY <2>3, <3>1 DEF Longer
    <3> QED  BY <1>1, <2>2, <3>2 DEF Had
  <2>5. CASE saves[q].stage = "audit"
    <3>1. r + 1 \in 1 .. Len(past[m]) /\ past[m][r + 1] = Desk!Written(Payloads(q))
      BY <2>2, <2>5 DEF RowsInv, Made
    <3>2. r + 1 \in 1 .. Len(past'[m]) /\ past'[m][r + 1] = Desk!Written(Payloads(q))
      BY <2>3, <3>1 DEF Longer
    <3>3. Made(q)'  BY <1>1, <2>2, <3>2 DEF Made
    <3> QED  BY <2>4, <3>3
  <2>6. CASE saves[q].stage # "audit"  BY <1>1, <2>4, <2>6 DEF Made
  <2> QED  BY <2>5, <2>6
<1>3. CASE saves[q].stage \notin {"tell", "write", "audit"}  BY <1>1, <1>3 DEF Had, Made
<1> QED  BY <1>2, <1>3

\* A save's own step: it is shown the last row, and its correction follows that row.
LEMMA RowsSaved ==
    ASSUME DeskInv, RowsInv, Desk!DeskStep, Desk!Recall, NEW q \in Requesters, Desk!SaveStep(q)
    PROVE  (Had(q) /\ Made(q))'
<1>1. saves \in [Requesters -> Desk!Save] /\ items \in [Messages -> Desk!Item \cup {Desk!NoItem}]
  BY DEF DeskInv, Desk!TypeOK
<1>2. /\ past' \in [Messages -> Seq(Desk!Item)] /\ past \in [Messages -> Seq(Desk!Item)]
      /\ \A m \in Messages : Longer(m) /\ LastRow(m)' /\ LastRow(m)
  BY RowsGrow DEF RowsInv
<1>3. CASE saves'[q].stage \notin {"tell", "write", "audit"}  BY <1>3 DEF Had, Made
<1>4. CASE Desk!Read(q) /\ saves'[q].stage \in {"tell", "write", "audit"}
  <2>1. Payloads(q) \in Desk!Payload  BY <1>1, <1>4, DeskKinds DEF Desk!Read, Desk!In, Payloads
  <2>2. PICK m \in Messages, r \in Nat : m = Payloads(q).message /\ r = Payloads(q).revision
    BY <2>1, DeskKinds
  <2>3. /\ items[m] # Desk!NoItem /\ items[m].revision = r
        /\ saves'[q].row = items[m] /\ Payloads(q)' = Payloads(q) /\ saves'[q].stage # "audit"
    BY <1>1, <1>4, <2>2 DEF Desk!Read, Desk!Out, Desk!Idle, Payloads
  <2>4. r \in 1 .. Len(past[m]) /\ past[m][r] = items[m]
    <3>1. LastRow(m) /\ Len(past[m]) \in Nat  BY <1>2
    <3> QED  BY <2>2, <2>3, <3>1 DEF LastRow
  <2>5. r \in 1 .. Len(past'[m]) /\ past'[m][r] = items[m]
    <3>1. Longer(m)  BY <1>2
    <3> QED  BY <2>4, <3>1 DEF Longer
  <2> QED  BY <2>2, <2>3, <2>5 DEF Had, Made
<1>5. CASE Desk!Tell(q) /\ Desk!Onto(q, "write")
  <2>1. Payloads(q) \in Desk!Payload  BY <1>1, <1>5, DeskKinds DEF Desk!Tell, Desk!In, Payloads
  <2>2. PICK m \in Messages, r \in Nat : m = Payloads(q).message /\ r = Payloads(q).revision
    BY <2>1, DeskKinds
  <2>3. saves'[q].row = saves[q].row /\ Payloads(q)' = Payloads(q) /\ saves'[q].stage = "write"
    BY <1>1, <1>5 DEF Desk!Onto, Payloads
  <2>4. r \in 1 .. Len(past[m]) /\ past[m][r] = saves[q].row
    BY <1>5, <2>2 DEF Desk!Tell, Desk!In, RowsInv, Had
  <2>5. Longer(m)  BY <1>2
  <2>6. r \in 1 .. Len(past'[m]) /\ past'[m][r] = saves[q].row  BY <2>4, <2>5 DEF Longer
  <2> QED  BY <2>2, <2>3, <2>6 DEF Had, Made
<1>6. CASE Desk!Write(q) /\ saves'[q].stage \in {"tell", "write", "audit"}
  <2>1. Payloads(q) \in Desk!Payload  BY <1>1, <1>6, DeskKinds DEF Desk!Write, Desk!In, Payloads
  <2>2. PICK m \in Messages, r \in Nat : m = Payloads(q).message /\ r = Payloads(q).revision
    BY <2>1, DeskKinds
  <2>3. /\ items[m] # Desk!NoItem /\ items[m].revision = r
        /\ items' = [items EXCEPT ![m] = Desk!Written(Payloads(q))]
        /\ saves'[q].row = saves[q].row /\ Payloads(q)' = Payloads(q)
    BY <1>1, <1>6, <2>2 DEF Desk!Write, Desk!Onto, Desk!Out, Desk!Idle, Payloads
  <2>4. items'[m] = Desk!Written(Payloads(q)) /\ items'[m].revision = r + 1 /\ items'[m] # Desk!NoItem
    BY <1>1, <2>1, <2>2, <2>3, WrittenIsItem, DeskKinds
  <2>5. r \in 1 .. Len(past[m]) /\ past[m][r] = saves[q].row
    BY <1>6, <2>2 DEF Desk!Write, Desk!In, RowsInv, Had
  <2>6. Longer(m) /\ LastRow(m)'  BY <1>2
  <2>7. r \in 1 .. Len(past'[m]) /\ past'[m][r] = saves[q].row  BY <2>5, <2>6 DEF Longer
  <2>8. r + 1 \in 1 .. Len(past'[m]) /\ past'[m][r + 1] = Desk!Written(Payloads(q))
    BY <2>2, <2>4, <2>6, <2>7 DEF LastRow
  <2> QED  BY <2>2, <2>3, <2>7, <2>8 DEF Had, Made
<1>7. ASSUME saves'[q].stage \in {"tell", "write", "audit"}
      PROVE  Desk!Read(q) \/ (Desk!Tell(q) /\ Desk!Onto(q, "write")) \/ Desk!Write(q)
  <2>1. ~Desk!Out(q)  BY <1>1, <1>7 DEF Desk!Out, Desk!Idle
  <2>2. ~Desk!Onto(q, "read") /\ ~Desk!Onto(q, "role")  BY <1>1, <1>7 DEF Desk!Onto
  <2>3. ASSUME NEW u, NEW m, NEW r, NEW a, NEW s, Desk!Begin(q, u, m, r, a, s)  PROVE FALSE
    BY <1>1, <1>7, <2>3 DEF Desk!Begin
  <2> QED
    BY <2>1, <2>2, <2>3 DEF Desk!SaveStep, Desk!Access, Desk!HasRole, Desk!Tell, Desk!WriteAudit, Desk!Ends
<1> QED  BY <1>3, <1>4, <1>5, <1>6, <1>7

LEMMA RowsStep ==
    ASSUME DeskInv, RowsInv, [Desk!Next]_(Desk!vars)
    PROVE  RowsInv'
<1>1. CASE UNCHANGED <<Desk!deskVars, past>>
  BY <1>1 DEF Desk!deskVars, RowsInv, LastRow, Had, Made, Payloads
<1>2. CASE Desk!DeskStep /\ Desk!Recall
  <2>1. /\ past' \in [Messages -> Seq(Desk!Item)]
        /\ \A m \in Messages : Longer(m) /\ LastRow(m)'
    BY <1>2, RowsGrow
  <2>2. ASSUME NEW q \in Requesters  PROVE (Had(q) /\ Made(q))'
    <3>1. CASE Desk!SaveStep(q)  BY <1>2, <3>1, RowsSaved
    <3>2. CASE ~Desk!SaveStep(q)
      <4>1. saves \in [Requesters -> Desk!Save]  BY DEF DeskInv, Desk!TypeOK
      <4>2. ASSUME NEW p \in Requesters, Desk!SaveStep(p)  PROVE saves'[q] = saves[q]
        <5>1. p # q  BY <3>2, <4>2
        <5> QED
          BY <4>1, <4>2, <5>1
          DEF Desk!SaveStep, Desk!Begin, Desk!Access, Desk!HasRole, Desk!Read, Desk!Tell, Desk!Write, Desk!WriteAudit, Desk!Ends, Desk!Onto, Desk!Out
      <4>3. (\A p \in Requesters : ~Desk!SaveStep(p)) => saves' = saves
        BY <1>2 DEF Desk!DeskStep, Desk!Record, Desk!Enqueue, Desk!Backfill
      <4>4. saves'[q] = saves[q]  BY <4>2, <4>3
      <4> QED  BY <2>1, <4>4, RowsStay
    <3> QED  BY <3>1, <3>2
  <2> QED  BY <2>1, <2>2 DEF RowsInv
<1> QED  BY <1>1, <1>2 DEF Desk!Next, Desk!vars

LEMMA RowsInit == Desk!Init => RowsInv
<1> SUFFICES ASSUME Desk!Init  PROVE RowsInv  OBVIOUS
<1>1. \A q \in Requesters : saves[q].stage = "idle"  BY DeskKinds DEF Desk!Init
<1>2. \A m \in Messages : items[m] = Desk!NoItem /\ past[m] = <<>>  BY DEF Desk!Init
<1>3. past \in [Messages -> Seq(Desk!Item)]  BY DEF Desk!Init
<1> QED  BY <1>1, <1>2, <1>3 DEF RowsInv, LastRow, Had, Made

\* Every step of the desk is a step of the register, or none.
LEMMA DeskImplements ==
    ASSUME DeskInv, RowsInv, [Desk!Next]_(Desk!vars)
    PROVE  [Register!Next]_<<past, history, core>>
<1>1. CASE UNCHANGED <<Desk!deskVars, past>>  BY <1>1 DEF Desk!deskVars
<1>2. ASSUME Desk!DeskStep, Desk!Recall  PROVE [Register!Next]_<<past, history, core>>
  <2>1. /\ past \in [Messages -> Seq(Desk!Item)] /\ items \in [Messages -> Desk!Item \cup {Desk!NoItem}]
        /\ saves \in [Requesters -> Desk!Save] /\ \A m \in Messages : Len(past[m]) \in Nat
    BY DEF RowsInv, DeskInv, Desk!TypeOK
  <2>2. past' = [m \in Messages |-> IF items'[m] = items[m] THEN past[m] ELSE Append(past[m], items'[m])]
    BY <1>2 DEF Desk!Recall
  <2>3. CASE UNCHANGED <<items, history, core>>
    <3>1. past' = past  BY <2>1, <2>2, <2>3
    <3> QED  BY <2>3, <3>1
  <2>4. CASE UNCHANGED <<history, core>> /\ \A m \in Messages : items'[m] # items[m] => Opened(m)
    <3>1. PICK ms \in SUBSET Messages : ms = {m \in Messages : items'[m] # items[m]}  OBVIOUS
    <3>2. \A m \in ms : \E a \in Actions : items'[m] = Desk!New(a)  BY <2>4, <3>1 DEF Opened
    <3>3. PICK proposed \in [ms -> Actions] : proposed = [m \in ms |-> CHOOSE a \in Actions : items'[m] = Desk!New(a)]
      BY <3>2
    <3>4. \A m \in ms : items'[m] = Desk!New(proposed[m])  BY <3>2, <3>3
    <3>5. \A m \in ms : past[m] = <<>>  BY <2>4, <3>1 DEF Opened, RowsInv, LastRow
    <3>6. \A m \in ms : Append(past[m], items'[m]) = <<Register!New(proposed[m])>>
      <4> SUFFICES ASSUME NEW m \in ms  PROVE Append(past[m], items'[m]) = <<Register!New(proposed[m])>>
        OBVIOUS
      <4>1. past[m] = <<>> /\ items'[m] = Register!New(proposed[m])
        BY <3>4, <3>5 DEF Desk!New, Register!New
      <4>2. PICK row : row = items'[m]  OBVIOUS
      <4>3. Append(<<>>, row) = <<row>>  OBVIOUS
      <4> QED  BY <4>1, <4>2, <4>3
    <3>7. past' = [m \in Messages |-> IF m \in DOMAIN proposed THEN <<Register!New(proposed[m])>> ELSE past[m]]
      BY <2>2, <3>1, <3>3, <3>6
    <3>8. Register!Open(proposed)  BY <2>4, <3>3, <3>5, <3>7 DEF Register!Open
    <3> QED  BY <3>8 DEF Register!Next
  <2>5. ASSUME NEW q \in Requesters, Desk!Tell(q), UNCHANGED items  PROVE [Register!Next]_<<past, history, core>>
    <3>1. Payloads(q) \in Desk!Payload  BY <2>1, <2>5, DeskKinds DEF Desk!Tell, Desk!In, Payloads
    <3>2. PICK p \in Desk!Payload : p = Payloads(q)  BY <3>1
    <3>3. past' = past /\ history' = history  BY <2>1, <2>2, <2>5 DEF Desk!Tell
    <3>4. p.revision \in 1 .. Len(past[p.message])  BY <2>5, <3>2 DEF Desk!Tell, Desk!In, RowsInv, Had
    <3>5. core' = IF Desk!Told(p.message, p.revision) THEN core ELSE core \cup {Desk!FeedbackOf(p)}
      BY <2>5, <3>2 DEF Desk!Tell, Desk!Kept, Payloads
    <3>6. CASE Desk!Told(p.message, p.revision)  BY <3>3, <3>5, <3>6
    <3>7. CASE ~Desk!Told(p.message, p.revision)
      <4>1. Register!Tell(p.message, p.revision, p.actor, p.action)
        BY <3>3, <3>5, <3>7 DEF Register!Tell, Register!Reported, Desk!Told, Desk!FeedbackOf
      <4> QED  BY <3>4, <4>1, DeskKinds DEF Register!Next
    <3> QED  BY <3>6, <3>7
  <2>6. ASSUME NEW q \in Requesters, Desk!Write(q), NEW m \in Messages, CorrectedBy(q, m)
        PROVE  [Register!Next]_<<past, history, core>>
    <3>1. Payloads(q) \in Desk!Payload  BY <2>1, <2>6, DeskKinds DEF Desk!Write, Desk!In, Payloads
    <3>2. PICK p \in Desk!Payload : p = Payloads(q)  BY <3>1
    <3>3. m = p.message /\ items[m] # Desk!NoItem /\ items[m].revision = p.revision
      BY <2>6, <3>2 DEF CorrectedBy
    <3>4. items' = [items EXCEPT ![m] = Desk!Written(p)] /\ UNCHANGED <<history, core>>
      BY <2>6, <3>2, <3>3 DEF Desk!Write, Payloads
    <3>5. Desk!Written(p) # items[m]
      <4>1. Desk!Written(p).revision = p.revision + 1 /\ p.revision \in Nat  BY WrittenIsItem, DeskKinds
      <4> QED  BY <3>3, <4>1
    <3>6. past[m] # <<>> /\ Len(past[m]) = p.revision
      <4>1. LastRow(m)  BY DEF RowsInv
      <4> QED  BY <3>3, <4>1 DEF LastRow
    <3>7. past' = [past EXCEPT ![m] = Append(@, [action |-> p.action, status |-> p.status, revision |-> Len(@) + 1])]
      BY <2>1, <2>2, <3>4, <3>5, <3>6 DEF Desk!Written
    <3>8. p.status = "RESOLVED" => Register!Reported(m, Len(past[m]))
      BY <2>6, <3>2, <3>3, <3>6 DEF DeskInv, Saving, Desk!Write, Desk!Told, Register!Reported
    <3>9. Register!Correct(m, p.action, p.status)  BY <3>4, <3>6, <3>7, <3>8 DEF Register!Correct
    <3> QED  BY <3>9, DeskKinds DEF Register!Next, Desk!Status
  <2>7. ASSUME NEW q \in Requesters, Desk!WriteAudit(q)  PROVE [Register!Next]_<<past, history, core>>
    <3>1. Payloads(q) \in Desk!Payload  BY <2>1, <2>7, DeskKinds DEF Desk!WriteAudit, Desk!In, Payloads
    <3>2. PICK p \in Desk!Payload : p = Payloads(q)  BY <3>1
    <3>3. past' = past /\ core' = core  BY <2>1, <2>2, <2>7 DEF Desk!WriteAudit
    <3>4. p.revision \in 1 .. Len(past[p.message]) /\ past[p.message][p.revision] = saves[q].row
      BY <2>7, <3>2 DEF Desk!WriteAudit, Desk!In, RowsInv, Had
    <3>5. /\ p.revision + 1 \in 1 .. Len(past[p.message])
          /\ past[p.message][p.revision + 1] = Desk!Written(p)
      BY <2>7, <3>2 DEF Desk!WriteAudit, Desk!In, RowsInv, Made
    <3>6. p.revision < Len(past[p.message])  BY <2>1, <3>4, <3>5, DeskKinds
    <3>7. ~Register!Audited(p.message, p.revision)
      BY <2>7, <3>2 DEF DeskInv, Saving, SavedOnce, Desk!WriteAudit, Register!Audited
    <3>8. p = [actor |-> p.actor, message |-> p.message, revision |-> p.revision, action |-> p.action, status |-> p.status]
      BY DEF Desk!Payload
    <3>9. history' = history \cup {[payload |-> p, before |-> saves[q].row]}
      BY <2>7, <3>2 DEF Desk!WriteAudit, Payloads
    <3>10. Desk!Written(p).action = p.action /\ Desk!Written(p).status = p.status  BY DEF Desk!Written
    <3>11. history' = history \cup
             {[payload |-> [actor |-> p.actor, message |-> p.message, revision |-> p.revision,
                            action |-> past[p.message][p.revision + 1].action,
                            status |-> past[p.message][p.revision + 1].status],
               before |-> past[p.message][p.revision]]}
      BY <3>4, <3>5, <3>8, <3>9, <3>10
    <3>12. Register!Audit(p.message, p.revision, p.actor)
      BY <3>3, <3>7, <3>11 DEF Register!Audit
    <3> QED  BY <3>4, <3>6, <3>12, DeskKinds DEF Register!Next
  <2>8. CASE Desk!Backfill \/ \E m \in Messages : Desk!Enqueue(m)
    <3>1. UNCHANGED <<history, core>> /\ \A q \in Requesters : saves'[q] = saves[q]
      BY <2>8 DEF Desk!Backfill, Desk!Enqueue
    <3>2. ASSUME NEW m \in Messages, items'[m] # items[m]  PROVE Opened(m)
      <4>1. CASE items[m] = Desk!NoItem
        BY <1>2, <3>2, <4>1, ItemMoves DEF CorrectedBy
      <4>2. CASE items[m] # Desk!NoItem
        BY <2>1, <2>8, <3>2, <4>2 DEF Desk!Backfill, Desk!Enqueue
      <4> QED  BY <4>1, <4>2
    <3> QED  BY <2>4, <3>1, <3>2
  <2>9. ASSUME NEW q \in Requesters, Desk!SaveStep(q)  PROVE [Register!Next]_<<past, history, core>>
    <3>1. CASE Desk!Write(q) /\ ~UNCHANGED items
      <4>1. PICK m \in Messages : items'[m] # items[m]
        <5>1. items' \in [Messages -> Desk!Item \cup {Desk!NoItem}]
          BY <1>2, TypeStep DEF DeskInv, Desk!TypeOK
        <5> QED  BY <2>1, <3>1, <5>1
      <4>2. Payloads(q) \in Desk!Payload  BY <2>1, <3>1, DeskKinds DEF Desk!Write, Desk!In, Payloads
      <4>3. CorrectedBy(q, m)
        BY <2>1, <3>1, <4>1, <4>2, DeskKinds DEF CorrectedBy, Desk!Write, Payloads
      <4> QED  BY <2>6, <3>1, <4>3
    <3>2. CASE Desk!Tell(q)  BY <2>5, <3>2 DEF Desk!Tell
    <3>3. CASE Desk!WriteAudit(q)  BY <2>7, <3>3
    <3> QED
      BY <2>3, <2>9, <3>1, <3>2, <3>3
      DEF Desk!SaveStep, Desk!Begin, Desk!Access, Desk!HasRole, Desk!Read, Desk!Write, Desk!Ends
  <2>10. ASSUME NEW m \in Messages, NEW a \in Actions, Desk!Record(m, a)  PROVE UNCHANGED <<items, history, core>>
    BY <2>10 DEF Desk!Record
  <2> QED  BY <1>2, <2>3, <2>8, <2>9, <2>10 DEF Desk!DeskStep
<1> QED  BY <1>1, <1>2 DEF Desk!Next, Desk!vars

\* The desk is a register of rows whose saves are single steps, for any number of reviewers, items
\* and revisions: what the statements of two saves, the bot and the readers of the queue do in
\* between cannot be told from saves made one after the other.
THEOREM DeskRefined == Desk!Spec => Register!Spec
<1>1. Desk!Init => Register!Init  BY DEF Desk!Init, Register!Init
<1>2. DeskInv /\ RowsInv /\ [Desk!Next]_(Desk!vars) => [Register!Next]_<<past, history, core>>
  BY DeskImplements
<1>3. DeskInv /\ RowsInv /\ [Desk!Next]_(Desk!vars) => (DeskInv /\ RowsInv)'
  BY DeskInvStep, RowsStep
<1>4. Desk!Init => DeskInv /\ RowsInv  BY DeskInvInit, RowsInit
<1> QED  BY <1>1, <1>2, <1>3, <1>4, PTL DEF Desk!Spec, Register!Spec

-----------------------------------------------------------------------------
(* The alerts of creators: what a publisher holds.                          *)

Ages == [Ids -> [age : 0 .. Repeat, showing : 0 .. MaxChanges]]

\* A row that is fresh in a publisher's hands is no older than its last announcement.
TodoTold(job, ages) ==
    \A id \in DOMAIN job.todo : job.todo[id].fresh => job.todo[id].row.age <= ages[id].age

\* What is about to be sent was not announced, as far as the row could tell.
SendNew(job, ages) ==
    job.step = "send" /\ job.id # 0 =>
        \/ ~job.todo[job.id].fresh \/ ages[job.id].age = Repeat
        \/ job.event.showing # 0 /\ job.event.showing # ages[job.id].showing

\* A publisher has the row it is at, and an event to announce.
HasRow(job) ==
    /\ job.step \in {"check", "mark"} => job.id # 0
    /\ job.step \in {"check", "send", "mark"} /\ job.id # 0 => job.id \in DOMAIN job.todo
    /\ job.step \in {"sources", "send", "mark"} => job.event \in Event
    /\ job.step \in {"sources", "send", "mark"} /\ job.member # Nobody => job.event.showing > 0
    /\ job.step = "sources" => job.member # Nobody
    /\ job.step \in {"next", "scan", "check"} => job.member = Nobody
    /\ job.step = "save" =>
          /\ job.event \in Event /\ job.event.key.kind \in Kinds
          /\ job.id # 0 /\ job.member \in Users

JobTold(job, ages) ==
    job \in Job /\ TodoTold(job, ages) /\ SendNew(job, ages) /\ HasRow(job)

\* A publisher that has done what it did and holds these rows.
Rested(job, todo) ==
    /\ job.step \in {"idle", "next", "scan"} /\ job.todo = todo /\ job.member = Nobody

Held == [row : Row, fresh : BOOLEAN]

LEMMA NoTodo == <<>> \in Todo /\ DOMAIN <<>> = {}
<1>1. DOMAIN <<>> = {}  OBVIOUS
<1>2. <<>> \in [{} -> Held]  OBVIOUS
<1>3. {} \in SUBSET Ids  OBVIOUS
<1> QED  BY <1>1, <1>2, <1>3 DEF Todo, Held

LEMMA TodoIs ==
  ASSUME NEW todo \in Todo
  PROVE  /\ DOMAIN todo \subseteq Ids /\ todo \in [DOMAIN todo -> Held]
         /\ \A id \in DOMAIN todo : todo[id].row \in Row /\ todo[id].fresh \in BOOLEAN
<1>1. PICK ids \in SUBSET Ids : todo \in [ids -> Held]  BY DEF Todo, Held
<1>2. ids = DOMAIN todo  BY <1>1
<1> QED  BY <1>1, <1>2 DEF Held

LEMMA IsTodo ==
  ASSUME NEW ids \in SUBSET Ids, NEW todo \in [ids -> Held]
  PROVE  todo \in Todo
  BY DEF Todo, Held

LEMMA JobIs ==
  ASSUME NEW job \in Job
  PROVE  /\ job.step \in Steps /\ job.todo \in Todo /\ job.members \in SUBSET Users
         /\ job.id \in 0 .. MaxSaves /\ job.event \in Event \cup {NoEvent}
         /\ job.send \in BOOLEAN /\ job.member \in Users \cup {Nobody}
  BY DEF Job

LEMMA IdleIs ==
  ASSUME MaxSaves \in Nat
  PROVE  /\ Idle \in Job /\ Idle.step = "idle" /\ Idle.todo = <<>>
         /\ Idle.id = 0 /\ Idle.member = Nobody
         /\ Idle.event = NoEvent /\ Idle.members = {} /\ Idle.send = FALSE
<1>1. PICK s \in Steps : s = "idle"  BY DEF Steps
<1>2. PICK ev \in Event \cup {NoEvent} : ev = NoEvent  OBVIOUS
<1>3. PICK mem \in Users \cup {Nobody} : mem = Nobody  OBVIOUS
<1>4. PICK todo \in Todo : todo = <<>>  BY NoTodo
<1>5. Idle = [step |-> s, todo |-> todo, members |-> {}, id |-> 0, event |-> ev, send |-> FALSE, member |-> mem]
  BY <1>1, <1>2, <1>3, <1>4 DEF Idle
<1> QED  BY <1>1, <1>2, <1>3, <1>4, <1>5 DEF Job

\* A publisher at rest holds rows that are younger than what was announced, and nothing else.
LEMMA RestedTold ==
  ASSUME NEW job \in Job, NEW ages, NEW todo, Rested(job, todo),
         \A id \in DOMAIN todo : todo[id].fresh => todo[id].row.age <= ages[id].age
  PROVE  JobTold(job, ages)
<1>1. TodoTold(job, ages)  BY DEF TodoTold, Rested
<1>2. SendNew(job, ages)  BY DEF SendNew, Rested
<1>3. HasRow(job)  BY DEF HasRow, Rested
<1> QED  BY <1>1, <1>2, <1>3 DEF JobTold

LEMMA IdleTold ==
  ASSUME MaxSaves \in Nat, NEW ages
  PROVE  JobTold(Idle, ages)
<1>1. Rested(Idle, <<>>)  BY IdleIs DEF Rested
<1> QED  BY <1>1, IdleIs, NoTodo, RestedTold

\* What is left to a publisher: the monitor's rows but the one it was at, if any.
LEMMA AfterTold ==
  ASSUME MaxSaves \in Nat, jobs \in [Publishers -> Job],
         NEW j \in Publishers, NEW ages,
         \A id \in DOMAIN jobs[j].todo \ {jobs[j].id} :
            jobs[j].todo[id].fresh => jobs[j].todo[id].row.age <= ages[id].age
  PROVE  JobTold(After(j), ages)
<1>1. CASE j # "monitor"  BY <1>1, IdleTold DEF After
<1>2. CASE j = "monitor"
  <2> DEFINE mem == jobs[j].member = Nobody
             rest == [id \in DOMAIN jobs[j].todo \ {jobs[j].id} |-> jobs[j].todo[id]]
             todo == IF mem THEN rest ELSE <<>>
             s == IF mem THEN "next" ELSE "scan"
  <2>1. jobs[j] \in Job  OBVIOUS
  <2>2. s \in Steps /\ s \in {"next", "scan"}  BY DEF Steps
  <2>3. jobs[j].todo \in Todo  BY <2>1, JobIs
  <2>4. rest \in [DOMAIN jobs[j].todo \ {jobs[j].id} -> Held] /\ DOMAIN jobs[j].todo \subseteq Ids  BY <2>3, TodoIs
  <2>5. rest \in Todo  BY <2>4, IsTodo
  <2>6. todo \in Todo  BY <2>5, NoTodo
  <2>7. \A id \in DOMAIN todo : todo[id].fresh => todo[id].row.age <= ages[id].age  BY <2>4, NoTodo
  <2>8. rest = Restrict(jobs[j].todo, DOMAIN jobs[j].todo \ {jobs[j].id})  BY DEF Restrict
  <2>9. After(j) = [jobs[j] EXCEPT !.step = s, !.todo = todo, !.id = 0, !.event = NoEvent,
                                !.send = FALSE, !.member = Nobody]
    BY <1>2, <2>1, <2>8 DEF After
  <2> HIDE DEF rest, mem
  <2>10. PICK t1 \in Todo : t1 = todo  BY <2>6
  <2>11. PICK s1 \in Steps : s1 = s  BY <2>2
  <2>12. PICK job \in Job : job = jobs[j]  BY <2>1
  <2>17. PICK ev \in Event \cup {NoEvent} : ev = NoEvent  OBVIOUS
  <2>18. PICK mem1 \in Users \cup {Nobody} : mem1 = Nobody  OBVIOUS
  <2>19. PICK id \in 0 .. MaxSaves : id = 0  OBVIOUS
  <2>20. PICK send \in BOOLEAN : send = FALSE  OBVIOUS
  <2>21. PICK new : new = [job EXCEPT !.step = s1, !.todo = t1, !.id = id, !.event = ev,
                                      !.send = send, !.member = mem1]
    OBVIOUS
  <2>13. new \in Job /\ new.step = s1 /\ new.todo = t1 /\ new.member = mem1
    BY <2>21 DEF Job
  <2>14. After(j) = new  BY <2>9, <2>10, <2>11, <2>12, <2>17, <2>18, <2>19, <2>20, <2>21
  <2>15. new \in Job /\ Rested(new, t1)  BY <2>2, <2>11, <2>13, <2>18 DEF Rested
  <2>16. JobTold(new, ages)  BY <2>7, <2>10, <2>15, RestedTold
  <2> QED  BY <2>14, <2>16
<1> QED  BY <1>1, <1>2

-----------------------------------------------------------------------------
(* The alerts of creators: the invariant, and its steps.                    *)

\* A row knows of its last announcement: when, and of which showing.
RowTold ==
    \A id \in DOMAIN rows :
        /\ rows[id].age <= told[id].age
        /\ rows[id].last = -1 => told[id].age = Repeat
        /\ rows[id].last # -1 => told[id].showing = rows[id].last

\* A member shows an activity that was counted.
ShownIsCounted == \A u \in Users : shown[u].stream # Nothing => shown[u].n > 0

\* Everything but the jobs of the publishers.
TablesTold ==
    /\ configured \subseteq Platforms /\ on \in [Streams -> Offers] /\ channel \in BOOLEAN
    /\ shown \in [Users -> [stream : Streams \cup {Nothing}, n : 0 .. MaxChanges]]
    /\ DOMAIN rows \subseteq Ids /\ \A id \in DOMAIN rows : rows[id] \in Row
    /\ cache \in [Key -> 0 .. Repeat] /\ fallback \subseteq Users \X (1 .. MaxChanges)
    /\ monitor \in BOOLEAN /\ echo = FALSE /\ told \in Ages
    /\ spent \in [saves : 0 .. MaxSaves, changes : 0 .. MaxChanges, faults : 0 .. MaxFaults]
    /\ RowTold /\ ShownIsCounted

JobsTold ==
    /\ jobs \in [Publishers -> Job]
    /\ \A j \in Publishers : JobTold(jobs[j], told)

CreatorsInv == TablesTold /\ JobsTold

Tables == <<configured, on, shown, channel, rows, cache, fallback, monitor, told, echo, spent>>

Numbers == /\ Repeat \in Nat \ {0} /\ MaxSaves \in Nat /\ MaxChanges \in Nat /\ MaxFaults \in Nat
           /\ Platform \in [Streams -> Platforms] /\ Kinds \subseteq {"stream", "video"}
           /\ Nobody \notin Users /\ Nothing \notin Streams

LEMMA NumbersAre == Numbers
  BY CreatorAlertsAssumption DEF Numbers

LEMMA TablesStay == TablesTold /\ UNCHANGED Tables => TablesTold'
<1>1. ASSUME TablesTold, UNCHANGED Tables PROVE RowTold' /\ ShownIsCounted'
  BY <1>1 DEF Tables, TablesTold, RowTold, ShownIsCounted
<1> QED  BY <1>1 DEF Tables, TablesTold

\* One publisher takes a step, and what was announced stays as it is.
LEMMA OneJob ==
  ASSUME JobsTold, NEW j \in Publishers, NEW new, JobTold(new, told),
         jobs' = [jobs EXCEPT ![j] = new], told' = told
  PROVE  JobsTold'
<1>1. new \in Job  BY DEF JobTold
<1>2. \A i \in Publishers : JobTold(jobs'[i], told)  BY <1>1 DEF JobsTold
<1>3. jobs' \in [Publishers -> Job]  BY <1>1 DEF JobsTold
<1> QED  BY <1>2, <1>3 DEF JobsTold

LEMMA JobsStay == JobsTold /\ jobs' = jobs /\ told' = told => JobsTold'
  BY DEF JobsTold

LEMMA AfterNow ==
  ASSUME Numbers, JobsTold, NEW j \in Publishers
  PROVE  JobTold(After(j), told)
<1>1. TodoTold(jobs[j], told)  BY DEF JobsTold, JobTold
<1>2. \A id \in DOMAIN jobs[j].todo \ {jobs[j].id} :
         jobs[j].todo[id].fresh => jobs[j].todo[id].row.age <= told[id].age
  BY <1>1 DEF TodoTold
<1> QED  BY <1>2, AfterTold DEF Numbers, JobsTold

LEMMA EndsTold ==
  ASSUME Numbers, JobsTold, NEW j \in Publishers, Ends(j), told' = told
  PROVE  JobsTold'
  BY AfterNow, OneJob DEF Ends

LEMMA InitTold == ASSUME Numbers, Init PROVE CreatorsInv
<1>1. \A j \in Publishers : jobs[j] = Idle  BY DEF Init
<1>2. JobsTold  BY <1>1, IdleTold, IdleIs DEF Init, JobsTold, Numbers
<1>3. rows = <<>> /\ DOMAIN rows = {}  BY NoTodo DEF Init
<1>4. told \in Ages /\ cache \in [Key -> 0 .. Repeat] /\ echo = FALSE
  BY DEF Init, Ages, Numbers
<1>5. spent \in [saves : 0 .. MaxSaves, changes : 0 .. MaxChanges, faults : 0 .. MaxFaults]
  BY DEF Init, Numbers
<1>6. shown \in [Users -> [stream : Streams \cup {Nothing}, n : 0 .. MaxChanges]]
  BY DEF Init, Numbers
<1>7. ShownIsCounted  BY DEF Init, ShownIsCounted
<1>8. RowTold  BY <1>3 DEF RowTold
<1>9. fallback = {} /\ monitor \in BOOLEAN /\ channel \in BOOLEAN /\ on \in [Streams -> Offers]
      /\ configured \subseteq Platforms
  BY DEF Init
<1> QED  BY <1>2, <1>3, <1>4, <1>5, <1>6, <1>7, <1>8, <1>9 DEF CreatorsInv, TablesTold

LEMMA CheckTold ==
  ASSUME Numbers, CreatorsInv, NEW j \in Publishers, Check(j)
  PROVE  CreatorsInv'
<1>1. TablesTold'  BY TablesStay DEF CreatorsInv, Check, world, bot, Tables
<1> DEFINE row == jobs[j].todo[jobs[j].id].row
           event == [key |-> [platform |-> Platform[row.stream], stream |-> row.stream, kind |-> on[row.stream]],
                     showing |-> 0]
           found == IF j = "activity" THEN PublishSaved(row) ELSE CheckSubscription(row)
           recent == j # "activity" /\ cache[event.key] < Repeat
           s == IF recent THEN "mark" ELSE "send"
           new == [jobs[j] EXCEPT !.event = event, !.send = ~recent, !.step = s]
<1>2. told' = told /\ jobs[j].step = "check" /\ JobsTold /\ TablesTold /\ JobTold(jobs[j], told)
  BY DEF CreatorsInv, Check, JobsTold
<1>3. IF found THEN jobs' = [jobs EXCEPT ![j] = new] ELSE Ends(j)
  BY <1>2 DEF Check, Seen, JobsTold
<1>4. PICK job \in Job : job = jobs[j]  BY <1>2 DEF JobTold
<1>5. /\ job.step = "check" /\ job.id # 0 /\ job.id \in DOMAIN job.todo /\ job.member = Nobody
      /\ job.id \in Ids /\ row \in Row
  BY <1>2, <1>4, JobIs, TodoIs DEF JobTold, HasRow
<1>6. CASE ~found  BY <1>1, <1>2, <1>3, <1>6, EndsTold DEF CreatorsInv
<1>7. CASE found
  <2>1. on[row.stream] \in {"stream", "video"} /\ row.age = Repeat
    <3>1. on[row.stream] \in Offers /\ row.kind \in Kinds /\ row.age \in 0 .. Repeat
      BY <1>2, <1>5 DEF TablesTold, Row
    <3>2. IsRepeatDue(row) /\ (on[row.stream] = row.kind \/ on[row.stream] # "none")
      BY <1>7 DEF PublishSaved, CheckSubscription
    <3> QED  BY <3>1, <3>2 DEF Numbers, IsRepeatDue, Offers
  <2>2. PICK kind \in {"stream", "video"} : kind = on[row.stream]  BY <2>1
  <2>3. PICK st \in Streams : st = row.stream  BY <1>5 DEF Row
  <2>4. PICK pl \in Platforms : pl = Platform[row.stream]  BY <2>3 DEF Numbers
  <2>5. event = [key |-> [platform |-> pl, stream |-> st, kind |-> kind], showing |-> 0]  BY <2>2, <2>3, <2>4
  <2>6. event \in Event  BY <2>5 DEF Event, Key, Numbers
  <2>7. PICK ev \in Event : ev = event  BY <2>6
  <2>8. PICK b \in BOOLEAN : b = ~recent  OBVIOUS
  <2>9. PICK s1 \in Steps : s1 = s /\ s1 \in {"mark", "send"}  BY DEF Steps
  <2> DEFINE n1 == [job EXCEPT !.event = ev, !.send = b, !.step = s1]
  <2>10. new = n1  BY <1>4, <2>7, <2>8, <2>9
  <2>11. n1 \in Job /\ n1.step = s1 /\ n1.todo = job.todo /\ n1.id = job.id /\ n1.member = job.member
         /\ n1.event = ev
    BY DEF Job
  <2> HIDE DEF n1
  <2>12. TodoTold(n1, told)  BY <1>2, <1>4, <2>11 DEF TodoTold, JobTold
  <2>13. told[job.id].age \in 0 .. Repeat  BY <1>2, <1>5 DEF TablesTold, Ages
  <2>14. job.todo[job.id].fresh => told[job.id].age = Repeat
    BY <1>2, <1>4, <1>5, <2>1, <2>13 DEF JobTold, TodoTold, Numbers
  <2>15. SendNew(n1, told)  BY <2>11, <2>14 DEF SendNew
  <2>16. HasRow(n1)  BY <1>5, <2>9, <2>11 DEF HasRow
  <2>17. JobTold(n1, told)  BY <2>11, <2>12, <2>15, <2>16 DEF JobTold
  <2> QED  BY <1>1, <1>2, <1>3, <1>7, <2>10, <2>17, OneJob DEF CreatorsInv
<1> QED  BY <1>6, <1>7

LEMMA SourcesTold ==
  ASSUME Numbers, CreatorsInv, NEW j \in Publishers, Sources(j)
  PROVE  CreatorsInv'
<1>1. TablesTold'  BY TablesStay DEF CreatorsInv, Sources, world, bot, Tables
<1> DEFINE u == jobs[j].member
           stream == jobs[j].event.key.stream
           showing == jobs[j].event.showing
           streaming == {id \in DOMAIN rows : rows[id].active /\ rows[id].kind = "stream"}
           mine == {id \in streaming : rows[id].user = u}
           asked == {id \in streaming : Platform[rows[id].stream] \in configured}
           matching == {id \in asked : rows[id].stream = stream}
           platform(id) == IF id = 0 THEN Platform[stream] ELSE Platform[rows[id].stream]
           key(id) == [platform |-> platform(id), stream |-> stream, kind |-> "stream"]
           recent(id) == cache[key(id)] < Repeat
           announced(id) == <<u, showing>> \in fallback \/ (id # 0 /\ rows[id].last = showing)
           s(id) == IF recent(id) THEN "mark" ELSE "send"
           new(id) == [jobs[j] EXCEPT !.id = id, !.send = ~recent(id),
                                      !.event = [key |-> key(id), showing |-> showing],
                                      !.todo = Read({id} \ {0}), !.step = s(id)]
<1>2. told' = told /\ jobs[j].step = "sources" /\ JobsTold /\ TablesTold /\ JobTold(jobs[j], told)
  BY DEF CreatorsInv, Sources, JobsTold
<1>3. PICK id \in IF mine = {} THEN {0} ELSE mine :
         IF (mine \cup matching) \cap asked # {} \/ (recent(id) /\ id = 0) \/ (~recent(id) /\ announced(id))
         THEN Ends(j)
         ELSE jobs' = [jobs EXCEPT ![j].id = id, ![j].send = ~recent(id),
                                   ![j].event = [key |-> key(id), showing |-> showing],
                                   ![j].todo = Read({id} \ {0}), ![j].step = s(id)]
  BY DEF Sources
<1>8. jobs' = [jobs EXCEPT ![j].id = id, ![j].send = ~recent(id),
                           ![j].event = [key |-> key(id), showing |-> showing],
                           ![j].todo = Read({id} \ {0}), ![j].step = s(id)]
      => jobs' = [jobs EXCEPT ![j] = new(id)]
  <2> HIDE DEF recent, key, showing, s
  <2> QED  BY <1>2 DEF JobsTold
<1>4. PICK job \in Job : job = jobs[j]  BY <1>2 DEF JobTold
<1>5. job.step = "sources" /\ job.event \in Event /\ job.event.showing > 0 /\ job.member \in Users
  BY <1>2, <1>4, JobIs DEF JobTold, HasRow
<1>6. CASE Ends(j)  BY <1>1, <1>2, <1>6, EndsTold DEF CreatorsInv
<1>7. CASE ~Ends(j)
  <2>1. jobs' = [jobs EXCEPT ![j] = new(id)] /\ ~(recent(id) /\ id = 0) /\ ~(~recent(id) /\ announced(id))
    BY <1>3, <1>7, <1>8
  <2>2. id \in 0 .. MaxSaves /\ (id # 0 => id \in DOMAIN rows /\ rows[id] \in Row /\ id \in Ids)
    <3>1. id = 0 \/ (id \in mine /\ id \in DOMAIN rows)  BY <1>3
    <3>2. id \in DOMAIN rows => rows[id] \in Row /\ id \in Ids  BY <1>2 DEF TablesTold
    <3>3. 0 \in 0 .. MaxSaves /\ Ids \subseteq 0 .. MaxSaves  BY DEF Numbers, Ids
    <3> QED  BY <3>1, <3>2, <3>3
  <2>3. PICK kind \in {"stream", "video"} : kind = "stream"  OBVIOUS
  <2>4. PICK st \in Streams : st = stream  BY <1>4, <1>5 DEF Event, Key
  <2>5. PICK pl \in Platforms : pl = platform(id)  BY <2>2, <2>4 DEF Numbers, Row
  <2>6. PICK k \in Key : k = key(id)  BY <2>3, <2>4, <2>5 DEF Key
  <2>7. PICK b \in BOOLEAN : b = ~recent(id)  OBVIOUS
  <2>8. PICK s1 \in Steps : s1 = s(id) /\ s1 \in {"mark", "send"}  BY DEF Steps
  <2>9. /\ Read({id} \ {0}) \in [{id} \ {0} -> Held] /\ {id} \ {0} \in SUBSET Ids
        /\ \A i \in {id} \ {0} : Read({id} \ {0})[i] = [row |-> rows[i], fresh |-> TRUE]
    BY <2>2 DEF Read, Held
  <2>10. PICK todo \in Todo : todo = Read({id} \ {0})  BY <2>9, IsTodo
  <2>21. [key |-> k, showing |-> job.event.showing] \in Event  BY <1>5, <2>6 DEF Event
  <2>11. PICK ev \in Event : ev = [key |-> k, showing |-> job.event.showing]  BY <2>21
  <2>20. ev.showing = job.event.showing  BY <2>11
  <2> DEFINE n1 == [job EXCEPT !.id = id, !.send = b, !.event = ev, !.todo = todo, !.step = s1]
  <2>13. new(id) = n1  BY <1>4, <2>6, <2>7, <2>8, <2>10, <2>11
  <2>14. n1 \in Job /\ n1.step = s1 /\ n1.todo = todo /\ n1.id = id /\ n1.member = job.member
         /\ n1.event = ev
    BY <2>2 DEF Job
  <2> HIDE DEF n1, new
  <2>15. DOMAIN todo = {id} \ {0} /\ \A i \in DOMAIN todo : todo[i].row = rows[i]  BY <2>10 DEF Read
  <2>16. TodoTold(n1, told)  BY <1>2, <2>2, <2>14, <2>15 DEF TodoTold, TablesTold, RowTold
  <2>17. SendNew(n1, told)
    <3>1. SUFFICES ASSUME s1 = "send", id # 0
                   PROVE  told[id].age = Repeat \/ (ev.showing # 0 /\ ev.showing # told[id].showing)
      BY <2>14 DEF SendNew
    <3>2. ~recent(id)  BY <2>8, <3>1
    <3>3. rows[id].last # showing  BY <2>1, <3>1, <3>2
    <3>4. rows[id].last = -1 \/ told[id].showing = rows[id].last
      BY <1>2, <2>2, <3>1 DEF TablesTold, RowTold
    <3>5. rows[id].last = -1 => told[id].age = Repeat  BY <1>2, <2>2, <3>1 DEF TablesTold, RowTold
    <3>6. ev.showing # 0 /\ ev.showing = showing
      <4>1. job.event.showing \in 0 .. MaxChanges  BY <1>5 DEF Event
      <4> QED  BY <1>4, <1>5, <2>20, <4>1 DEF Numbers
    <3> QED  BY <3>3, <3>4, <3>5, <3>6
  <2>18. HasRow(n1)
    <3>1. s1 = "mark" => id # 0  BY <2>1, <2>8
    <3>2. id # 0 => id \in DOMAIN todo  BY <2>15
    <3> QED  BY <1>5, <2>8, <2>20, <2>14, <3>1, <3>2 DEF HasRow
  <2>19. JobTold(n1, told)  BY <2>14, <2>16, <2>17, <2>18 DEF JobTold
  <2> QED  BY <1>1, <1>2, <2>1, <2>13, <2>19, OneJob DEF CreatorsInv
<1> QED  BY <1>6, <1>7

\* What a publisher holds that sends or marks.
LEMMA Sends ==
  ASSUME Numbers, JobsTold, NEW j \in Publishers, jobs[j].step \in {"send", "mark"}
  PROVE  /\ jobs[j] \in Job /\ JobTold(jobs[j], told)
         /\ jobs[j].event \in Event /\ jobs[j].event.key \in Key
         /\ jobs[j].event.showing \in 0 .. MaxChanges /\ jobs[j].send \in BOOLEAN
         /\ jobs[j].member # Nobody => jobs[j].member \in Users /\ jobs[j].event.showing \in 1 .. MaxChanges
         /\ jobs[j].id # 0 => jobs[j].id \in Ids /\ jobs[j].id \in DOMAIN jobs[j].todo
         /\ jobs[j].step = "mark" => jobs[j].id # 0
<1>1. jobs[j] \in Job /\ JobTold(jobs[j], told)  BY DEF JobsTold
<1>2. HasRow(jobs[j])  BY <1>1 DEF JobTold
<1>3. jobs[j].event \in Event  BY <1>2 DEF HasRow
<1>4. jobs[j].event.key \in Key /\ jobs[j].event.showing \in 0 .. MaxChanges  BY <1>3 DEF Event
<1>5. jobs[j].member # Nobody => jobs[j].event.showing > 0  BY <1>2 DEF HasRow
<1>6. jobs[j].id # 0 => jobs[j].id \in DOMAIN jobs[j].todo  BY <1>2 DEF HasRow
<1>7. DOMAIN jobs[j].todo \subseteq Ids  BY <1>1, JobIs, TodoIs
<1>8. jobs[j].step = "mark" => jobs[j].id # 0  BY <1>2 DEF HasRow
<1>9. jobs[j].send \in BOOLEAN /\ jobs[j].member \in Users \cup {Nobody}  BY <1>1, JobIs
<1> QED  BY <1>1, <1>3, <1>4, <1>5, <1>6, <1>7, <1>8, <1>9 DEF Numbers

LEMMA Remembered ==
  ASSUME Numbers, TablesTold, JobsTold, NEW j \in Publishers, jobs[j].step \in {"send", "mark"},
         Remember(j)
  PROVE  /\ cache' \in [Key -> 0 .. Repeat] /\ fallback' \subseteq Users \X (1 .. MaxChanges)
         /\ monitor' = monitor
<1>1. cache' \in [Key -> 0 .. Repeat]
  BY Sends DEF TablesTold, Remember, Numbers
<1>2. fallback' \subseteq Users \X (1 .. MaxChanges)
  BY Sends DEF TablesTold, Remember
<1> QED  BY <1>1, <1>2 DEF Remember

LEMMA SendTold ==
  ASSUME Numbers, CreatorsInv, NEW j \in Publishers, Send(j)
  PROVE  CreatorsInv'
<1>1. /\ told' = told /\ jobs[j].step = "send" /\ JobsTold /\ TablesTold /\ JobTold(jobs[j], told)
      /\ jobs[j].id # 0 => jobs[j].id \in Ids /\ jobs[j].id \in DOMAIN jobs[j].todo
  BY Sends DEF CreatorsInv, Send
<1>2. echo' = FALSE
  <2>1. SUFFICES ASSUME Repeats(j) PROVE FALSE
    BY <1>1 DEF Send, TablesTold
  <2>2. told[jobs[j].id] \in [age : 0 .. Repeat, showing : 0 .. MaxChanges]
    BY <1>1, <2>1 DEF TablesTold, Ages, Repeats
  <2>3. SendNew(jobs[j], told)  BY <1>1 DEF JobTold
  <2> QED  BY <1>1, <2>1, <2>2, <2>3 DEF SendNew, Repeats, Seen, Numbers
<1>3. /\ cache' \in [Key -> 0 .. Repeat] /\ fallback' \subseteq Users \X (1 .. MaxChanges)
      /\ monitor' \in BOOLEAN
  BY <1>1, Remembered DEF Send, bot, TablesTold
<1>4. TablesTold'
  <2>1. RowTold' /\ ShownIsCounted'  BY <1>1 DEF Send, world, TablesTold, RowTold, ShownIsCounted
  <2> QED  BY <1>1, <1>2, <1>3, <2>1 DEF TablesTold, Send, world
<1>5. CASE jobs[j].id = 0
  <2>1. Ends(j)  BY <1>5 DEF Send
  <2> QED  BY <1>1, <1>4, <2>1, EndsTold DEF CreatorsInv
<1>6. CASE jobs[j].id # 0
  <2>1. PICK job \in Job : job = jobs[j]  BY <1>1 DEF JobTold
  <2>2. PICK s1 \in Steps : s1 = "mark"  BY DEF Steps
  <2> DEFINE n1 == [job EXCEPT !.step = s1]
  <2>3. jobs' = [jobs EXCEPT ![j] = n1]  BY <1>1, <1>6, <2>1, <2>2 DEF Send, Goes, JobsTold
  <2>4. n1 \in Job /\ n1.step = s1 /\ n1.todo = job.todo /\ n1.id = job.id /\ n1.member = job.member
        /\ n1.event = job.event
    BY DEF Job
  <2> HIDE DEF n1
  <2>5. TodoTold(n1, told)  BY <1>1, <2>1, <2>4 DEF JobTold, TodoTold
  <2>6. SendNew(n1, told)  BY <2>2, <2>4 DEF SendNew
  <2>7. HasRow(n1)  BY <1>1, <1>6, <2>1, <2>2, <2>4 DEF HasRow, JobTold
  <2>8. JobTold(n1, told)  BY <2>4, <2>5, <2>6, <2>7 DEF JobTold
  <2> QED  BY <1>1, <1>4, <2>3, <2>8, OneJob DEF CreatorsInv
<1> QED  BY <1>5, <1>6

\* A row that another publisher marks is stale in this one's hands.
Stale(job, id) == IF id \in DOMAIN job.todo THEN [job EXCEPT !.todo[id].fresh = FALSE] ELSE job

LEMMA StaleTold ==
  ASSUME Numbers, NEW job, NEW ages, NEW newer, NEW id \in Ids, JobTold(job, ages),
         \A i \in Ids \ {id} : newer[i] = ages[i]
  PROVE  JobTold(Stale(job, id), newer)
<1>1. job \in Job /\ job.todo \in Todo  BY JobIs DEF JobTold
<1>2. DOMAIN job.todo \subseteq Ids /\ job.todo \in [DOMAIN job.todo -> Held]  BY <1>1, TodoIs
<1>3. CASE id \notin DOMAIN job.todo
  <2>1. Stale(job, id) = job  BY <1>3 DEF Stale
  <2>2. TodoTold(job, newer)  BY <1>2, <1>3 DEF JobTold, TodoTold
  <2>3. SendNew(job, newer)
    <3>1. SUFFICES ASSUME job.step = "send", job.id # 0 PROVE job.id \in Ids \ {id}
      BY DEF JobTold, SendNew
    <3> QED  BY <1>2, <1>3, <3>1 DEF JobTold, HasRow
  <2> QED  BY <2>1, <2>2, <2>3 DEF JobTold
<1>4. CASE id \in DOMAIN job.todo
  <2>1. PICK todo : todo = [job.todo EXCEPT ![id].fresh = FALSE]  OBVIOUS
  <2>2. DOMAIN todo = DOMAIN job.todo  BY <1>2, <2>1
  <2>3. todo \in [DOMAIN job.todo -> Held] /\ todo[id].fresh = FALSE
        /\ \A i \in DOMAIN job.todo \ {id} : todo[i] = job.todo[i]
    BY <1>2, <1>4, <2>1 DEF Held
  <2>4. todo \in Todo  BY <1>2, <2>3, IsTodo
  <2> DEFINE new == [job EXCEPT !.todo = todo]
  <2>5. Stale(job, id) = new  BY <1>1, <1>4, <2>1 DEF Stale
  <2>6. /\ new \in Job /\ new.todo = todo /\ new.step = job.step /\ new.id = job.id
        /\ new.event = job.event /\ new.member = job.member
    BY <1>1, <2>4 DEF Job
  <2> HIDE DEF new
  <2>7. TodoTold(new, newer)  BY <1>2, <2>2, <2>3, <2>6 DEF JobTold, TodoTold
  <2>8. SendNew(new, newer)
    <3>1. SUFFICES ASSUME job.step = "send", job.id # 0, job.id # id
                   PROVE  job.id \in DOMAIN job.todo
      BY <1>2, <2>3, <2>6 DEF JobTold, SendNew
    <3> QED  BY <3>1 DEF JobTold, HasRow
  <2>9. HasRow(new)  BY <2>2, <2>6 DEF HasRow, JobTold
  <2> QED  BY <2>5, <2>6, <2>7, <2>8, <2>9 DEF JobTold
<1> QED  BY <1>3, <1>4

LEMMA MarkTold ==
  ASSUME Numbers, CreatorsInv, NEW j \in Publishers, Mark(j)
  PROVE  CreatorsInv'
<1> DEFINE id == jobs[j].id
           event == jobs[j].event
<1>1. /\ jobs[j].step = "mark" /\ JobsTold /\ TablesTold /\ JobTold(jobs[j], told)
      /\ id \in Ids /\ id \in DOMAIN jobs[j].todo /\ event.showing \in 0 .. MaxChanges
  BY Sends DEF CreatorsInv, Mark
<1>2. /\ rows' = IF id \in DOMAIN rows THEN [rows EXCEPT ![id] = Marked(@, event)] ELSE rows
      /\ told' = IF id \in DOMAIN rows
                 THEN [told EXCEPT ![id] = [age |-> IF jobs[j].send THEN 0 ELSE @.age,
                                            showing |-> event.showing]] ELSE told
      /\ jobs' = [i \in Publishers |-> IF i = j THEN After(j) ELSE Stale(jobs[i], id)]
      /\ echo' = echo
  BY DEF Mark, Stale
<1>3. told' \in Ages /\ \A i \in Ids \ {id} : told'[i] = told[i]
  <2>1. told \in Ages /\ told[id].age \in 0 .. Repeat /\ 0 \in 0 .. Repeat  BY <1>1 DEF TablesTold, Ages, Numbers
  <2>2. PICK age \in 0 .. Repeat : age = IF jobs[j].send THEN 0 ELSE told[id].age  BY <2>1
  <2>3. [age |-> age, showing |-> event.showing] \in [age : 0 .. Repeat, showing : 0 .. MaxChanges]  BY <1>1
  <2> QED  BY <1>1, <1>2, <2>1, <2>2, <2>3 DEF Ages
<1>4. id \in DOMAIN rows => /\ Marked(rows[id], event) \in Row
                            /\ Marked(rows[id], event).age = 0
                            /\ Marked(rows[id], event).last = event.showing
  <2>1. ASSUME id \in DOMAIN rows PROVE rows[id] \in Row  BY <1>1, <2>1 DEF TablesTold
  <2>2. 0 \in 0 .. Repeat /\ event.showing \in -1 .. MaxChanges  BY <1>1 DEF Numbers
  <2> QED  BY <2>1, <2>2 DEF Marked, Row
<1>5. DOMAIN rows' = DOMAIN rows /\ \A i \in DOMAIN rows : rows'[i] \in Row
  BY <1>1, <1>2, <1>4 DEF TablesTold
<1>6. RowTold'
  <2>1. SUFFICES ASSUME NEW i \in DOMAIN rows
                 PROVE  /\ rows'[i].age <= told'[i].age
                        /\ rows'[i].last = -1 => told'[i].age = Repeat
                        /\ rows'[i].last # -1 => told'[i].showing = rows'[i].last
    BY <1>5 DEF RowTold
  <2>2. i \in Ids  BY <1>1 DEF TablesTold
  <2>3. CASE i = id
    <3>1. rows'[id].age = 0 /\ rows'[id].last = event.showing  BY <1>2, <1>4, <2>3
    <3>2. told'[id].age \in 0 .. Repeat  BY <1>1, <1>3 DEF Ages
    <3>3. told'[id].showing = event.showing  BY <1>1, <1>2, <2>3 DEF TablesTold, Ages
    <3> QED  BY <1>1, <2>3, <3>1, <3>2, <3>3
  <2>4. CASE i # id
    <3>1. rows'[i] = rows[i] /\ told'[i] = told[i]  BY <1>2, <1>3, <2>2, <2>4
    <3> QED  BY <1>1, <3>1 DEF TablesTold, RowTold
  <2> QED  BY <2>3, <2>4
<1>7. /\ cache' \in [Key -> 0 .. Repeat] /\ fallback' \subseteq Users \X (1 .. MaxChanges)
      /\ monitor' \in BOOLEAN
  BY <1>1, Remembered DEF Mark, bot, TablesTold
<1>8. TablesTold'
  <2>1. ShownIsCounted'  BY <1>1 DEF Mark, world, TablesTold, ShownIsCounted
  <2> QED  BY <1>1, <1>2, <1>3, <1>5, <1>6, <1>7, <2>1 DEF TablesTold, Mark, world
<1>9. JobTold(After(j), told')
  <2>1. DOMAIN jobs[j].todo \subseteq Ids  BY <1>1, JobIs, TodoIs DEF JobTold
  <2>2. \A i \in DOMAIN jobs[j].todo \ {id} : jobs[j].todo[i].fresh => jobs[j].todo[i].row.age <= told'[i].age
    BY <1>1, <1>3, <2>1 DEF JobTold, TodoTold
  <2> QED  BY <1>1, <2>2, AfterTold DEF Numbers, JobsTold
<1>10. \A i \in Publishers : JobTold(jobs'[i], told')
  <2>1. TAKE i \in Publishers
  <2>2. CASE i = j  BY <1>2, <1>9, <2>2
  <2>3. CASE i # j
    <3>1. JobTold(jobs[i], told)  BY <1>1 DEF JobsTold
    <3>2. JobTold(Stale(jobs[i], id), told')  BY <1>1, <1>3, <3>1, StaleTold
    <3> QED  BY <1>2, <2>3, <3>2
  <2> QED  BY <2>2, <2>3
<1>11. JobsTold'
  <2>1. jobs' = [i \in Publishers |-> jobs'[i]]  BY <1>2
  <2> QED  BY <1>10, <2>1 DEF JobsTold, JobTold
<1> QED  BY <1>8, <1>11 DEF CreatorsInv

\* What stays as it is when a call is counted, or a change.
LEMMA Spent ==
  ASSUME Numbers, TablesTold, NEW what \in {"saves", "changes", "faults"}, NEW bound,
         what = "saves" => bound = MaxSaves, what = "changes" => bound = MaxChanges,
         what = "faults" => bound = MaxFaults, Spend(what, bound)
  PROVE  /\ spent' \in [saves : 0 .. MaxSaves, changes : 0 .. MaxChanges, faults : 0 .. MaxFaults]
         /\ spent'[what] \in 1 .. bound
<1> DEFINE S == [saves : 0 .. MaxSaves, changes : 0 .. MaxChanges, faults : 0 .. MaxFaults]
<1>1. spent \in S /\ spent.saves \in 0 .. MaxSaves /\ spent.changes \in 0 .. MaxChanges /\ spent.faults \in 0 .. MaxFaults
  BY DEF TablesTold
<1>2. spent[what] \in 0 .. bound /\ spent[what] < bound /\ bound \in Nat  BY <1>1 DEF Numbers, Spend
<1>3. PICK n \in 1 .. bound : n = spent[what] + 1  BY <1>2
<1>4. spent' = [spent EXCEPT ![what] = n]  BY <1>3 DEF Spend
<1>5. CASE what = "saves"
  <2>1. spent' = [spent EXCEPT !.saves = n]  BY <1>4, <1>5, Zenon
  <2>2. bound = MaxSaves  BY <1>5
  <2>3. n \in 0 .. MaxSaves  BY <1>3, <2>2 DEF Numbers
  <2> QED  BY <1>1, <1>3, <1>5, <2>1, <2>3
<1>6. CASE what = "changes"
  <2>1. spent' = [spent EXCEPT !.changes = n]  BY <1>4, <1>6, Zenon
  <2>2. bound = MaxChanges  BY <1>6
  <2>3. n \in 0 .. MaxChanges  BY <1>3, <2>2 DEF Numbers
  <2> QED  BY <1>1, <1>3, <1>6, <2>1, <2>3
<1>7. CASE what = "faults"
  <2>1. spent' = [spent EXCEPT !.faults = n]  BY <1>4, <1>7, Zenon
  <2>2. bound = MaxFaults  BY <1>7
  <2>3. n \in 0 .. MaxFaults  BY <1>3, <2>2 DEF Numbers
  <2> QED  BY <1>1, <1>3, <1>7, <2>1, <2>3
<1> QED  BY <1>5, <1>6, <1>7

LEMMA FailsTold ==
  ASSUME Numbers, CreatorsInv, NEW j \in Publishers, Fails(j)
  PROVE  CreatorsInv'
<1>1. JobsTold /\ TablesTold /\ told' = told  BY DEF CreatorsInv, Fails
<1>2. spent' \in [saves : 0 .. MaxSaves, changes : 0 .. MaxChanges, faults : 0 .. MaxFaults]
  BY <1>1, Spent DEF Fails
<1>3. monitor' \in BOOLEAN  BY DEF Fails
<1>4. TablesTold'
  <2>1. RowTold' /\ ShownIsCounted'  BY <1>1 DEF Fails, world, TablesTold, RowTold, ShownIsCounted
  <2> QED  BY <1>1, <1>2, <1>3, <2>1 DEF TablesTold, Fails, world
<1>5. PICK new : jobs' = [jobs EXCEPT ![j] = new] /\ new \in {Idle, After(j)}
  BY DEF Fails
<1>6. JobTold(new, told)  BY <1>1, <1>5, AfterNow, IdleTold DEF Numbers
<1> QED  BY <1>1, <1>4, <1>5, <1>6, OneJob DEF CreatorsInv

LEMMA ListFailsTold ==
  ASSUME Numbers, CreatorsInv, ListFails
  PROVE  CreatorsInv'
<1>1. JobsTold /\ TablesTold /\ UNCHANGED <<jobs, told>>  BY DEF CreatorsInv, ListFails
<1>2. spent' \in [saves : 0 .. MaxSaves, changes : 0 .. MaxChanges, faults : 0 .. MaxFaults]
  BY <1>1, Spent DEF ListFails
<1>3. monitor' \in BOOLEAN  BY DEF ListFails
<1>4. TablesTold'
  <2>1. RowTold' /\ ShownIsCounted'  BY <1>1 DEF ListFails, world, TablesTold, RowTold, ShownIsCounted
  <2> QED  BY <1>1, <1>2, <1>3, <2>1 DEF TablesTold, ListFails, world
<1> QED  BY <1>1, <1>4, JobsStay DEF CreatorsInv

\* The rows that are read now know what was announced of them.
LEMMA ReadTold ==
  ASSUME TablesTold, NEW ids \in SUBSET DOMAIN rows
  PROVE  /\ Read(ids) \in Todo /\ DOMAIN Read(ids) = ids
         /\ \A id \in ids : Read(ids)[id].row.age <= told[id].age
<1>1. ids \in SUBSET Ids /\ \A id \in ids : rows[id] \in Row  BY DEF TablesTold
<1>2. Read(ids) \in [ids -> Held]  BY <1>1 DEF Read, Held
<1>3. \A id \in ids : Read(ids)[id].row = rows[id]  BY DEF Read
<1> QED  BY <1>1, <1>2, <1>3, IsTodo DEF TablesTold, RowTold

LEMMA MonitorIs == "monitor" \in Publishers
  BY DEF Publishers

LEMMA MonitorListTold ==
  ASSUME Numbers, CreatorsInv, MonitorList
  PROVE  CreatorsInv'
<1>1. TablesTold'  BY TablesStay DEF CreatorsInv, MonitorList, world, bot, Tables
<1>2. PICK s \in Steps : s = "next"  BY DEF Steps
<1>3. TablesTold /\ JobsTold /\ told' = told  BY DEF CreatorsInv, MonitorList
<1>4. PICK todo \in Todo : todo = Read(DOMAIN rows)  BY <1>3, ReadTold
<1>5. \A id \in DOMAIN todo : todo[id].row.age <= told[id].age  BY <1>3, <1>4, ReadTold
<1>6. PICK idle \in Job : idle = Idle  BY IdleIs DEF Numbers
<1> DEFINE new == [idle EXCEPT !.step = s, !.todo = todo, !.members = Users]
<1>7. new \in Job /\ new.step = s /\ new.todo = todo /\ new.member = idle.member  BY DEF Job
<1>8. jobs' = [jobs EXCEPT !["monitor"] = new]  BY <1>2, <1>4, <1>6 DEF MonitorList
<1> HIDE DEF new
<1>9. Rested(new, todo)  BY <1>2, <1>6, <1>7, IdleIs DEF Rested, Numbers
<1>10. JobTold(new, told)  BY <1>5, <1>7, <1>9, RestedTold
<1> QED  BY <1>1, <1>3, <1>8, <1>10, OneJob, MonitorIs DEF CreatorsInv

LEMMA MonitorNextTold ==
  ASSUME Numbers, CreatorsInv, MonitorNext
  PROVE  CreatorsInv'
<1>1. TablesTold'  BY TablesStay DEF CreatorsInv, MonitorNext, world, bot, Tables
<1>2. TablesTold /\ JobsTold /\ told' = told /\ jobs["monitor"].step = "next"
  BY DEF CreatorsInv, MonitorNext
<1>3. JobTold(jobs["monitor"], told)  BY <1>2, MonitorIs DEF JobsTold
<1>4. PICK job \in Job : job = jobs["monitor"]  BY <1>3 DEF JobTold
<1>5. job.member = Nobody /\ TodoTold(job, told)  BY <1>2, <1>3, <1>4 DEF JobTold, HasRow
<1>6. CASE Goes("monitor", "scan")
  <2>1. PICK s \in Steps : s = "scan"  BY DEF Steps
  <2> DEFINE new == [job EXCEPT !.step = s]
  <2>2. jobs' = [jobs EXCEPT !["monitor"] = new]  BY <1>2, <1>4, <1>6, <2>1, MonitorIs DEF Goes, JobsTold
  <2>3. new \in Job /\ new.step = s /\ new.todo = job.todo /\ new.member = job.member  BY DEF Job
  <2> HIDE DEF new
  <2>4. Rested(new, job.todo)  BY <1>5, <2>1, <2>3 DEF Rested
  <2>5. JobTold(new, told)  BY <1>5, <2>3, <2>4, RestedTold DEF TodoTold
  <2> QED  BY <1>1, <1>2, <2>2, <2>5, OneJob, MonitorIs DEF CreatorsInv
<1>7. ASSUME NEW id \in DOMAIN jobs["monitor"].todo,
             jobs' = [jobs EXCEPT !["monitor"].step = "check", !["monitor"].id = id]
      PROVE  CreatorsInv'
  <2>1. PICK s \in Steps : s = "check"  BY DEF Steps
  <2>2. id \in Ids /\ id \in 0 .. MaxSaves /\ id # 0 /\ id \in DOMAIN job.todo
    BY <1>4, <1>7, JobIs, TodoIs DEF Ids, Numbers
  <2> DEFINE new == [job EXCEPT !.step = s, !.id = id]
  <2>3. jobs' = [jobs EXCEPT !["monitor"] = new]  BY <1>2, <1>4, <1>7, <2>1, MonitorIs DEF JobsTold
  <2>4. new \in Job /\ new.step = s /\ new.todo = job.todo /\ new.member = job.member /\ new.id = id
    BY <2>2 DEF Job
  <2> HIDE DEF new
  <2>5. TodoTold(new, told)  BY <1>5, <2>4 DEF TodoTold
  <2>6. SendNew(new, told)  BY <2>1, <2>4 DEF SendNew
  <2>7. HasRow(new)  BY <1>5, <2>1, <2>2, <2>4 DEF HasRow
  <2>8. JobTold(new, told)  BY <2>4, <2>5, <2>6, <2>7 DEF JobTold
  <2> QED  BY <1>1, <1>2, <2>3, <2>8, OneJob, MonitorIs DEF CreatorsInv
<1> QED  BY <1>6, <1>7 DEF MonitorNext

\* A publisher that goes to the sources with what a member shows.
LEMMA ShowingTold ==
  ASSUME Numbers, NEW u \in Users, NEW activity, activity.stream \in Streams, activity.n \in 1 .. MaxChanges
  PROVE  /\ Showing(u, activity) \in Event
         /\ Showing(u, activity).showing > 0
<1>1. PICK st \in Streams : st = activity.stream  OBVIOUS
<1>2. PICK n \in 0 .. MaxChanges : n = activity.n /\ n > 0  BY DEF Numbers
<1>3. PICK pl \in Platforms : pl = Platform[activity.stream]  BY DEF Numbers
<1>4. PICK kind \in {"stream", "video"} : kind = "stream"  OBVIOUS
<1>5. Showing(u, activity) = [key |-> [platform |-> pl, stream |-> st, kind |-> kind], showing |-> n]
  BY <1>1, <1>2, <1>3, <1>4 DEF Showing
<1> QED  BY <1>2, <1>5 DEF Event, Key

LEMMA AskedTold ==
  ASSUME NEW job \in Job, NEW ages, TodoTold(job, ages), job.step = "sources",
         job.event \in Event, job.event.showing > 0, job.member # Nobody
  PROVE  JobTold(job, ages)
<1>1. SendNew(job, ages)  BY DEF SendNew
<1>2. HasRow(job)  BY DEF HasRow
<1> QED  BY <1>1, <1>2 DEF JobTold

LEMMA ScanTold ==
  ASSUME Numbers, CreatorsInv, Scan
  PROVE  CreatorsInv'
<1>1. TablesTold'  BY TablesStay DEF CreatorsInv, Scan, world, bot, Tables
<1>2. TablesTold /\ JobsTold /\ told' = told /\ jobs["monitor"].step = "scan"
  BY DEF CreatorsInv, Scan
<1>3. JobTold(jobs["monitor"], told)  BY <1>2, MonitorIs DEF JobsTold
<1>4. PICK job \in Job : job = jobs["monitor"]  BY <1>3 DEF JobTold
<1>5. CASE jobs' = [jobs EXCEPT !["monitor"] = Idle]
  BY <1>1, <1>2, <1>5, OneJob, MonitorIs, IdleTold DEF CreatorsInv, Numbers
<1>6. ASSUME NEW u \in Users, shown[u].stream # Nothing,
             jobs' = [jobs EXCEPT !["monitor"].step = "sources",
                                  !["monitor"].members = jobs["monitor"].members \ {u},
                                  !["monitor"].member = u,
                                  !["monitor"].event = Showing(u, shown[u])]
      PROVE  CreatorsInv'
  <2>1. PICK s \in Steps : s = "sources"  BY DEF Steps
  <2>2. shown[u] \in [stream : Streams \cup {Nothing}, n : 0 .. MaxChanges]  BY <1>2 DEF TablesTold
  <2>3. shown[u].stream \in Streams /\ shown[u].n \in 1 .. MaxChanges
    BY <1>2, <1>6, <2>2 DEF TablesTold, ShownIsCounted, Numbers
  <2>4. PICK ev \in Event : ev = Showing(u, shown[u]) /\ ev.showing > 0  BY <2>3, ShowingTold
  <2>5. PICK ms \in SUBSET Users : ms = job.members \ {u}  BY JobIs
  <2> DEFINE new == [job EXCEPT !.step = s, !.members = ms, !.member = u, !.event = ev]
  <2>6. jobs' = [jobs EXCEPT !["monitor"] = new]
    BY <1>2, <1>4, <1>6, <2>1, <2>4, <2>5, MonitorIs DEF JobsTold
  <2>7. new \in Job /\ new.step = s /\ new.todo = job.todo /\ new.member = u /\ new.event = ev
    BY DEF Job
  <2> HIDE DEF new
  <2>8. TodoTold(new, told)  BY <1>3, <1>4, <2>7 DEF TodoTold, JobTold
  <2>9. JobTold(new, told)  BY <2>1, <2>4, <2>7, <2>8, AskedTold DEF Numbers
  <2> QED  BY <1>1, <1>2, <2>6, <2>9, OneJob, MonitorIs DEF CreatorsInv
<1> QED
  <2>1. \/ jobs' = [jobs EXCEPT !["monitor"] = Idle]
        \/ \E u \in {u \in jobs["monitor"].members : shown[u].stream # Nothing} :
             jobs' = [jobs EXCEPT !["monitor"].step = "sources",
                                  !["monitor"].members = jobs["monitor"].members \ {u},
                                  !["monitor"].member = u,
                                  !["monitor"].event = Showing(u, shown[u])]
    BY <1>2, MonitorIs DEF Scan, JobsTold
  <2>2. jobs["monitor"].members \subseteq Users  BY <1>4, JobIs
  <2> QED  BY <1>5, <1>6, <2>1, <2>2

LEMMA ShowTold ==
  ASSUME Numbers, CreatorsInv, NEW u \in Users, NEW st \in Streams, Show(u, st)
  PROVE  CreatorsInv'
<1>1. TablesTold /\ JobsTold /\ told' = told /\ rows' = rows /\ u \in Publishers
  BY DEF CreatorsInv, Show, Publishers
<1>2. /\ spent' \in [saves : 0 .. MaxSaves, changes : 0 .. MaxChanges, faults : 0 .. MaxFaults]
      /\ spent'["changes"] \in 1 .. MaxChanges
  BY <1>1, Spent DEF Show
<1>3. PICK n \in 1 .. MaxChanges : n = spent'["changes"] /\ n \in 0 .. MaxChanges  BY <1>2
<1>4. shown' = [shown EXCEPT ![u] = [stream |-> st, n |-> n]]  BY <1>3 DEF Show
<1>5. shown' \in [Users -> [stream : Streams \cup {Nothing}, n : 0 .. MaxChanges]]
      /\ shown'[u].stream = st /\ shown'[u].n = n
      /\ \A v \in Users \ {u} : shown'[v] = shown[v]
  BY <1>1, <1>3, <1>4 DEF TablesTold
<1>6. ShownIsCounted'
  <2>1. ASSUME NEW v \in Users, v # u, shown'[v].stream # Nothing PROVE shown'[v].n > 0
    BY <1>1, <1>5, <2>1 DEF TablesTold, ShownIsCounted
  <2> QED  BY <1>3, <1>5, <2>1 DEF ShownIsCounted
<1>7. RowTold'  BY <1>1 DEF TablesTold, RowTold
<1>8. TablesTold'  BY <1>1, <1>2, <1>5, <1>6, <1>7 DEF TablesTold, Show, bot
<1>9. PICK s \in Steps : s = "sources"  BY DEF Steps
<1>10. PICK ev \in Event : ev = Showing(u, shown'[u]) /\ ev.showing > 0
  BY <1>3, <1>5, ShowingTold
<1>11. PICK idle \in Job : idle = Idle  BY IdleIs DEF Numbers
<1> DEFINE new == [idle EXCEPT !.step = s, !.member = u, !.event = ev]
<1>12. jobs' = [jobs EXCEPT ![u] = new]  BY <1>9, <1>10, <1>11 DEF Show
<1>13. new \in Job /\ new.step = s /\ new.todo = idle.todo /\ new.member = u /\ new.event = ev
  BY DEF Job
<1> HIDE DEF new
<1>14. TodoTold(new, told)  BY <1>11, <1>13, IdleIs, NoTodo DEF TodoTold, Numbers
<1>15. JobTold(new, told)  BY <1>9, <1>10, <1>13, <1>14, AskedTold DEF Numbers
<1> QED  BY <1>1, <1>8, <1>12, <1>15, OneJob DEF CreatorsInv

LEMMA HideTold ==
  ASSUME Numbers, CreatorsInv, NEW u \in Users, Hide(u)
  PROVE  CreatorsInv'
<1>1. TablesTold /\ JobsTold /\ told' = told /\ rows' = rows /\ jobs' = jobs
  BY DEF CreatorsInv, Hide
<1>2. PICK none \in Streams \cup {Nothing} : none = Nothing  OBVIOUS
<1>3. shown' = [shown EXCEPT ![u].stream = none]  BY <1>2 DEF Hide
<1>4. shown' \in [Users -> [stream : Streams \cup {Nothing}, n : 0 .. MaxChanges]]
      /\ shown'[u].stream = none /\ \A v \in Users \ {u} : shown'[v] = shown[v]
  BY <1>1, <1>3 DEF TablesTold
<1>5. ShownIsCounted' /\ RowTold'  BY <1>1, <1>2, <1>4 DEF TablesTold, ShownIsCounted, RowTold
<1>6. TablesTold'  BY <1>1, <1>4, <1>5 DEF TablesTold, Hide, bot
<1> QED  BY <1>1, <1>6, JobsStay DEF CreatorsInv

LEMMA AsksTold ==
  ASSUME Numbers, CreatorsInv, NEW u \in Users, NEW st \in Streams, NEW kind \in Kinds,
         NEW j \in {"command", "activity"}, Asks(j, u, st, kind)
  PROVE  CreatorsInv'
<1>1. TablesTold /\ JobsTold /\ told' = told /\ rows' = rows /\ jobs[j] = Idle /\ j \in Publishers
  BY DEF CreatorsInv, Asks, Publishers
<1>2. /\ spent' \in [saves : 0 .. MaxSaves, changes : 0 .. MaxChanges, faults : 0 .. MaxFaults]
      /\ spent'["saves"] \in 1 .. MaxSaves
  BY <1>1, Spent DEF Asks
<1>3. PICK id \in 0 .. MaxSaves : id = spent'.saves /\ id # 0  BY <1>2 DEF Numbers
<1>4. RowTold' /\ ShownIsCounted'  BY <1>1 DEF TablesTold, RowTold, ShownIsCounted, Asks, world
<1>5. TablesTold'  BY <1>1, <1>2, <1>4 DEF TablesTold, Asks, world, bot
<1>6. PICK s \in Steps : s = "save"  BY DEF Steps
<1>7. PICK pl \in Platforms : pl = Platform[st]  BY DEF Numbers
<1>8. PICK k \in {"stream", "video"} : k = kind  BY DEF Numbers
<1>9. [key |-> [platform |-> pl, stream |-> st, kind |-> k], showing |-> 0] \in Event
  BY DEF Event, Key, Numbers
<1>10. PICK ev \in Event : ev = [key |-> [platform |-> pl, stream |-> st, kind |-> k], showing |-> 0]
  BY <1>9
<1>11. PICK idle \in Job : idle = Idle  BY IdleIs DEF Numbers
<1> DEFINE new == [idle EXCEPT !.step = s, !.member = u, !.id = id, !.event = ev]
<1>12. jobs' = [jobs EXCEPT ![j] = new]
  BY <1>1, <1>3, <1>6, <1>7, <1>8, <1>10, <1>11 DEF Asks, JobsTold
<1>13. /\ new \in Job /\ new.step = s /\ new.todo = idle.todo /\ new.member = u /\ new.id = id
       /\ new.event = ev
  BY DEF Job
<1> HIDE DEF new
<1>14. TodoTold(new, told)  BY <1>11, <1>13, IdleIs, NoTodo DEF TodoTold, Numbers
<1>15. SendNew(new, told)  BY <1>6, <1>13 DEF SendNew
<1>16. HasRow(new)
  <2>1. new.event.key.kind \in Kinds  BY <1>8, <1>10, <1>13
  <2> QED  BY <1>3, <1>6, <1>13, <2>1 DEF HasRow
<1>17. JobTold(new, told)  BY <1>13, <1>14, <1>15, <1>16 DEF JobTold
<1> QED  BY <1>1, <1>5, <1>12, <1>17, OneJob DEF CreatorsInv

\* What was announced of one row counts no more: the others' rows are as young as ever.
LEMMA OlderTold ==
  ASSUME NEW job, NEW ages \in Ages, NEW newer, NEW id \in Ids, JobTold(job, ages),
         newer[id].age = Repeat, \A i \in Ids \ {id} : newer[i] = ages[i]
  PROVE  JobTold(job, newer)
<1>1. job \in Job /\ job.todo \in Todo  BY JobIs DEF JobTold
<1>2. DOMAIN job.todo \subseteq Ids /\ \A i \in DOMAIN job.todo : job.todo[i].row \in Row
  BY <1>1, TodoIs
<1>3. TodoTold(job, newer)
  <2>1. SUFFICES ASSUME NEW i \in DOMAIN job.todo, job.todo[i].fresh
                 PROVE  job.todo[i].row.age <= newer[i].age
    BY DEF TodoTold
  <2>2. CASE i = id
    <3>1. job.todo[i].row.age \in 0 .. Repeat  BY <1>2 DEF Row
    <3> QED  BY <2>2, <3>1
  <2>3. CASE i # id
    <3>1. newer[i] = ages[i]  BY <1>2, <2>3
    <3> QED  BY <2>1, <3>1 DEF JobTold, TodoTold
  <2> QED  BY <2>2, <2>3
<1>4. SendNew(job, newer)
  <2>1. SUFFICES ASSUME job.step = "send", job.id # 0, job.id # id
                 PROVE  newer[job.id] = ages[job.id]
    BY DEF JobTold, SendNew
  <2>2. job.id \in Ids  BY <1>2, <2>1 DEF JobTold, HasRow
  <2> QED  BY <2>1, <2>2
<1> QED  BY <1>3, <1>4 DEF JobTold

LEMMA SavedIs ==
  ASSUME Numbers, NEW old \in Row, NEW row \in Row, row.last = -1
  PROVE  /\ Saved(old, row) \in Row
         /\ Saved(old, row).last # -1 =>
              Saved(old, row).last = old.last /\ Saved(old, row).age = old.age
<1>1. old.last \in -1 .. MaxChanges /\ old.age \in 0 .. Repeat  BY DEF Row
<1>2. PICK new \in Row : new = [row EXCEPT !.last = old.last, !.age = old.age]
                                  /\ new.last = old.last /\ new.age = old.age
  <2>1. [row EXCEPT !.last = old.last, !.age = old.age] \in Row  BY <1>1 DEF Row
  <2> QED  BY <2>1 DEF Row
<1>3. Saved(old, row) \in {new, row}  BY <1>2 DEF Saved
<1> QED  BY <1>2, <1>3

LEMMA SaveTold ==
  ASSUME Numbers, CreatorsInv, NEW j \in Publishers, NEW id \in Ids,
         NEW row \in Row, row.last = -1, Save(j, id, row)
  PROVE  CreatorsInv'
<1>1. TablesTold /\ JobsTold /\ echo' = echo  BY DEF CreatorsInv, Save
<1>2. PICK saved : saved = IF id \in DOMAIN rows THEN Saved(rows[id], row) ELSE row  OBVIOUS
<1>3. DOMAIN rows' = DOMAIN rows \cup {id} /\ rows'[id] = saved /\ \A i \in DOMAIN rows \ {id} : rows'[i] = rows[i]
  BY <1>2 DEF Save
<1>4. id \in DOMAIN rows => rows[id] \in Row  BY <1>1 DEF TablesTold
<1>5. /\ saved \in Row
      /\ saved.last # -1 => id \in DOMAIN rows /\ saved.last = rows[id].last /\ saved.age = rows[id].age
  BY <1>2, <1>4, SavedIs
<1>6. told' = IF saved.last = -1 THEN [told EXCEPT ![id] = [age |-> Repeat, showing |-> 0]] ELSE told
  BY <1>3 DEF Save
<1>7. /\ told' \in Ages /\ \A i \in Ids \ {id} : told'[i] = told[i]
      /\ saved.last = -1 => told'[id].age = Repeat
      /\ saved.last # -1 => told' = told
  BY <1>1, <1>6 DEF TablesTold, Ages, Numbers
<1>8. DOMAIN rows' \subseteq Ids /\ \A i \in DOMAIN rows' : rows'[i] \in Row
  BY <1>1, <1>3, <1>5 DEF TablesTold
<1>9. RowTold'
  <2>1. SUFFICES ASSUME NEW i \in DOMAIN rows'
                 PROVE  /\ rows'[i].age <= told'[i].age
                        /\ rows'[i].last = -1 => told'[i].age = Repeat
                        /\ rows'[i].last # -1 => told'[i].showing = rows'[i].last
    BY DEF RowTold
  <2>2. rows'[i].age \in 0 .. Repeat  BY <1>8 DEF Row
  <2>3. CASE i = id /\ saved.last = -1  BY <1>3, <1>7, <2>2, <2>3 DEF Numbers
  <2>4. CASE i = id /\ saved.last # -1  BY <1>1, <1>3, <1>5, <1>7, <2>4 DEF TablesTold, RowTold
  <2>5. CASE i # id
    <3>1. i \in DOMAIN rows /\ rows'[i] = rows[i] /\ told'[i] = told[i]  BY <1>3, <1>7, <1>8, <2>5
    <3> QED  BY <1>1, <3>1 DEF TablesTold, RowTold
  <2> QED  BY <2>3, <2>4, <2>5
<1>10. TablesTold'
  <2>1. ShownIsCounted'  BY <1>1 DEF TablesTold, ShownIsCounted, Save, world
  <2> QED  BY <1>1, <1>7, <1>8, <1>9, <2>1 DEF TablesTold, Save, world, bot
<1>11. \A i \in Publishers : JobTold(jobs[i], told')
  <2>1. TAKE i \in Publishers
  <2>2. JobTold(jobs[i], told) /\ told \in Ages  BY <1>1 DEF JobsTold, TablesTold
  <2>3. CASE saved.last = -1  BY <1>7, <2>2, <2>3, OlderTold
  <2>4. CASE saved.last # -1  BY <1>7, <2>2, <2>4
  <2> QED  BY <2>3, <2>4
<1>12. PICK s \in Steps : s = "check"  BY DEF Steps
<1>13. PICK idle \in Job : idle = Idle  BY IdleIs DEF Numbers
<1>14. PICK todo : todo = [i \in {id} |-> [row |-> saved, fresh |-> TRUE]]  OBVIOUS
<1>15. todo \in [{id} -> Held] /\ {id} \in SUBSET Ids /\ todo[id].row = saved  BY <1>5, <1>14 DEF Held
<1>16. todo \in Todo /\ DOMAIN todo = {id}  BY <1>15, IsTodo
<1>17. id \in 0 .. MaxSaves /\ id # 0  BY DEF Ids, Numbers
<1> DEFINE new == [idle EXCEPT !.step = s, !.id = id, !.todo = todo]
<1>18. jobs' = [jobs EXCEPT ![j] = new]  BY <1>3, <1>12, <1>13, <1>14 DEF Save
<1>19. new \in Job /\ new.step = s /\ new.todo = todo /\ new.id = id /\ new.member = idle.member
  BY <1>16, <1>17 DEF Job
<1> HIDE DEF new
<1>20. TodoTold(new, told')
  <2>1. saved.age <= told'[id].age  BY <1>3, <1>9 DEF RowTold
  <2> QED  BY <1>15, <1>16, <1>19, <2>1 DEF TodoTold
<1>21. SendNew(new, told')  BY <1>12, <1>19 DEF SendNew
<1>22. HasRow(new)  BY <1>12, <1>13, <1>16, <1>17, <1>19, IdleIs DEF HasRow, Numbers
<1>23. JobTold(new, told')  BY <1>19, <1>20, <1>21, <1>22 DEF JobTold
<1>24. JobsTold'
  <2>1. \A i \in Publishers : JobTold(jobs'[i], told')  BY <1>1, <1>11, <1>18, <1>23 DEF JobsTold
  <2>2. jobs' \in [Publishers -> Job]  BY <1>1, <1>18, <1>19 DEF JobsTold
  <2> QED  BY <2>1, <2>2 DEF JobsTold
<1> QED  BY <1>10, <1>24 DEF CreatorsInv

LEMMA NewRowIs ==
  ASSUME Numbers, NEW u \in Users, NEW st \in Streams, NEW kind \in Kinds,
         NEW active \in BOOLEAN, NEW external \in BOOLEAN
  PROVE  NewRow(u, st, kind, active, external) \in Row
         /\ NewRow(u, st, kind, active, external).last = -1
  BY DEF NewRow, Row, Numbers

\* Who saves, what, and of whom.
LEMMA Saver ==
  ASSUME Numbers, CreatorsInv, NEW j \in Publishers, jobs[j].step = "save"
  PROVE  /\ jobs[j].id \in Ids /\ jobs[j].member \in Users
         /\ jobs[j].event.key.stream \in Streams /\ jobs[j].event.key.kind \in Kinds
         /\ DOMAIN rows \subseteq Ids
<1>1. jobs[j] \in Job /\ HasRow(jobs[j])  BY DEF CreatorsInv, JobsTold, JobTold
<1>2. jobs[j].event \in Event /\ jobs[j].event.key.kind \in Kinds /\ jobs[j].id # 0 /\ jobs[j].member \in Users
  BY <1>1 DEF HasRow
<1>3. jobs[j].id \in 0 .. MaxSaves  BY <1>1, JobIs
<1>4. jobs[j].event.key.stream \in Streams  BY <1>2 DEF Event, Key
<1> QED  BY <1>2, <1>3, <1>4 DEF Numbers, Ids, CreatorsInv, TablesTold

LEMMA AddTold ==
  ASSUME Numbers, CreatorsInv, Add
  PROVE  CreatorsInv'
<1> DEFINE job == jobs["command"]
           row == NewRow(job.member, job.event.key.stream, job.event.key.kind, TRUE, FALSE)
<1>1. "command" \in Publishers /\ job.step = "save"  BY DEF Add, Publishers
<1>2. PICK id : /\ id = job.id \/ id \in OfKey(job.member, job.event.key.stream, job.event.key.kind)
                /\ Save("command", id, row)
  BY DEF Add
<1>3. id \in Ids  BY <1>1, <1>2, Saver DEF OfKey
<1>4. row \in Row /\ row.last = -1  BY <1>1, Saver, NewRowIs
<1> QED  BY <1>1, <1>2, <1>3, <1>4, SaveTold

LEMMA PutTold ==
  ASSUME Numbers, CreatorsInv, NEW active \in BOOLEAN, NEW external \in BOOLEAN,
         NEW edited \in Ids \cup {0}, Put(active, external, edited)
  PROVE  CreatorsInv'
<1> DEFINE job == jobs["activity"]
           row == NewRow(job.member, job.event.key.stream, job.event.key.kind, active, external)
<1>1. "activity" \in Publishers /\ job.step = "save"  BY DEF Put, Publishers
<1>2. PICK id : /\ id = job.id \/ id \in DOMAIN rows
                /\ Save("activity", id, row)
  BY DEF Put, OfKey
<1>3. id \in Ids  BY <1>1, <1>2, Saver
<1>4. row \in Row /\ row.last = -1  BY <1>1, Saver, NewRowIs
<1> QED  BY <1>1, <1>2, <1>3, <1>4, SaveTold

LEMMA RemoveTold ==
  ASSUME Numbers, CreatorsInv, NEW id \in Ids, Remove(id)
  PROVE  CreatorsInv'
<1>1. TablesTold /\ JobsTold /\ told' = told /\ jobs' = jobs  BY DEF CreatorsInv, Remove
<1>2. spent' \in [saves : 0 .. MaxSaves, changes : 0 .. MaxChanges, faults : 0 .. MaxFaults]
  BY <1>1, Spent DEF Remove
<1>3. rows' = [i \in DOMAIN rows \ {id} |-> rows[i]]  BY DEF Remove, Restrict
<1>4. DOMAIN rows' = DOMAIN rows \ {id} /\ \A i \in DOMAIN rows' : rows'[i] = rows[i]  BY <1>3
<1>5. RowTold' /\ ShownIsCounted'
  BY <1>1, <1>4 DEF TablesTold, RowTold, ShownIsCounted, Remove, world
<1>6. TablesTold'  BY <1>1, <1>2, <1>4, <1>5 DEF TablesTold, Remove, world, bot
<1> QED  BY <1>1, <1>6, JobsStay DEF CreatorsInv

LEMMA AirTold ==
  ASSUME Numbers, CreatorsInv, NEW st \in Streams, NEW what \in Offers, Air(st, what)
  PROVE  CreatorsInv'
<1>1. TablesTold /\ JobsTold /\ told' = told /\ jobs' = jobs  BY DEF CreatorsInv, Air
<1>2. spent' \in [saves : 0 .. MaxSaves, changes : 0 .. MaxChanges, faults : 0 .. MaxFaults]
  BY <1>1, Spent DEF Air
<1>3. on' \in [Streams -> Offers]  BY <1>1 DEF TablesTold, Air
<1>4. RowTold' /\ ShownIsCounted'  BY <1>1 DEF TablesTold, RowTold, ShownIsCounted, Air
<1>5. TablesTold'  BY <1>1, <1>2, <1>3, <1>4 DEF TablesTold, Air, bot
<1> QED  BY <1>1, <1>5, JobsStay DEF CreatorsInv

LEMMA ChooseTold ==
  ASSUME Numbers, CreatorsInv, Choose
  PROVE  CreatorsInv'
<1>1. TablesTold /\ JobsTold /\ told' = told /\ jobs' = jobs  BY DEF CreatorsInv, Choose
<1>2. spent' \in [saves : 0 .. MaxSaves, changes : 0 .. MaxChanges, faults : 0 .. MaxFaults]
  BY <1>1, Spent DEF Choose
<1>3. RowTold' /\ ShownIsCounted'  BY <1>1 DEF TablesTold, RowTold, ShownIsCounted, Choose
<1>4. channel' \in BOOLEAN  BY DEF Choose
<1>5. TablesTold'  BY <1>1, <1>2, <1>3, <1>4 DEF TablesTold, Choose, bot
<1> QED  BY <1>1, <1>5, JobsStay DEF CreatorsInv

LEMMA OlderIs ==
  ASSUME Numbers, NEW a \in 0 .. Repeat
  PROVE  /\ Older(a) \in 0 .. Repeat /\ Older(Repeat) = Repeat
         /\ \A b \in 0 .. Repeat : a <= b => Older(a) <= Older(b)
  BY DEF Older, Numbers

LEMMA TickTold ==
  ASSUME Numbers, CreatorsInv, Tick
  PROVE  CreatorsInv'
<1>1. TablesTold /\ JobsTold /\ echo' = echo /\ told \in Ages  BY DEF CreatorsInv, Tick, TablesTold
<1>2. \A id \in Ids : /\ told'[id] = [told[id] EXCEPT !.age = Older(told[id].age)]
                               /\ told[id] \in [age : 0 .. Repeat, showing : 0 .. MaxChanges]
  BY <1>1 DEF Tick, Ages
<1>3. \A id \in Ids : /\ told'[id].age = Older(told[id].age) /\ told'[id].showing = told[id].showing
                               /\ told[id].age \in 0 .. Repeat /\ told[id].showing \in 0 .. MaxChanges
                               /\ told'[id] \in [age : 0 .. Repeat, showing : 0 .. MaxChanges]
  <2>1. TAKE id \in Ids
  <2>2. PICK t \in [age : 0 .. Repeat, showing : 0 .. MaxChanges] : t = told[id]  BY <1>2
  <2>3. PICK a \in 0 .. Repeat : a = Older(t.age)
    <3>1. t.age \in 0 .. Repeat  OBVIOUS
    <3> QED  BY <3>1, OlderIs
  <2>4. told'[id] = [t EXCEPT !.age = a]  BY <1>2, <2>2, <2>3
  <2> QED  BY <2>2, <2>3, <2>4
<1>4. told' \in Ages
  <2>1. told' = [id \in Ids |-> told'[id]]  BY DEF Tick
  <2> QED  BY <1>3, <2>1 DEF Ages
<1>5. cache' \in [Key -> 0 .. Repeat]  BY <1>1, OlderIs DEF Tick, TablesTold
<1>6. DOMAIN rows' = DOMAIN rows /\ \A id \in DOMAIN rows :
        /\ id \in Ids /\ rows[id] \in Row /\ rows[id].age \in 0 .. Repeat
        /\ rows'[id] = [rows[id] EXCEPT !.age = Older(rows[id].age)]
  BY <1>1 DEF Tick, TablesTold, Row
<1>7. ASSUME NEW row \in Row
      PROVE  LET old == [row EXCEPT !.age = Older(row.age)]
             IN  old \in Row /\ old.age = Older(row.age) /\ old.last = row.last
  <2>1. Older(row.age) \in 0 .. Repeat  BY OlderIs DEF Row
  <2> QED  BY <2>1 DEF Row
<1>8. RowTold'
  <2>1. SUFFICES ASSUME NEW id \in DOMAIN rows
                 PROVE  /\ rows'[id].age <= told'[id].age
                        /\ rows'[id].last = -1 => told'[id].age = Repeat
                        /\ rows'[id].last # -1 => told'[id].showing = rows'[id].last
    BY <1>6 DEF RowTold
  <2>2. rows'[id].age = Older(rows[id].age) /\ rows'[id].last = rows[id].last  BY <1>6, <1>7
  <2>3. /\ rows[id].age <= told[id].age
        /\ rows[id].last = -1 => told[id].age = Repeat
        /\ rows[id].last # -1 => told[id].showing = rows[id].last
    BY <1>1 DEF TablesTold, RowTold
  <2> QED  BY <1>3, <1>6, <2>2, <2>3, OlderIs
<1>9. TablesTold'
  <2>1. ShownIsCounted'  BY <1>1 DEF TablesTold, ShownIsCounted, Tick, world
  <2>2. \A id \in DOMAIN rows' : rows'[id] \in Row  BY <1>6, <1>7
  <2>3. DOMAIN rows' \subseteq Ids  BY <1>6
  <2> QED  BY <1>1, <1>4, <1>5, <1>8, <2>1, <2>2, <2>3 DEF TablesTold, Tick, world
<1>10. ASSUME NEW j \in Publishers PROVE JobTold(jobs'[j], told')
  <2>1. PICK job \in Job : job = jobs[j]  BY <1>1 DEF JobsTold
  <2>2. JobTold(job, told) /\ job.step \in {"idle", "next", "scan"}  BY <1>1, <2>1 DEF JobsTold, Tick
  <2>3. job.todo \in Todo  BY JobIs
  <2>4. PICK todo : todo = Aged(job.todo)  OBVIOUS
  <2>5. DOMAIN job.todo \subseteq Ids /\ \A id \in DOMAIN job.todo :
          job.todo[id] \in Held /\ job.todo[id].row \in Row
    BY <2>3, TodoIs
  <2>6. ASSUME NEW id \in DOMAIN job.todo
        PROVE  /\ todo[id] \in Held /\ todo[id].fresh = job.todo[id].fresh
               /\ todo[id].row.age = Older(job.todo[id].row.age)
    <3>1. PICK item \in Held : item = job.todo[id]  BY <2>5, <2>6
    <3>2. item.row \in Row /\ item.fresh \in BOOLEAN  BY DEF Held
    <3>3. PICK row \in Row : row = [item.row EXCEPT !.age = Older(item.row.age)]
                                      /\ row.age = Older(item.row.age)
      BY <1>7, <3>2
    <3>4. todo[id] = [item EXCEPT !.row = row]  BY <2>4, <2>6, <3>1, <3>3 DEF Aged, Held
    <3>5. todo[id] \in Held /\ todo[id].fresh = item.fresh /\ todo[id].row = row  BY <3>2, <3>4 DEF Held
    <3> QED  BY <3>1, <3>3, <3>5
  <2>7. DOMAIN todo = DOMAIN job.todo /\ todo = [id \in DOMAIN job.todo |-> todo[id]]
    BY <2>4 DEF Aged
  <2>8. todo \in [DOMAIN job.todo -> Held]  BY <2>6, <2>7
  <2>9. todo \in Todo  BY <2>5, <2>8, IsTodo
  <2> DEFINE new == [job EXCEPT !.todo = todo]
  <2>10. jobs'[j] = new  BY <2>1, <2>4 DEF Tick
  <2>11. /\ new \in Job /\ new.step = job.step /\ new.todo = todo /\ new.member = job.member
    BY <2>9 DEF Job
  <2> HIDE DEF new
  <2>12. TodoTold(new, told')
    <3>1. SUFFICES ASSUME NEW id \in DOMAIN job.todo, job.todo[id].fresh
                   PROVE  Older(job.todo[id].row.age) <= told'[id].age
      BY <2>6, <2>7, <2>11 DEF TodoTold
    <3>2. job.todo[id].row.age <= told[id].age  BY <2>2, <3>1 DEF JobTold, TodoTold
    <3>3. job.todo[id].row.age \in 0 .. Repeat /\ id \in Ids  BY <2>5 DEF Row
    <3> QED  BY <1>3, <3>2, <3>3, OlderIs
  <2>13. SendNew(new, told')  BY <2>2, <2>11 DEF SendNew
  <2>14. HasRow(new)  BY <2>2, <2>11 DEF HasRow, JobTold
  <2> QED  BY <2>10, <2>11, <2>12, <2>13, <2>14 DEF JobTold
<1>11. JobsTold'
  <2>1. jobs' = [j \in Publishers |-> jobs'[j]]  BY DEF Tick
  <2> QED  BY <1>10, <2>1 DEF JobsTold, JobTold
<1> QED  BY <1>9, <1>11 DEF CreatorsInv

LEMMA RestartTold ==
  ASSUME Numbers, CreatorsInv, Restart
  PROVE  CreatorsInv'
<1>1. TablesTold /\ JobsTold /\ told' = told /\ rows' = rows /\ shown' = shown
  BY DEF CreatorsInv, Restart, world
<1>2. spent' \in [saves : 0 .. MaxSaves, changes : 0 .. MaxChanges, faults : 0 .. MaxFaults]
  BY <1>1, Spent DEF Restart
<1>3. cache' \in [Key -> 0 .. Repeat]  BY DEF Restart, Numbers
<1>4. RowTold' /\ ShownIsCounted'  BY <1>1 DEF TablesTold, RowTold, ShownIsCounted
<1>5. TablesTold'  BY <1>1, <1>2, <1>3, <1>4 DEF TablesTold, Restart, world
<1>6. \A j \in Publishers : JobTold(jobs'[j], told')
  BY <1>1, IdleTold DEF Restart, JobsTold, Numbers
<1>7. JobsTold'
  <2>1. jobs' = [j \in Publishers |-> jobs'[j]]  BY DEF Restart
  <2> QED  BY <1>6, <2>1 DEF JobsTold, JobTold
<1> QED  BY <1>5, <1>7 DEF CreatorsInv

LEMMA CreatorsStep ==
  ASSUME Numbers, CreatorsInv, [Next]_vars
  PROVE  CreatorsInv'
<1>1. CASE UNCHANGED vars
  BY <1>1, TablesStay, JobsStay DEF CreatorsInv, Tables, vars, world, bot
<1>2. ASSUME NEW j \in Publishers, Works(j) \/ Fails(j) PROVE CreatorsInv'
  BY <1>2, CheckTold, SourcesTold, SendTold, MarkTold, FailsTold DEF Works
<1>3. CASE Monitors  BY <1>3, MonitorListTold, MonitorNextTold, ScanTold DEF Monitors
<1>4. CASE Saves  BY <1>4, AddTold, PutTold DEF Saves
<1>5. ASSUME NEW u \in Users, (\E st \in Streams : Show(u, st)) \/ Hide(u) PROVE CreatorsInv'
  BY <1>5, ShowTold, HideTold
<1>6. ASSUME NEW u \in Users, NEW st \in Streams, NEW kind \in Kinds, NEW j \in {"command", "activity"},
             Asks(j, u, st, kind)
      PROVE  CreatorsInv'
  BY <1>6, AsksTold
<1>7. ASSUME NEW id \in Ids, Remove(id) PROVE CreatorsInv'  BY <1>7, RemoveTold
<1>8. ASSUME NEW st \in Streams, NEW what \in Offers, Air(st, what) PROVE CreatorsInv'
  BY <1>8, AirTold
<1>9. CASE ListFails \/ Choose \/ Tick \/ Restart
  BY <1>9, ListFailsTold, ChooseTold, TickTold, RestartTold
<1> QED  BY <1>1, <1>2, <1>3, <1>4, <1>5, <1>6, <1>7, <1>8, <1>9 DEF Next

LEMMA CreatorsTyped == ASSUME CreatorsInv PROVE TypeOK
  BY DEF CreatorsInv, TablesTold, JobsTold, Ages, TypeOK

\* The tables, the cache and what every publisher holds, in both processes, have the types that
\* the rows of creator_alert_subscriptions and the handlers give them.
THEOREM AlertsTypeCorrect == Spec => []TypeOK
<1>1. Init => CreatorsInv  BY NumbersAre, InitTold
<1>2. CreatorsInv /\ [Next]_vars => CreatorsInv'  BY NumbersAre, CreatorsStep
<1>3. CreatorsInv => TypeOK  BY CreatorsTyped
<1> QED  BY <1>1, <1>2, <1>3, PTL DEF Spec

\* No publisher announces again what the row it holds knew to be announced: neither within the
\* repeat interval, nor a second time for one showing of a member, whatever fails, restarts,
\* is saved anew or is marked by another process in between.
THEOREM NothingIsEchoed == Spec => []NoEcho
<1>1. Init => CreatorsInv  BY NumbersAre, InitTold
<1>2. CreatorsInv /\ [Next]_vars => CreatorsInv'  BY NumbersAre, CreatorsStep
<1>3. CreatorsInv => NoEcho  BY DEF CreatorsInv, TablesTold, NoEcho
<1> QED  BY <1>1, <1>2, <1>3, PTL DEF Spec
=============================================================================

------------------------------ MODULE Labelling ------------------------------
(***************************************************************************)
(* The labelling of one guild by private message: whether the guild is      *)
(* trusted, who is ADMIN or LABELER, the labels given to its messages and    *)
(* the audit.  ModerationLabelingService asks for each right, writes and      *)
(* audits in statements of their own, and the commands of several users       *)
(* interleave between them.  A label is a row of manual_labels, never         *)
(* deleted; requests the cog refuses at once are left out.                    *)
(***************************************************************************)
EXTENDS Naturals

CONSTANTS Users, Owner, Messages, Labels, Callers

VARIABLES trusted,  \* the guild has a row in trusted_guilds
          roles,    \* labeling_roles: <<user, role>>
          labels,   \* manual_labels
          log,      \* labeling_audit: the requests carried out
          jobs      \* the command each caller is in
labelVars == <<trusted, roles, labels, log, jobs>>

Roles == {"ADMIN", "LABELER"}
Keys == Messages \X Labels
Label == [by : Users, status : {"ACTIVE", "REVOKED"}]
NoLabel == [status |-> "NONE"]

TrustRequests == [kind : {"trust"}, actor : {Owner}, enabled : BOOLEAN]
RoleRequests == [kind : {"role"}, actor : Users, user : Users, role : Roles, enabled : BOOLEAN]
LabelRequests == [kind : {"label", "revoke"}, actor : Users, key : Keys]
Requests == TrustRequests \cup RoleRequests \cup LabelRequests

Stages == {"trusted", "manager", "labeler", "write", "audit"}
Idle == [stage |-> "idle"]
Job == [stage : Stages, request : Requests] \cup {Idle}

LabelInit ==
    /\ trusted = FALSE /\ roles = {} /\ log = {}
    /\ labels = [k \in Keys |-> NoLabel]
    /\ jobs = [c \in Callers |-> Idle]

At(c, stage) == jobs[c].stage = stage
Goto(c, stage) == jobs' = [jobs EXCEPT ![c] = [stage |-> stage, request |-> @.request]]
Leave(c) == jobs' = [jobs EXCEPT ![c] = Idle]

\* A command that is not refused at once: only the owner trusts a guild and makes administrators.
Ask(c, r) ==
    /\ At(c, "idle")
    /\ r \in RoleRequests /\ r.role = "ADMIN" => r.actor = Owner
    /\ jobs' = [jobs EXCEPT ![c] = [stage |-> IF r \in TrustRequests THEN "write" ELSE "trusted", request |-> r]]
    /\ UNCHANGED <<trusted, roles, labels, log>>

\* is_trusted, then is_owner, which asks nobody
IsTrusted(c) ==
    /\ At(c, "trusted")
    /\ IF ~trusted THEN Leave(c)
       ELSE IF jobs[c].request.actor = Owner THEN Goto(c, "write") ELSE Goto(c, "manager")
    /\ UNCHANGED <<trusted, roles, labels, log>>

\* can_manage: without ADMIN a label may still be given by a labeler
CanManage(c) ==
    /\ At(c, "manager")
    /\ IF <<jobs[c].request.actor, "ADMIN">> \in roles THEN Goto(c, "write")
       ELSE IF jobs[c].request \in LabelRequests THEN Goto(c, "labeler") ELSE Leave(c)
    /\ UNCHANGED <<trusted, roles, labels, log>>

CanLabel(c) ==
    /\ At(c, "labeler")
    /\ IF <<jobs[c].request.actor, "LABELER">> \in roles THEN Goto(c, "write") ELSE Leave(c)
    /\ UNCHANGED <<trusted, roles, labels, log>>

SetTrusted(c) ==
    /\ At(c, "write") /\ jobs[c].request \in TrustRequests
    /\ trusted' = jobs[c].request.enabled
    /\ Goto(c, "audit") /\ UNCHANGED <<roles, labels, log>>

SetRole(c) ==
    /\ At(c, "write") /\ jobs[c].request \in RoleRequests
    /\ LET r == jobs[c].request
       IN roles' = IF r.enabled THEN roles \cup {<<r.user, r.role>>} ELSE roles \ {<<r.user, r.role>>}
    /\ Goto(c, "audit") /\ UNCHANGED <<trusted, labels, log>>

\* create_label: ON CONFLICT (guild_id, message_id, label) DO NOTHING, whatever the row's status
CreateLabel(c) ==
    /\ At(c, "write") /\ jobs[c].request \in LabelRequests /\ jobs[c].request.kind = "label"
    /\ LET r == jobs[c].request
       IN IF labels[r.key] = NoLabel
          THEN labels' = [labels EXCEPT ![r.key] = [by |-> r.actor, status |-> "ACTIVE"]] /\ Goto(c, "audit")
          ELSE Leave(c) /\ UNCHANGED labels
    /\ UNCHANGED <<trusted, roles, log>>

\* revoke_label: an active label of the actor's own
Revocable(r) == labels[r.key].status = "ACTIVE" /\ labels[r.key].by = r.actor
RevokeLabel(c) ==
    /\ At(c, "write") /\ jobs[c].request \in LabelRequests /\ jobs[c].request.kind = "revoke"
    /\ LET r == jobs[c].request
       IN IF Revocable(r)
          THEN labels' = [labels EXCEPT ![r.key] = [by |-> r.actor, status |-> "REVOKED"]] /\ Goto(c, "audit")
          ELSE Leave(c) /\ UNCHANGED labels
    /\ UNCHANGED <<trusted, roles, log>>

Audit(c) ==
    /\ At(c, "audit")
    /\ log' = log \cup {jobs[c].request}
    /\ Leave(c) /\ UNCHANGED <<trusted, roles, labels>>

\* A statement fails, or the bot stops, between any two of them.
Broken(c) == ~At(c, "idle") /\ Leave(c) /\ UNCHANGED <<trusted, roles, labels, log>>

LabelStep(c) ==
    \/ \E r \in Requests : Ask(c, r)
    \/ IsTrusted(c) \/ CanManage(c) \/ CanLabel(c)
    \/ SetTrusted(c) \/ SetRole(c) \/ CreateLabel(c) \/ RevokeLabel(c)
    \/ Audit(c) \/ Broken(c)
LabelNext == \E c \in Callers : LabelStep(c)
LabelSpec == LabelInit /\ [][LabelNext]_labelVars

LabelTypeOK ==
    /\ trusted \in BOOLEAN /\ roles \subseteq Users \X Roles /\ log \subseteq Requests
    /\ labels \in [Keys -> Label \cup {NoLabel}]
    /\ jobs \in [Callers -> Job]

-----------------------------------------------------------------------------
\* What the audit says of a label was done, and by whom: an entry is written after others may have
\* come to the same label.
Done(r) ==
    r \in LabelRequests =>
        /\ labels[r.key] # NoLabel /\ labels[r.key].by = r.actor
        /\ r.kind = "revoke" => labels[r.key].status = "REVOKED"
AuditIsTrue == \A r \in log : Done(r)

\* A label keeps its author, and what was revoked is never given again, by anybody: the row stays and
\* create_label passes over it.
RevokedForGood ==
    [][\A k \in Keys : labels[k] # NoLabel =>
           /\ labels'[k] # NoLabel /\ labels'[k].by = labels[k].by
           /\ labels[k].status = "REVOKED" => labels'[k].status = "REVOKED"]_labelVars
=============================================================================

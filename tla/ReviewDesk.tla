----------------------------- MODULE ReviewDesk -----------------------------
(***************************************************************************)
(* The review queue of AI moderation, shared by the bot, which fills it, and *)
(* the reviewers of the Activity, who correct its items.  A save reads the    *)
(* item, tells Muxivo Core of a resolution, writes only if nobody has          *)
(* written since the revision it was given, and adds to the audit: four        *)
(* statements of four times.  Who may review is decided by the labelling.      *)
(* Core is external: of feedback with one idempotency key it keeps the first.  *)
(***************************************************************************)
EXTENDS Labelling, Sequences

CONSTANTS Actions, Requesters, MaxRevision

VARIABLES events,   \* ai_moderation_events: the action proposed for a message sent to review
          decided,  \* the action the bot is about to enqueue for review
          items,    \* ai_moderation_review_items
          saves,    \* the call each requester is in
          history,  \* ai_moderation_review_audit
          core,     \* feedback Muxivo Core has kept
          past      \* what the properties look back on: the rows each item has had
deskVars == <<events, decided, items, saves, history, core>>
vars == <<labelVars, deskVars, past>>

NoAction == "none"
Status == {"OPEN", "RESOLVED"}
Item == [action : Actions, status : Status, revision : Nat]
NoItem == [status |-> "NONE"]
Payload == [actor : Users, message : Messages, revision : Nat, action : Actions, status : Status]
SaveStages == {"access", "role", "read", "tell", "write", "audit"}
Save == [stage : SaveStages, payload : Payload, row : Item \cup {NoItem}] \cup {Idle}
Correction == [payload : Payload, before : Item]
Feedback == [message : Messages, revision : Nat, action : Actions, actor : Users]

Init ==
    /\ LabelInit
    /\ events = [m \in Messages |-> NoAction] /\ decided = events
    /\ items = [m \in Messages |-> NoItem]
    /\ saves = [q \in Requesters |-> Idle]
    /\ history = {} /\ core = {}
    /\ past = [m \in Messages |-> <<>>]

New(a) == [action |-> a, status |-> "OPEN", revision |-> 1]

\* The end of handle_decision for REVIEW: the event, then the item; each may fail on its own.
Record(m, a) ==
    /\ decided[m] = NoAction
    /\ decided' = [decided EXCEPT ![m] = a]
    /\ \/ events' = [events EXCEPT ![m] = a]
       \/ UNCHANGED events
    /\ UNCHANGED <<items, saves, history, core>>

Enqueue(m) ==
    /\ decided[m] # NoAction
    /\ decided' = [decided EXCEPT ![m] = NoAction]
    /\ \/ items[m] = NoItem /\ items' = [items EXCEPT ![m] = New(decided[m])]
       \/ UNCHANGED items
    /\ UNCHANGED <<events, saves, history, core>>

\* list_review_items: the events that have no item get one
Backfill ==
    /\ items' = [m \in Messages |-> IF items[m] = NoItem /\ events[m] # NoAction THEN New(events[m]) ELSE items[m]]
    /\ UNCHANGED <<events, decided, saves, history, core>>

In(q, stage) == saves[q].stage = stage
Onto(q, stage) == saves' = [saves EXCEPT ![q] = [stage |-> stage, payload |-> @.payload, row |-> @.row]]
Out(q) == saves' = [saves EXCEPT ![q] = Idle]

\* update_review_item, of a revision that a page has shown by now
Begin(q, u, m, r, a, s) ==
    /\ In(q, "idle")
    /\ items[m] # NoItem /\ r <= items[m].revision /\ r < MaxRevision
    /\ saves' = [saves EXCEPT ![q] =
                    [stage |-> "access", row |-> NoItem,
                     payload |-> [actor |-> u, message |-> m, revision |-> r, action |-> a, status |-> s]]]
    /\ UNCHANGED <<events, decided, items, history, core>>

\* can_access_review_queue asks for the trust of the guild, then for a role of the actor
Access(q) ==
    /\ In(q, "access")
    /\ IF ~trusted THEN Out(q)
       ELSE IF saves[q].payload.actor = Owner THEN Onto(q, "read") ELSE Onto(q, "role")
    /\ UNCHANGED <<events, decided, items, history, core>>

HasRole(q) ==
    /\ In(q, "role")
    /\ IF \E r \in Roles : <<saves[q].payload.actor, r>> \in roles THEN Onto(q, "read") ELSE Out(q)
    /\ UNCHANGED <<events, decided, items, history, core>>

Read(q) ==
    /\ In(q, "read")
    /\ LET p == saves[q].payload
       IN IF items[p.message] # NoItem /\ items[p.message].revision = p.revision
          THEN saves' = [saves EXCEPT ![q] = [stage |-> IF p.status = "RESOLVED" THEN "tell" ELSE "write",
                                              payload |-> p, row |-> items[p.message]]]
          ELSE Out(q)
    /\ UNCHANGED <<events, decided, items, history, core>>

\* The key of the feedback is the item and the revision that was read.
Told(m, revision) == \E f \in core : f.message = m /\ f.revision = revision
FeedbackOf(p) == [message |-> p.message, revision |-> p.revision, action |-> p.action, actor |-> p.actor]
Kept(p) == IF Told(p.message, p.revision) THEN core ELSE core \cup {FeedbackOf(p)}

\* _deliver_review_feedback; an answer that is lost ends the save, though Core has kept the feedback
Tell(q) ==
    /\ In(q, "tell")
    /\ core' = Kept(saves[q].payload)
    /\ Onto(q, "write") \/ Out(q)
    /\ UNCHANGED <<events, decided, items, history>>

\* UPDATE ... WHERE revision = ?
Written(p) == [action |-> p.action, status |-> p.status, revision |-> p.revision + 1]
Write(q) ==
    /\ In(q, "write")
    /\ LET p == saves[q].payload
       IN IF items[p.message] # NoItem /\ items[p.message].revision = p.revision
          THEN items' = [items EXCEPT ![p.message] = Written(p)] /\ Onto(q, "audit")
          ELSE Out(q) /\ UNCHANGED items
    /\ UNCHANGED <<events, decided, history, core>>

WriteAudit(q) ==
    /\ In(q, "audit")
    /\ history' = history \cup {[payload |-> saves[q].payload, before |-> saves[q].row]}
    /\ Out(q)
    /\ UNCHANGED <<events, decided, items, core>>

\* A call to Core or the database fails, or the server stops.
Ends(q) == ~In(q, "idle") /\ Out(q) /\ UNCHANGED <<events, decided, items, history, core>>

SaveStep(q) ==
    \/ \E u \in Users, m \in Messages, r \in 1..MaxRevision, a \in Actions, s \in Status : Begin(q, u, m, r, a, s)
    \/ Access(q) \/ HasRole(q) \/ Read(q) \/ Tell(q) \/ Write(q) \/ WriteAudit(q) \/ Ends(q)
DeskStep ==
    \/ \E m \in Messages, a \in Actions : Record(m, a)
    \/ \E m \in Messages : Enqueue(m)
    \/ Backfill
    \/ \E q \in Requesters : SaveStep(q)

\* Every new row of an item is remembered.
Recall == past' = [m \in Messages |-> IF items'[m] = items[m] THEN past[m] ELSE Append(past[m], items'[m])]

Next ==
    \/ LabelNext /\ UNCHANGED <<deskVars, past>>
    \/ DeskStep /\ Recall /\ UNCHANGED labelVars
Spec == Init /\ [][Next]_vars

\* Bound for TLC: what the labelling's audit holds does not matter to the desk.
Unaudited == log = {}

TypeOK ==
    /\ events \in [Messages -> Actions \cup {NoAction}] /\ decided \in [Messages -> Actions \cup {NoAction}]
    /\ items \in [Messages -> Item \cup {NoItem}]
    /\ saves \in [Requesters -> Save]
    /\ history \subseteq Correction /\ core \subseteq Feedback

-----------------------------------------------------------------------------
\* Every revision of an item is written once: of the audit, no two entries corrected the same one.
OneCorrectionPerRevision ==
    \A g, h \in history :
        g.payload.message = h.payload.message /\ g.payload.revision = h.payload.revision => g = h

\* An item that counts as resolved has been reported to Core: the report comes before the write, and
\* neither a refused report nor a concurrent save leaves a resolution Core has not heard of.
ResolvedIsTold ==
    \A m \in Messages :
        items[m] # NoItem /\ items[m].status = "RESOLVED" => Told(m, items[m].revision - 1)

\* A correction replaces the very row it was compared with: nobody's correction in between is lost.
NoLostCorrection ==
    [][\A m \in Messages :
          items[m] # NoItem /\ items'[m] # items[m] =>
              \E q \in Requesters : In(q, "write") /\ saves[q].payload.message = m /\ saves[q].row = items[m]]_vars

\* What Core learns of a resolution is what the desk decided.
CoreAgrees ==
    \A f \in core : items[f.message].status = "RESOLVED" /\ items[f.message].revision = f.revision + 1
                        => items[f.message].action = f.action

\* The desk implements a register whose saves are single steps: whatever two saves, the readers of
\* the queue and the bot do at the same time, each correction replaces the last row, resolutions
\* were reported before, and the audit tells of corrections that were made, with the row each
\* replaced, at most once (ai_moderation_service.py:309-346).
Register == INSTANCE ReviewRegister WITH rows <- past, audit <- history, reported <- core
RegisterSpec == Register!Spec
=============================================================================

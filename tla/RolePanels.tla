----------------------------- MODULE RolePanels -----------------------------
(***************************************************************************)
(* Role panels: RolesCog, RoleService, the two repositories of panels, the  *)
(* views that administrators edit panels with, and the buttons and          *)
(* reactions that members press.                                            *)
(*                                                                         *)
(* A panel is a message of Discord, a row of role_panel_messages and the    *)
(* rows of its buttons.  Each is written by a call of its own, so that       *)
(* administrators, the loop that renders panels and the loop that removes    *)
(* dead ones overlap, and may stop in between.  A fingerprint stands for     *)
(* the buttons it is calculated of; <<>> is no fingerprint.                 *)
(***************************************************************************)
EXTENDS Integers, Sequences, SequencesExt, Functions, FiniteSetsExt

CONSTANTS Roles, Members, Emojis,
          Admins,            \* administrators that edit panels at the same time
          MAX_PANEL_ITEMS,   \* 25 in the code
          MaxPanels,         \* how many panels are created
          MaxEdits,          \* how many commands, the creation of panels among them
          MaxChanges,        \* how often roles, members and messages are changed by others
          MaxFaults          \* how many calls fail, restarts among them

ASSUME RolePanelsAssumption ==
    /\ MAX_PANEL_ITEMS \in Nat \ {0} /\ MaxPanels \in Nat
    /\ IsFiniteSet(Admins) /\ Admins \cap {"refresh", "clean"} = {}

VARIABLES
    table,    \* roles: what the bot knows of a role
    auto,     \* the roles with is_auto_assign
    safe,     \* roles of Discord for which is_safe_self_assignable_role holds
    has,      \* member |-> its roles
    rows,     \* role_panel_messages: message |-> mode and the two fingerprints
    buttons,  \* role_panel_buttons: message |-> its buttons, in the order of their ids
    posted,   \* the messages there are: message |-> the buttons its embed and its components show
    listener, \* _reaction_panels: message |-> _role_emoji_map
    handled,  \* the view store of the bot: message |-> roles whose button has a callback
    cleaner,  \* whether the loop of clean_dead_panels is still there
    jobs,     \* what every process is doing
    spent     \* how much of the bounds is used up

roleVars == <<table, auto, safe, has>>
panelVars == <<rows, buttons>>
memory == <<listener, handled, cleaner>>
vars == <<roleVars, panelVars, posted, memory, jobs, spent>>

-----------------------------------------------------------------------------
Messages == 1 .. MaxPanels
Processes == Admins \cup {"refresh", "clean"}
Modes == {"buttons", "reactions"}
None == "none"

Button == [role : Roles, emoji : Emojis]
RolesOf(bs) == {bs[i].role : i \in DOMAIN bs}
\* buttons_data[:25], of the views and of the embed
Visible(bs) == SubSeq(bs, 1, Min({Len(bs), MAX_PANEL_ITEMS}))
\* _build_role_emoji_map: the first button of an emoji has it
EmojiMap(bs) == LET v == Visible(bs)
                IN  [e \in {v[i].emoji : i \in DOMAIN v} |-> v[Min({i \in DOMAIN v : v[i].emoji = e})].role]

\* A process: what it does to which panel, the role it is at and the ones to come, the panel's row
\* and its buttons as it has read them; "heard" are the buttons of a registration or a fingerprint.
Idle == [kind |-> None, step |-> "idle", m |-> 0, todo |-> <<>>, mode |-> "buttons",
         view |-> <<>>, seen |-> <<>>, heard |-> <<>>]
Goes(p, step) == jobs' = [jobs EXCEPT ![p].step = step]
\* The loops go on with the next panel.
Onward(p, todo) ==
    IF todo = <<>> THEN Idle
    ELSE [Idle EXCEPT !.kind = p, !.m = Head(todo), !.todo = Tail(todo),
                      !.step = IF p = "clean" THEN "probe" ELSE "panel"]
Ends(p) == jobs' = [jobs EXCEPT ![p] = IF p \in Admins THEN Idle ELSE Onward(p, @.todo)]
\* get_panel_buttons of a panel that is gone is empty.
ButtonsOf(m) == IF m \in DOMAIN buttons THEN buttons[m] ELSE <<>>
Mode(m) == rows[m].mode
Handle(m, bs) == [i \in DOMAIN handled \cup {m} |->
                    (IF i \in DOMAIN handled THEN handled[i] ELSE {}) \cup (IF i = m THEN RolesOf(bs) ELSE {})]
With(f, m, x) == [i \in DOMAIN f \cup {m} |-> IF i = m THEN x ELSE f[i]]
Without(f, m) == Restrict(f, DOMAIN f \ {m})

Spend(what, bound) == spent[what] < bound /\ spent' = [spent EXCEPT ![what] = @ + 1]

Init ==
    /\ table \in [Roles -> {"unknown", "public"}] /\ auto = {} /\ safe = Roles
    /\ has = [u \in Members |-> {}]
    /\ rows = <<>> /\ buttons = <<>> /\ posted = <<>> /\ listener = <<>> /\ handled = <<>>
    /\ cleaner = TRUE /\ jobs = [p \in Processes |-> Idle]
    /\ spent = [panels |-> 0, edits |-> 0, changes |-> 0, faults |-> 0]

-----------------------------------------------------------------------------
(* What the bot knows of roles, and members that join.                     *)

\* /sync_roles: roles it has not known are hidden; none is forgotten
SyncRoles ==
    /\ \E r \in Roles : table[r] = "unknown"
    /\ Spend("changes", MaxChanges)
    /\ table' = [r \in Roles |-> IF table[r] = "unknown" THEN "hidden" ELSE table[r]]
    /\ UNCHANGED <<auto, safe, has, panelVars, posted, memory, jobs>>

\* /set_role_public, of a known role
SetPublic(r, public) ==
    /\ table[r] # "unknown" /\ Spend("changes", MaxChanges)
    /\ table' = [table EXCEPT ![r] = IF public THEN "public" ELSE "hidden"]
    /\ UNCHANGED <<auto, safe, has, panelVars, posted, memory, jobs>>

\* /set_auto_role: an UPDATE that touches nothing when the role is not known
SetAuto(r, on) ==
    /\ Spend("changes", MaxChanges)
    /\ auto' = IF table[r] = "unknown" THEN auto ELSE IF on THEN auto \cup {r} ELSE auto \ {r}
    /\ UNCHANGED <<table, safe, has, panelVars, posted, memory, jobs>>

\* assign_auto_roles: a role the bot cannot give is passed over
Join(u) ==
    /\ Spend("changes", MaxChanges)
    /\ \E given \in SUBSET auto : has' = [has EXCEPT ![u] = given]
    /\ UNCHANGED <<table, auto, safe, panelVars, posted, memory, jobs>>

\* A role is given permissions, or put above the bot, or back.
Regrade(r) ==
    /\ Spend("changes", MaxChanges)
    /\ safe' = SymDiff(safe, {r})
    /\ UNCHANGED <<table, auto, has, panelVars, posted, memory, jobs>>

-----------------------------------------------------------------------------
(* Members press buttons and react.                                        *)

Toggle(u, r) == has' = [has EXCEPT ![u] = IF r \in @ THEN @ \ {r} ELSE @ \cup {r}]

\* RoleButton.callback: whatever the rows say by now
Press(u, m, r) ==
    /\ m \in DOMAIN posted /\ r \in RolesOf(posted[m].components)
    /\ m \in DOMAIN handled /\ r \in handled[m] /\ r \in safe
    /\ Toggle(u, r) /\ Spend("changes", MaxChanges)
    /\ UNCHANGED <<table, auto, safe, panelVars, posted, memory, jobs>>

\* handle_reaction, when a reaction is added and when it is taken away
React(u, m, e) ==
    /\ m \in DOMAIN posted /\ m \in DOMAIN listener /\ e \in DOMAIN listener[m]
    /\ listener[m][e] \in safe
    /\ Toggle(u, listener[m][e]) /\ Spend("changes", MaxChanges)
    /\ UNCHANGED <<table, auto, safe, panelVars, posted, memory, jobs>>

-----------------------------------------------------------------------------
(* An administrator asks.  What the menu offers is what there is when it is  *)
(* opened; the call comes when it is confirmed.                             *)

Asks(a, kind, step, m, todo, mode) ==
    /\ jobs[a] = Idle /\ Spend("edits", MaxEdits)
    /\ jobs' = [jobs EXCEPT ![a] = [Idle EXCEPT !.kind = kind, !.step = step, !.m = m, !.todo = todo, !.mode = mode]]
    /\ UNCHANGED <<roleVars, panelVars, posted, memory>>

Offered == {r \in Roles : table[r] = "public" /\ r \in safe}

\* /panel_add
AskAdd(a, m, b) ==
    /\ m \in DOMAIN rows /\ b.role \in Offered \ RolesOf(buttons[m])
    /\ Asks(a, "add", "add", m, <<b>>, "buttons")

\* /panel_remove
AskRemove(a, m, i) ==
    /\ m \in DOMAIN rows /\ i \in DOMAIN buttons[m] /\ buttons[m][i].role \in safe
    /\ Asks(a, "remove", "take", m, <<buttons[m][i]>>, "buttons")

\* /delete_panel
AskDelete(a, m) == m \in DOMAIN rows /\ Asks(a, "delete", "erase", m, <<>>, "buttons")

\* /create_panel; the message is sent
Create(a, bs, mode) ==
    LET m == spent.panels + 1
    IN  /\ jobs[a] = Idle /\ m \in Messages /\ spent.edits < MaxEdits
        /\ bs # <<>> /\ RolesOf(bs) \subseteq Offered /\ Cardinality(RolesOf(bs)) = Len(bs)
        /\ spent' = [spent EXCEPT !.panels = m, !.edits = @ + 1]
        /\ posted' = With(posted, m, [embed |-> Visible(bs), components |-> <<>>])
        /\ jobs' = [jobs EXCEPT ![a] = [Idle EXCEPT !.kind = "create", !.step = "row", !.m = m,
                                                    !.todo = Visible(bs), !.mode = mode]]
        /\ UNCHANGED <<roleVars, panelVars, memory>>

-----------------------------------------------------------------------------
(* The rows of a panel are written, and its fingerprint.                    *)

\* role_panel_messages.create
WriteRow(a) ==
    LET job == jobs[a]
    IN  /\ job.step = "row"
        /\ rows' = With(rows, job.m, [mode |-> job.mode, view |-> <<>>, last |-> <<>>])
        /\ buttons' = With(buttons, job.m, <<>>)
        /\ Goes(a, "add")
        /\ UNCHANGED <<roleVars, posted, memory, spent>>

\* What comes after a role was added, taken or passed over.
AfterRole(job) == IF job.kind = "remove" THEN "strip"
                  ELSE IF Len(job.todo) > 1 THEN "add"
                  ELSE IF job.kind = "create" THEN "list" ELSE "update"
NextRole(a) ==
    jobs' = [jobs EXCEPT ![a].step = AfterRole(jobs[a]), ![a].todo = IF jobs[a].kind = "create" THEN Tail(@) ELSE @]

\* add_button_to_panel: the panel, and the number of its buttons
Count(a) ==
    LET job == jobs[a]
    IN  /\ job.step = "add"
        /\ IF job.m \notin DOMAIN rows THEN (IF job.kind = "create" THEN NextRole(a) ELSE Ends(a))
           ELSE IF Len(buttons[job.m]) >= MAX_PANEL_ITEMS \/ (job.kind = "add" /\ job.todo[1].role \notin safe)
                THEN Ends(a)
           ELSE Goes(a, "insert")
        /\ UNCHANGED <<roleVars, panelVars, posted, memory, spent>>

\* role_panel_buttons.add: one that is there stays as it is; without the panel it is refused
Insert(a) ==
    LET job == jobs[a]
        b == job.todo[1]
    IN  /\ job.step = "insert"
        /\ IF job.m \notin DOMAIN rows THEN Ends(a) /\ UNCHANGED buttons
           ELSE /\ buttons' = IF b.role \in RolesOf(buttons[job.m]) THEN buttons
                              ELSE [buttons EXCEPT ![job.m] = Append(@, b)]
                /\ Goes(a, "rebuild")
        /\ UNCHANGED <<roleVars, rows, posted, memory, spent>>

\* remove_button_from_panel
Take(a) ==
    LET job == jobs[a]
        r == job.todo[1].role
    IN  /\ job.step = "take"
        /\ IF r \notin safe THEN Ends(a) /\ UNCHANGED buttons
           ELSE IF r \notin RolesOf(ButtonsOf(job.m)) THEN Goes(a, "strip") /\ UNCHANGED buttons
           ELSE /\ \E i \in DOMAIN buttons[job.m] :
                      buttons[job.m][i].role = r /\ buttons' = [buttons EXCEPT ![job.m] = RemoveAt(@, i)]
                /\ Goes(a, "rebuild")
        /\ UNCHANGED <<roleVars, rows, posted, memory, spent>>

\* rebuild_panel_fingerprint: the buttons are read ...
Rebuild(a) ==
    /\ jobs[a].step = "rebuild"
    /\ jobs' = [jobs EXCEPT ![a].step = "rebuilt", ![a].seen = ButtonsOf(jobs[a].m)]
    /\ UNCHANGED <<roleVars, panelVars, posted, memory, spent>>

\* update_fingerprint: last_rendered_fingerprint is left alone unless there is one to write
WithView(m, view) == IF m \in DOMAIN rows THEN [rows EXCEPT ![m].view = view] ELSE rows
WithBoth(m, fp) == IF m \in DOMAIN rows
                   THEN [rows EXCEPT ![m].view = fp, ![m].last = IF fp = <<>> THEN @ ELSE fp] ELSE rows

\* ... and the fingerprint written.
Rebuilt(a) ==
    /\ jobs[a].step = "rebuilt"
    /\ rows' = WithView(jobs[a].m, jobs[a].seen)
    /\ NextRole(a)
    /\ UNCHANGED <<roleVars, buttons, posted, memory, spent>>

\* The role is taken from everybody who has it; a member for whom that fails keeps it.
Strip(a) ==
    /\ jobs[a].step = "strip"
    /\ \E keep \in SUBSET {u \in Members : jobs[a].todo[1].role \in has[u]} :
          /\ IF keep = {} THEN UNCHANGED spent ELSE Spend("faults", MaxFaults)
          /\ has' = [u \in Members |-> IF u \in keep THEN has[u] ELSE has[u] \ {jobs[a].todo[1].role}]
    /\ Goes(a, "update")
    /\ UNCHANGED <<table, auto, safe, panelVars, posted, memory>>

-----------------------------------------------------------------------------
(* The message is brought up to date: by an administrator's command, and by *)
(* refresh_panels.                                                          *)

\* _update_panel_message, at its start; at the end of _on_create
GetPanel(a) ==
    LET job == jobs[a]
    IN  /\ job.step \in {"update", "read"}
        /\ IF job.m \notin DOMAIN rows THEN Ends(a)
           ELSE jobs' = [jobs EXCEPT ![a].view = rows[job.m].view, ![a].mode = Mode(job.m),
                                     ![a].step = IF @ = "update" THEN "list"
                                                 ELSE IF rows[job.m].view = <<>> THEN "ensure" ELSE "mark"]
        /\ UNCHANGED <<roleVars, panelVars, posted, memory, spent>>

\* A reaction panel is listened to before its message is edited, except at its creation.
List(a) ==
    LET job == jobs[a]
        bs == ButtonsOf(job.m)
    IN  /\ job.step = "list"
        /\ jobs' = [jobs EXCEPT ![a].seen = bs,
                       ![a].step = IF job.kind = "create" /\ job.mode = "buttons" /\ bs = <<>> THEN "read"
                                   ELSE IF job.kind # "create" /\ job.mode = "reactions" THEN "register" ELSE "edit"]
        /\ UNCHANGED <<roleVars, panelVars, posted, memory, spent>>

\* What follows the edit, and what the registration.
AfterEdit(job) == IF job.kind = "refresh" THEN "register"
                  ELSE IF job.kind = "create" THEN (IF job.mode = "reactions" THEN "register" ELSE "read")
                  ELSE IF job.view = <<>> THEN "ensure" ELSE "mark"
AfterRegister(job) == IF job.kind = "refresh" THEN "mark" ELSE IF job.kind = "create" THEN "read" ELSE "edit"

\* message.edit: the buttons of the view get their callbacks; at the creation of a panel the
\* embed is there.  A message that is gone cannot be fetched or edited.
Edit(p) ==
    LET job == jobs[p]
        shown == IF job.mode = "buttons" THEN Visible(job.seen) ELSE <<>>
    IN  /\ job.step = "edit"
        /\ IF job.m \notin DOMAIN posted THEN Ends(p) /\ UNCHANGED <<posted, handled>>
           ELSE /\ posted' = [posted EXCEPT ![job.m] =
                                [embed |-> IF job.kind = "create" THEN @.embed ELSE Visible(job.seen), components |-> shown]]
                /\ handled' = Handle(job.m, shown)
                /\ Goes(p, AfterEdit(job))
        /\ UNCHANGED <<roleVars, panelVars, listener, cleaner, spent>>

\* A registration ends; "hear" is that of a panel that refresh_panels does not render.
Registered(p) ==
    IF jobs[p].kind = "hear" THEN Ends(p)
    ELSE jobs' = [jobs EXCEPT ![p].step = AfterRegister(jobs[p]), ![p].heard = <<>>]

\* _register_or_update_view and _register_reaction_panel: the row, for reactions the message ...
Register(p) ==
    /\ jobs[p].step = "register"
    /\ IF jobs[p].m \in DOMAIN rows /\ (jobs[p].mode = "reactions" => jobs[p].m \in DOMAIN posted)
       THEN Goes(p, "listen") ELSE Registered(p)
    /\ UNCHANGED <<roleVars, panelVars, posted, memory, spent>>

\* ... and the buttons.
Listen(p) ==
    /\ jobs[p].step = "listen"
    /\ jobs' = [jobs EXCEPT ![p].step = "heard", ![p].heard = ButtonsOf(jobs[p].m)]
    /\ UNCHANGED <<roleVars, panelVars, posted, memory, spent>>

\* reload: the emojis of a panel that is listened to are those of the buttons at once.
Reloaded(m, bs) == IF m \in DOMAIN listener THEN With(listener, m, EmojiMap(bs)) ELSE listener

\* add_view is there at once, too.  A panel that was not listened to is when its reactions were
\* added; one without buttons is forgotten when its reactions were cleared.
Hear(p) ==
    LET job == jobs[p]
    IN  /\ job.step = "heard"
        /\ IF job.mode = "buttons"
           THEN handled' = Handle(job.m, Visible(job.heard)) /\ UNCHANGED listener /\ Registered(p)
           ELSE /\ listener' = Reloaded(job.m, job.heard) /\ UNCHANGED handled
                /\ IF job.m \in DOMAIN listener /\ job.heard = <<>> THEN Goes(p, "forget")
                   ELSE IF job.m \notin DOMAIN listener /\ job.heard # <<>> THEN Goes(p, "store")
                   ELSE Registered(p)
        /\ UNCHANGED <<roleVars, panelVars, posted, cleaner, spent>>

\* Mutation: only panels that are listened to already are brought up to date.
Stored_Not(m, bs) == listener

\* _reaction_panels[message_id] = view
Stored(m, bs) == With(listener, m, EmojiMap(bs))

Store(p) ==
    /\ jobs[p].step = "store"
    /\ listener' = Stored(jobs[p].m, jobs[p].heard)
    /\ Registered(p)
    /\ UNCHANGED <<roleVars, panelVars, posted, handled, cleaner, spent>>

\* del _reaction_panels[message_id], a KeyError if somebody else was faster
Forget(p) ==
    /\ jobs[p].step = "forget"
    /\ listener' = Without(listener, jobs[p].m)
    /\ IF jobs[p].m \in DOMAIN listener THEN Registered(p) ELSE Ends(p)
    /\ UNCHANGED <<roleVars, panelVars, posted, handled, cleaner, spent>>

\* ensure_panel_fingerprint of a row without one: the buttons are read ...
Ensure(p) ==
    /\ jobs[p].step = "ensure"
    /\ jobs' = [jobs EXCEPT ![p].step = "ensured", ![p].heard = ButtonsOf(jobs[p].m)]
    /\ UNCHANGED <<roleVars, panelVars, posted, memory, spent>>

\* ... and their fingerprint written.
Ensured(p) ==
    LET job == jobs[p]
    IN  /\ job.step = "ensured"
        /\ rows' = WithView(job.m, job.heard)
        /\ jobs' = [jobs EXCEPT ![p].step = IF job.kind = "refresh" THEN "look" ELSE "mark",
                                ![p].view = job.heard, ![p].heard = <<>>]
        /\ UNCHANGED <<roleVars, buttons, posted, memory, spent>>

\* mark_panel_rendered
Mark(p) ==
    /\ jobs[p].step = "mark"
    /\ rows' = WithBoth(jobs[p].m, jobs[p].view)
    /\ Ends(p)
    /\ UNCHANGED <<roleVars, buttons, posted, memory, spent>>

-----------------------------------------------------------------------------
(* refresh_panels and clean_dead_panels.                                   *)

\* The panels of the guild are listed, for one of the loops.
Begin(p) ==
    /\ jobs[p] = Idle /\ DOMAIN rows # {} /\ (p = "clean" => cleaner)
    /\ jobs' = [jobs EXCEPT ![p] = Onward(p, SetToSeq(DOMAIN rows))]
    /\ UNCHANGED <<roleVars, panelVars, posted, memory, spent>>

\* _refresh_single_panel: the row; "seen" holds last_rendered_fingerprint up to Look.
Panel ==
    LET m == jobs["refresh"].m
    IN  /\ jobs["refresh"].step = "panel"
        /\ IF m \notin DOMAIN rows THEN Ends("refresh")
           ELSE jobs' = [jobs EXCEPT !["refresh"].step = IF rows[m].view = <<>> THEN "ensure" ELSE "look",
                                     !["refresh"].mode = Mode(m), !["refresh"].view = rows[m].view,
                                     !["refresh"].seen = rows[m].last]
        /\ UNCHANGED <<roleVars, panelVars, posted, memory, spent>>

\* What is rendered already is not rendered again.
\* Mutation: a panel is passed over when its fingerprint was written, rendered or not.
Unchanged_Any(job) == rows[job.m].view = job.view

Unchanged(job) == job.seen = job.view

Look ==
    LET job == jobs["refresh"]
        bs == ButtonsOf(job.m)
        Then(step) == jobs' = [jobs EXCEPT !["refresh"].step = step, !["refresh"].seen = bs]
    IN  /\ job.step = "look"
        /\ IF job.m \notin DOMAIN posted THEN Ends("refresh")
           ELSE IF bs = <<>> THEN Then("blank")
           ELSE IF Unchanged(job) /\ job.mode = "reactions"
           THEN jobs' = [jobs EXCEPT !["refresh"].step = "register", !["refresh"].kind = "hear"]
           ELSE IF Unchanged(job) /\ posted[job.m].components # <<>> THEN Ends("refresh")
           ELSE Then("edit")
        /\ UNCHANGED <<roleVars, panelVars, posted, memory, spent>>

\* A panel without buttons loses the components; embed and listener are as they were.
Blank ==
    LET m == jobs["refresh"].m
    IN  /\ jobs["refresh"].step = "blank"
        /\ posted' = IF m \in DOMAIN posted THEN [posted EXCEPT ![m].components = <<>>] ELSE posted
        /\ Ends("refresh")
        /\ UNCHANGED <<roleVars, panelVars, memory, spent>>

\* clean_dead_panels: a message that is not found, in a channel that may not be there either
\* Mutation: a message that is not found is taken for a call that failed.
Dead_Never(m) == m \notin Messages

Dead(m) == m \notin DOMAIN posted

Probe ==
    /\ jobs["clean"].step = "probe"
    /\ IF Dead(jobs["clean"].m) THEN Goes("clean", "drop") ELSE Ends("clean")
    /\ UNCHANGED <<roleVars, panelVars, posted, memory, spent>>

\* DeletePanelConfirmView: first the message
Erase(a) ==
    /\ jobs[a].step = "erase"
    /\ \/ posted' = Without(posted, jobs[a].m) /\ UNCHANGED spent
       \/ UNCHANGED posted /\ Spend("faults", MaxFaults)
    /\ Goes(a, "drop")
    /\ UNCHANGED <<roleVars, panelVars, memory>>

\* delete_panel; its buttons go with it (ON DELETE CASCADE).  Only _delete_panel_data of the loop
\* forgets the listener.
Drop(p) ==
    LET m == jobs[p].m
    IN  /\ jobs[p].step = "drop"
        /\ rows' = Without(rows, m) /\ buttons' = Without(buttons, m)
        /\ listener' = IF p = "clean" THEN Without(listener, m) ELSE listener
        /\ Ends(p)
        /\ UNCHANGED <<roleVars, posted, handled, cleaner, spent>>

-----------------------------------------------------------------------------
(* Calls that fail, a restart, and a message that others delete.            *)

\* The command ends with an error; refresh_panels goes on with the next panel, and
\* clean_dead_panels too when it was the fetch.  Its loop ends when it was the database, be it for
\* the list.  A registration that cannot fetch the message just ends; reactions that cannot be
\* added or cleared are passed over.
Fails(p) ==
    LET job == jobs[p]
        fatal == p = "clean" /\ job.step \in {"idle", "drop"}
    IN  /\ job.step \notin {"strip", "erase", "heard", "store", "forget"} /\ (job.step = "idle" => p = "clean" /\ cleaner)
        /\ Spend("faults", MaxFaults)
        /\ IF fatal THEN jobs' = [jobs EXCEPT ![p] = Idle]
           ELSE Ends(p) \/ (job.step = "register" /\ job.mode = "reactions" /\ Registered(p))
        /\ cleaner' = (cleaner /\ ~fatal)
        /\ UNCHANGED <<roleVars, panelVars, posted, listener, handled>>

\* The cog is loaded anew, before the bot is connected: _register_all_panel_views finds no guild.
Restart ==
    /\ Spend("faults", MaxFaults)
    /\ listener' = <<>> /\ handled' = <<>> /\ cleaner' = TRUE
    /\ jobs' = [p \in Processes |-> Idle]
    /\ UNCHANGED <<roleVars, panelVars, posted>>

Vanish(m) ==
    /\ m \in DOMAIN posted /\ Spend("changes", MaxChanges)
    /\ posted' = Without(posted, m)
    /\ UNCHANGED <<roleVars, panelVars, memory, jobs>>

-----------------------------------------------------------------------------
Writes(a) == WriteRow(a) \/ Count(a) \/ Insert(a) \/ Take(a) \/ Rebuild(a) \/ Rebuilt(a) \/ Strip(a)
Registers(p) == Register(p) \/ Listen(p) \/ Hear(p) \/ Store(p) \/ Forget(p)
Marks(p) == Ensure(p) \/ Ensured(p) \/ Mark(p)
Renders(p) == Edit(p) \/ Registers(p) \/ Marks(p)
Commands(a) == Writes(a) \/ GetPanel(a) \/ List(a) \/ Renders(a) \/ Erase(a) \/ Drop(a)
Refreshes == Begin("refresh") \/ Panel \/ Look \/ Blank \/ Renders("refresh")
Cleans == Begin("clean") \/ Probe \/ Drop("clean")

Next ==
    \/ \E a \in Admins :
         \/ Commands(a)
         \/ \E bs \in SeqOf(Button, Cardinality(Roles)), mode \in Modes : Create(a, bs, mode)
         \/ \E m \in Messages : (\E b \in Button : AskAdd(a, m, b)) \/ AskDelete(a, m)
                                \/ \E i \in 1 .. Cardinality(Roles) : AskRemove(a, m, i)
    \/ Refreshes \/ Cleans
    \/ SyncRoles \/ \E r \in Roles : Regrade(r) \/ \E on \in BOOLEAN : SetPublic(r, on) \/ SetAuto(r, on)
    \/ \E u \in Members : Join(u) \/ \E m \in Messages : (\E r \in Roles : Press(u, m, r))
                                                         \/ \E e \in Emojis : React(u, m, e)
    \/ \E p \in Processes : Fails(p)
    \/ Restart \/ \E m \in Messages : Vanish(m)

Spec == Init /\ [][Next]_vars

\* The tasks of the event loop go on, and both loops come round.
FairSpec ==
    /\ Spec /\ WF_vars(Refreshes) /\ WF_vars(Cleans)
    /\ \A a \in Admins : WF_vars(Commands(a))

-----------------------------------------------------------------------------
TypeOK ==
    /\ table \in [Roles -> {"unknown", "hidden", "public"}] /\ auto \subseteq Roles /\ safe \subseteq Roles
    /\ has \in [Members -> SUBSET Roles] /\ cleaner \in BOOLEAN
    /\ DOMAIN rows \subseteq Messages /\ DOMAIN buttons = DOMAIN rows
    /\ \A m \in DOMAIN rows : /\ Mode(m) \in Modes /\ buttons[m] \in Seq(Button)
                              /\ Cardinality(RolesOf(buttons[m])) = Len(buttons[m])
    /\ \A p \in Processes : jobs[p].m \in Messages \cup {0}

\* The panel has its message, buttons, and the fingerprint of these.
Current(m) == m \in DOMAIN rows \cap DOMAIN posted /\ rows[m].view = buttons[m] /\ buttons[m] # <<>>
\* Members are shown what its rows say, and the bot answers them.
Answers(m) ==
    IF Mode(m) = "buttons"
    THEN /\ posted[m].components = Visible(buttons[m])
         /\ m \in DOMAIN handled /\ RolesOf(Visible(buttons[m])) \subseteq handled[m]
    ELSE m \in DOMAIN listener /\ listener[m] = EmojiMap(buttons[m])

Quiet(m) == \A p \in Processes : jobs[p].m # m

\* A panel that a failed call or a restart left with a fingerprint that is not the one rendered
\* last is rendered, and answers, sooner or later, unless it is changed again first.  (Only when
\* nobody else is at the panel: editors that overlap render it over each other.  And a panel
\* whose two fingerprints agree need not show its buttons, nor answer after a restart.)
UnrenderedIsRendered ==
    \A m \in Messages :
        (Quiet(m) /\ Current(m) /\ rows[m].last # rows[m].view) ~> (~Current(m) \/ Answers(m))

\* A reaction panel that stays is listened to with its own roles, again and again: after a restart,
\* after a call that failed, and after an administrator's command and refresh_panels registered it
\* at the same time, each with the buttons it had read before.
ReactionsAreHeard ==
    \A m \in Messages :
        <>[](m \in DOMAIN rows \cap DOMAIN posted /\ Mode(m) = "reactions" /\ buttons[m] # <<>>)
            => []<>(m \in DOMAIN rows /\ m \in DOMAIN listener /\ listener[m] = EmojiMap(buttons[m]))

\* A panel that was removed from the database does not come back, whoever is still about to write
\* its buttons or its fingerprints.
GoneForGood ==
    \A m \in Messages : [](m \in DOMAIN rows => [](m \notin DOMAIN rows => [](m \notin DOMAIN rows)))

\* A panel whose message is gone disappears from the database, as long as the loop of
\* clean_dead_panels has not died of a failure, and nobody's later write brings its rows back.
DeadPanelIsRemoved ==
    /\ \A m \in Messages : (m \in DOMAIN rows /\ m \notin DOMAIN posted) ~> (m \notin DOMAIN rows \/ ~cleaner)
    /\ GoneForGood

\* A panel that nobody changes any more answers: what cog_load registers the views for.  The code
\* does not have it: after a restart a panel of buttons that was rendered before is passed over.
PanelsAnswer == \A m \in Messages : <>[]Current(m) => []<>(Current(m) /\ Answers(m))

-----------------------------------------------------------------------------
(* What holds besides, at any moment and whatever fails.                   *)

Known == {r \in Roles : table[r] # "unknown"}

\* The bot gives nobody a role it does not know, through whatever a panel, its message, a listener
\* or a command still remembers: what is offered is known, and no role is forgotten.
OnlyKnownRoles == \A u \in Members : has[u] \subseteq Known

\* Commands that count the buttons of a panel at the same time may all add one (role_service.py
\* checks the limit and inserts in two statements): the limit of Discord is passed, but by no more
\* than the other administrators who are at it.
LimitHolds == \A m \in DOMAIN buttons : Len(buttons[m]) <= MAX_PANEL_ITEMS + Cardinality(Admins) - 1
=============================================================================

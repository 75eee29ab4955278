--------------------------- MODULE GuildSettings ---------------------------
(***************************************************************************)
(* Settings of one guild that several people save at the same time, some   *)
(* with commands of the bot and some on pages of the Activity:             *)
(*   - the welcome message: forms that read the row and then insert it or  *)
(*     update the fields they were given, and pages that write all of it;  *)
(*   - the policy of AI moderation: commands that read the document, change *)
(*     one section and write all of it back;                                *)
(*   - the channels AI moderation covers: a page that deletes the rows and  *)
(*     inserts the new ones, one statement after the other.                 *)
(* Each statement takes effect at once (the connection is in autocommit).   *)
(***************************************************************************)
EXTENDS Naturals

CONSTANTS Values,    \* contents of a field or a section, the empty text among them
          None,      \* a NULL, or a field a form leaves out
          Forms,     \* forms and selections open in Discord
          Members,   \* members who join
          Editors,   \* commands that change the policy
          Sections,  \* of the policy: labels, blacklist_words, allowed_domains, context_window_days, ...
          Saves,     \* requests to save the covered channels
          Channels

VARIABLES welcome,   \* the row of welcome_config
          form,      \* a form, from /welcome setup, media or channels to its answer
          greeting,  \* what a member who joined is about to be sent
          policy,    \* the policy in effect: policy_json, completed with the defaults as each reader does
          edit,      \* a command of /ai-policy
          covered,   \* ai_moderation_channels
          save       \* a run of save_channels

welcomeVars == <<welcome, form, greeting>>
policyVars == <<policy, edit>>
coverVars == <<covered, save>>
vars == <<welcome, form, greeting, policy, edit, covered, save>>

-----------------------------------------------------------------------------
(* The welcome message.                                                    *)

\* The fields of each form.  Columns that are handled alike are one field: title and description;
\* footer_text and footer_icon_url; the channels of the rules and of the roles.
Own == [setup |-> {"title", "color"},
        media |-> {"thumbnail_url", "footer_text"},
        channels |-> {"rules_channel_id"}]
Kinds == {"setup", "media", "channels"}
Fields == {"title", "color", "thumbnail_url", "footer_text", "rules_channel_id"}
Content == [Fields -> Values \cup {None}]
Nothing == [x \in Fields |-> None]

\* there: whether the guild has a row
Row == [there : BOOLEAN, is_enabled : BOOLEAN, fields : Content]
NoRow == [there |-> FALSE, is_enabled |-> TRUE, fields |-> Nothing]

Form == [step : {"closed", "open", "look", "update", "insert"}, kind : Kinds, given : Content]
Closed == [step |-> "closed", kind |-> "setup", given |-> Nothing]

\* The modal of /welcome setup formats the colour of the row it read: a NULL raises, and the
\* command answers that an error occurred.
Opens(kind) == kind = "setup" /\ welcome.there => welcome.fields["color"] # None

Open(f, kind) ==
    /\ form[f].step = "closed" /\ Opens(kind)
    /\ form' = [form EXCEPT ![f] = [Closed EXCEPT !.step = "open", !.kind = kind]]
    /\ UNCHANGED <<welcome, greeting>> /\ UNCHANGED policyVars /\ UNCHANGED coverVars

\* A setup form has a text for each of its fields.  The others turn an empty text, and the choice of
\* no channel, into None.
MayGive(kind, given) ==
    /\ \A x \in Fields \ Own[kind] : given[x] = None
    /\ kind = "setup" => \A x \in Own[kind] : given[x] # None

Submit(f, given) ==
    /\ form[f].step = "open" /\ MayGive(form[f].kind, given)
    /\ form' = [form EXCEPT ![f].step = "look", ![f].given = given]
    /\ UNCHANGED <<welcome, greeting>> /\ UNCHANGED policyVars /\ UNCHANGED coverVars

\* create_or_update: the row, as it is before the statement that depends on it.
Look(f) ==
    /\ form[f].step = "look"
    /\ form' = [form EXCEPT ![f].step = IF welcome.there THEN "update" ELSE "insert"]
    /\ UNCHANGED <<welcome, greeting>> /\ UNCHANGED policyVars /\ UNCHANGED coverVars

Given(f) == [x \in Fields |-> IF form[f].given[x] = None THEN welcome.fields[x] ELSE form[f].given[x]]

\* UPDATE of the fields given; without a row it changes nothing.
Update(f) ==
    /\ form[f].step = "update"
    /\ welcome' = IF welcome.there THEN [welcome EXCEPT !.fields = Given(f)] ELSE welcome
    /\ form' = [form EXCEPT ![f] = Closed]
    /\ UNCHANGED greeting /\ UNCHANGED policyVars /\ UNCHANGED coverVars

\* INSERT of all columns, which an existing row refuses: create_or_update then returns False.
Insert(f) ==
    /\ form[f].step = "insert"
    /\ welcome' = IF welcome.there THEN welcome
                  ELSE [there |-> TRUE, is_enabled |-> TRUE, fields |-> form[f].given]
    /\ form' = [form EXCEPT ![f] = Closed]
    /\ UNCHANGED greeting /\ UNCHANGED policyVars /\ UNCHANGED coverVars

\* A statement fails, a modal is dismissed, a setup form has no colour in it.
Dropped(f) ==
    /\ form[f].step # "closed"
    /\ form' = [form EXCEPT ![f] = Closed]
    /\ UNCHANGED <<welcome, greeting>> /\ UNCHANGED policyVars /\ UNCHANGED coverVars

\* /welcome toggle: UPDATE of is_enabled alone.
Toggle(is_enabled) ==
    /\ welcome' = IF welcome.there THEN [welcome EXCEPT !.is_enabled = is_enabled] ELSE welcome
    /\ UNCHANGED <<form, greeting>> /\ UNCHANGED policyVars /\ UNCHANGED coverVars

\* /welcome reset, and the Activity's.
Reset ==
    /\ welcome' = NoRow
    /\ UNCHANGED <<form, greeting>> /\ UNCHANGED policyVars /\ UNCHANGED coverVars

\* The page of the Activity: an UPSERT of every column.
PageSaves(fields, is_enabled) ==
    /\ welcome' = [there |-> TRUE, is_enabled |-> is_enabled, fields |-> fields]
    /\ UNCHANGED <<form, greeting>> /\ UNCHANGED policyVars /\ UNCHANGED coverVars

-----------------------------------------------------------------------------
(* The message to a member who joins: the text from one read of the row, the *)
(* buttons from another.                                                   *)

Greeting == [step : {"none", "embed", "sent"}, default : BOOLEAN, text : Content, links : Content]
Unsent == [step |-> "none", default |-> FALSE, text |-> Nothing, links |-> Nothing]

\* build_embed, of a guild without a row or with the welcome disabled: the default text
BuildsEmbed(m) ==
    /\ greeting[m].step = "none"
    /\ greeting' = [greeting EXCEPT ![m] =
           [Unsent EXCEPT !.step = "embed",
                          !.default = ~welcome.there \/ ~welcome.is_enabled,
                          !.text = IF welcome.there /\ welcome.is_enabled THEN welcome.fields ELSE Nothing]]
    /\ UNCHANGED <<welcome, form>> /\ UNCHANGED policyVars /\ UNCHANGED coverVars

\* get_welcome_buttons reads the row again, and does not ask whether it is enabled.
GetsButtons(m) ==
    /\ greeting[m].step = "embed"
    /\ greeting' = [greeting EXCEPT ![m].step = "sent",
                                    ![m].links = [x \in Fields |-> IF x = "rules_channel_id" THEN welcome.fields[x] ELSE None]]
    /\ UNCHANGED <<welcome, form>> /\ UNCHANGED policyVars /\ UNCHANGED coverVars

-----------------------------------------------------------------------------
(* The policy of AI moderation.                                            *)

Document == [Sections -> Values]

\* fresh: nobody has written the policy since the command read it
Edit == [step : {"idle", "write"}, section : Sections \cup {"none"}, document : Document, fresh : BOOLEAN]
Stale(e) == [i \in Editors |-> IF i = e THEN edit[i] ELSE [edit[i] EXCEPT !.fresh = FALSE]]

\* get_policy, and the section the command is about.
Reads(e, section, value) ==
    /\ edit[e].step = "idle"
    /\ edit' = [edit EXCEPT ![e] = [step |-> "write", section |-> section, fresh |-> TRUE,
                                    document |-> [policy EXCEPT ![section] = value]]]
    /\ UNCHANGED policy /\ UNCHANGED welcomeVars /\ UNCHANGED coverVars

\* save_policy: an UPSERT of the document.
Writes(e) ==
    /\ edit[e].step = "write"
    /\ policy' = edit[e].document
    /\ edit' = [Stale(e) EXCEPT ![e].step = "idle"]
    /\ UNCHANGED welcomeVars /\ UNCHANGED coverVars

\* validate refuses the document, or the statement fails.
Refuses(e) ==
    /\ edit[e].step = "write"
    /\ edit' = [edit EXCEPT ![e].step = "idle"]
    /\ UNCHANGED policy /\ UNCHANGED welcomeVars /\ UNCHANGED coverVars

\* The page of the Activity: the same UPSERT, of the document the page has.
PagePolicy(document) ==
    /\ policy' = document
    /\ edit' = [i \in Editors |-> [edit[i] EXCEPT !.fresh = FALSE]]
    /\ UNCHANGED welcomeVars /\ UNCHANGED coverVars

-----------------------------------------------------------------------------
(* The channels AI moderation covers.                                      *)

\* list: the channels asked for that the bot may moderate; left: those still to insert;
\* alone: nobody else has written since the request came
Save == [step : {"idle", "delete", "insert", "done"}, list : SUBSET Channels,
         left : SUBSET Channels, alone : BOOLEAN]
Disturbed(s) == [i \in Saves |-> IF i = s THEN save[i] ELSE [save[i] EXCEPT !.alone = FALSE]]
After(left) == IF left = {} THEN "done" ELSE "insert"

\* filter_moderation_channel_ids has left what Discord knows.
Requests(s, list) ==
    /\ save[s].step \in {"idle", "done"}
    /\ save' = [save EXCEPT ![s] = [step |-> "delete", list |-> list, left |-> list, alone |-> TRUE]]
    /\ UNCHANGED covered /\ UNCHANGED welcomeVars /\ UNCHANGED policyVars

Deletes(s) ==
    /\ save[s].step = "delete"
    /\ covered' = {}
    /\ save' = [Disturbed(s) EXCEPT ![s].step = After(save[s].left)]
    /\ UNCHANGED welcomeVars /\ UNCHANGED policyVars

\* INSERT ... ON CONFLICT DO NOTHING
Inserts(s, c) ==
    /\ save[s].step = "insert" /\ c \in save[s].left
    /\ covered' = covered \cup {c}
    /\ save' = [Disturbed(s) EXCEPT ![s].step = After(save[s].left \ {c}),
                                    ![s].left = save[s].left \ {c}]
    /\ UNCHANGED welcomeVars /\ UNCHANGED policyVars

\* A statement fails: what was deleted stays deleted.
Fails(s) ==
    /\ save[s].step \in {"delete", "insert"}
    /\ save' = [save EXCEPT ![s].step = "idle"]
    /\ UNCHANGED covered /\ UNCHANGED welcomeVars /\ UNCHANGED policyVars

\* /set ai-channel
Adds(c) ==
    /\ covered' = covered \cup {c}
    /\ save' = [i \in Saves |-> [save[i] EXCEPT !.alone = FALSE]]
    /\ UNCHANGED welcomeVars /\ UNCHANGED policyVars

-----------------------------------------------------------------------------

Init ==
    /\ welcome = NoRow
    /\ form = [f \in Forms |-> Closed]
    /\ greeting = [m \in Members |-> Unsent]
    /\ policy \in Document
    /\ edit = [e \in Editors |-> [step |-> "idle", section |-> "none", document |-> policy, fresh |-> FALSE]]
    /\ covered = {}
    /\ save = [s \in Saves |-> [step |-> "idle", list |-> {}, left |-> {}, alone |-> FALSE]]

FormStep(f) ==
    \/ \E kind \in Kinds : Open(f, kind)
    \/ \E given \in Content : Submit(f, given)
    \/ Look(f) \/ Update(f) \/ Insert(f) \/ Dropped(f)

WelcomeStep ==
    \/ \E f \in Forms : FormStep(f)
    \/ \E is_enabled \in BOOLEAN : Toggle(is_enabled)
    \/ Reset
    \/ \E fields \in Content, is_enabled \in BOOLEAN : PageSaves(fields, is_enabled)
    \/ \E m \in Members : BuildsEmbed(m) \/ GetsButtons(m)

PolicyStep ==
    \/ \E e \in Editors :
           \/ \E section \in Sections, value \in Values : Reads(e, section, value)
           \/ Writes(e) \/ Refuses(e)
    \/ \E document \in Document : PagePolicy(document)

CoverStep ==
    \/ \E s \in Saves :
           \/ \E list \in SUBSET Channels : Requests(s, list)
           \/ Deletes(s) \/ Fails(s)
           \/ \E c \in Channels : Inserts(s, c)
    \/ \E c \in Channels : Adds(c)

Next == WelcomeStep \/ PolicyStep \/ CoverStep

Spec == Init /\ [][Next]_vars

-----------------------------------------------------------------------------
(* Properties.                                                             *)

TypeOK ==
    /\ welcome \in Row
    /\ form \in [Forms -> Form]
    /\ greeting \in [Members -> Greeting]
    /\ policy \in Document
    /\ edit \in [Editors -> Edit]
    /\ covered \subseteq Channels
    /\ save \in [Saves -> Save]

\* A form of the bot never touches what another form or a page saved, however long it was open and
\* whatever happened between its read of the row and its statement: it changes no field but its own
\* of a row that is there, and never whether the welcome is enabled.
FormsKeepTheRest ==
    [][\A f \in Forms : FormStep(f) /\ welcome.there =>
           /\ welcome'.there /\ welcome'.is_enabled = welcome.is_enabled
           /\ \A x \in Fields \ Own[form[f].kind] : welcome'.fields[x] = welcome.fields[x]]_vars

\* A command of /ai-policy during which nobody else saved changes its section only.
EditsKeepTheRest ==
    [][\A e \in Editors : Writes(e) /\ edit[e].fresh =>
           \A x \in Sections \ {edit[e].section} : policy'[x] = policy[x]]_vars

\* The channels covered after a save during and after which nobody else saved are those it asked for.
AloneIsExact == \A s \in Saves : save[s].step = "done" /\ save[s].alone => covered = save[s].list

(* What does not hold of the code.                                         *)

\* A form that answers "saved" has saved.
SavedIsSaved ==
    [][\A f \in Forms : Update(f) \/ Insert(f) =>
           \A x \in Fields : form[f].given[x] # None => welcome'.fields[x] = form[f].given[x]]_vars

\* /welcome setup opens.
SetupOpens == Opens("setup")

\* A guild that disabled the welcome sends none.
DisabledIsQuiet == [][\A m \in Members : BuildsEmbed(m) => ~welcome.there \/ welcome.is_enabled]_vars

\* No command undoes what somebody else saved of another section.
EditsKeepSaved ==
    [][\A e \in Editors : Writes(e) =>
           \A x \in Sections \ {edit[e].section} : policy'[x] = policy[x]]_vars

\* A channel that was covered before a save, and is in its list, is covered while it runs.
StaysCovered ==
    [][\A s \in Saves : Deletes(s) => covered \cap save[s].list \subseteq covered']_vars

-----------------------------------------------------------------------------
(* The inductive invariant.                                                *)

\* A submitted form gives its own fields only.
GivenOwn == \A f \in Forms : form[f].step \in {"look", "update", "insert"} =>
    \A x \in Fields \ Own[form[f].kind] : form[f].given[x] = None

\* What a command read is still the policy while nobody has saved.
FreshIsCurrent == \A e \in Editors : edit[e].step = "write" /\ edit[e].fresh =>
    \A x \in Sections \ {edit[e].section} : edit[e].document[x] = policy[x]

\* A save that nobody disturbed since its DELETE has inserted what is covered.
AloneSoFar == \A s \in Saves :
    /\ save[s].step = "delete" => save[s].left = save[s].list
    /\ save[s].step = "insert" /\ save[s].alone =>
           covered = save[s].list \ save[s].left /\ save[s].left \subseteq save[s].list

SettingsInv == TypeOK /\ GivenOwn /\ FreshIsCurrent /\ AloneSoFar /\ AloneIsExact
=============================================================================

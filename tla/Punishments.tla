---------------------------- MODULE Punishments ----------------------------
(***************************************************************************)
(* The punishments of one member.  Moderators run commands on him           *)
(* (ModerationCog, ModeratorService), Discord answers what the bot or a     *)
(* person does with entries of the audit log, which the bot records as well *)
(* (LoggingCog, PunishmentEventRecorder), moderators revoke rows from the    *)
(* list of active punishments, and the retention cleanup deletes old rows.  *)
(*                                                                         *)
(* A job is one run of a handler.  It does one step of its program at a     *)
(* time: between two steps it awaits Discord or the database, and the other *)
(* jobs go on.                                                             *)
(***************************************************************************)
EXTENDS Integers, Sequences, FiniteSets, FiniteSetsExt

CONSTANTS Jobs,        \* the handlers that run
          Commands,    \* what moderators run: programs below but those of entries
          MaxFaults,   \* how many calls of Discord and the database may fail
          Removable    \* whether the bot's role is above the member's administrator roles

ASSUME PunishmentsAssumption ==
    /\ Commands \subseteq {"warn", "mute", "unmute", "kick", "ban", "unban", "revoke"}
    /\ MaxFaults \in Nat
    /\ Removable \in BOOLEAN

VARIABLES rows,     \* table punishments: the rows of the member
          discord,  \* what Discord holds of the member
          entries,  \* the audit log: every entry is delivered to the bot, perhaps twice
          job,      \* the handlers
          reserved, \* _recent_dm_notifications: what the member was lately told
          faults    \* how many calls have failed

vars == <<rows, discord, entries, job, reserved, faults>>

-----------------------------------------------------------------------------
Types == {"warn", "mute", "timeout", "kick", "ban"}
Row == [type : Types, state : {"active", "inactive", "gone"}, entry : Nat]

\* What the handlers do, in order.  Each step is one call that awaits.

\* Mutation: the rows are counted before the new one is there.
warn_user_CountsFirst == <<"escalation", "insert", "tell", "log">>

warn_user == <<"insert", "tell", "log", "escalation">>

\* Mutation: the row is written before the timeout.
mute_user_RowFirst == <<"strip", "insert", "timeout", "tell", "log", "escalation">>

mute_user == <<"strip", "timeout", "insert", "tell", "log", "escalation">>
unmute_user == <<"lookup", "deactivate", "lift", "log">>
kick_user == <<"tell", "kick", "insert", "log">>
ban_user == <<"tell", "ban", "insert", "log">>
unban_user == <<"unban", "log">>
RevokePunishmentModal == <<"log", "revoke">>

Program ==
    [warn |-> warn_user, mute |-> mute_user, unmute |-> unmute_user, kick |-> kick_user,
     ban |-> ban_user, unban |-> unban_user, revoke |-> RevokePunishmentModal,
     timeoutEntry |-> <<"log", "record">>, banEntry |-> <<"log", "record">>,
     otherEntry |-> <<"log">>]

EntryKinds == {"timeoutEntry", "banEntry", "otherEntry"}
Idle == [kind |-> "none", at |-> 0, row |-> 0, above |-> FALSE, lifted |-> FALSE, answer |-> "none"]
Job == [kind : DOMAIN Program \cup {"none"}, at : 0 .. 7, row : Nat, above : BOOLEAN, lifted : BOOLEAN,
        answer : {"none", "ok", "no", "escalate"}]

Running(j) == job[j].kind # "none" /\ job[j].at <= Len(Program[job[j].kind])
At(j, step) == Running(j) /\ Program[job[j].kind][job[j].at] = step
Quiet == \A j \in Jobs : ~Running(j)

Actives(types) == {i \in DOMAIN rows : rows[i].state = "active" /\ rows[i].type \in types}

Init ==
    /\ rows = <<>>
    /\ discord = [timeout |-> "none", banned |-> FALSE, here |-> TRUE, admin |-> Removable]
    /\ entries = <<>>
    /\ job = [j \in Jobs |-> Idle]
    /\ reserved = {}
    /\ faults = 0

-----------------------------------------------------------------------------
(* What every step has in common.                                          *)

Advance(j) == [job EXCEPT ![j].at = @ + 1]
Leave(j, answer) == [job EXCEPT ![j].at = Len(Program[job[j].kind]) + 1, ![j].answer = answer]
Fail == /\ faults < MaxFaults
        /\ faults' = faults + 1

\* An action of the bot or of a person appears in the audit log.
Entry(kind) == Append(entries, [kind |-> kind, left |-> 2])

-----------------------------------------------------------------------------
(* Starting.  The commands need a free handler; the check of permissions    *)
(* and of the order of roles is done before the first await.  unmute_user    *)
(* and the revocation have no check of their own: unmute_user's is that of   *)
(* remove_timeout, whose answer it ignores.                                 *)

Checked == {"warn", "mute", "kick", "ban"}

Started(j, k, above) ==
    LET start == [Idle EXCEPT !.kind = k, !.at = 1, !.above = above]
    IN  [job EXCEPT ![j] = IF k \in Checked /\ ~above /\ discord.here
                           THEN [start EXCEPT !.at = Len(Program[k]) + 1, !.answer = "no"]
                           ELSE start]

\* A slash command: /ban and /unban also take people who are not in the guild.
Run(j) ==
    /\ job[j] = Idle
    /\ \E k \in Commands \ {"revoke"}, above \in BOOLEAN :
         /\ discord.here \/ k \in {"ban", "unban"}
         /\ job' = Started(j, k, above)
    /\ UNCHANGED <<rows, discord, entries, reserved, faults>>

\* quick_warn, quick_mute: the menus of a message and of a user
Menu(j) ==
    /\ job[j] = Idle
    /\ \E k \in Commands \cap {"warn", "mute"}, above \in BOOLEAN :
         /\ discord.here
         /\ job' = Started(j, k, above)
    /\ UNCHANGED <<rows, discord, entries, reserved, faults>>

\* A moderator picks a row of the list he was shown: it was active then.
Pick(j) ==
    /\ job[j] = Idle
    /\ "revoke" \in Commands
    /\ \E i \in DOMAIN rows : rows[i].state # "gone" /\ job' = [job EXCEPT ![j] =
         [Idle EXCEPT !.kind = "revoke", !.at = 1, !.row = i]]
    /\ UNCHANGED <<rows, discord, entries, reserved, faults>>

\* on_audit_log_entry_create: also for what the bot itself has done.
Deliver(j) ==
    /\ job[j] = Idle
    /\ \E e \in DOMAIN entries :
         /\ entries[e].left > 0
         /\ entries' = [entries EXCEPT ![e].left = @ - 1]
         /\ job' = [job EXCEPT ![j] = [Idle EXCEPT !.kind = entries[e].kind, !.at = 1, !.row = e]]
    /\ UNCHANGED <<rows, discord, reserved, faults>>

-----------------------------------------------------------------------------
(* The calls of Discord.                                                   *)

\* _remove_administrator_roles, then target.timeout: no role is given back when it fails.
Strip(j) ==
    /\ At(j, "strip")
    /\ \/ /\ discord' = [discord EXCEPT !.admin = @ /\ ~Removable]
          /\ job' = Advance(j)
          /\ UNCHANGED faults
       \/ /\ discord.admin
          /\ Fail
          /\ job' = Leave(j, "no")
          /\ UNCHANGED discord
    /\ UNCHANGED <<rows, entries, reserved>>

Timeout(j) ==
    /\ At(j, "timeout")
    /\ \/ /\ discord.here /\ ~discord.admin
          /\ discord' = [discord EXCEPT !.timeout = "bot"]
          /\ entries' = Entry(IF discord.timeout = "none" THEN "timeoutEntry" ELSE "otherEntry")
          /\ job' = Advance(j)
          /\ UNCHANGED faults
       \/ /\ IF discord.here /\ ~discord.admin THEN Fail ELSE UNCHANGED faults
          /\ job' = Leave(j, "no")
          /\ UNCHANGED <<discord, entries>>
    /\ UNCHANGED <<rows, reserved>>

\* remove_timeout: refused for a member who is not below the moderator; the answer is ignored.
Lift(j) ==
    /\ At(j, "lift")
    /\ \/ /\ job[j].above /\ discord.here
          /\ discord' = [discord EXCEPT !.timeout = "none"]
          /\ job' = [Advance(j) EXCEPT ![j].lifted = TRUE]
          /\ entries' = IF discord.timeout = "none" THEN entries ELSE Entry("otherEntry")
          /\ UNCHANGED faults
       \/ /\ IF job[j].above /\ discord.here THEN Fail ELSE UNCHANGED faults
          /\ job' = Advance(j)
          /\ UNCHANGED <<discord, entries>>
    /\ UNCHANGED <<rows, reserved>>

\* target.kick, guild.ban, guild.unban: an exception ends the command.
Possible == [kick |-> discord.here, ban |-> TRUE, unban |-> discord.banned]
Outcome == [kick  |-> [discord EXCEPT !.here = FALSE],
            ban   |-> [discord EXCEPT !.here = FALSE, !.banned = TRUE],
            unban |-> [discord EXCEPT !.banned = FALSE]]

Expel(j, step) ==
    /\ At(j, step)
    /\ \/ /\ Possible[step]
          /\ discord' = Outcome[step]
          /\ entries' = Entry(IF step = "ban" THEN "banEntry" ELSE "otherEntry")
          /\ job' = Advance(j)
          /\ UNCHANGED faults
       \/ /\ IF Possible[step] THEN Fail ELSE UNCHANGED faults
          /\ job' = Leave(j, "no")
          /\ UNCHANGED <<discord, entries>>
    /\ UNCHANGED <<rows, reserved>>

\* _send_dm: the reservation is made before the message, whose failure is ignored.
Tell(j) ==
    /\ At(j, "tell")
    /\ reserved' = reserved \cup {job[j].kind}
    /\ job' = Advance(j)
    /\ UNCHANGED <<rows, discord, entries, faults>>

\* log_moderation_action and log_audit_*: neither the row nor the message of the log can raise.
Log(j) ==
    /\ At(j, "log")
    /\ job' = IF Len(Program[job[j].kind]) = job[j].at THEN Leave(j, "ok") ELSE Advance(j)
    /\ UNCHANGED <<rows, discord, entries, reserved, faults>>

-----------------------------------------------------------------------------
(* The table.                                                              *)

\* BaseRepository.insert: a failure is logged and answered with None.
Insert(j) ==
    /\ At(j, "insert")
    /\ job' = Advance(j)
    /\ \/ /\ rows' = Append(rows, [type |-> job[j].kind, state |-> "active", entry |-> 0])
          /\ UNCHANGED faults
       \/ Fail /\ UNCHANGED rows
    /\ UNCHANGED <<discord, entries, reserved>>

\* ON CONFLICT (guild_id, message_id, type, source) DO NOTHING
\* Mutation: without the unique constraint.
Recorded_Never(e) == FALSE

Recorded(e) == \E i \in DOMAIN rows : rows[i].entry = e

Record(j) ==
    /\ At(j, "record")
    /\ job' = Leave(j, "ok")
    /\ \/ /\ rows' = IF Recorded(job[j].row) THEN rows
                     ELSE Append(rows, [type  |-> IF job[j].kind = "banEntry" THEN "ban" ELSE "timeout",
                                        state |-> "active", entry |-> job[j].row])
          /\ UNCHANGED faults
       \/ Fail /\ UNCHANGED rows
    /\ UNCHANGED <<discord, entries, reserved>>

\* get_active(..., "mute"): the newest
Lookup(j) ==
    /\ At(j, "lookup")
    /\ job' = IF Actives({"mute"}) = {} THEN Leave(j, "no")
              ELSE [Advance(j) EXCEPT ![j].row = Max(Actives({"mute"}))]
    /\ UNCHANGED <<rows, discord, entries, reserved, faults>>

\* UPDATE ... SET is_active = 0 WHERE id = ? AND is_active = 1: whether a row was changed
\* Mutation: WHERE id = ? only.
Lifts_Always(i) == TRUE

Lifts(i) == rows[i].state = "active"
Deactivated(i) == [rows EXCEPT ![i].state = IF @ = "active" THEN "inactive" ELSE @]

Deactivate(j) ==
    /\ At(j, "deactivate")
    /\ \/ /\ rows' = Deactivated(job[j].row)
          /\ job' = IF Lifts(job[j].row) THEN Advance(j) ELSE Leave(j, "no")
          /\ UNCHANGED faults
       \/ /\ Fail
          /\ job' = Leave(j, "no")
          /\ UNCHANGED rows
    /\ UNCHANGED <<discord, entries, reserved>>

\* The modal logs the revocation, then revokes: nothing is lifted on Discord.
Revoke(j) ==
    /\ At(j, "revoke")
    /\ \/ /\ rows' = Deactivated(job[j].row)
          /\ job' = Leave(j, IF Lifts(job[j].row) THEN "ok" ELSE "no")
          /\ UNCHANGED faults
       \/ /\ Fail
          /\ job' = Leave(j, "no")
          /\ UNCHANGED rows
    /\ UNCHANGED <<discord, entries, reserved>>

\* check_auto_escalation: what is active when the row of this command is there
Threshold == 3
Counted(kind) == Actives(IF kind = "warn" THEN {"warn"} ELSE {"mute", "timeout"})

Escalation(j) ==
    /\ At(j, "escalation")
    /\ \/ /\ job' = [Advance(j) EXCEPT ![j].answer =
                        IF Cardinality(Counted(job[j].kind)) >= Threshold THEN "escalate" ELSE "ok"]
          /\ UNCHANGED faults
       \/ Fail /\ job' = Leave(j, "no")
    /\ UNCHANGED <<rows, discord, entries, reserved>>

\* DatabaseManager.cleanup_retention: rows that are past their retention and not active
Retained(i) == rows[i].state = "active"

Cleanup ==
    /\ \E i \in DOMAIN rows :
         /\ ~Retained(i)
         /\ rows[i].state # "gone"
         /\ rows' = [rows EXCEPT ![i].state = "gone"]
    /\ UNCHANGED <<discord, entries, job, reserved, faults>>

-----------------------------------------------------------------------------
(* Time, and people.                                                       *)

\* _DM_DEDUPE_TTL_SECONDS after the reservation
Forget ==
    /\ \E k \in reserved : reserved' = reserved \ {k}
    /\ UNCHANGED <<rows, discord, entries, job, faults>>

\* The timeout ends by itself: nothing tells the table.
Expire ==
    /\ discord.timeout # "none"
    /\ discord' = [discord EXCEPT !.timeout = "none"]
    /\ UNCHANGED <<rows, entries, job, reserved, faults>>

\* A person times the member out in Discord.
ByHand ==
    /\ discord.here /\ ~discord.admin /\ discord.timeout = "none"
    /\ \A e \in DOMAIN entries : entries[e].kind # "timeoutEntry"
    /\ discord' = [discord EXCEPT !.timeout = "person"]
    /\ entries' = Entry("timeoutEntry")
    /\ UNCHANGED <<rows, job, reserved, faults>>

Return ==
    /\ ~discord.here /\ ~discord.banned
    /\ discord' = [discord EXCEPT !.here = TRUE]
    /\ UNCHANGED <<rows, entries, job, reserved, faults>>

Step(j) ==
    \/ Run(j) \/ Menu(j) \/ Pick(j) \/ Deliver(j)
    \/ Strip(j) \/ Timeout(j) \/ Lift(j) \/ Tell(j) \/ Log(j)
    \/ \E step \in {"kick", "ban", "unban"} : Expel(j, step)
    \/ Insert(j) \/ Record(j) \/ Lookup(j) \/ Deactivate(j) \/ Revoke(j) \/ Escalation(j)

Next == (\E j \in Jobs : Step(j)) \/ Cleanup \/ Forget \/ Expire \/ ByHand \/ Return

Spec == Init /\ [][Next]_vars

-----------------------------------------------------------------------------
(* Properties.                                                             *)

\* Every variable has its type; a row taken from the table by a job, or recorded for an
\* entry of the audit log, is there.
TypeOK ==
    /\ rows \in Seq(Row)
    /\ discord \in [timeout : {"none", "bot", "person"}, banned : BOOLEAN, here : BOOLEAN, admin : BOOLEAN]
    /\ entries \in Seq([kind : EntryKinds, left : 0 .. 2])
    /\ job \in [Jobs -> Job]
    /\ reserved \subseteq {"warn", "mute", "kick", "ban"}
    /\ faults \in 0 .. MaxFaults
    /\ \A j \in Jobs : job[j].kind \in EntryKinds => job[j].row \in DOMAIN entries
    /\ \A j \in Jobs : At(j, "deactivate") \/ At(j, "revoke") => job[j].row \in DOMAIN rows

\* /unmute works on every member the bot keeps muted: when no handler runs and no call has
\* failed, a member timed out by the bot has an active mute in the table - unless a
\* moderator revoked it in the list, or unmuted a member he may not moderate (or who left).
\* unmute_user deactivates before it lifts, and mute_user times out before it inserts.
GaveUp(j) ==
    /\ job[j].answer = "ok"
    /\ \/ job[j].kind = "revoke" /\ rows[job[j].row].type = "mute"
       \/ job[j].kind = "unmute" /\ ~job[j].lifted

MutedHasRow ==
    Quiet /\ faults = 0 /\ discord.timeout = "bot" =>
        Actives({"mute"}) # {} \/ \E j \in Jobs : GaveUp(j)

\* check_auto_escalation does not miss the third: whichever way the commands of several
\* moderators interleave, when three of a kind are active one of them was told so.
EscalationNoticed ==
    Quiet /\ faults = 0 =>
        \A k \in {"warn", "mute"} : Cardinality(Actives({k})) >= Threshold =>
            \E j \in Jobs : job[j].kind = k /\ job[j].answer = "escalate"

\* An active row is lifted by one command: of two moderators who unmute, or revoke, the
\* same row, one is told that it was lifted.
Lifting(j, i) ==
    /\ job[j].kind \in {"unmute", "revoke"} /\ job[j].row = i
    /\ job[j].answer = "ok" \/ (job[j].kind = "unmute" /\ (At(j, "lift") \/ At(j, "log")))

LiftedOnce == \A i \in DOMAIN rows : Cardinality({j \in Jobs : Lifting(j, i)}) <= 1

\* However often, and however slowly, Discord delivers an entry, it is recorded once: two
\* handlers of the same entry both reach the INSERT, which counts for the escalation.
RecordedOnce ==
    \A e \in DOMAIN entries : Cardinality({i \in DOMAIN rows : rows[i].entry = e}) <= 1

\* moderation_history_service.py:87: "User has 3 mutes - recommend kick".  Violated: a
\* mute by command is there twice, as its own row and as the audit log's.
EscalationIsEarned ==
    \A j \in Jobs : job[j].kind = "mute" /\ job[j].answer = "escalate" =>
        Cardinality({i \in Jobs : job[i].kind = "mute"}) >= Threshold

=============================================================================

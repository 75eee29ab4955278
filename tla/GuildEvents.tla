---------------------------- MODULE GuildEvents ----------------------------
(***************************************************************************)
(* What the bot keeps of the events of a guild: the log of the server       *)
(* (LoggingCog, LoggingService, AuditLogService) and its statistics         *)
(* (StatsCog, StatsService, StatsRepository).  Both listen to the same      *)
(* messages and voice states.                                              *)
(*                                                                         *)
(* An event is dispatched as soon as it happens; its listeners are          *)
(* coroutines that go on whenever what they await is there, so handlers of   *)
(* several events overlap.  Messages are written by one member of the guild. *)
(***************************************************************************)
EXTENDS Integers, Sequences, FiniteSets, FiniteSetsExt, SequencesExt

CONSTANTS Messages,   \* messages
          Purposes,   \* kinds of log that have a channel (server_channel_purposes)
          Changes,    \* what changes besides messages: a subset of {"channel", "role", "member"}
          Limit,      \* _recent_message_limit
          MaxEvents,  \* how many messages and other events there are
          MaxTime,    \* the minutes that pass
          MaxFailed   \* how many calls fail

ASSUME GuildEventsAssumption ==
    /\ Limit \in Nat \ {0} /\ MaxTime \in Nat /\ MaxFailed \in Nat
    /\ "nobody" \notin Messages
    /\ Changes \subseteq {"channel", "role", "member"}

VARIABLES
    \* the guild
    there,      \* message |-> "no", "yes", or who deleted it
    written,    \* the messages in the order they were written
    audit,      \* entries about deleted messages: who, and whether the bot sees it yet
    inVoice,    \* whether the member is in a voice channel
    clock,      \* minutes
    \* LoggingCog
    recent,     \* _recent_messages, the oldest first
    botDeleted, \* _bot_deleted_message_ids
    ai,         \* message |-> how far the bot is in deleting it
    events,     \* the handlers of the log, in the order they began
    logged,     \* those with a row in guild_event_logs
    sent,       \* those shown in a log channel
    stored,     \* those with a row in message_logs
    \* StatsCog
    session,    \* _voice_sessions: since when, or None
    counting,   \* its handlers
    stats,      \* the member's row of user_stats
    history,    \* table messages
    \* what the properties look back on
    owed,       \* deleted messages that the bot had
    spent,      \* the minutes the member was in voice
    failed

guild == <<there, written, audit, inVoice, clock>>
tables == <<logged, sent, stored>>
log == <<recent, botDeleted, ai, events, tables>>
statistics == <<session, counting, stats, history>>
seen == <<owed, spent, failed>>
eventsVars == <<guild, log, statistics, seen>>

-----------------------------------------------------------------------------
None == -1
\* "bot": the moderation; "purge": the bot, for /purge of a single message
Deleters == {"author", "moderator", "bot", "purge"}
Nobody == "nobody"

\* _event_type_to_purpose
Purpose ==
    [delete |-> "MESSAGE_LOG", edit |-> "MESSAGE_LOG", bulk |-> "MESSAGE_LOG", purge |-> "MESSAGE_LOG",
     voice |-> "CHANNEL_LOG", channel |-> "CHANNEL_LOG", role |-> "MOD_LOG", member |-> "MOD_LOG"]

\* What the handlers do, one call after the other: look into the audit log, write the event,
\* show it, write the message.
log_message_delete == <<"actor", "event", "send", "row">>
log_message_edit == <<"event", "send", "row">>
log_bulk_delete == <<"event", "send">>
log_event == <<"event", "send">>

Handling ==
    [delete |-> log_message_delete, edit |-> log_message_edit, bulk |-> log_bulk_delete,
     purge |-> log_message_edit, voice |-> log_event, channel |-> log_event,
     role |-> log_event, member |-> log_event]

Event == [kind : DOMAIN Handling, m : Messages \cup {Nobody}, at : 1 .. 5, tries : 0 .. 2,
          by : Deleters \cup {Nobody}]
Handler(kind, m) == [kind |-> kind, m |-> m, at |-> 1, tries |-> 0, by |-> Nobody]

\* StatsCog: what is done for a message and for a stay in voice.  "look" and "create" are
\* get_or_create.
log_message == <<"look", "create", "add", "keep">>
log_voice_activity == <<"look", "create", "add">>
Count(m, minutes, again) == [m |-> m, minutes |-> minutes, again |-> again, at |-> 1]
CountSteps(c) == IF counting[c].m = Nobody THEN log_voice_activity ELSE log_message

EventAt(e, step) ==
    LET program == Handling[events[e].kind] IN events[e].at <= Len(program) /\ program[events[e].at] = step
CountAt(c, step) == counting[c].at <= Len(CountSteps(c)) /\ CountSteps(c)[counting[c].at] = step
Logging == {e \in DOMAIN events : \E step \in {"actor", "event", "send", "row"} : EventAt(e, step)}
Busy == Len(written) + Len(events) >= MaxEvents

CallFails == failed < MaxFailed /\ failed' = failed + 1

EventsInit ==
    /\ there = [m \in Messages |-> "no"] /\ written = <<>> /\ audit = <<>> /\ inVoice = FALSE /\ clock = 0
    /\ recent = <<>> /\ botDeleted = {} /\ ai = [m \in Messages |-> "idle"] /\ events = <<>>
    /\ logged = {} /\ sent = {} /\ stored = {}
    /\ session = None /\ counting = <<>> /\ stats = [here |-> FALSE, messages |-> 0, minutes |-> 0]
    /\ history = {}
    /\ owed = {} /\ spent = 0 /\ failed = 0

-----------------------------------------------------------------------------
(* Messages are written, edited and deleted.                               *)

\* LoggingCog.on_message: the newest Limit are kept.
Remembered(m) ==
    LET all == Append(recent, m)
    IN  IF Len(all) > Limit THEN Tail(all) ELSE all

\* on_message of both cogs
Write(m) ==
    /\ there[m] = "no" /\ ~Busy
    /\ there' = [there EXCEPT ![m] = "yes"]
    /\ written' = Append(written, m)
    /\ recent' = Remembered(m)
    /\ counting' = Append(counting, Count(m, 0, FALSE))
    /\ UNCHANGED <<audit, inVoice, clock, botDeleted, ai, events, tables, session, stats, history, seen>>

\* on_message_edit: nothing when the content is the same, or empty before and after
Edit(m) ==
    /\ there[m] = "yes" /\ ~Busy
    /\ events' = Append(events, Handler("edit", m))
    /\ UNCHANGED <<guild, recent, botDeleted, ai, tables, statistics, seen>>

\* _log_deleted_message, up to its first await: a deletion of the bot needs no audit log
DeleteHandler(m) ==
    IF m \in botDeleted THEN [Handler("delete", m) EXCEPT !.at = 2, !.by = "bot"] ELSE Handler("delete", m)

\* on_raw_message_delete, the first of the two, leaves the messages that disnake has cached.
\* Mutation: it does not.
RawTakes_Cached(m, cached) == Contains(recent, m)

RawTakes(m, cached) == ~cached /\ Contains(recent, m)

\* on_raw_message_delete, and on_message_delete for what disnake has cached
Handlers(m, cached) ==
    (IF RawTakes(m, cached) THEN <<DeleteHandler(m)>> ELSE <<>>)
        \o (IF cached THEN <<DeleteHandler(m)>> ELSE <<>>)

\* The last Limit messages of the guild: what on_message promises to retain.
Newest == Range(SubSeq(written, Max({1, Len(written) - Limit + 1}), Len(written)))

\* Who the audit log names.
Executor(who) == IF who = "purge" THEN "bot" ELSE who

\* Discord deletes a message and dispatches that.  Authors are not in the audit log, and
\* entries about others are seen later.
Gone(m, who) ==
    \E cached \in BOOLEAN :
      /\ there' = [there EXCEPT ![m] = who]
      /\ audit' = IF who = "author" THEN audit ELSE Append(audit, [by |-> Executor(who), state |-> "coming"])
      /\ recent' = RemoveFirst(recent, m)
      /\ events' = events \o Handlers(m, cached)
      /\ botDeleted' = IF Handlers(m, cached) = <<>> THEN botDeleted ELSE botDeleted \ {m}
      /\ owed' = IF cached \/ m \in Newest THEN owed \cup {m} ELSE owed
      /\ UNCHANGED <<written, inVoice, clock, tables, statistics, spent>>

Delete(m, who) ==
    /\ there[m] = "yes" /\ ~Busy
    /\ Gone(m, who)
    /\ UNCHANGED <<ai, failed>>

\* AiModerationCog._execute_action: register_bot_message_deletion, then message.delete(), of a
\* message that may have been deleted since.
\* Mutation: not registered.
register_bot_message_deletion_Not(m) == botDeleted

register_bot_message_deletion(m) == botDeleted \cup {m}

AiRegister(m) ==
    /\ there[m] # "no" /\ ai[m] = "idle"
    /\ ai' = [ai EXCEPT ![m] = "delete"]
    /\ botDeleted' = register_bot_message_deletion(m)
    /\ UNCHANGED <<guild, recent, events, tables, statistics, seen>>

AiDelete(m) ==
    /\ ai[m] = "delete"
    /\ ai' = [ai EXCEPT ![m] = "done"]
    /\ \/ there[m] = "yes" /\ ~Busy /\ Gone(m, "bot") /\ UNCHANGED failed
       \/ /\ IF there[m] = "yes" THEN CallFails ELSE UNCHANGED failed
          /\ UNCHANGED <<guild, recent, botDeleted, events, tables, statistics, owed, spent>>

\* on_raw_bulk_delete, which leaves _recent_messages as it is; /purge logs the messages as well.
\* A bulk has two messages or more.
Bulk ==
    /\ ~Busy
    /\ \E some \in SUBSET {m \in Messages : there[m] = "yes"} :
         /\ Cardinality(some) > 1
         /\ there' = [m \in Messages |-> IF m \in some THEN "moderator" ELSE there[m]]
    /\ events' \in {Append(events, Handler("bulk", Nobody)),
                    events \o <<Handler("bulk", Nobody), Handler("purge", Nobody)>>}
    /\ UNCHANGED <<written, audit, inVoice, clock, recent, botDeleted, ai, tables, statistics, seen>>

\* /purge of one message, which is a deletion like others and not registered; logged when it is done.
PurgeLogs(m) ==
    /\ there[m] = "purge"
    /\ \A e \in DOMAIN events : ~(events[e].kind = "purge" /\ events[e].m = m)
    /\ events' = Append(events, Handler("purge", m))
    /\ UNCHANGED <<guild, recent, botDeleted, ai, tables, statistics, seen>>

-----------------------------------------------------------------------------
(* Other events.                                                           *)

\* _detect_channel_changes: new rights are not mentioned when the room's administrators changed
ChannelChanges(facets) == IF "admins" \in facets THEN facets \ {"admins", "overwrites"} ELSE facets

\* Channels, roles and members change; an update without a change that is looked for is not logged.
Change(kind) ==
    /\ ~Busy
    /\ \E facets \in SUBSET {"name", "overwrites", "admins"} :
         /\ "admins" \in facets => "overwrites" \in facets /\ kind = "channel"
         /\ ChannelChanges(facets) # {}
    /\ events' = Append(events, Handler(kind, Nobody))
    /\ UNCHANGED <<guild, recent, botDeleted, ai, tables, statistics, seen>>

\* log_voice_activity counts whole minutes.
Minutes == IF session = None THEN 0 ELSE clock - session

\* Mutation: the session is looked at, and not taken out, before the await.
Popped_Not == session

Popped == None

\* on_voice_state_update of both cogs, when the member joins, moves ("stays") or leaves.  A move
\* begins the next session when the minutes of the last one are written, at once when there are none.
Voice(stays) ==
    /\ ~Busy
    /\ inVoice \/ stays
    /\ inVoice' = stays
    /\ events' = Append(events, Handler("voice", Nobody))
    /\ LET counted == IF inVoice THEN Minutes ELSE 0
       IN  /\ session' = IF stays /\ counted = 0 THEN clock ELSE Popped
           /\ counting' = IF counted = 0 THEN counting ELSE Append(counting, Count(Nobody, counted, stays))
    /\ UNCHANGED <<there, written, audit, clock, recent, botDeleted, ai, tables, stats, history, seen>>

-----------------------------------------------------------------------------
(* Handlers of the log.                                                    *)

Handled(e, h) == events' = [events EXCEPT ![e] = h]
Done(e) == [events[e] EXCEPT !.at = @ + 1]
Credit(e, who) == [Done(e) EXCEPT !.by = who]

Attempts == 3
Visible == {i \in DOMAIN audit : audit[i].state = "seen"}

\* _find_message_delete_actor: the newest entry that is fresh, three looks, else the author
Look(e) ==
    /\ EventAt(e, "actor")
    /\ \/ /\ Handled(e, IF Visible # {} THEN Credit(e, audit[Max(Visible)].by)
                        ELSE IF events[e].tries + 1 < Attempts THEN [events[e] EXCEPT !.tries = @ + 1]
                        ELSE Credit(e, "author"))
          /\ UNCHANGED failed
       \/ CallFails /\ Handled(e, Credit(e, "author"))
    /\ UNCHANGED <<guild, recent, botDeleted, ai, tables, statistics, owed, spent>>

\* _persist_and_send: BaseRepository.insert swallows what goes wrong.
Persist(e) ==
    /\ EventAt(e, "event")
    /\ Handled(e, Done(e))
    /\ \/ logged' = logged \cup {e} /\ UNCHANGED failed
       \/ CallFails /\ UNCHANGED logged
    /\ UNCHANGED <<guild, recent, botDeleted, ai, sent, stored, statistics, owed, spent>>

\* send_to_log_channel: what goes wrong in Discord is logged; in get_purpose_channel, it ends the handler.
Send(e) ==
    /\ EventAt(e, "send")
    /\ \/ /\ sent' = IF Purpose[events[e].kind] \in Purposes THEN sent \cup {e} ELSE sent
          /\ Handled(e, Done(e))
          /\ UNCHANGED failed
       \/ /\ CallFails
          /\ \/ Handled(e, Done(e))
             \/ Handled(e, [events[e] EXCEPT !.at = 5])
          /\ UNCHANGED sent
    /\ UNCHANGED <<guild, recent, botDeleted, ai, logged, stored, statistics, owed, spent>>

\* MessageLogRepository.add
Store(e) ==
    /\ EventAt(e, "row")
    /\ Handled(e, Done(e))
    /\ \/ stored' = stored \cup {e} /\ UNCHANGED failed
       \/ CallFails /\ UNCHANGED stored
    /\ UNCHANGED <<guild, recent, botDeleted, ai, logged, sent, statistics, owed, spent>>

-----------------------------------------------------------------------------
(* Handlers of the statistics.                                             *)

Counts(c, steps) == counting' = [counting EXCEPT ![c].at = @ + steps]

\* The handler is over, by itself or by an exception, which StatsService swallows.
CountEnds(c) ==
    /\ counting' = [counting EXCEPT ![c].at = Len(CountSteps(c)) + 1]
    /\ session' = IF counting[c].again THEN clock ELSE session

\* The last step ends the handler.
CountGoes(c) ==
    IF counting[c].at = Len(CountSteps(c)) THEN CountEnds(c) ELSE Counts(c, 1) /\ UNCHANGED session

\* get_or_create: SELECT; then INSERT, which fails when another handler was faster
LookFor(c) ==
    /\ CountAt(c, "look")
    /\ Counts(c, IF stats.here THEN 2 ELSE 1)
    /\ UNCHANGED <<guild, log, session, stats, history, seen>>

Create(c) ==
    /\ CountAt(c, "create")
    /\ IF stats.here THEN CountEnds(c) ELSE CountGoes(c)
    /\ stats' = [stats EXCEPT !.here = TRUE]
    /\ UNCHANGED <<guild, log, history, seen>>

\* increment_messages, add_voice_minutes
Add(c) ==
    /\ CountAt(c, "add")
    /\ \/ /\ stats' = [stats EXCEPT !.messages = IF counting[c].m # Nobody THEN @ + 1 ELSE @,
                                    !.minutes = @ + counting[c].minutes]
          /\ CountGoes(c)
          /\ UNCHANGED failed
       \/ CallFails /\ CountEnds(c) /\ UNCHANGED stats
    /\ UNCHANGED <<guild, log, history, owed, spent>>

\* log_message_to_history
Keep(c) ==
    /\ CountAt(c, "keep")
    /\ \/ history' = history \cup {counting[c].m} /\ CountGoes(c) /\ UNCHANGED failed
       \/ CallFails /\ CountEnds(c) /\ UNCHANGED history
    /\ UNCHANGED <<guild, log, stats, owed, spent>>

-----------------------------------------------------------------------------
Tick ==
    /\ clock < MaxTime
    /\ clock' = clock + 1
    /\ spent' = IF inVoice THEN spent + 1 ELSE spent
    /\ UNCHANGED <<there, written, audit, inVoice, log, statistics, owed, failed>>

\* An entry of the audit log becomes visible; after 15 s it is too old.
Age(i) ==
    /\ audit[i].state # "old"
    /\ audit' = [audit EXCEPT ![i].state = IF @ = "coming" THEN "seen" ELSE "old"]
    /\ UNCHANGED <<there, written, inVoice, clock, log, statistics, seen>>

EventsNext ==
    \/ \E m \in Messages : Write(m) \/ Edit(m) \/ AiRegister(m) \/ AiDelete(m) \/ PurgeLogs(m)
    \/ \E m \in Messages, who \in Deleters \ {"bot"} : Delete(m, who)
    \/ Bulk
    \/ \E kind \in Changes : Change(kind)
    \/ \E stays \in BOOLEAN : Voice(stays)
    \/ \E e \in DOMAIN events : Look(e) \/ Persist(e) \/ Send(e) \/ Store(e)
    \/ \E c \in DOMAIN counting : LookFor(c) \/ Create(c) \/ Add(c) \/ Keep(c)
    \/ Tick
    \/ \E i \in DOMAIN audit : Age(i)

EventsSpec == EventsInit /\ [][EventsNext]_eventsVars

-----------------------------------------------------------------------------
(* Properties.                                                             *)

\* Every variable has its type; a row is only of a handler that has begun.
EventsTypeOK ==
    /\ there \in [Messages -> {"no", "yes"} \cup Deleters]
    /\ written \in Seq(Messages) /\ recent \in Seq(Messages)
    /\ \A i \in DOMAIN audit : audit[i] \in [by : Deleters, state : {"coming", "seen", "old"}]
    /\ inVoice \in BOOLEAN /\ clock \in 0 .. MaxTime
    /\ botDeleted \subseteq Messages /\ ai \in [Messages -> {"idle", "delete", "done"}]
    /\ events \in Seq(Event)
    /\ logged \cup sent \cup stored \subseteq DOMAIN events
    /\ session \in {None} \cup 0 .. MaxTime
    /\ \A c \in DOMAIN counting :
         counting[c] \in [m : Messages \cup {Nobody}, minutes : 0 .. MaxTime, again : BOOLEAN, at : 1 .. 5]
    /\ stats \in [here : BOOLEAN, messages : Nat, minutes : Nat] /\ history \subseteq Messages
    /\ owed \subseteq Messages /\ spent \in 0 .. MaxTime /\ failed \in 0 .. MaxFailed

\* A deleted message that disnake still has, or that is one of the newest that the cog retains, is
\* logged exactly once, whichever of the two listeners gets it (logging_cog.py:78-94).
DeletionLogged ==
    Logging = {} /\ failed = 0 =>
        \A m \in owed : Cardinality({e \in stored : events[e].kind = "delete" /\ events[e].m = m}) = 1

\* What the moderation has registered and deleted is never logged as a deletion of the author or of
\* a moderator, whose entries the audit log may show at that moment (logging_cog.py:25-27).  It does
\* not hold of what /purge deletes alone, which nobody registers.
BotIsCredited ==
    \A e \in DOMAIN events :
        /\ events[e].kind = "delete" /\ there[events[e].m] = "bot" /\ events[e].by # Nobody
        => events[e].by = "bot"

\* A message of the history, which the charts count, is in the member's counter, too
\* (stats_service.py:31-38).
HistoryIsCounted == Cardinality(history) <= stats.messages

\* The minutes on their way to the statistics, one by one: those of the handlers that have yet to
\* add them.
Unwritten ==
    LET open == {c \in DOMAIN counting : CountAt(c, "look") \/ CountAt(c, "create") \/ CountAt(c, "add")}
    IN  {x \in open \X (1 .. MaxTime) : x[2] <= counting[x[1]].minutes}

\* The minutes of the statistics, with those on their way to it, are minutes the member was in
\* voice, however his moves overlap with their writing (stats_cog.py:53-63).
VoiceTimeIsReal == stats.minutes + Cardinality(Unwritten) <= spent

\* The statistics of a member claim nothing that did not happen, and the charts nothing more than they
\* do, in whatever order the rows of the two tables are written (stats_service.py:21-52).
StatsAreReal == HistoryIsCounted /\ VoiceTimeIsReal

=============================================================================

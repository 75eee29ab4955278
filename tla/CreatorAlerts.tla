--------------------------- MODULE CreatorAlerts ---------------------------
(***************************************************************************)
(* Announcing streams and videos of creators: StreamsCog and               *)
(* CreatorAlertService of the bot, CreatorAlertService and                  *)
(* CreatorAlertPublishService of the Activity, which is another process.    *)
(* They share the table creator_alert_subscriptions and nothing else.       *)
(*                                                                         *)
(* Every publisher reads a row, asks the platform, posts the message and    *)
(* marks the row, awaiting each, so that publishers overlap: the monitor,    *)
(* whose second half scans the members, a listener per member, a command,   *)
(* and a request to the Activity.  Times are ages, in units of which Repeat *)
(* make STREAM_ANNOUNCE_REPEAT_INTERVAL.                                    *)
(***************************************************************************)
EXTENDS Integers, FiniteSets, Functions

CONSTANTS Users,       \* members
          Streams,     \* what _stream_identity tells apart
          Platforms, Platform,  \* the platform of a stream
          Kinds,       \* kinds of source: a subset of {"stream", "video"}
          Repeat,      \* STREAM_ANNOUNCE_REPEAT_INTERVAL
          MAX_SOURCES_PER_USER,
          MaxSaves, MaxChanges,
          MaxFaults,   \* how many calls fail, restarts of the bot among them
          MaxAtOnce    \* how many publishers are at work

Nothing == "nothing"
Nobody == "nobody"

ASSUME CreatorAlertsAssumption ==
    /\ Nobody \notin Users /\ Nothing \notin Streams
    /\ Platform \in [Streams -> Platforms] /\ Kinds \subseteq {"stream", "video"}
    /\ Repeat \in Nat \ {0}
    /\ MaxSaves \in Nat /\ MaxChanges \in Nat /\ MaxFaults \in Nat

VARIABLES
    on,       \* stream |-> what its platform's client would find (fetch_latest_event)
    shown,    \* member |-> the Streaming activity: of which stream, or Nothing, and which one it is
    configured, \* platforms whose client has its credentials
    channel,  \* whether STREAM_ANNOUNCE has a channel
    rows,     \* creator_alert_subscriptions, by id
    cache,    \* _published_stream_keys: the age of the entry of a key, Repeat when it has none
    fallback, \* _fallback_event_ids
    monitor,  \* whether the loop of monitor_creator_sources is still there
    jobs,     \* what every publisher is doing
    told,     \* id |-> the age of the last announcement its row was marked for, the showing of its last mark
    echo,     \* an announcement was repeated by a publisher that could have known
    spent     \* how much of the bounds is used up

world == <<configured, on, shown, channel>>
bot == <<cache, fallback, monitor>>
vars == <<world, rows, bot, jobs, told, echo, spent>>

-----------------------------------------------------------------------------
Offers == {"none", "stream", "video"}
Ids == 1 .. MaxSaves
Publishers == {"monitor", "command", "activity"} \cup Users

Row == [user : Users, stream : Streams, kind : Kinds, active : BOOLEAN, external : BOOLEAN,
        last : -1 .. MaxChanges, age : 0 .. Repeat]
\* _stream_publication_key
Key == [platform : Platforms, stream : Streams, kind : {"stream", "video"}]
\* An event; of which showing of the member it comes, 0 when a client found it.
Event == [key : Key, showing : 0 .. MaxChanges]
NoEvent == [key |-> [platform |-> Nothing, stream |-> Nothing, kind |-> Nothing], showing |-> 0]

\* What a publisher is about to do.
Steps == {"idle", "next", "check", "sources", "send", "mark", "scan", "save"}
\* What a publisher holds: rows it has read (and whether they have been marked since), the one it
\* is at, the event, the member whose activity it handles.
Todo == UNION {[ids -> [row : Row, fresh : BOOLEAN]] : ids \in SUBSET Ids}
Job == [step : Steps, todo : Todo, members : SUBSET Users, id : 0 .. MaxSaves,
        event : Event \cup {NoEvent}, send : BOOLEAN, member : Users \cup {Nobody}]
Idle == [step |-> "idle", todo |-> <<>>, members |-> {}, id |-> 0, event |-> NoEvent,
         send |-> FALSE, member |-> Nobody]
Read(ids) == [id \in ids |-> [row |-> rows[id], fresh |-> TRUE]]
Seen(j) == jobs[j].todo[jobs[j].id]

Busy == Cardinality({j \in Publishers : jobs[j] # Idle}) >= MaxAtOnce

\* A client without credentials finds nothing.
Silent(s) == Platform[s] \notin configured

Spend(what, bound) == spent[what] < bound /\ spent' = [spent EXCEPT ![what] = @ + 1]

Init ==
    /\ configured \in SUBSET Platforms
    /\ on \in {f \in [Streams -> Offers] : \A s \in Streams : Silent(s) => f[s] = "none"}
    /\ shown = [u \in Users |-> [stream |-> Nothing, n |-> 0]]
    /\ channel \in BOOLEAN /\ rows = <<>>
    /\ cache = [k \in Key |-> Repeat] /\ fallback = {} /\ monitor = TRUE
    /\ jobs = [j \in Publishers |-> Idle]
    /\ told = [id \in Ids |-> [age |-> Repeat, showing |-> 0]] /\ echo = FALSE
    /\ spent = [saves |-> 0, changes |-> 0, faults |-> 0]

-----------------------------------------------------------------------------
(* How a publisher goes on.                                                *)

\* The monitor has more rows and members to see to; the others are done.
After(j) ==
    IF j # "monitor" THEN Idle
    ELSE LET job == jobs[j]
         IN  [job EXCEPT !.step = IF job.member = Nobody THEN "next" ELSE "scan",
                         !.todo = IF job.member = Nobody THEN Restrict(@, DOMAIN @ \ {job.id}) ELSE <<>>,
                         !.id = 0, !.event = NoEvent, !.send = FALSE, !.member = Nobody]
Ends(j) == jobs' = [jobs EXCEPT ![j] = After(j)]
Goes(j, step) == jobs' = [jobs EXCEPT ![j].step = step]

\* _remember_stream_publication, and the id of a fallback
Remember(j) ==
    /\ cache' = [cache EXCEPT ![jobs[j].event.key] = 0]
    /\ fallback' = IF jobs[j].member = Nobody THEN fallback
                   ELSE fallback \cup {<<jobs[j].member, jobs[j].event.showing>>}
    /\ UNCHANGED monitor

\* _is_repeat_due, _announced_recently: last_checked_at is NULL only together with last_event_id,
\* so that the comparison of ids which follows is never what decides.
\* Mutation: what was announced is never announced again.
IsRepeatDue_Never(row) == row.last = -1

IsRepeatDue(row) == row.age >= Repeat

\* check_subscription
CheckSubscription(row) ==
    /\ row.active /\ Platform[row.stream] \in configured
    /\ on[row.stream] = row.kind /\ IsRepeatDue(row)
\* publish_saved_source_if_live: neither the kind nor whether it is active matters
PublishSaved(row) ==
    /\ channel /\ Platform[row.stream] \in configured
    /\ on[row.stream] # "none" /\ IsRepeatDue(row)

\* The client answers; then at once _is_recent_stream_publication, which the Activity has not.
Check(j) ==
    /\ jobs[j].step = "check"
    /\ LET row == Seen(j).row
           event == [key |-> [platform |-> Platform[row.stream], stream |-> row.stream, kind |-> on[row.stream]],
                     showing |-> 0]
           found == IF j = "activity" THEN PublishSaved(row) ELSE CheckSubscription(row)
           recent == j # "activity" /\ cache[event.key] < Repeat
       IN  IF found THEN jobs' = [jobs EXCEPT ![j].event = event, ![j].send = ~recent,
                                              ![j].step = IF recent THEN "mark" ELSE "send"]
           ELSE Ends(j)
    /\ UNCHANGED <<world, rows, bot, told, echo, spent>>

\* _handle_streaming_presence: the rows are there; a configured source silences the fallback
Sources(j) ==
    LET u == jobs[j].member
        stream == jobs[j].event.key.stream
        showing == jobs[j].event.showing
        streaming == {id \in DOMAIN rows : rows[id].active /\ rows[id].kind = "stream"}
        mine == {id \in streaming : rows[id].user = u}
        asked == {id \in streaming : Platform[rows[id].stream] \in configured}
        matching == {id \in asked : rows[id].stream = stream}
    IN  /\ jobs[j].step = "sources"
        /\ \E id \in IF mine = {} THEN {0} ELSE mine :
             LET platform == IF id = 0 THEN Platform[stream] ELSE Platform[rows[id].stream]
                 key == [platform |-> platform, stream |-> stream, kind |-> "stream"]
                 recent == cache[key] < Repeat
                 announced == <<u, showing>> \in fallback \/ (id # 0 /\ rows[id].last = showing)
             IN  IF (mine \cup matching) \cap asked # {} \/ (recent /\ id = 0) \/ (~recent /\ announced)
                 THEN Ends(j)
                 ELSE jobs' = [jobs EXCEPT ![j].id = id, ![j].send = ~recent,
                                           ![j].event = [key |-> key, showing |-> showing],
                                           ![j].todo = Read({id} \ {0}),
                                           ![j].step = IF recent THEN "mark" ELSE "send"]
        /\ UNCHANGED <<world, rows, bot, told, echo, spent>>

\* An announcement that the row knew of when it was read: one younger than Repeat, or, for the
\* activity of a member, one of the same showing.
Repeats(j) ==
    LET id == jobs[j].id
    IN  /\ id # 0 /\ Seen(j).fresh /\ told[id].age < Repeat
        /\ jobs[j].event.showing \in {0, told[id].showing}

\* _publish_subscription_event, _publish_default_event: a missing channel is only logged, and the
\* row is marked all the same; a default event has no row.
Send(j) ==
    /\ jobs[j].step = "send"
    /\ IF channel \/ j = "activity" THEN echo' = (echo \/ Repeats(j)) ELSE UNCHANGED echo
    /\ IF jobs[j].id = 0 THEN Ends(j) /\ Remember(j) ELSE Goes(j, "mark") /\ UNCHANGED bot
    /\ UNCHANGED <<world, rows, told, spent>>

\* mark_event: the row may be gone, or another source by now.
\* Mutation: the time is kept.
Marked_Id(row, event) == [row EXCEPT !.last = event.showing]

Marked(row, event) == [row EXCEPT !.last = event.showing, !.age = 0]

\* mark_announced, and what is remembered after it
Mark(j) ==
    LET id == jobs[j].id
        event == jobs[j].event
        Stale(job) == IF id \in DOMAIN job.todo THEN [job EXCEPT !.todo[id].fresh = FALSE] ELSE job
    IN  /\ jobs[j].step = "mark"
        /\ rows' = IF id \in DOMAIN rows THEN [rows EXCEPT ![id] = Marked(@, event)] ELSE rows
        /\ told' = IF id \in DOMAIN rows
                   THEN [told EXCEPT ![id] = [age |-> IF jobs[j].send THEN 0 ELSE @.age,
                                              showing |-> event.showing]] ELSE told
        /\ jobs' = [i \in Publishers |-> IF i = j THEN After(j) ELSE Stale(jobs[i])]
        /\ IF jobs[j].send /\ j # "activity" THEN Remember(j) ELSE UNCHANGED bot
        /\ UNCHANGED <<world, echo, spent>>

\* A call fails: the Activity and the listener give up, the command and the monitor catch it for
\* a row; an exception of the scan ends the loop.
Fails(j) ==
    /\ jobs[j].step \in {"save", "check", "sources", "send", "mark"} /\ Spend("faults", MaxFaults)
    /\ LET fatal == j = "monitor" /\ jobs[j].member # Nobody
       IN  /\ jobs' = [jobs EXCEPT ![j] = IF fatal THEN Idle ELSE After(j)]
           /\ monitor' = (monitor /\ ~fatal)
    /\ UNCHANGED <<world, rows, cache, fallback, told, echo>>

\* list_sources of the monitor, too, is outside of the try: when it fails the loop ends.
ListFails ==
    /\ monitor /\ jobs["monitor"] = Idle /\ ~Busy /\ Spend("faults", MaxFaults)
    /\ monitor' = FALSE
    /\ UNCHANGED <<world, rows, cache, fallback, jobs, told, echo>>

-----------------------------------------------------------------------------
(* monitor_creator_sources: the rows as they are now, then the members.     *)

MonitorList ==
    /\ monitor /\ jobs["monitor"] = Idle /\ ~Busy
    /\ jobs' = [jobs EXCEPT !["monitor"] = [Idle EXCEPT !.step = "next", !.todo = Read(DOMAIN rows),
                                                        !.members = Users]]
    /\ UNCHANGED <<world, rows, bot, told, echo, spent>>

MonitorNext ==
    /\ jobs["monitor"].step = "next"
    /\ IF jobs["monitor"].todo = <<>> THEN Goes("monitor", "scan")
       ELSE \E id \in DOMAIN jobs["monitor"].todo :
              jobs' = [jobs EXCEPT !["monitor"].step = "check", !["monitor"].id = id]
    /\ UNCHANGED <<world, rows, bot, told, echo, spent>>

\* The event of a Streaming activity; its platform is settled with the sources.
Showing(u, activity) ==
    [key |-> [platform |-> Platform[activity.stream], stream |-> activity.stream, kind |-> "stream"],
     showing |-> activity.n]

\* _scan_discord_streaming_members: what a member shows when its turn comes
Scan ==
    /\ jobs["monitor"].step = "scan"
    /\ LET left == {u \in jobs["monitor"].members : shown[u].stream # Nothing}
       IN  IF left = {} THEN jobs' = [jobs EXCEPT !["monitor"] = Idle]
           ELSE \E u \in left :
                  jobs' = [jobs EXCEPT !["monitor"].step = "sources", !["monitor"].members = @ \ {u},
                                       !["monitor"].member = u,
                                       !["monitor"].event = Showing(u, shown[u])]
    /\ UNCHANGED <<world, rows, bot, told, echo, spent>>

\* on_presence_update: only when the member had no Streaming activity
Show(u, s) ==
    /\ shown[u].stream = Nothing /\ jobs[u] = Idle /\ ~Busy /\ Spend("changes", MaxChanges)
    /\ shown' = [shown EXCEPT ![u] = [stream |-> s, n |-> spent'["changes"]]]
    /\ jobs' = [jobs EXCEPT ![u] = [Idle EXCEPT !.step = "sources", !.member = u, !.event = Showing(u, shown'[u])]]
    /\ UNCHANGED <<configured, on, channel, rows, bot, told, echo>>

Hide(u) ==
    /\ shown[u].stream # Nothing
    /\ shown' = [shown EXCEPT ![u].stream = Nothing]
    /\ UNCHANGED <<configured, on, channel, rows, bot, jobs, told, echo, spent>>

-----------------------------------------------------------------------------
(* Sources are saved and removed.                                          *)

OfKey(u, s, kind) == {id \in DOMAIN rows : rows[id].user = u /\ rows[id].stream = s /\ rows[id].kind = kind}
NewRow(u, s, kind, active, external) ==
    [user |-> u, stream |-> s, kind |-> kind, active |-> active, external |-> external,
     last |-> -1, age |-> Repeat]

\* save_source of both processes: the count and the sources are read
Asks(j, u, s, kind) ==
    LET full == Cardinality({id \in DOMAIN rows : rows[id].user = u}) >= MAX_SOURCES_PER_USER
    IN  /\ jobs[j] = Idle /\ ~Busy /\ Spend("saves", MaxSaves)
        /\ ~(full /\ OfKey(u, s, kind) = {})
        /\ jobs' = [jobs EXCEPT ![j].step = "save", ![j].member = u, ![j].id = spent'.saves,
                      ![j].event = [key |-> [platform |-> Platform[s], stream |-> s, kind |-> kind],
                                    showing |-> 0]]
        /\ UNCHANGED <<world, rows, bot, told, echo>>

\* ON CONFLICT DO UPDATE, and the UPDATE of the Activity: another identity is a new source.
Saved(old, new) ==
    IF <<old.stream, old.kind, old.external>> = <<new.stream, new.kind, new.external>>
    THEN [new EXCEPT !.last = old.last, !.age = old.age] ELSE new

\* The row is written and read back; then it is looked whether it is live.
Save(j, id, row) ==
    /\ rows' = [i \in DOMAIN rows \cup {id} |->
                  IF i # id THEN rows[i] ELSE IF i \in DOMAIN rows THEN Saved(rows[i], row) ELSE row]
    /\ told' = IF rows'[id].last = -1 THEN [told EXCEPT ![id] = [age |-> Repeat, showing |-> 0]] ELSE told
    /\ jobs' = [jobs EXCEPT ![j] = [Idle EXCEPT !.step = "check", !.id = id,
                                      !.todo = [i \in {id} |-> [row |-> rows'[id], fresh |-> TRUE]]]]
    /\ UNCHANGED <<world, bot, echo, spent>>

\* /streamer add: without an external id, and active
Add ==
    LET job == jobs["command"]
        key == job.event.key
    IN  /\ job.step = "save"
        /\ \E id \in LET old == OfKey(job.member, key.stream, key.kind)
                     IN  IF old = {} THEN {job.id} ELSE old :
             Save("command", id, NewRow(job.member, key.stream, key.kind, TRUE, FALSE))

\* PUT /api/creator-alerts/sources: a source of that id may become another one, not one there is
Put(active, external, edited) ==
    LET job == jobs["activity"]
        key == job.event.key
        same == OfKey(job.member, key.stream, key.kind)
        old == IF edited = 0 THEN same ELSE {id \in {edited} \cap DOMAIN rows : rows[id].user = job.member}
    IN  /\ job.step = "save" /\ same \subseteq old
        /\ \E id \in IF old = {} THEN {job.id} ELSE old :
             Save("activity", id, NewRow(job.member, key.stream, key.kind, active, external))

\* /streamer remove, DELETE /api/creator-alerts/sources
Remove(id) ==
    /\ id \in DOMAIN rows /\ Spend("changes", MaxChanges)
    /\ rows' = Restrict(rows, DOMAIN rows \ {id})
    /\ UNCHANGED <<world, bot, jobs, told, echo>>

-----------------------------------------------------------------------------
(* The world, the time, and a restart of the bot.                          *)

Air(s, what) ==
    /\ on[s] # what /\ ~Silent(s) /\ Spend("changes", MaxChanges)
    /\ on' = [on EXCEPT ![s] = what]
    /\ UNCHANGED <<configured, shown, channel, rows, bot, jobs, told, echo>>

Choose ==
    /\ Spend("changes", MaxChanges)
    /\ channel' = ~channel
    /\ UNCHANGED <<configured, on, shown, rows, bot, jobs, told, echo>>

Older(age) == IF age < Repeat THEN age + 1 ELSE age

Aged(todo) == [id \in DOMAIN todo |-> [todo[id] EXCEPT !.row.age = Older(@)]]

\* Publishing takes seconds and Repeat hours: nobody is between the check and the mark.
Tick ==
    /\ \A j \in Publishers : jobs[j].step \in {"idle", "next", "scan"}
    /\ rows' = [id \in DOMAIN rows |-> [rows[id] EXCEPT !.age = Older(@)]]
    /\ cache' = [k \in Key |-> Older(cache[k])]
    /\ told' = [id \in Ids |-> [told[id] EXCEPT !.age = Older(@)]]
    /\ jobs' = [j \in Publishers |-> [jobs[j] EXCEPT !.todo = Aged(@)]]
    /\ UNCHANGED <<world, fallback, monitor, echo, spent>>

\* The cog is loaded anew: what it remembered is gone, and what it was doing.
Restart ==
    /\ Spend("faults", MaxFaults)
    /\ cache' = [k \in Key |-> Repeat] /\ fallback' = {} /\ monitor' = TRUE
    /\ jobs' = [j \in Publishers |-> IF j = "activity" THEN jobs[j] ELSE Idle]
    /\ UNCHANGED <<world, rows, told, echo>>

Works(j) == Check(j) \/ Sources(j) \/ Send(j) \/ Mark(j)
Saves == Add \/ \E active, external \in BOOLEAN, edited \in Ids \cup {0} : Put(active, external, edited)
Monitors == MonitorList \/ MonitorNext \/ Scan

Next ==
    \/ \E j \in Publishers : Works(j) \/ Fails(j)
    \/ Monitors \/ Saves
    \/ \E u \in Users : (\E s \in Streams : Show(u, s)) \/ Hide(u)
    \/ \E u \in Users, s \in Streams, kind \in Kinds, j \in {"command", "activity"} :
          (j = "command" => kind = "stream") /\ Asks(j, u, s, kind)
    \/ \E id \in Ids : Remove(id)
    \/ \E s \in Streams, what \in Offers : Air(s, what)
    \/ ListFails \/ Choose \/ Tick \/ Restart

Spec == Init /\ [][Next]_vars

\* The tasks of the event loop go on, the loop of the monitor comes round, and time passes.
FairSpec ==
    /\ Spec /\ WF_vars(Monitors) /\ WF_vars(Saves) /\ SF_vars(Tick)
    /\ \A j \in Publishers : WF_vars(Works(j))

-----------------------------------------------------------------------------
TypeOK ==
    /\ configured \subseteq Platforms /\ on \in [Streams -> Offers] /\ channel \in BOOLEAN
    /\ shown \in [Users -> [stream : Streams \cup {Nothing}, n : 0 .. MaxChanges]]
    /\ DOMAIN rows \subseteq Ids /\ \A id \in DOMAIN rows : rows[id] \in Row
    /\ cache \in [Key -> 0 .. Repeat] /\ fallback \subseteq Users \X (1 .. MaxChanges)
    /\ monitor \in BOOLEAN /\ echo \in BOOLEAN
    /\ told \in [Ids -> [age : 0 .. Repeat, showing : 0 .. MaxChanges]]
    /\ jobs \in [Publishers -> Job]
    /\ spent \in [saves : 0 .. MaxSaves, changes : 0 .. MaxChanges, faults : 0 .. MaxFaults]

\* Nobody announces a source again within the repeat interval, nor a showing of a member a
\* second time, when its row had been marked before it was read: not after a restart, which
\* forgets the cache, not in the other process, which has none, and not after a source was saved
\* again.  (Publishers that overlap do repeat it: the row they hold is older.)
NoEcho == ~echo

\* The message of an event of key k is posted.
Announces(k) == \E j \in Publishers : jobs[j].event.key = k /\ channel /\ Send(j)

\* A source that stays live and active, of a configured platform, with a channel to announce it
\* in, is announced again and again, once per interval: neither the marks set without a message,
\* when there was no channel, nor what other publishers announce keep it silent, as long as the
\* loop of the monitor has not died of a failure.
LiveIsAnnounced ==
    \A id \in Ids, s \in Streams, kind \in Kinds :
        LET k == [platform |-> Platform[s], stream |-> s, kind |-> kind]
            Wanted == /\ id \in DOMAIN rows /\ rows[id].stream = s /\ rows[id].kind = kind
                      /\ rows[id].active /\ Platform[s] \in configured /\ on[s] = kind
                      /\ channel /\ monitor
        IN  <>[]Wanted => []<><<Announces(k)>>_vars
=============================================================================

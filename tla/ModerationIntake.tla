--------------------------- MODULE ModerationIntake ---------------------------
(***************************************************************************)
(* From a Discord message to a request for AI moderation.  A message that  *)
(* may be a GIF waits for Discord to add its embed: a task polls for it,   *)
(* and the updates that reach the bot meanwhile are left to that task.     *)
(* Requests go through a bounded queue to a pool of workers.               *)
(***************************************************************************)
EXTENDS Naturals, Sequences, FiniteSets

CONSTANTS Posts,      \* messages
          Gifs,       \* those with a GIF link or no text, which get an embed
          Calls,      \* event handlers that may be in flight
          Pool,       \* the workers of the queue
          MaxSize,    \* of the queue
          Attempts,   \* _GIF_EMBED_HYDRATION_ATTEMPTS
          MaxText,    \* bound: texts a message goes through
          Calm,       \* no update arrives while a handler is between its check
                      \* and its effect
          NoRequest

ASSUME ModerationIntakeAssumption ==
    /\ Gifs \subseteq Posts
    /\ MaxSize \in Nat \ {0}
    /\ Attempts \in Nat \ {0}
    /\ MaxText \in Nat \ {0}
    /\ Calm \in BOOLEAN

VARIABLES remote,     \* each message as Discord has it
          behind,     \* its versions the gateway has not delivered yet
          cache,      \* the message object of the bot, changed in place
          call,       \* event handlers past their first await
          pending,    \* _pending_media_hydration
          task,       \* _media_hydration_tasks
          marked,     \* _submitted_hydrated_media_ids
          queue, worker,
          sent,       \* the contents put in the queue (history)
          gifCreates, \* CREATE requests put in the queue with media (history)
          lost        \* messages of which a request was rejected or failed (history)

bot == <<call, pending, task, marked>>
intakeHist == <<sent, gifCreates, lost>>
intakeVars == <<remote, behind, cache, bot, queue, worker, intakeHist>>

\* text 0: not posted.  What the properties tell apart of the content.
Content == [text : 0..MaxText, media : BOOLEAN]
Nothing == [text |-> 0, media |-> FALSE]
Submission == [msg : Posts, event : {"CREATE", "UPDATE"}, content : Content]

NoCall == [stage |-> "idle"]
Call == {NoCall} \cup
    [stage : {"enabled", "build"}, msg : Posts,
     event : {"CREATE", "UPDATE"}, late : BOOLEAN]

\* got is the message fetched last, Nothing when it is the bot's own object.
NoTask == [stage |-> "none"]
Task == {NoTask} \cup
    [stage : {"sleep", "fetch", "build"}, tries : 1..Attempts,
     got : Content, found : BOOLEAN]

IntakeTypeOK ==
    /\ remote \in [Posts -> Content] /\ cache \in [Posts -> Content]
    /\ behind \in [Posts -> Seq(Content)]
    /\ call \in [Calls -> Call]
    /\ pending \subseteq Posts /\ marked \subseteq Posts
    /\ task \in [Posts -> Task]
    /\ queue \in Seq(Submission) /\ Len(queue) <= MaxSize
    /\ worker \in [Pool -> Submission \cup {NoRequest}]
    /\ sent \in [Posts -> SUBSET Content]
    /\ gifCreates \in [Posts -> Nat]
    /\ lost \subseteq Posts

IntakeInit ==
    /\ remote = [m \in Posts |-> Nothing] /\ cache = [m \in Posts |-> Nothing]
    /\ behind = [m \in Posts |-> << >>]
    /\ call = [c \in Calls |-> NoCall]
    /\ pending = {} /\ marked = {}
    /\ task = [m \in Posts |-> NoTask]
    /\ queue = << >>
    /\ worker = [w \in Pool |-> NoRequest]
    /\ sent = [m \in Posts |-> {}]
    /\ gifCreates = [m \in Posts |-> 0]
    /\ lost = {}

-----------------------------------------------------------------------------
(* Discord.                                                                *)

Becomes(m, content) ==
    /\ remote' = [remote EXCEPT ![m] = content]
    /\ behind' = [behind EXCEPT ![m] = Append(@, content)]
    /\ UNCHANGED <<cache, bot, queue, worker, intakeHist>>

\* A message is posted, or its author changes the text.
Write(m) ==
    /\ remote[m].text < MaxText
    /\ Becomes(m, [remote[m] EXCEPT !.text = @ + 1])

\* Discord adds the embed of a GIF.
Embed(m) ==
    /\ m \in Gifs
    /\ remote[m].text > 0 /\ ~remote[m].media
    /\ Becomes(m, [remote[m] EXCEPT !.media = TRUE])

-----------------------------------------------------------------------------
(* The queue.                                                              *)

Full == Len(queue) >= MaxSize

\* submit: a full queue rejects the request.
Submit(m, event, content) ==
    IF Full
    THEN /\ lost' = lost \cup {m}
         /\ UNCHANGED <<queue, sent, gifCreates>>
    ELSE /\ queue' = Append(queue, [msg |-> m, event |-> event, content |-> content])
         /\ sent' = [sent EXCEPT ![m] = @ \cup {content}]
         /\ gifCreates' = IF event = "CREATE" /\ content.media
                          THEN [gifCreates EXCEPT ![m] = @ + 1] ELSE gifCreates
         /\ UNCHANGED lost

\* _worker: the next request.
Get(w) ==
    /\ worker[w] = NoRequest
    /\ queue # << >>
    /\ worker' = [worker EXCEPT ![w] = Head(queue)]
    /\ queue' = Tail(queue)
    /\ UNCHANGED <<remote, behind, cache, bot, intakeHist>>

\* A worker whose task has ended; none does while the bot runs.
Ended == [event |-> "ended"]

\* The decision is made and handled.
Served(w) ==
    /\ worker[w] \notin {NoRequest, Ended}
    /\ worker' = [worker EXCEPT ![w] = NoRequest]

\* Mutation: the exception ends the worker.
Failed_Ends(w) ==
    /\ worker[w] \notin {NoRequest, Ended}
    /\ worker' = [worker EXCEPT ![w] = Ended]

\* moderate or on_decision raises: the request is dropped.
Failed(w) ==
    /\ worker[w] \notin {NoRequest, Ended}
    /\ worker' = [worker EXCEPT ![w] = NoRequest]

Serve(w) ==
    /\ Served(w) \/ Failed(w)
    /\ UNCHANGED <<remote, behind, cache, bot, queue, intakeHist>>

-----------------------------------------------------------------------------
(* The listeners.                                                          *)

InFlight(m, stage) == \E c \in Calls : call[c].stage = stage /\ call[c].msg = m

Start(c, stage, m, event, late) ==
    call' = [call EXCEPT ![c] =
        [stage |-> stage, msg |-> m, event |-> event, late |-> late]]

\* on_message, up to its first await.
Created(c, m) ==
    /\ Start(c, "enabled", m, "CREATE", FALSE)
    /\ UNCHANGED <<pending, task, marked>>

\* DiscordMessageContentNormalizer.changed: embeds are not compared.
Changed(before, after) == before.text # after.text

\* Mutation: any update of a message already submitted is taken for its embed.
LateEmbed_AnyUpdate(m, before, after) == (~before.media /\ after.media) \/ m \in marked

\* _is_late_embed_hydration
LateEmbed(m, before, after) ==
    /\ ~Changed(before, after)
    /\ ~before.media /\ after.media

\* Mutation: a hydrated message is not remembered.
AlreadySubmitted_Forgotten(m) == FALSE

AlreadySubmitted(m) == m \in marked

\* on_message_edit, up to its first await.
Edited(c, m, before, after) ==
    \/ /\ m \in pending \/ (LateEmbed(m, before, after) /\ AlreadySubmitted(m))
       /\ UNCHANGED bot
    \/ /\ m \notin pending
       /\ LateEmbed(m, before, after)
       /\ ~AlreadySubmitted(m)
       /\ Start(c, "build", m, "CREATE", TRUE)
       /\ UNCHANGED <<pending, task, marked>>
    \/ /\ m \notin pending
       /\ ~LateEmbed(m, before, after)
       /\ IF Changed(before, after)
          THEN Start(c, "build", m, "UPDATE", FALSE) ELSE UNCHANGED call
       /\ UNCHANGED <<pending, task, marked>>

\* The gateway delivers the next version of m and calls its listener.
Deliver(c, m) ==
    /\ call[c] = NoCall
    /\ behind[m] # << >>
    /\ Calm => ~InFlight(m, "enabled") /\ task[m].stage # "build"
    /\ cache' = [cache EXCEPT ![m] = Head(behind[m])]
    /\ behind' = [behind EXCEPT ![m] = Tail(@)]
    /\ IF cache[m] = Nothing THEN Created(c, m)
       ELSE Edited(c, m, cache[m], Head(behind[m]))
    /\ UNCHANGED <<remote, queue, worker, intakeHist>>

\* on_message after is_enabled_for_channel: a GIF waits for its embed.
Enabled(c) ==
    LET m == call[c].msg IN
    /\ call[c].stage = "enabled"
    /\ IF m \in Gifs
       THEN /\ call' = [call EXCEPT ![c] = NoCall]
            /\ pending' = pending \cup {m}
            /\ task' = [task EXCEPT ![m] =
                   [stage |-> "fetch", tries |-> 1, got |-> Nothing, found |-> FALSE]]
       ELSE /\ call' = [call EXCEPT ![c].stage = "build"]
            /\ UNCHANGED <<pending, task>>
    /\ UNCHANGED <<remote, behind, cache, marked, queue, worker, intakeHist>>

\* _build_request has awaited its parts and reads the content; submit follows
\* without an await.
Built(c) ==
    LET m == call[c].msg IN
    /\ call[c].stage = "build"
    /\ Submit(m, call[c].event, cache[m])
    /\ marked' = IF call[c].late /\ ~Full THEN marked \cup {m} ELSE marked
    /\ call' = [call EXCEPT ![c] = NoCall]
    /\ UNCHANGED <<remote, behind, cache, pending, task, worker>>

\* A query of the handler raises: the event is lost.
BuildRaises(c) ==
    /\ call[c] # NoCall
    /\ lost' = lost \cup {call[c].msg}
    /\ call' = [call EXCEPT ![c] = NoCall]
    /\ UNCHANGED <<remote, behind, cache, pending, task, marked, queue, worker,
                   sent, gifCreates>>

-----------------------------------------------------------------------------
(* _submit_after_media_hydration                                           *)

Wake(m) ==
    /\ task[m].stage = "sleep"
    /\ task' = [task EXCEPT ![m].stage = "fetch", ![m].tries = @ + 1]
    /\ UNCHANGED <<remote, behind, cache, call, pending, marked, queue, worker, intakeHist>>

\* The fetched message, or the bot's own when the fetch fails, is looked at;
\* after the last attempt it is taken as it is.
Poll(m, got) ==
    LET found == (IF got = Nothing THEN cache[m] ELSE got).media IN
    /\ task[m].stage = "fetch"
    /\ task' = [task EXCEPT ![m].got = got, ![m].found = found,
                    ![m].stage = IF found \/ task[m].tries = Attempts
                                 THEN "build" ELSE "sleep"]
    /\ UNCHANGED <<remote, behind, cache, call, pending, marked, queue, worker, intakeHist>>

\* Mutation: the update of a message the task is done with is still left to it.
TaskEnds_StillPending(m) ==
    /\ UNCHANGED pending
    /\ task' = [task EXCEPT ![m] = NoTask]

\* The finally clause.
TaskEnds(m) ==
    /\ pending' = pending \ {m}
    /\ task' = [task EXCEPT ![m] = NoTask]

\* _mark_hydrated_media_submitted, when there was media and the queue took it.
Remember(m) ==
    marked' = IF task[m].found /\ ~Full THEN marked \cup {m} ELSE marked

HydratedSubmits(m) ==
    /\ task[m].stage = "build"
    /\ Submit(m, "CREATE", IF task[m].got = Nothing THEN cache[m] ELSE task[m].got)
    /\ Remember(m)
    /\ TaskEnds(m)
    /\ UNCHANGED <<remote, behind, cache, call, worker>>

HydrationRaises(m) ==
    /\ task[m].stage = "build"
    /\ lost' = lost \cup {m}
    /\ TaskEnds(m)
    /\ UNCHANGED <<remote, behind, cache, call, marked, queue, worker, sent, gifCreates>>

-----------------------------------------------------------------------------

Hydration(m) ==
    \/ Wake(m)
    \/ Poll(m, remote[m]) \/ Poll(m, Nothing)
    \/ HydratedSubmits(m) \/ HydrationRaises(m)

Handler(c) == Enabled(c) \/ Built(c) \/ BuildRaises(c)

IntakeNext ==
    \/ \E m \in Posts : Write(m) \/ Embed(m) \/ Hydration(m)
    \/ \E c \in Calls : Handler(c)
    \/ \E c \in Calls, m \in Posts : Deliver(c, m)
    \/ \E w \in Pool : Get(w) \/ Serve(w)

IntakeSpec == IntakeInit /\ [][IntakeNext]_intakeVars

\* Every task that can run is run, and the gateway delivers what happened.
Fairness ==
    /\ \A m \in Posts : WF_intakeVars(Hydration(m))
    /\ \A m \in Posts : WF_intakeVars(\E c \in Calls : Deliver(c, m))
    /\ \A c \in Calls : WF_intakeVars(Handler(c))
    /\ \A w \in Pool : WF_intakeVars(Get(w)) /\ WF_intakeVars(Serve(w))

IntakeFairSpec == IntakeSpec /\ Fairness

-----------------------------------------------------------------------------
(* Properties.                                                             *)

\* A GIF is submitted once: the update that brings its embed does not create a
\* second CREATE request after the task has submitted it.
OneGifRequest == \A m \in Posts : gifCreates[m] <= 1

\* When everything is delivered and nothing is under way, what
\* Discord shows of each message has been submitted, unless a request of it was
\* rejected by a full queue or failed.
Settled(m) ==
    /\ behind[m] = << >> /\ task[m] = NoTask
    /\ ~InFlight(m, "enabled") /\ ~InFlight(m, "build")
NothingMissed ==
    \A m \in Posts \ lost : remote[m] # Nothing /\ Settled(m) => remote[m] \in sent[m]

\* The workers keep emptying the queue, whatever the requests end in.
QueueDrains == []<>(queue = << >>)
=============================================================================

---------------------------- MODULE BotLifecycle ----------------------------
(***************************************************************************)
(* The process of the bot: Bootstrap starts and stops it, with the container *)
(* and its modules; DiscordBot is connected in between.  It is composed of    *)
(* the database manager (Database) and the synchronisation of the commands   *)
(* (CommandSync), which run while it is up and are stopped with it.          *)
(***************************************************************************)
EXTENDS Database, CommandSync

CONSTANTS Modules,        \* the modules, in the order of their registration: in the code ten,
                          \* "general", ..., "voice", ..., "ai_moderation", "labeling"
          Signals,        \* SIGTERM and SIGINT, each delivered once
          MaxLifeFaults,
          MaxFailures      \* how many calls fail altogether

ASSUME LifecycleAssumption ==
    /\ Modules \in Seq(STRING) /\ Range(Modules) \cap {"bot", "container", "none"} = {}
    /\ "nobody" \notin Signals /\ MaxLifeFaults \in Nat

VARIABLES main,      \* how far run() is
          cogs,      \* the modules whose cog is registered, of those with work to stop
          bot,       \* "none", "made", "running" or "closed"
          timers,    \* the timers of voice rooms that are pending
          shutdown,  \* the runs of _shutdown
          holder,    \* who has _shutdown_lock
          complete,  \* _shutdown_complete
          lifeFaults

lifeVars == <<main, cogs, bot, timers, shutdown, holder, complete, lifeFaults>>
vars == <<dbVars, syncVars, lifeVars>>

-----------------------------------------------------------------------------
Stops == Signals \cup {"finally"}
Timers == {1}

\* How far run() is: the services, then the cogs one by one, bot.start until the bot is closed, and
\* the finally clause.
Services == 0
Running == Len(Modules) + 1
Finally == Running + 1
Exit == Finally + 1
LifeFail == lifeFaults < MaxLifeFaults /\ lifeFaults' = lifeFaults + 1

Init ==
    /\ DbInit /\ SyncInit
    /\ main = Services /\ cogs = {} /\ bot = "none" /\ timers = {}
    /\ shutdown = [s \in Stops |-> 0] /\ holder = Nobody /\ complete = FALSE /\ lifeFaults = 0

-----------------------------------------------------------------------------
(* Starting.                                                               *)

\* Container.get_database, for the first service that is asked for; the others find it there.
Serve ==
    /\ main = Services
    /\ \/ main' = 1 /\ bot' = "made" /\ Initialize /\ UNCHANGED <<faults, lifeFaults>>
       \/ LifeFail /\ main' = Finally /\ UNCHANGED <<bot, dbVars>>
    /\ UNCHANGED <<syncVars, cogs, timers, shutdown, holder, complete>>

\* get_cog of most modules answers None for a cog that cannot be made; those of AI moderation and
\* of labelling raise, which ends run().
Working == {"voice", "ai_moderation"}
Raises == {"ai_moderation", "labeling"}

Register ==
    /\ main \in DOMAIN Modules
    /\ \/ /\ cogs' = cogs \cup ({Modules[main]} \cap Working) /\ main' = main + 1
          /\ bot' = IF main = Len(Modules) THEN "running" ELSE bot
          /\ UNCHANGED lifeFaults
       \/ /\ LifeFail
          /\ IF Modules[main] \in Raises THEN main' = Finally ELSE main' = main + 1
          /\ UNCHANGED <<cogs, bot>>
    /\ UNCHANGED <<dbVars, syncVars, timers, shutdown, holder, complete>>

\* bot.start ends when the bot is closed.
Ended ==
    /\ main = Running /\ bot = "closed"
    /\ main' = Finally
    /\ UNCHANGED <<dbVars, syncVars, cogs, bot, timers, shutdown, holder, complete, lifeFaults>>

-----------------------------------------------------------------------------
(* While the bot is up, listeners and timers use the database.  Statements   *)
(* and the synchronisation of the commands share nothing; as a bound, one    *)
(* begins when the other rests.                                            *)

SyncRests == \A r \in Runs : run[r].at \in {"idle", "done", "stopped"}
StatementsRest == \A c \in Callers : op[c].stage \in {"idle", "ok", "raised"}

Handler(c) ==
    /\ bot = "running" /\ SyncRests /\ Call(c)
    /\ UNCHANGED <<syncVars, lifeVars>>

RoomTimer(t) ==
    /\ bot = "running" /\ "voice" \in cogs /\ t \notin timers
    /\ timers' = timers \cup {t}
    /\ UNCHANGED <<dbVars, syncVars, main, cogs, bot, shutdown, holder, complete, lifeFaults>>

Fires(t, c) ==
    /\ t \in timers /\ main # Exit /\ SyncRests /\ Call(c)
    /\ timers' = timers \ {t}
    /\ UNCHANGED <<syncVars, main, cogs, bot, shutdown, holder, complete, lifeFaults>>

Statement(c) == main # Exit /\ Operation(c) /\ UNCHANGED <<syncVars, lifeVars>>
Broken(c) == main # Exit /\ Break(c) /\ UNCHANGED <<syncVars, lifeVars>>

Commands ==
    /\ bot = "running" /\ StatementsRest
    /\ Connected \/ Ready \/ \E r \in Runs : Sync(r)
    /\ UNCHANGED <<dbVars, lifeVars>>

-----------------------------------------------------------------------------
(* _shutdown, by a signal or by the finally clause: 0 has not begun, then    *)
(* the steps, then one more when it is over.                                *)

Stopping == Modules \o <<"bot", "container">>
Over == Len(Stopping) + 1
Done(s) == shutdown[s] > Over
Step(s) == IF shutdown[s] \in DOMAIN Stopping /\ holder = s THEN Stopping[shutdown[s]] ELSE "none"
Steps(s) == shutdown' = [shutdown EXCEPT ![s] = @ + 1]

\* A second run waits for the first.
\* Mutation: it returns when another one holds the lock.
Waits_Not(s) == FALSE

Waits(s) == holder # Nobody

Begins(s) ==
    /\ shutdown[s] = 0
    /\ IF s = "finally" THEN main = Finally ELSE main \in {Running, Finally}
    /\ ~Waits(s)
    /\ IF complete \/ holder # Nobody THEN shutdown' = [shutdown EXCEPT ![s] = Over + 1] /\ UNCHANGED holder
       ELSE Steps(s) /\ holder' = s
    /\ UNCHANGED <<dbVars, syncVars, main, cogs, bot, timers, complete, lifeFaults>>

\* VoiceModule.shutdown cancels the timers; AiModerationModule.shutdown closes a client, and what
\* that raises ends the run.  The others forget their cog.
StopModule(s) ==
    /\ Step(s) \in Range(Modules)
    /\ timers' = IF Step(s) = "voice" THEN {} ELSE timers
    /\ \/ Steps(s) /\ UNCHANGED <<holder, lifeFaults>>
       \/ /\ Step(s) = "ai_moderation" /\ "ai_moderation" \in cogs /\ LifeFail
          /\ shutdown' = [shutdown EXCEPT ![s] = Over + 1] /\ holder' = Nobody
    /\ UNCHANGED <<dbVars, syncVars, main, cogs, bot, complete>>

\* A bot that is closed already is left alone.
\* Mutation: one that is not.
Closes_Inverted == bot = "closed"

Closes == bot \in {"made", "running"}

\* What bot.close() raises is logged, and the shutdown goes on; disnake has marked the bot closed first.
CloseBot(s) ==
    /\ Step(s) = "bot" /\ Steps(s)
    /\ IF Closes THEN bot' = "closed" /\ Stopped ELSE UNCHANGED <<bot, syncVars>>
    /\ UNCHANGED lifeFaults \/ (Closes /\ LifeFail)
    /\ UNCHANGED <<dbVars, main, cogs, timers, holder, complete>>

\* Container.shutdown: its modules are not those of Bootstrap, and it has none of its own.  What it
\* raises is logged too.
CloseDatabase(s) ==
    /\ Step(s) = "container"
    /\ \/ opened = 0 /\ Steps(s) /\ UNCHANGED <<dbVars, lifeFaults>>
       \/ opened > 0 /\ ~closing /\ BeginClose /\ UNCHANGED <<shutdown, lifeFaults>>
       \/ EndClose /\ Steps(s) /\ UNCHANGED lifeFaults
       \/ closed /\ Steps(s) /\ UNCHANGED <<dbVars, lifeFaults>>
       \/ closing /\ ~closed /\ LifeFail /\ Steps(s) /\ UNCHANGED dbVars
    /\ UNCHANGED <<syncVars, main, cogs, bot, timers, holder, complete>>

Completes(s) ==
    /\ shutdown[s] = Over /\ holder = s
    /\ Steps(s) /\ complete' = TRUE /\ holder' = Nobody
    /\ UNCHANGED <<dbVars, syncVars, main, cogs, bot, timers, lifeFaults>>

Leave ==
    /\ main = Finally /\ Done("finally")
    /\ main' = Exit
    /\ UNCHANGED <<dbVars, syncVars, cogs, bot, timers, shutdown, holder, complete, lifeFaults>>

Stop(s) == main # Exit /\ (StopModule(s) \/ CloseBot(s) \/ CloseDatabase(s) \/ Completes(s))

Acts ==
    \/ Serve \/ Register \/ Ended \/ Leave
    \/ \E c \in Callers : Handler(c) \/ Statement(c) \/ Broken(c) \/ \E t \in Timers : Fires(t, c)
    \/ \E t \in Timers : RoomTimer(t)
    \/ Commands
    \/ \E s \in Stops : Begins(s) \/ Stop(s)

\* One budget for the failures of all parts.
Next == Acts /\ faults' + syncFaults' + lifeFaults' <= MaxFailures

\* What is ready to run is run: coroutines of one event loop, and a database that answers or fails.
Fairness ==
    /\ WF_vars(Serve) /\ WF_vars(Register) /\ WF_vars(Ended) /\ WF_vars(Leave)
    /\ \A c \in Callers : WF_vars(Statement(c))
    /\ WF_vars(Begins("finally")) /\ \A s \in Stops : WF_vars(Stop(s))

Spec == Init /\ [][Next]_vars /\ Fairness

-----------------------------------------------------------------------------
(* Properties.                                                             *)

TypeOK ==
    /\ DbTypeOK /\ SyncTypeOK
    /\ main \in Services .. Exit /\ cogs \subseteq Working
    /\ bot \in {"none", "made", "running", "closed"} /\ timers \subseteq Timers
    /\ shutdown \in [Stops -> 0 .. Over + 1] /\ holder \in Stops \cup {Nobody}
    /\ complete \in BOOLEAN /\ lifeFaults \in 0 .. MaxLifeFaults

\* When the process ends by itself, the bot is closed and no connection is left, although a signal
\* and the finally clause may be stopping it at the same time (bootstrap.py:210).
CleanExit == main = Exit /\ lifeFaults = 0 => bot = "closed" /\ closed

\* A signal ends the process, unless a module fails to stop (bootstrap.py:118-130).
SignalEnds == \A s \in Signals : shutdown[s] > 0 ~> main = Exit \/ lifeFaults > 0

=============================================================================

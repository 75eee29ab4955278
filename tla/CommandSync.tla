---------------------------- MODULE CommandSync ----------------------------
(***************************************************************************)
(* GlobalApplicationCommandSyncService and its two callers in DiscordBot:    *)
(* the task that on_connect schedules, and the first on_ready.  Both may run  *)
(* at the same time, on a Discord that answers one call after the other.    *)
(***************************************************************************)
EXTENDS Integers, Sequences, FiniteSets, SequencesExt

CONSTANTS Names,       \* the bot's commands, in the order of application_commands_iterator
          Registered,  \* command |-> "none", "same" or "old": what Discord has before
          Legacy,      \* guild |-> the commands registered there, own and foreign
          MaxSyncFaults

\* Of each name there is one, in a guild and among the global ones.
ASSUME SyncAssumption ==
    /\ Names \in Seq(STRING) /\ Registered \in [Range(Names) -> {"none", "same", "old"}]
    /\ \A g \in DOMAIN Legacy : Legacy[g] \in Seq(STRING) /\ IsInjective(Legacy[g])
    /\ MaxSyncFaults \in Nat

VARIABLES global,     \* command |-> what Discord has of it
          guilds,     \* guild |-> its commands
          run,        \* the two runs
          synced,     \* _global_commands_synced
          syncFaults

syncVars == <<global, guilds, run, synced, syncFaults>>

-----------------------------------------------------------------------------
Runs == {"connect", "ready"}
Guilds == DOMAIN Legacy

\* at: the step; next: the command that comes; found: the answer of the last lookup; left: the guilds
\* to clean up; guild, list: the one being cleaned, and what was found there; again: whether it is
\* on_ready's second clean-up
Nothing == [n \in Range(Names) |-> "none"]
Unstarted == [at |-> "idle", next |-> 1, found |-> Nothing, left |-> {}, guild |-> "none", list |-> <<>>,
         again |-> FALSE]

SyncFail == syncFaults < MaxSyncFaults /\ syncFaults' = syncFaults + 1
Stage(r, at) == [Unstarted EXCEPT !.at = at, !.again = run[r].again]
Goes(r, state) == run' = [run EXCEPT ![r] = state]

SyncInit ==
    /\ global = Registered /\ guilds = Legacy
    /\ run = [r \in Runs |-> Unstarted] /\ synced = FALSE /\ syncFaults = 0

-----------------------------------------------------------------------------
\* _schedule_global_command_sync: on_connect, also after the connection was lost
Connected ==
    /\ ~synced /\ run["connect"].at \in {"idle", "done"}
    /\ Goes("connect", Stage("connect", "sleep"))
    /\ UNCHANGED <<global, guilds, synced, syncFaults>>

\* the first on_ready
Ready ==
    /\ run["ready"].at = "idle"
    /\ Goes("ready", Stage("ready", "begin"))
    /\ UNCHANGED <<global, guilds, synced, syncFaults>>

\* on_ready cleans up once more, whatever has happened.
Clean(r) == [Stage(r, "guilds") EXCEPT !.left = Guilds]
After(r) == IF r = "ready" /\ ~run[r].again THEN [Clean(r) EXCEPT !.again = TRUE] ELSE Stage(r, "done")

Begin(r) ==
    /\ run[r].at \in {"sleep", "begin"}
    /\ Goes(r, IF synced THEN After(r) ELSE Stage(r, "fetch"))
    /\ UNCHANGED <<global, guilds, synced, syncFaults>>

\* _fetch_managed_global_commands: a timeout counts as no commands, another failure ends the run.
Fetch(r) ==
    /\ run[r].at = "fetch"
    /\ \/ Goes(r, [Stage(r, "each") EXCEPT !.found = global]) /\ UNCHANGED syncFaults
       \/ SyncFail /\ Goes(r, [Stage(r, "each") EXCEPT !.found = Nothing])
       \/ SyncFail /\ Goes(r, After(r))
    /\ UNCHANGED <<global, guilds, synced>>

\* Editing or creating one: Discord keeps one of each name.
Each(r) ==
    /\ run[r].at = "each" /\ run[r].next <= Len(Names)
    /\ LET n == Names[run[r].next]
       IN  \/ /\ global' = IF run[r].found[n] = "same" THEN global ELSE [global EXCEPT ![n] = "same"]
              /\ Goes(r, [run[r] EXCEPT !.next = @ + 1])
              /\ UNCHANGED syncFaults
           \/ /\ run[r].found[n] # "same"
              /\ SyncFail
              /\ Goes(r, After(r))
              /\ UNCHANGED global
    /\ UNCHANGED <<guilds, synced>>

\* All commands are there: the flag, then the clean-up of the guilds.
\* Mutation: the flag is set when the first is there.
Complete_Early(r) == run[r].next > 1

Complete(r) == run[r].next > Len(Names)

Flag(r) ==
    /\ run[r].at = "each" /\ Complete(r)
    /\ synced' = TRUE
    /\ Goes(r, Clean(r))
    /\ UNCHANGED <<global, guilds, syncFaults>>

\* remove_legacy_guild_commands: every guild has a lookup of its own, whose failure is logged.
Guild(r) ==
    /\ run[r].at = "guilds" /\ run[r].left # {}
    /\ \E g \in run[r].left :
         \/ /\ Goes(r, [run[r] EXCEPT !.at = "delete", !.guild = g, !.list = guilds[g], !.left = @ \ {g}])
            /\ UNCHANGED syncFaults
         \/ SyncFail /\ Goes(r, [run[r] EXCEPT !.left = @ \ {g}])
    /\ UNCHANGED <<global, guilds, synced>>

\* What becomes of the list at a command that is not the bot's.
Foreign(list) == Tail(list)

\* One command of the list.  Discord answers NotFound for one that the other run has deleted, and
\* that, like any failure, ends the guild.
Delete(r) ==
    /\ run[r].at = "delete" /\ run[r].list # <<>>
    /\ LET n == Head(run[r].list)
           g == run[r].guild
           Rest(list) == Goes(r, [run[r] EXCEPT !.list = list])
       IN  IF n \notin Range(Names) THEN Rest(Foreign(run[r].list)) /\ UNCHANGED <<guilds, syncFaults>>
           ELSE \/ /\ \E i \in DOMAIN guilds[g] :
                        guilds[g][i] = n /\ guilds' = [guilds EXCEPT ![g] = RemoveAt(@, i)]
                   /\ Rest(Tail(run[r].list))
                   /\ UNCHANGED syncFaults
                \/ /\ IF Contains(guilds[g], n) THEN SyncFail ELSE UNCHANGED syncFaults
                   /\ Rest(<<>>)
                   /\ UNCHANGED guilds
    /\ UNCHANGED <<global, synced>>

Cleaned(r) ==
    /\ \/ run[r].at = "delete" /\ run[r].list = <<>> /\ Goes(r, [run[r] EXCEPT !.at = "guilds", !.guild = "none"])
       \/ run[r].at = "guilds" /\ run[r].left = {} /\ Goes(r, After(r))
    /\ UNCHANGED <<global, guilds, synced, syncFaults>>

\* DiscordBot.close: one task is cancelled, the calls of the other fail.
Stopped ==
    /\ run' = [r \in Runs |-> [Unstarted EXCEPT !.at = "stopped"]]
    /\ UNCHANGED <<global, guilds, synced, syncFaults>>

Sync(r) == Begin(r) \/ Fetch(r) \/ Each(r) \/ Flag(r) \/ Guild(r) \/ Delete(r) \/ Cleaned(r)

-----------------------------------------------------------------------------
(* Properties.                                                             *)

SyncTypeOK ==
    /\ global \in [Range(Names) -> {"none", "same", "old"}]
    /\ DOMAIN guilds = Guilds
    /\ run \in [Runs -> [at : {"idle", "sleep", "begin", "fetch", "each", "guilds", "delete", "done", "stopped"},
                         next : 1 .. Len(Names) + 1, found : [Range(Names) -> {"none", "same", "old"}],
                         left : SUBSET Guilds, guild : Guilds \cup {"none"},
                         list : Seq(STRING), again : BOOLEAN]]
    /\ synced \in BOOLEAN /\ syncFaults \in 0 .. MaxSyncFaults

\* When the flag is set, and no run will try again, Discord has every command of the bot as it is
\* now, whatever the other run has done or failed to do meanwhile (bot.py:105-109).
SyncedMeansThere == synced => \A n \in Range(Names) : global[n] = "same"

\* When the first on_ready is through, no guild shows a command twice, its own copy besides the
\* global one: two runs that delete from the same list stop each other, but never both
\* (bot.py:88, global_application_command_sync_service.py:109).
NoLegacyLeft ==
    syncFaults = 0 /\ run["ready"].at = "done" /\ run["connect"].at \in {"idle", "done"} =>
        \A g \in Guilds : Range(guilds[g]) \cap Range(Names) = {}

\* What the synchronisation is for: every command there, and there once, although the task of
\* on_connect and the first on_ready do it at the same time (bot.py:82-109).
CommandsAreSynced == SyncedMeansThere /\ NoLegacyLeft

=============================================================================

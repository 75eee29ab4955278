# Verification of Muxivo Discord

TLA+ specifications of the parts of Muxivo Discord whose correctness depends on
the order of things: several coroutines of one event loop, two processes writing
the same rows and the same Discord channel, timers, retries and failures. TLC
checks each module on small instances; TLAPS proves the most important
invariants for every instance. Line numbers are those of the repository.

1. [The system](#1-the-system)
2. [Plan](#2-plan)
3. [Modules and code](#3-modules-and-code)
4. [Runs](#4-runs)
5. [Proofs](#5-proofs)
6. [Where code and documents disagree](#6-where-code-and-documents-disagree)
7. [What is not modelled](#7-what-is-not-modelled)

## 1. The system

Two processes and a database:

- the **bot**, one asyncio loop: disnake cogs (`presentation/cogs`) handle
  gateway events and commands, services (`application/services`) hold the logic
  and some state in memory, repositories (`infrastructure/database`) hold the rest;
- the **Activity server**, a FastAPI application (`activity/server`) with its own
  statements and its own Discord client (REST), used by the Vue client;
- **PostgreSQL**, which both write, in autocommit: no transaction spans two
  statements, and nothing else makes the two processes wait for each other;
- external services: Discord, Muxivo Core (moderation decisions), YouTube,
  Twitch and Kick, and the Console, which uses the Control API of the Activity.

Within the bot everything between two `await`s is atomic; everything that reads
before an `await` and writes after it is not. That is the granularity of all
modules here: **an action is what a coroutine does from the completion of one
awaited call to the next**.

| component | state | operations | hard behaviour | correct means | module |
|---|---|---|---|---|---|
| Temporary rooms, life (`voice_cog.py`, `voice_service.py`, `voice_repository.py`) | `voice_rooms`, `voice_room_members`; in memory `_creating`, `_delete_tasks`, `_owner_transfer_tasks` | `on_voice_state_update`, `create`, `delete`, `schedule_delete`, `cancel_delete`, `schedule_owner_transfer`, tracking | handlers of one user overlap; timers cancelled between their steps; restart forgets timers; failed calls and roll back | a row never names a dead channel; an empty room is removed; a channel is a room once; nobody is locked out of creating | `VoiceRooms`, `RoomLedger` |
| Temporary rooms, control (`voice_service.py`, `voice_action_select.py`, Activity `voice_room_service.py`) | `owner_id`, `admin_id`; channel overwrites | claim, release, assign, kick, ban, invite, leave, transfer; the same from the Activity | check, await, write between users and between processes | one admin, who is not the owner and has the power; nobody else has it; a ban stands | `VoiceControl` |
| AI moderation, intake (`ai_moderation_cog.py`, `ai_moderation_queue.py`) | `_pending_media_hydration`, tasks, `_submitted_hydrated_media_ids`, the queue | `on_message`, `on_message_edit`, `_submit_after_media_hydration`, `submit`, `_worker` | updates overtaking the polling task; full queue; failing requests | what Discord shows was submitted, a GIF once; the queue drains | `ModerationIntake` |
| AI moderation, enforcement (`ai_moderation_cog.py`, `flood_enforcement_coordinator.py`, `ai_moderation_repository.py`) | incidents, `ai_moderation_role_restorations` | `handle_decision`, `_execute_action`, `restore_administrator_roles` | several workers on one member; partial failure; a periodic loop against both | one timeout per flood; only applied timeouts recorded; roles taken come back | `ModerationEnforcement` |
| AI moderation, policy (`ai_moderation_policy_enforcer.py`) | none | `apply`, `validate` | thresholds, modes, the combination of evidence | only what the guild's mode permits is done | `ModerationPolicy` |
| AI moderation, review queue and labelling (`ai_moderation_service.py` of the Activity, `moderation_labeling_service.py`, their repositories) | trust, roles, labels, audits; review items and their revisions | trust, role, label, revoke; enqueue, list, correct | rights checked statements before they are used; two reviewers of one revision; Core told before the write | no correction is lost; audits are true; what is resolved, Core has heard of | `Labelling`, `ReviewDesk` |
| Settings (`welcome_service.py`, `welcome_config_repository.py`, `/ai-policy`, Activity pages) | `welcome_config`, `ai_moderation_settings`, `ai_moderation_channels` | forms, commands, pages | read, await, write of whole rows and documents by two processes | an edit changes what it was about | `GuildSettings` |
| Database manager (`connection.py`) | connection, operation lock, `_closing` | `execute`, `fetch_*`, `_with_retry`, `close` | a statement repeated after its answer was lost; close during an operation | each caller gets the id of its own row; no connection survives close | `Database` |
| Bootstrap and shutdown (`bootstrap.py`, `bot.py`) | what was started | `run`, `_shutdown`, signals | a signal and the `finally` clause stop the bot at once; a module fails to stop | the process ends, with nothing left open | `BotLifecycle` |
| Command synchronisation (`global_application_command_sync_service.py`) | Discord's commands, `_global_commands_synced` | lookup, create, update, removal in guilds | two callers; a call that times out after it took effect | the commands registered are those declared | `CommandSync` |
| Creator alerts (`streams_cog.py`, `creator_alert_service.py`; Activity publish service) | `creator_alert_subscriptions`; in memory cache of what was published | monitor, presence listener, `/streamer`, page | check, publish, mark from four places in two processes; restart | announced again neither too early nor never | `CreatorAlerts` |
| Punishments (`moderator_service.py`, `moderation_cog.py`, `punishment_repository.py`, `logging_cog.py`) | `punishments`; timeouts, bans, roles at Discord | warn, mute, kick, ban, their reversals; audit-log entries; revocation; retention | row and action in two steps in either order; counts for the escalation; entries delivered twice | a mute can be lifted; the third is noticed; an entry counts once | `Punishments` |
| Event log and statistics (`logging_cog.py`, `logging_service.py`, `stats_cog.py`, `stats_service.py`) | recent messages, the bot's own deletions, open voice sessions; log and statistics rows | every gateway event | both listeners of a deletion; audit log late; minutes written while the member moves on | a deletion is logged once, to its author; statistics claim nothing that did not happen | `GuildEvents` |
| Role panels (`role_service.py`, `roles_cog.py`, panel views) | panels, buttons, two fingerprints; listeners and callbacks in memory | create, add, remove, delete; render, clean; press, react | message, row and fingerprints written apart; overlapping editors; restart | a panel left half done is finished; a dead one goes and stays away | `RolePanels` |
| Activity access and RBAC (`access_service.py`, `rbac_service.py`, `discord_service.py`, `discord_guild_authority.py`, `/sync_roles`) | context cache, shared fetches, cached roles; role tables | session, synchronise, assign, edit, Control API | contexts shared and cached; delete-then-insert, each committed | no right survives its removal beyond the cache's age; administration can be regained | `DiscordRights`, `ActivityAccess` |
| Control API (`control_auth.py`, `routers/control.py`) | none | verify an assertion | times ahead of the clock, long lives | an assertion opens what it was issued for, for 135 s at most | `ControlAssertion` |
| Other services of the Activity, client, presentation, domain types, schema | – | read, validate, write one row; layout; declarations | – | – | not modelled (§7) |

`PROJECT.json` lists every component with its files and what is modelled of it,
and the hazards at their lines, with the properties that would catch them.

How they interact: the two rooms modules share `voice_rooms`; the decision of the
policy is what a worker of the intake hands to the enforcement, and what it sends to
review fills the desk; the labelling decides who may sit at the desk; the deletions
and timeouts the bot carries out come back as events of the log, and as entries that
the punishments record; roles synchronised by the bot's command or by the Activity
decide who may open the Activity's pages; all of the bot shares the database manager
and ends with the lifecycle.

## 2. Plan

In order of what a failure costs the users and of how much the code exposes it
to interleavings:

1. **VoiceRooms** and its abstract specification **RoomLedger**, with
   **VoiceRoomsProofs**. *Done.*
2. **VoiceControl** with **VoiceControlProofs**. *Done.* It shares `voice_rooms` with VoiceRooms;
   the two are not composed because the life of a room does not depend on its
   admin and the control of a room not on how it was created. The one point
   where they meet, the transfer of ownership, is in both.
3. **ModerationIntake**, **ModerationEnforcement** and **ModerationPolicy** with
   **ModerationProofs**; **Labelling** and **ReviewDesk** (which extends it) with its abstract
   specification **ReviewRegister**, and with **SharedTablesProofs**; **GuildSettings**, with **GuildProofs**. *Done but for the
   decisions that are not timeouts.*
4. **Punishments** and **GuildEvents**, with **RecordsProofs**. *Done.*
5. **Database** and **CommandSync**, composed in **BotLifecycle**, with
   **BotLifecycleProofs**. *Done.*
6. **CreatorAlerts**, proved in **SharedTablesProofs**; **RolePanels**, in **GuildProofs**. *Done:
   liveness by TLC, what holds at any moment by proof.*
7. **DiscordRights**, extended by **ActivityAccess**, and **ControlAssertion**, with
   **ActivityAccessProofs**. *Done.*

An abstract specification worth adding: one announcement per interval for CreatorAlerts, whose
overlapping publishers do not keep it as it stands (§6).

Modules are written to be proved about: parameters are CONSTANTS with a named
assumption, there is one action per step of the code, invariants are conjunctions
of named parts and no module declares a RECURSIVE operator.

## 3. Modules and code

Every module has a type invariant `TypeOK` (`DbTypeOK`, `SyncTypeOK`, `RightsTypeOK`,
`LabelTypeOK`, `IntakeTypeOK`, `EventsTypeOK` in those that are extended). TLC has checked each of them with its run's
instance; it is left out of the runs, whose properties are about behaviour.

Names ending in `_<What>` (`Refused_Never`, `Stored_Not`) are the same
definition as a plausible bug would have it: they are used by nothing but the
mutants of `PROJECT.json`, which show that each property can fail.

### VoiceRooms

One guild with one trigger channel. The actors:

- *users* move between `Out`, the trigger and the rooms (`Move`); each move starts
  a call of `on_voice_state_update` in a free slot of that user;
- *bots* (music, recording) come into a channel and go (`BotEnters`, `BotLeaves`). The
  listener returns at once for them (voice_cog.py:40), but emptiness is judged by
  `channel.members`, which counts them (`Empty`). `deserted`, history, has the channels a
  bot left last, and where nobody has come since;
- *the listener* (`handler[u][i]`): `stage` names the awaited call it is in. With
  `Enter, Vet, DropStale, Redirect, MakeChannel, MoveIn, InsertRow, TrackOwner,
  RollBack` it creates a room; with `Leave, Untrack` it looks at the place left
  behind; with `Join, Add, Eject` at the place entered;
- *the delayed delete* of a channel (`delStage`, registered in `delReg`) sleeps,
  clears the members, drops the row, closes the channel. `cancel_delete` cancels
  the task that is **registered**; the `finally` clause of every task, cancelled or
  not, pops whatever is registered then (`DeleteEnds`), as voice_service.py:83 does;
- *the delayed transfer* (`transfer`, `ownReg`), the same way;
- *restart* loses calls, timers and keys, and keeps the table.

`Denied` stands for the overwrites that keep a user out, `HandlerFault` and
`DeleteFault` for awaited calls that raise (`FaultPoints`); an insert or update may
raise after having taken effect.

`Evict` (a channel is deleted under its members) needs a free slot for each of
them; with fewer slots than a user can have calls in flight the model would
block, so the run with overlapping calls has three.

**RoomLedger** is what the rooms promise of each channel: unborn, then a room with
one owner at a time, then gone for good. The refinement maps a channel to `unborn`
until the creation that made it inserts the row, `live` while the row exists, and
`gone` from then on.

### VoiceControl

One room. `owner`, `admin` are the columns, `perm` the overwrites of the channel,
`op[p]` an operation in flight, whose stage names the call it is about to make.
The panel's operations write one member's overwrite at a time; the Activity's
fetch the whole list (`ActivityFetches`), change it and write it back
(`ActivityPatches`), then update the row (`ActivityUpdates`) unconditionally, while
the panel's claim is a conditional UPDATE (`ClaimWrites`). `Raises` is a failed call
to Discord; only a claim undoes what it did. `Serial` restricts to one operation at
a time, which is how the tests of the repository use the code; `Hasty` lets one user have
several operations under way.

### ModerationIntake

`remote` is a message as Discord has it, `behind` the versions the gateway has not
delivered, `cache` the bot's object, which disnake changes in place. Content is
reduced to a text number and whether there is media. `call[c]` is a listener past
its first `await`, `task[m]` the polling task of a GIF, `marked` the ids of
`_submitted_hydrated_media_ids` (the bound of 10000 of that dictionary is out of
reach). `sent`, `gifCreates` and `lost` are history. `Calm` = no update is
handled while a handler of the same message is between its check and its effect. The
messages are `Posts` and the workers `Pool`, and the specification is `IntakeSpec`: the
module is extended, beside ModerationEnforcement, by the module of their proofs.

### ModerationEnforcement

The decisions to time out one member, each carried out by a worker (`at[m]`), at
most `Workers` at a time. `roles` are the administrator roles the member holds at Discord,
`seen` those the bot's cache lists, which learns of a change with `MemberUpdate`, whenever
that comes; `Held` are those at the start. `Joins` is `begin_or_join`. `Strip` takes off the
roles the cache listed, one call each, as `remove_roles` does, and may fail between two.
`Timeout` is refused by Discord while the member is an administrator. `Upsert` is the row
of `schedule_role_restoration`, which may fail with the row written or not
(`ScheduleRaises`). `RollsBack` is the except clause: `_restore_roles` gives back only what the
*cached* `member.roles` does not list, one role at a time (`Rollback`).
`Refused`/`Raises` are the two ways a decision ends badly; `LoopLists, LoopRestores, LoopMarks`
one pass of the restoration loop, which asks the same cache and may overlap with decisions.
`Fixed` roles are those above the bot's: a member who has one is warned only.

`owed` (off, and not given back), `struck`, `punished` and `begun` are history, as is
`givenUp`: the roles of `owed` that the code gives up at one of four places (§6), each of them
named in the comment of `RolesNotLost`; `passed` has those a round of the loop is going to
give up so. `Prompt` = the clock waits for decisions under way (a decision takes seconds, a
timeout minutes to hours).

### ModerationPolicy

`AiModerationPolicyEnforcer` as operators: `Merged` (validate's merging with the defaults),
`Candidates` (what the labels' rules, the blacklist, the hosts and the history ask for),
`Proposed` (the severest of them), `Limited` (what the mode and its switches leave of it) and
`Applied` (the decision that comes out), with the cog's last check before it acts. Actions
are the numbers of `_ACTION_RANK`; a text is the set of the blacklist's words in it and
the set of the hosts it links to, a host the set of its domains; risks are naturals. An
action outside the enumeration makes `apply` raise, and `handle_decision` goes on with the
recommendation as Core sent it (ai_moderation_cog.py:366): that is outside these operators.

### Labelling and ReviewDesk

`Labelling` is the labelling of one guild by private message. `jobs[c]` is the command a
caller is in: it asks for each right (`IsTrusted`, `CanManage`, `CanLabel`), writes
(`SetTrusted`, `SetRole`, `CreateLabel`, `RevokeLabel`) and audits, each a statement of its
own, so that the right may be gone when it is used; `Broken` ends it anywhere.

`ReviewDesk` EXTENDS it: the bot records events and enqueues those for review
(`Record`, `Enqueue`), a reader of the queue fills what is missing (`Backfill`), and a
reviewer's save goes through `Access`, `HasRole`, `Read`, `Tell` (Core), `Write` (only where
the revision is still the one given) and `WriteAudit`. `core` is what Muxivo Core has kept: of
feedback with one idempotency key, the first. `past` is history: every row each item has had.
`ReviewRegister` is what the desk promises, as if each save were one step: an item is a list of
rows that only grows, a resolution is reported before it is made, and the audit is an excerpt of
the corrections, none of them twice. `Register` in ReviewDesk maps the one to the other.
Simplified: the module permission the Activity
asks before the queue's own check is taken as given; the owner written into
ai_moderation_service.py and the configured one are one `Owner` (§6 has the difference).

### GuildSettings

The settings of a guild that commands of the bot and pages of the Activity both write. A
welcome form is opened with the row as it is then (`Open`), submitted (`Submit`), and
create_or_update reads (`Look`) before it updates the fields given (`Update`) or inserts
(`Insert`); `PageSaves` is the Activity's UPSERT of all columns. Columns that are handled
alike are one field. `edit[e]` is a command of `/ai-policy` between its read of the document
and its write; `fresh` records that nobody has written meanwhile. `save[s]` is a run of
save_channels between its DELETE and its last INSERT; `alone` records that nobody else
wrote. The definitions under "What does not hold of the code" are each violated (§6).

### Punishments

One member. A *job* is one run of a handler and does one step of its `Program` at a time:
commands (`warn`, `mute`, `unmute`, `kick`, `ban`, `unban`), a revocation from the list, or
the record of an entry of the audit log, which Discord delivers up to twice and late. `mute`
strips administrator roles, times out, then inserts; `unmute` deactivates, then lifts;
`Cleanup` is the retention, `Forget` the memory of recent notifications, `Expire` a timeout
that ends, `ByHand` a timeout or ban by a person, `Return` a member who comes back.

### GuildEvents

`LoggingCog` and `StatsCog` hear the same gateway. `there` and `audit` are the guild's
messages and the log Discord shows of their deletions (an entry comes late and grows too old
to be taken); `recent` and `botDeleted` are the cog's memory; a handler in `events` looks for
the deleter (`Look`), writes its row (`Persist`), sends (`Send`) and stores the message
(`Store`). `AiRegister` and `AiDelete` are the two steps of the moderation's own deletion. A
`/purge` of several messages is one bulk event (`Bulk`); of a single one it is an ordinary
deletion that nobody registered (deleter `"purge"`, whose entry names the bot: `Executor`), and
the command logs it when it is done (`PurgeLogs`).
`counting` are the statistics on their way: row looked for, created, counter added, history
kept; `session` is the open voice session, popped before its minutes are written. `spent`,
history, counts the minutes the member was in voice; `Unwritten` has those that a handler of
the statistics has still to add.

### Database, CommandSync and BotLifecycle

`Database` is the one connection and its lock. A statement (`op[c]`) takes the lock
(`Acquire`), connects if it must, executes, asks for `LASTVAL`; `Break` is an error that comes
before or after it took effect, is repeated or not, breaks the connection or not. The lock is
held for one attempt and not during the sleep before the next. A statement has a kind: an
`insert` numbers its row (`Numbers`) and LASTVAL is its id; one into a table with a `keyed`
row takes no number, so LASTVAL answers with another row's or raises
ObjectNotInPrerequisiteState, which `insert` turns into None; one that hits its ON CONFLICT
takes a number and inserts nothing (`conflict`); `other` statements insert nothing.

`CommandSync` is the synchronisation of the commands by both of its callers, call by call,
each of which may fail or time out after it took effect.

`BotLifecycle` EXTENDS both and adds the process: services, modules in their order, the bot's
`start`, signals and the `finally` clause, each running `_shutdown` under its lock and flag, and
what it stops in order - the timers of voice rooms, the cogs with work, the bot, the
database. What `bot.close` and the container's shutdown raise is swallowed and the shutdown
goes on (`CloseBot`, `CloseDatabase`). Statements and the synchronisation do not run at the
same time; the ten modules of the code are three in the instance, the two with something to
stop among them.

### CreatorAlerts

Four publishers, of which the Activity is another process, work on the rows of one table.
Each checks (`Check`), asks the platform (`Sources`), posts (`Send`) and marks (`Mark`);
the monitor's second half scans the members' presences. `ListFails` is the monitor's read
of the table, whose failure ends the loop (streams_cog.py:48). `cache` and `fallback` are memory
a `Restart` loses. Times are ages in units of which `Repeat` make the repeat interval;
`Tick` waits for publishers that are between check and mark, which takes seconds where the
interval is two hours. `told` and `echo` are history.

### RolePanels

A panel is a message (`posted`: what its embed and its components show), a row with two
fingerprints (`view`: the buttons as saved, `last`: as rendered last) and rows of buttons; a
fingerprint stands for the buttons it is computed from. Administrators' edits, the loop that
renders and the one that removes dead panels run step by step in `jobs`; `listener` and
`handled` are what the bot remembers of reaction panels and of callbacks, which `Restart` loses.
What reads and then writes over an `await` is two steps or more: a registration reads the row
(`Register`), the buttons (`Listen`), sets its view up (`Hear`) and then stores or forgets it
(`Store`, `Forget`); a missing fingerprint is read (`Ensure`) and written (`Ensured`).
Roles, their synchronisation and automatic assignment are in as far as panels depend on them.
What holds at any moment (`OnlyKnownRoles`, `LimitHolds`, `GoneForGood`) stands at the end of
the module; it is proved (§5).

### DiscordRights and ActivityAccess

`DiscordRights` is what the server knows of Discord: `context[u]`, kept for `CONTEXT_TTL`,
`fetch[u]`, the one fetch that everyone who asks meanwhile shares, and `listed`, the guild's
roles, whose fetches are not shared. Times are ages in ticks; `still` is the time since
rights changed. `ActivityAccess` EXTENDS it with the tables and the requests: each ensures the
builtin roles, a role and then its modules (`InsertBuiltin`, `Upsert`), asks for a context
and then reads or writes row by row (`SyncRow`, `Grant`,
`Prune`, `Clear`, `Put`), every statement committed; `Command` is the bot's `/sync_roles`
on the same tables, by an administrator or the owner, and `AskAuthority` the Control API's
question about either. A `Scenario` says which two
kinds of request may overlap in a behaviour.

### ControlAssertion

`verify_control_assertion` and what each of the four endpoints requires besides, as operators
on an assertion and the clock. Nothing is kept, so there is nothing to run: its properties are
theorems, in ActivityAccessProofs.

## 4. Runs

Each run finishes within four minutes on two workers; `access` and `enforcement` take longest.

| run | instance | what it shows |
|---|---|---|
| `rooms_patient` | 2 users, 1 channel, bots that come and go, 2 slots, 2 timers of each kind, 5 kinds of failing call; users wait for the bot | an empty room that no bot left last has somebody in charge of it (`EmptyRoomInCharge`), tracked members are present, a returned owner keeps the room, `RowHasChannel`, and such an empty room is cleaned up (`EmptyRoomCleaned`, liveness) |
| `rooms_storm` | 2 users, one with 3 overlapping calls, one denied by the room; 11 failing calls; 1 restart | `CreatingIsHeld`, and VoiceRooms implements RoomLedger (`LedgerSpec`) |
| `control_claims` | 3 users, 3 operations at once, Discord may fail; the panel's claim, release, leave | the admin has the power (`AdminHasPower`), no claim takes an occupied seat (`SeatNotStolen`) |
| `control_serial` | 3 users, one a manager; every operation but the Activity's ban, one at a time | `AdminNeverOwner`, `NoStrayPower`, `BanStands` |
| `intake` | a GIF and a plain message, 2 texts, 2 handlers, 2 workers, a queue of 1 | `OneGifRequest`, `NothingMissed`, `QueueDrains` (liveness) |
| `enforcement` | 3 decisions (2 of a flood), 2 workers, 3 roles (2 the bot may take, one of which the member holds), a cache that lags behind, 4 kinds of failing call, one role granted by a person | `OneTimeoutPerIncident`, `RecordedWasApplied`, `RolesNotLost`, `RolesReturn` (liveness) |
| `punishments` | 3 handlers at once, every command, 1 failing call, entries delivered twice | a muted member can be unmuted (`MutedHasRow`), `EscalationNoticed`, `LiftedOnce`, `RecordedOnce` |
| `guild_events` | 2 messages, 4 events, `/purge` of one or both, memory of 1 message, 1 minute, 1 failing call | `DeletionLogged`, `BotIsCredited`, `StatsAreReal` |
| `lifecycle` | 2 statements, one of any kind and one that inserts or not, 2 attempts, the synchronisation by both callers, 1 signal, one failure anywhere | `CleanExit`, `OwnRowId`, `NoConnectionLeft`, `CommandsAreSynced`, `SignalEnds` (liveness) |
| `creators` | 1 member, 1 stream, 2 publishers at once out of four, 2 saves, 1 change of the stream, 1 failure or restart | `NoEcho`, `LiveIsAnnounced` (liveness) |
| `panels` | 1 role, 2 emojis, 1 administrator beside the two loops, 1 panel, 2 edits, 1 failure or restart, 1 change of Discord | `UnrenderedIsRendered`, `ReactionsAreHeard`, `DeadPanelIsRemoved` (all liveness; the last includes `GoneForGood`) |
| `access` | 1 user and an owner, 1 Discord role, 2 builtin roles and a custom one, 2 requests that overlap in four scenarios, contexts kept for 2 ticks, roles for 1, fetches of up to 1, 1 change or failure, 1 edit | `FreshRights`, `AuthorityIsRecent`, `SyncedHasBuiltins`, `AdminRegained` (liveness) |

Two instances are checked with TLC beside these, for modules whose properties are proved:
`ReviewDesk.cfg` on ReviewDesk (1 message, 2 requesters, 2 actions, 2 revisions, one
command of the labelling; 7.2 million states, about five minutes) for `OneCorrectionPerRevision`,
`ResolvedIsTold`, `NoLostCorrection` and `RegisterSpec`, that ReviewDesk implements
ReviewRegister, and `GuildSettings.cfg` (2 forms that overlap
with the pages) for the invariant of the proof and `FormsKeepTheRest`. The other
configurations are those of §6.

**Bounds, and why they are enough.** *Rooms*: two users are the least with a room that has
an owner and a guest, a transfer that has an heir, and a join that races a leave; one user
with three slots is the least in which two calls overlap with the one that deletes. Two
timers of a kind are the registered one and one that was cancelled or forgotten. Three
users and three operations in VoiceControl let a third claim take the seat between the two
steps of the others. *Moderation*: a queue of one is full at once; two attempts are one
poll before and one after a sleep; two texts are one edit. Three decisions are two of a
flood, which share an incident or not, and one of another kind; two roles the bot may take are one that is
off and one still on; a timeout of 1 that starts at the last permitted moment (2) is over at
the horizon of 3, and a second incident can begin at 2.
*Punishments*: three jobs are two moderators on one row and the entry that comes of what
they do; the escalation counts to three. *GuildEvents*: a memory of one message is full
with the first, so that the second pushes it out; four events are two messages written and
deleted. *Lifecycle*: two statements are one that inserts between the other's INSERT and
LASTVAL; two attempts are one repetition; one failure is put at every place of the
composition. *CreatorAlerts*: two publishers at once are one that acts on a row the other
has marked since; two saves are one source and its second saving; a repeat interval of one
tick distinguishes "already" from "not yet". *RolePanels*: two edits are one in the middle
of another's rendering; a limit of two items is reached. The overlap in the run is of an administrator
with the loops: two administrators at once are beyond TLC, and the properties proved (§5) have
any number of them. *Access*: two overlapping
requests of every pair of kinds that share state; `CONTEXT_TTL` 2, `CACHE_TTL` 1 and
`FETCH_LIMIT` 1 are the least with which a context ages while it is used, a fetch lasts while
rights change, and the three times differ (the theorems have all values).

**Fairness.** `FairSpec` (`Spec` in BotLifecycle) asks weak fairness of every coroutine
that can go on, of the loops and of the timers: the asyncio loop runs what is ready,
tasks.loop comes round, and disnake delivers what Discord sends. Users owe nothing, with
one exception: `AdminRegained` is about a server whose administrator goes on pressing
*Sync roles*, and asks strong fairness of that, because requests under way may make it
wait. The clock (`Tick` of CreatorAlerts and ActivityAccess) is strongly fair: it waits
for calls that are shorter than its unit, again and again. No failure is fair: bounded
numbers of them happen, or do not. Failures that end a loop for good happen in the runs, and
the properties that need the loop say so (`RolesReturn`, `LiveIsAnnounced` and
`DeadPanelIsRemoved` speak of a loop that has not ended; §6 has what ends them). Deadlock is not checked where the model stops at its bounds.

**Patient, Calm, Prompt.** `Patient` is the set of users who move only when no call about them
runs; `Calm` and `Prompt` are described in §3. The properties of `rooms_patient`, `intake` and
`enforcement` are checked at that pace, and some of them hold only then. That is the
normal pace, and the properties are still about interleavings of different users, timers,
tasks and workers; what goes wrong at a faster pace is in §6.

Each property of a run has a mutant in `PROJECT.json`: a definition changed
as a bug in the code would, under which TLC finds the property violated.

## 5. Proofs

`VoiceRoomsProofs` proves, for **any** sets of users, channels, slots and timers,
with any pace, any restarts and (but for `RowsCorrect`) any faults:

- `TypeCorrect`: `Spec => []TypeOK`.
- `CreatingCorrect`: `Spec => []CreatingIsHeld`. Inductive together with `TypeOK`. The
  argument: every step either leaves a call at its stage or is a step *of* that call
  (`Kept`, `OthersKept`), and the steps of a call that leave the stages of creation
  remove the key.
- `RowsCorrect`: `Spec => []RowHasChannel`, assuming that the two writes of `create`
  do not fail (`FaultPoints \cap {"insert", "track"} = {}`: with a failure of theirs
  the roll back closes the channel and leaves the row, voice_service.py:380-391).
  `RowHasChannel` is not inductive: a delete that is about to close a channel would
  break it if the row could be there. `RowInv` adds
  - `ClosedIsDropped`: a task about to close a channel has dropped its row;
  - `BuiltUnseen`: while a creation has made a channel and not inserted its row, the
    channel is open, has no row, and no delete and no leave knows of it (a leave of it
    would find no row, but a *delayed* one could find it later);
  - `BuiltByOne`: that channel belongs to one call, so nobody else inserts its row
    after the first did;
  - `SeenIsCreated`: deletes and leaves are only of channels that were handed out, so a
    fresh channel is unknown to them.

It proves `LedgerRefined`, too: `Spec => LedgerSpec`, whatever fails and
however often the bot restarts. Every step of VoiceRooms is of one of four kinds: it
lets go of channels at most (`LettingGo`: the ledger discards them, or stutters), it
rewrites or clears the row of a room (`Rewriting`: a handover or a retirement), it
writes the row of a channel create has made (`Founding`), or it makes a channel
(`MakingAChannel`: a stutter). What the argument needs is `LedgerInv`: a channel made
and not yet entered was handed out, has no row and belongs to one call, and every
room was handed out. It is weaker than `RowInv`, which is why the theorem needs no
assumption on the faults.

Of rooms nobody interrupts it proves three more, from one invariant:

- `EmptyRoomsCorrect`: `Spec => []EmptyRoomInCharge`, whichever bots come and go; rooms that a bot left
  last are excepted by the property, as the code forgets them (§6);
- `ListsCorrect`: `Spec => []TrackedArePresent`;
- `OwnersKeepRooms`: `Spec => []ReturnedOwnerKeepsRoom`.

They assume `Orderly`: users wait for the bot (`Patient = Users`), nobody goes from a room
straight into the trigger, the bot does not restart, and none of the calls in `Harmful` fails,
those that read or write for a new row, a leave, a join or a deletion. Every other call may fail at any
time: a channel that cannot be made, a user who cannot be moved, a roll back or the closing of a
channel that fails, a redirect, an ejection, a grant. None of the assumptions can go: with two
users TLC shows that an impatient user, `RoomToTrigger`, a restart or a failing call of `Harmful`
breaks one of the three (`join` the last, `clear` and `drop` the first). `PatientInv` is `RowInv` and

- of each call: a creation runs alone, while its user waits in the trigger (`Waits`); one that
  writes its row has its user in the new room, which no timer knows of (`Founds`); a call about
  a room entered has its user there (`Comes`), one about a room left does not (`Goes`), and each
  is the only one of its kind; the owner who leaves is the one who will schedule the handover,
  and nobody has yet (`Owns`);
- of each room: the one handover under way is the registered one, so that one cancellation
  is enough, and its owner is away or the call about his return has still to cancel it
  (`HandoverOK`); who is listed is there or leaving (`ListOK`); a channel that is not a room
  yet is unknown to lists, handovers and joins (`UnbornOK`); an empty room has a deletion
  running or a call that will schedule one (`InCharge`).

`VoiceControlProofs`, for any users and any operations in flight:

- `TypeCorrect`, whatever overlaps and fails. `Formed` adds that an operation is at a stage
  of its kind and has the target that stage needs (`Shape`).
- `AdminEmpowered`: `Spec => []AdminHasPower` for the panel's claims, releases and leaves,
  in any order and with failing calls. An admin without the power is one whom a claim is
  about to empower or to unseat, or whose seat is about to be cleared (`Backed`). With
  assignments, invitations, kicks, bans, transfers or the Activity's requests beside claims it
  is false (transfers, when a call fails): they give a seat in other steps than a claim, replace
  an overwrite, or write back a list read earlier, that lacks what a claim has given since.
- `SeatKept`: `Spec => SeatNotStolen`, an action property, of every kind of operation but
  the Activity's claim, whose UPDATE is unconditional (§6).
- `SeatsApart`: `Spec => []AdminNeverOwner` one operation at a time (`Serial`; otherwise
  false, §6). A call whose member has left goes on while the listener serves the leave, so
  "one at a time" has one exception (`Alone`, `Follows`); `Apart` says that nobody is on
  the way to being owner and admin.
- `PowerKept`: `Spec => []NoStrayPower`, one at a time and as long as no call fails: what a
  failed call leaves behind is not undone by most operations. `Knows` is what each stage of
  an operation knows of the seat and of the power it is about to take away or pass on.
- `BansKept`: `Spec => []BanStands`, under the same hypotheses and without the Activity's
  ban, which is the finding of §6. A failed disconnection leaves the banned member in the
  room, where he can claim it. `BanInv` adds that nobody banned is in charge or about to be
  (`Enters`, `Spares`), that every list about to be written back still denies them, and
  that one who is still connected is about to be disconnected (`Ousts`).

`ModerationProofs` has the three modules of AI moderation. Of ModerationEnforcement, for any
messages, durations, workers and roles:

- `TypeCorrect`, and `RecordedCorrect`: `Spec => []RecordedWasApplied` with any
  faults. The invariant adds that a decision past the timeout was accepted.
- `IncidentCorrect`: `Spec => []OneTimeoutPerIncident`, assuming `Prompt` and that
  `report_action` does not fail; without either the property is false, see §6. The property
  is about timeouts that stand (`Standing`), not those whose row or record could not be written.
  A *contender* is a flood decision that was punished, still may time out, or will abort its incident.
  `IncidentInv` says that the incident of a contender is over or still registered
  (`IncidentCovers`), that contenders are a duration apart (`Apart`), and that one
  not yet decided began now (`TryingIsNew`). The abort is the step that needs all of it:
  it clears an incident, which is harmless because any other contender began a
  duration earlier.
- `RoleIsNotLost`: `Spec => []RolesNotLost`, with any faults, roles and pace: what is owed and not
  given up at one of the four places named is in a row still to be restored or with a decision
  that will give it back. `RoleInv` adds what a round of the loop knows: while it is under
  way, each such role of the row is one it is giving back, one it passes over, or with a decision
  that has taken it off again (`Accounted`); and it marks the row with nothing left to give back.

Of ModerationPolicy, for every policy, message and recommendation: what is done is
what the mode and its switches permit, never of an excluded author and never in test mode
(`EnforcementIsPermitted`); the labels' limits bind what is proposed when there is no
other evidence (`ActionLimits`); merging with the defaults is idempotent
(`MergingIsStable`); more evidence never makes the proposal milder, of a message with a
ruled label (`EvidenceNeverWeakens`); and `ShadowForgetsProposals`, which is a flaw (§6).
The severest of a set of actions exists because actions are numbers up to 8
(`SeverestExists`); the rest is by cases.

Of ModerationIntake, for any messages, handlers, workers, attempts and size of the queue:

- `IntakeTypeCorrect`: `IntakeSpec => []IntakeTypeOK`, at any pace: the queue is bounded, and
  a task that sleeps has an attempt left.
- `GifAskedOnce` and `EverythingSeen`: `IntakeSpec => []OneGifRequest` and `[]NothingMissed`,
  assuming `Calm`, because an update between a check and its effect does submit twice or miss
  one (§6). `IntakeInv` says of each message that what the gateway still has to deliver
  leads from the bot's object to Discord's, one edit or embed at a time (`Ordered`), that
  the polling task carries one of these (`TaskTrue`), that a message marked as submitted
  has its embed still to come (`MarkedIsSent`), that at any time at most one of listener,
  task and late update may create a request of a GIF (`AskedOnce`), and that what the bot
  has of it was submitted, is being looked at or is not the last of it (`Seen`).

`RecordsProofs`, of the punishments, for any handlers, commands, entries and failing calls. One lemma
(`Ways`) says of every action what it may do to rows, to Discord and to the one handler that
takes it (`Moved`), and each theorem reads what it needs from that:

- `TypeCorrect`, with `Formed`: a handler has an answer exactly when its program is over, and
  the row or entry it took is there.
- `LiftedByOne`: `Spec => []LiftedOnce`. Whoever lifts a row is past the UPDATE that asks for
  an active one, so the row is not active and nobody else is past it (`LiftInv`).
- `EntryRecordedOnce`: `Spec => []RecordedOnce`, from the unique key (`RecordInv`).
- `ThirdIsNoticed`: `Spec => []EscalationNoticed`. As long as there are three active ones, a
  handler of that kind has been told so or is between its row and its count
  (`EscalationInv`): whoever counts last counts everything.
- `MutedKeepsRow`: `Spec => []MutedHasRow`. While Discord keeps the bot's timeout there is an
  active mute, or a command between its two halves (`Owes`).

`RecordsProofs`, of the events of the guild, for any messages, memory, minutes and failing calls:

- `EventsTypeCorrect`: `EventsSpec => []EventsTypeOK`.
- `DeletionIsLogged`: `EventsSpec => []DeletionLogged`. What the log remembers is in the order
  in which it was written, with gaps where messages were deleted (`InOrder`); so the one that is
  pushed out is none of the newest, and of the newest whatever is still there is remembered
  (`RecentKept`). Hence every deletion that is owed has a handler, and only one (`EventsInv`):
  it begins when the message goes, which happens once.
- `BotDeletesAreBots`: `EventsSpec => []BotIsCredited`. What the bot is about to delete and is
  still there is in `_bot_deleted_message_ids` (`Registered`): nobody else's handler takes it,
  as the message would be gone with it. So the handler of the bot's deletion is past the audit
  log from its start (`DeletionOK`). No call needs to succeed for that. It is about what
  the moderation deletes; a `/purge` of one message is not registered (§6).
- `StatsCorrect`: `EventsSpec => []StatsAreReal`. The counter covers the messages of the history
  together with those about to be kept (`Accounted`), which gives the first half
  (`HistoryInCounter`). Of the minutes in voice, the second half, every one is in one place only:
  in the table, with a handler that has yet to add it, or in the open session (`VoiceInv`):
  `stats.minutes + Cardinality(Unwritten) + InSession <= spent`. It needs the session to be
  popped before the write is awaited, or two moves would carry the same minutes. A sum over the
  handlers would be a recursion, so the minutes under way are counted as a set of pairs of
  handler and minute.

`BotLifecycleProofs`, for any callers, attempts, commands, guilds, modules and signals:

- `TypeCorrect`, of all three modules.
- `RowIdIsOwn` and `ConnectionsClosed`: `Spec => []OwnRowId` and `[]NoConnectionLeft`. The
  lock is held from the connection to the answer and the session is the one that was used
  (`CallerOK`), and whatever connection is not the current one is closed (`ConnectionsOK`):
  a caller that finds the connection broken takes a new session, whose LASTVAL is its own. That
  is of rows with a number; of the others `insert` answers with somebody else's id (§6).
- `ExitIsClean`: `Spec => []CleanExit`. `LifeInv` says what a run of `_shutdown` that nothing
  failed has stopped at each of its steps, and that at most one of them is under way.
- `CommandsSynced`: `Spec => []CommandsAreSynced`. A run of the synchronisation has seen the
  commands it passed and they stay (`EachOK`). The copies in a guild are the hard part, since
  two runs delete from lists they read at different times and a deletion of what is gone
  ends the run that asks for it: of two that clean one guild, one has the complete list
  (`CleansWell`), and a guild that the last clean-up has passed is bare or in the hands of
  one with the complete list (`GuildOK`).

`ActivityAccessProofs` proves `RightsAreFresh`: `Spec => []FreshRights`, for any users,
roles, requests and times: what Discord has taken away is believed for `CONTEXT_TTL +
FETCH_LIMIT` at most, however many requests share a fetch. `FreshRights` speaks of
contexts only and is not inductive: a context is what a fetch has read, so `RightsInv`
says of each fetch, too, that what it has read was true at most as long ago as it lasts
(`FetchTrue`), and of each context that it is as old as its age and its fetch
(`ContextTrue`). Of the actions of the module only those of `RightsStep` touch these
variables (`NextRights`).

`TypeCorrect`, `AuthorityIsTrue` (`Spec => []AuthorityIsRecent`) and `BuiltinsComeFirst`
(`Spec => []SyncedHasBuiltins`) are of the whole module, from `AccessInv`: what a request
carries fits the call it awaits (`Fits`); one that ensures the builtin roles has ensured
those before the one it is at, and one that writes assignments has ensured all (`Ensures`,
which is stable because roles of the code are never deleted); what it has read of the guild
is true unless rights changed since it began, and who is verified administers the server
unless they changed since what he was verified by was cached (`Asked`).

Of ControlAssertion: an assertion is refused for good 135 seconds after it was first
accepted (`AssertionsExpire`); one for reading opens nothing that manages, and the other
way round (`ReadingIsNotManaging`); it opens one organisation and one guild
(`OneOrganizationOneGuild`). They are first-order facts of the guards, for any times and
identifiers.

`SharedTablesProofs` has the two modules in which two processes write the same rows. It
extends CreatorAlerts and has ReviewDesk as the instance `Desk`. Of Labelling and ReviewDesk,
for any users, messages, labels, commands and reviewers at once:

- `LabelAudit` and `Revocation` of the labelling. Whoever is about to audit has done what
  he will write, and nobody can undo it in between (`Pending`), because rows are never
  deleted, keep their author and stay revoked (`LabelsStay`).
- `ReviewIsSerial`, `CoreHears` and `CorrectionsKept` of the desk, from `DeskInv`: the row
  a save has read is the row there is as long as the revision is still the one it was
  given (`Current`); a save that is about to audit has moved the item past its revision,
  and no audit of that revision is there yet (`SavedOnce`), for one save only
  (`OneSaves`); every audit is of a revision that has passed (`Past`). The guarded UPDATE
  is what makes it inductive: of two saves of one revision the first raises it and the
  other finds no row.

- `DeskRefined`: `Desk!Spec => Register!Spec`, that ReviewDesk implements ReviewRegister. A
  save's guarded UPDATE is the register's `Correct`, its call of Core `Tell`, its audit `Audit`,
  what opens items `Open`; everything else, the labelling included, leaves the register as it
  is. `RowsInv` carries it: an item's row is the last of its rows, which are numbered without a
  gap (`LastRow`); the row a save has read is among them (`Had`), and the correction it is about
  to audit is, too (`Made`).

Of CreatorAlerts, for any members, streams, saves, changes and failures, and whatever
publishers overlap:

- `AlertsTypeCorrect`: `Spec => []TypeOK`.
- `NothingIsEchoed`: `Spec => []NoEcho`. A row knows of its last announcement at most what is
  true of it (`RowTold`), a row a publisher holds is no older than that (`TodoTold`), and
  what is about to be posted was new by that row (`SendNew`). What overlapping publishers
  announce twice (§6) is what none of them could know from its row.

`GuildProofs` extends RolePanels and has GuildSettings as the instance `Guild`. Of RolePanels,
for any roles, members, administrators, panels and bounds, whatever overlaps, fails or is
restarted:

- `PanelsTypeCorrect`: `Spec => []TypeOK`; a panel never has two buttons of one role.
- `RolesKnown`: `Spec => []OnlyKnownRoles`, the bot gives no role it does not know. Roles reach a
  member by a button of a message, by a reaction, or on joining, and messages, callbacks and
  listeners keep roles long after the rows are gone (§6). So `RolesIn(K)` says that
  everything that carries a role carries one of K: rows and fingerprints, messages, callbacks,
  listeners, what a command has in hand and what it has read. It is stated of a constant K
  and proved to be preserved as long as the known roles are among K (`RolesStay`); K is then the
  roles known after the step, which are those known before and perhaps more (`Widened`).
- `LimitKept`: `Spec => []LimitHolds`. add_button_to_panel counts in one statement and inserts
  in another (role_service.py:170), so the limit itself does not hold (§6); a panel passes it
  by at most one button less than there are administrators. `LimitInv` adds to the buttons
  those who have counted and not yet inserted (`Inserting`): whoever joins them has seen
  room for one, and whoever inserts leaves them.
- `RemovedForGood`: `Spec => GoneForGood`. A row is only ever made by the command that
  sent the message, which writes it once (`Born`); buttons, fingerprints and the mark of a
  rendering are written by UPDATEs and INSERTs that find nothing when the panel is gone.

Of GuildSettings, for any forms, editors, pages and channels: `FormsAreApart` (a
form changes its own fields of a row that is there and no others, although it read the row
before), `EditsAreApart` (a command nobody overtook changes one section) and
`CoverageIsExact` (a save of coverage nobody disturbed covers what it asked for).
`SettingsInv` adds that a submitted form gives its own fields only (`GivenOwn`), that a
fresh edit holds the current policy (`FreshIsCurrent`) and what an undisturbed save has
inserted so far (`AloneSoFar`).

**Assumptions.** Each module that has any names them (`VoiceRoomsAssumption`,
`VoiceControlAssumption`, `ModerationIntakeAssumption` and so on), and TLC evaluates them on
each run. They say that bounds are naturals, that a marker like `Nobody` or `NoUser` is not a
member, and what the code fixes: `ActivityAccessAssumption` that the slugs are those of
BUILTIN_ACCESS_ROLES, `RolePanelsAssumption` that administrators are finitely many and none of
the loops, `LifecycleAssumption` that no module is called "bot" or "container",
`SyncAssumption` that a guild lists a command once. The hypotheses that theorems have
besides are those named above: a pace (`Serial`, `Calm`, `Prompt`, `Orderly`), calls that do not fail,
kinds of operation. Each is there because the property is false without it, as TLC shows and
§6 or the paragraph of the theorem says; the run of that property satisfies them all.

Type correctness is a theorem for VoiceRooms, VoiceControl, ModerationEnforcement,
ModerationIntake, Punishments, GuildEvents, BotLifecycle (with Database and CommandSync), ActivityAccess
(with DiscordRights), CreatorAlerts and RolePanels, and a conjunct of a proved invariant for Labelling,
ReviewDesk and GuildSettings.

**Only model-checked.** All liveness: `QueueDrains`, `RolesReturn`, `SignalEnds`,
`LiveIsAnnounced`, `EmptyRoomCleaned`, `AdminRegained` and the properties of the run `panels` need
fairness, hence ENABLED, which no prover here handles.

## 6. Where code and documents disagree

Reproduced by TLC: run the configuration named on the module named, and the property is
violated.

| configuration, module | property | what happens |
|---|---|---|
| `VoiceRoomsTrigger.cfg`, MCVoiceRooms | `EmptyRoomCleaned` | voice_cog.py:75: whoever goes from a room straight into the trigger channel takes the branch that returns before the room left behind is looked at; an empty room then has no delayed delete |
| `VoiceRoomsHalfDeleted.cfg`, MCVoiceRooms | `NoEmptyChannelStays` | voice_service.py:67: `delete` drops the row and then awaits `channel.delete` in a task that a join which read the row earlier may still cancel: the channel stays, without a row, for good |
| `VoiceControlActivityBan.cfg`, MCVoiceControl | `BanStands` | voice_room_service.py:102: the Activity disconnects a banned admin before it clears the seat, and the bot's listener then removes the overwrite that bans him |
| `ModerationIntakeMissed.cfg`, ModerationIntake | `NothingMissed` | ai_moderation_cog.py:125: an update that comes after the last fetch of the task of a GIF is left to that task, which does not look again |
| `ModerationEnforcementRoles.cfg`, MCModerationEnforcement | `NoRoleGivenUp` | ai_moderation_cog.py:670: `_restore_roles` passes over roles the cache still lists, so a timeout refused before GUILD_MEMBER_UPDATE arrives gives nothing back, and no row has the roles |
| `PunishmentsEscalation.cfg`, MCPunishments | `EscalationIsEarned` | logging_cog.py:341: a mute by command is recorded again as the audit log's timeout, and both count |
| `RolePanels.cfg` with it as PROPERTY, RolePanels | `PanelsAnswer` | roles_cog.py:37: views are registered before the bot has guilds; after a restart the buttons of a rendered panel answer nobody |
| `ActivityAccessOwner.cfg`, MCActivityAccess | `AdministratorsManage` | rbac_service.py:89: an owner without a role that has Administrator synchronises for ever and is never let into Access Control |
| `ReviewDeskFeedback.cfg`, ReviewDesk | `CoreAgrees` | ai_moderation_service.py:324: Core is told before the guarded UPDATE, and keeps the first of two feedbacks of one revision although the desk keeps the other |

Shown by a theorem: `ShadowForgetsProposals` (a recommendation to review comes out of
Shadow Mode without the severer proposal that docs/ARCHITECTURE.md:70 says is preserved)
and `Revocation` (a label taken back can never be given again).

Met while modelling, read in the code, and not configurations of their own:

- *rooms*: a room whose last human leaves while a bot stays, and which the bot then leaves, is
  empty with no delete due, as the listener returns for bots (voice_cog.py:40) and emptiness counts
  them (:84); so is one whose user leaves it before `create` has inserted its row (:79); a restart
  forgets a scheduled delete, and the empty room stays until somebody leaves it again; of users
  in a hurry, a join handled late cancels the delete of the leave that followed it; two
  calls of one user pass the check of `_creating` (voice_service.py:40) together;
- *control*: a claim and a transfer under way together can make the admin the owner as
  well (`AdminNeverOwner` fails without `Serial`); the Activity's claim updates the row
  unconditionally and takes a seat that was taken since it read it; inviting the admin
  replaces the overwrite that gives the power;
- *enforcement*: a timeout that was applied but whose record or report failed aborts the
  incident, and the next flood message times the member out again
  (ai_moderation_cog.py:438); a decision that outlives its own incident and then fails
  aborts the incident that followed (`OneTimeoutPerIncident` fails without `Prompt`);
  roles are given up in four ways (`givenUp`): `_restore_roles` passes over cached roles, in the
  except clause and in the loop (:670); the upsert replaces the roles of a timeout not given back
  yet (ai_moderation_repository.py:82); `remove_roles` or `add_roles` fails half way (:655), outside
  the `try` that would give back what is off already; and
  `mark_roles_restored` marks whatever row the member has by then; a timeout that takes no
  role off does not postpone a restoration already due (:623, against the docstring at
  :83);
- *intake*: `on_message` awaits the settings before it marks a GIF as pending: an embed
  that arrives meanwhile is submitted on its own, and the GIF twice;
- *policy*: a label without a rule and a host that is not allowed lower a DELETE or a BAN
  to REVIEW; the pattern of the blacklist looks for a backslash and a `w` instead of the
  edge of a word, and matches inside words;
- *review and labelling*: the review queue lets in one owner whose id is written into
  ai_moderation_service.py:215; an ADMIN of a guild no longer trusted still sets the
  access to the metrics;
- *settings*: after `/welcome media` or `channels` made the row, its colour is NULL and
  `/welcome setup` fails until a reset (`SetupOpens`); the answer of create_or_update is
  dropped and "saved" shown (`SavedIsSaved`); a disabled welcome still sends the default
  text (`DisabledIsQuiet`); a field or channel once set is never cleared by the forms; a
  toggle without a row has no effect; two commands of `/ai-policy` that overlap lose one
  edit (`EditsKeepSaved`); save_channels leaves channels uncovered meanwhile, and for good
  when a statement fails (`StaysCovered`), and two saves that overlap leave the union of
  their lists;
- *punishments*: `/quick_warn` and `/quick_mute` show success although refused
  (moderation_cog.py:495); unban always answers success; revoking from the list logs first
  and never lifts at Discord; unmute deactivates only the newest mute; a mute takes
  administrator roles and does not give them back when the timeout fails;
- *events and statistics*: a `/purge` that finds one message (moderation_cog.py:395) is an ordinary
  deletion nobody registered, logged as the author's, or as a moderator's whose entry shows at that
  moment; on_raw_bulk_delete never finds the deleter; a deletion by the
  author that overlaps with one of the bot is credited to the bot; a change of the voice
  administrator hides other overwrites of the same update; `/stats user` calls a method
  nobody has;
- *lifecycle*: an INSERT whose answer was lost is repeated and exists twice
  (connection.py:125); `insert` into a table without numbers returns another row's id, or
  None (:136), and so does an ON CONFLICT without a row; a room that empties while the bot shuts down starts a timer that
  outlives the database; an exception of the AI module's shutdown ends `_shutdown` for
  that signal;
- *creators*: a video is announced every two hours; the Activity announces a video for a
  source of kind stream; an exception of the scan, or of the list of sources (streams_cog.py:48), ends
  the loop of the monitor; two saves
  that overlap exceed the limit of sources; overlapping publishers announce twice; a mark
  that failed announces again in the next round; without a channel a source is marked as
  announced;
- *panels*: of two overlapping edits the older may be shown and marked last; deleting a
  panel leaves listeners and callbacks; a role pressed while it is being removed stays;
  two overlapping additions exceed the limit of buttons; `/sync_roles` clears
  `display_emoji`;
- *access*: a role that lost Administrator keeps its assignment; permissions of builtin
  roles are reset by every request; @everyone can be assigned a role without effect; the
  Control API mixes roles and permissions read at three times; a failed read of a member
  is cached as "no roles".

`PROJECT.json` has the main ones as findings, with the lines of code and document.

## 7. What is not modelled

Of the modelled components: names, limits, regions and locks of rooms, the panel's
messages, and the Activity's delete of a room; the bot's and the Activity's permission
checks beyond those the properties are about; moderation decisions other than timeouts,
and the shutdown of the queue; the policy of media, the simulation and the access to
metrics of AI moderation; the history of joins; purge, lists and pages of punishments;
texts, tops and charts of log and statistics; the migrations and the retention cleanup of
the database; titles and layouts of alerts and panels; the eviction of cached contexts,
the semaphore of the Discord client, and cancellation of a fetch others share. Several
guilds are left out everywhere: all state is per guild.

Not modelled at all: the Activity's services that read and answer or write one row of one
administrator (dashboard, developer blog, image proxy, health, OAuth, integrations,
settings of the bot); the settings of channels and purposes and the exports of the bot;
the Activity's client, embeds and views (presentation; their requests are inputs of the
modules); the clients of YouTube, Twitch, Kick and Muxivo Core beyond what they answer
(requests and parsing); domain types, schema and migrations (declarations, which the
modules take as the types of their state).

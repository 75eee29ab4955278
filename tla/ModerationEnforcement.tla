------------------------ MODULE ModerationEnforcement -------------------------
(***************************************************************************)
(* What the workers do with the decisions to time out one member, one      *)
(* decision per message: flood decisions are gathered into incidents, the  *)
(* administrator roles Discord does not allow on a member in timeout are   *)
(* taken off and recorded, and a loop gives them back.  Decisions of the   *)
(* other kinds change none of this state.                                  *)
(***************************************************************************)
EXTENDS Naturals, FiniteSets

CONSTANTS Messages,   \* with a decision TIMEOUT that is not a dry run
          Floods,     \* those labelled FLOOD
          Duration,   \* of each decision's timeout
          Workers,    \* how many decisions are carried out at a time
          AdminRoles, \* roles with the administrator permission
          Fixed,      \* those the bot may not take or give
          Held,       \* those the member has at the start
          Faults,     \* calls that may raise
          Grants,     \* bound: roles given to the member by people
          Horizon,    \* bound: the clock
          LastStart,  \* bound: no decision is taken up later
          Prompt      \* the clock waits for decisions under way

Fallible == {"delete", "strip", "timeout", "schedule", "rollback", "record",
             "report", "restore", "mark"}

ASSUME ModerationEnforcementAssumption ==
    /\ Floods \subseteq Messages
    /\ Duration \in [Messages -> Nat \ {0}]
    /\ Workers \in Nat \ {0}
    /\ Fixed \subseteq AdminRoles /\ Held \subseteq AdminRoles \ Fixed
    /\ Faults \subseteq Fallible
    /\ Grants \in Nat /\ LastStart \in Nat /\ Horizon \in Nat \ {0}
    /\ Prompt \in BOOLEAN

VARIABLES now,
          roles,      \* administrator roles the member holds
          seen,       \* those in member.roles, the bot's cache
          incident,   \* FloodEnforcementCoordinator: expires_at, 0 when none
          row,        \* ai_moderation_role_restorations
          loop,       \* the restoration loop and the roles it is giving back
          at,         \* where each decision is
          removed,    \* the roles each decision is taking, has taken or is giving back
          punished,   \* messages of which a timeout was recorded (history)
          begun,      \* when the incident of a primary began, 0 for the rest and
                      \* when it is aborted (history)
          struck,     \* messages whose timeout Discord accepted (history)
          owed,       \* roles taken off and not given back (history)
          passed,     \* roles of the row that the loop's round is not to give back (history)
          givenUp,    \* roles of owed given up at a line known to do so (history)
          granted

decision == <<at, removed>>
hist == <<punished, begun, struck, owed, passed, givenUp>>
vars == <<now, roles, seen, incident, row, loop, decision, hist, granted>>

Stages == {"queued", "delete", "coalesce", "strip", "timeout", "schedule",
           "rollback", "refused", "record", "report", "done"}

NoRow == [roles |-> {}, due |-> 0, restored |-> TRUE]
Row == [roles : SUBSET AdminRoles, due : Nat, restored : BOOLEAN]
Loop == [stage : {"asleep", "restore", "mark", "ended"}, roles : SUBSET AdminRoles]
Asleep == [stage |-> "asleep", roles |-> {}]

TypeOK ==
    /\ now \in 1..Horizon
    /\ roles \subseteq AdminRoles /\ seen \subseteq AdminRoles
    /\ incident \in Nat
    /\ row \in Row
    /\ loop \in Loop
    /\ at \in [Messages -> Stages]
    /\ removed \in [Messages -> SUBSET AdminRoles]
    /\ punished \subseteq Messages /\ struck \subseteq Messages
    /\ begun \in [Messages -> 0..Horizon]
    /\ owed \subseteq AdminRoles /\ passed \subseteq AdminRoles /\ givenUp \subseteq AdminRoles
    /\ granted \in 0..Grants

Init ==
    /\ now = 1
    /\ roles = Held
    /\ seen = roles
    /\ incident = 0
    /\ row = NoRow
    /\ loop = Asleep
    /\ at = [m \in Messages |-> "queued"]
    /\ removed = [m \in Messages |-> {}]
    /\ punished = {} /\ struck = {} /\ owed = {} /\ passed = {} /\ givenUp = {}
    /\ begun = [m \in Messages |-> 0]
    /\ granted = 0

-----------------------------------------------------------------------------

UnderWay == {m \in Messages : at[m] \notin {"queued", "done"}}

Goto(m, stage) == at' = [at EXCEPT ![m] = stage]

\* Time passes.
Tick ==
    /\ now < Horizon
    /\ Prompt => UnderWay = {}
    /\ now' = now + 1
    /\ UNCHANGED <<roles, seen, incident, row, loop, decision, hist, granted>>

\* GUILD_MEMBER_UPDATE: the cache learns the roles the member has now.
MemberUpdate ==
    /\ seen # roles
    /\ seen' = roles
    /\ UNCHANGED <<now, roles, incident, row, loop, decision, hist, granted>>

\* The member has r (again).
Holds(r) ==
    /\ roles' = roles \cup {r}
    /\ owed' = owed \ {r}
    /\ givenUp' = givenUp \ {r}

\* Somebody makes the member an administrator (again).
Grant(r) ==
    /\ granted < Grants
    /\ r \notin roles
    /\ granted' = granted + 1
    /\ Holds(r)
    /\ UNCHANGED <<now, seen, incident, row, loop, decision, punished, begun,
                   struck, passed>>

-----------------------------------------------------------------------------
(* handle_decision                                                         *)

\* Mutation: an incident is never joined.
Joins_Never(m) == FALSE

\* begin_or_join: there is an incident that has not expired.
Joins(m) == incident > now

Manageable == AdminRoles \ Fixed

\* A worker takes the decision up.  A member the bot may not time out is only
\* warned, which is the end of the decision here; a flood decision begins an
\* incident or is coalesced with the one there is.
Decide(m) ==
    /\ at[m] = "queued"
    /\ Cardinality(UnderWay) < Workers
    /\ now <= LastStart
    /\ \/ /\ seen \cap Fixed # {}
          /\ Goto(m, "done")
          /\ UNCHANGED <<incident, begun>>
       \/ /\ seen \cap Fixed = {}
          /\ IF m \notin Floods
             THEN Goto(m, "delete") /\ UNCHANGED <<incident, begun>>
             ELSE IF Joins(m)
             THEN Goto(m, "coalesce") /\ UNCHANGED <<incident, begun>>
             ELSE /\ Goto(m, "delete")
                  /\ incident' = now + Duration[m]
                  /\ begun' = [begun EXCEPT ![m] = now]
    /\ UNCHANGED <<now, roles, seen, row, loop, removed, punished, struck,
                   owed, passed, givenUp, granted>>

\* _coalesce_flood_message: the message is deleted, or that fails.
Coalesce(m) ==
    /\ at[m] = "coalesce"
    /\ Goto(m, "done")
    /\ UNCHANGED <<now, roles, seen, incident, row, loop, removed, hist, granted>>

\* The message is gone; the roles to take off are those the cache lists.
Delete(m) ==
    /\ at[m] = "delete"
    /\ Goto(m, IF seen \cap Manageable = {} THEN "timeout" ELSE "strip")
    /\ removed' = [removed EXCEPT ![m] = seen \cap Manageable]
    /\ UNCHANGED <<now, roles, seen, incident, row, loop, hist, granted>>

\* remove_roles takes the roles off one at a time; the decision knows them all.
Strip(m) ==
    /\ at[m] = "strip"
    /\ \E r \in removed[m] :
           /\ r \in roles
           /\ roles' = roles \ {r}
           /\ owed' = owed \cup {r}
           /\ Goto(m, IF roles \cap removed[m] = {r} THEN "timeout" ELSE "strip")
    /\ UNCHANGED <<now, seen, incident, row, loop, removed, punished,
                   begun, struck, passed, givenUp, granted>>

\* The last of them was off already.
Stripped(m) ==
    /\ at[m] = "strip"
    /\ roles \cap removed[m] = {}
    /\ Goto(m, "timeout")
    /\ UNCHANGED <<now, roles, seen, incident, row, loop, removed, hist, granted>>

\* Mutation: what was taken off is not given back.
RollsBack_Not(m, gone) ==
    /\ Goto(m, "refused")
    /\ removed' = [removed EXCEPT ![m] = {}]
    /\ UNCHANGED givenUp

\* Mutation: the clause does not raise again.
RollsBack_Swallows(m, gone) ==
    /\ Goto(m, "record")
    /\ UNCHANGED <<removed, givenUp>>

\* The except clause of the TIMEOUT branch calls _restore_roles, which passes
\* over the roles the cache still lists, as if they were held already.
RollsBack(m, gone) ==
    LET back == removed[m] \ seen IN
    /\ Goto(m, IF back = {} THEN "refused" ELSE "rollback")
    /\ removed' = [removed EXCEPT ![m] = back]
    /\ givenUp' = givenUp \cup gone \cup (removed[m] \cap seen \cap owed)

\* member.timeout; Discord does not time out an administrator.
Timeout(m) ==
    /\ at[m] = "timeout"
    /\ \/ /\ roles = {}
          /\ struck' = struck \cup {m}
          /\ Goto(m, IF removed[m] = {} THEN "record" ELSE "schedule")
          /\ UNCHANGED <<removed, givenUp>>
       \/ /\ roles # {}
          /\ RollsBack(m, {})
          /\ UNCHANGED struck
    /\ UNCHANGED <<now, roles, seen, incident, row, loop, punished, begun, owed,
                   passed, granted>>

Later(a, b) == IF a > b THEN a ELSE b

\* The upsert of schedule_role_restoration.
Scheduled(m) ==
    [roles |-> removed[m], due |-> Later(row.due, now + Duration[m]),
     restored |-> FALSE]

\* What a row not restored yet listed, and the row that replaces it does not.
Replaced(m) == IF row.restored THEN {} ELSE (row.roles \ removed[m]) \cap owed

\* The upsert is done; a round of the loop under way does not know of it.
Upsert(m) ==
    /\ row' = Scheduled(m)
    /\ passed' = IF loop.stage \in {"restore", "mark"} THEN passed \cup removed[m] ELSE passed

Schedule(m) ==
    /\ at[m] = "schedule"
    /\ Upsert(m)
    /\ givenUp' = givenUp \cup Replaced(m)
    /\ removed' = [removed EXCEPT ![m] = {}]
    /\ Goto(m, "record")
    /\ UNCHANGED <<now, roles, seen, incident, loop, punished, begun, struck,
                   owed, granted>>

\* The upsert raises, with the row written or not.
ScheduleRaises(m) ==
    /\ at[m] = "schedule"
    /\ "schedule" \in Faults
    /\ \/ UNCHANGED <<row, passed>> /\ RollsBack(m, {})
       \/ Upsert(m) /\ RollsBack(m, Replaced(m))
    /\ UNCHANGED <<now, roles, seen, incident, loop, punished,
                   begun, struck, owed, granted>>

\* add_roles gives the roles back one at a time; then the clause raises again.
Rollback(m) ==
    /\ at[m] = "rollback"
    /\ \E r \in removed[m] :
           /\ Holds(r)
           /\ removed' = [removed EXCEPT ![m] = @ \ {r}]
           /\ Goto(m, IF removed[m] = {r} THEN "refused" ELSE "rollback")
    /\ UNCHANGED <<now, seen, incident, row, loop, punished, begun, struck, passed,
                   granted>>

\* _record_ai_punishment
Record(m) ==
    /\ at[m] = "record"
    /\ punished' = punished \cup {m}
    /\ Goto(m, "report")
    /\ UNCHANGED <<now, roles, seen, incident, row, loop, removed, begun,
                   struck, owed, passed, givenUp, granted>>

\* report_action and the rest, which changes nothing of this.
Report(m) ==
    /\ at[m] = "report"
    /\ Goto(m, "done")
    /\ UNCHANGED <<now, roles, seen, incident, row, loop, removed, hist, granted>>

\* abort: the next flood decision begins an incident of its own.
Aborted(m) == IF m \in Floods THEN 0 ELSE incident

\* Discord refused, and the member is warned instead; or the decision failed.
Refused(m) ==
    /\ at[m] = "refused"
    /\ incident' = Aborted(m)
    /\ begun' = [begun EXCEPT ![m] = 0]
    /\ Goto(m, "done")
    /\ UNCHANGED <<now, roles, seen, row, loop, removed, punished, struck, owed,
                   passed, givenUp, granted>>

\* Within the try of the TIMEOUT branch the roles are given back first; a call
\* that takes off or gives back several roles may have done a part of them, and
\* nobody knows the rest.
Fails(m) ==
    \/ at[m] = "timeout" /\ RollsBack(m, {})
    \/ /\ at[m] \in {"strip", "rollback"}
       /\ Goto(m, "refused")
       /\ givenUp' = givenUp \cup (removed[m] \cap owed)
       /\ removed' = [removed EXCEPT ![m] = {}]
    \/ /\ at[m] \notin {"strip", "timeout", "rollback"}
       /\ Goto(m, "refused")
       /\ UNCHANGED <<removed, givenUp>>

\* A call raises.
Raises(m) ==
    /\ at[m] \in Faults
    /\ at[m] \in {"delete", "strip", "timeout", "rollback", "record", "report"}
    /\ Fails(m)
    /\ UNCHANGED <<now, roles, seen, incident, row, loop, punished, begun, struck,
                   owed, passed, granted>>

-----------------------------------------------------------------------------
(* restore_administrator_roles, once a minute.                             *)

\* Mutation: a row is due at its time only, and not after.
Due_Exactly == ~row.restored /\ row.due = now

\* list_due_role_restorations
Due == ~row.restored /\ row.due <= now

\* The roles the cache lists already are passed over; with none left the row is
\* marked at once.
LoopLists ==
    /\ loop.stage = "asleep"
    /\ Due
    /\ loop' = [stage |-> IF row.roles \subseteq seen THEN "mark" ELSE "restore",
                roles |-> row.roles \ seen]
    /\ passed' = row.roles \cap seen
    /\ UNCHANGED <<now, roles, seen, incident, row, decision, punished, begun, struck,
                   owed, givenUp, granted>>

\* add_roles, one role at a time.
LoopRestores ==
    /\ loop.stage = "restore"
    /\ \E r \in loop.roles :
           /\ Holds(r)
           /\ loop' = [stage |-> IF loop.roles = {r} THEN "mark" ELSE "restore",
                       roles |-> loop.roles \ {r}]
    /\ UNCHANGED <<now, seen, incident, row, decision, punished, begun, struck,
                   passed, granted>>

\* mark_roles_restored: the row of the member, with whatever it lists by now.
LoopMarks ==
    /\ loop.stage = "mark"
    /\ row' = [row EXCEPT !.restored = TRUE]
    /\ loop' = Asleep
    /\ givenUp' = givenUp \cup (passed \cap owed)
    /\ passed' = {}
    /\ UNCHANGED <<now, roles, seen, incident, decision, punished, begun, struck,
                   owed, granted>>

\* An exception ends the loop for good.
LoopRaises ==
    /\ loop.stage \in Faults
    /\ loop' = [stage |-> "ended", roles |-> {}]
    /\ passed' = {}
    /\ UNCHANGED <<now, roles, seen, incident, row, decision, punished, begun, struck,
                   owed, givenUp, granted>>

-----------------------------------------------------------------------------

Carry(m) ==
    \/ Coalesce(m) \/ Delete(m) \/ Strip(m) \/ Stripped(m) \/ Timeout(m)
    \/ Schedule(m) \/ ScheduleRaises(m) \/ Rollback(m) \/ Record(m) \/ Report(m)
    \/ Refused(m) \/ Raises(m)

Restore == LoopLists \/ LoopRestores \/ LoopMarks \/ LoopRaises

Next ==
    \/ Tick \/ MemberUpdate
    \/ \E r \in AdminRoles : Grant(r)
    \/ \E m \in Messages : Decide(m) \/ Carry(m)
    \/ Restore

Spec == Init /\ [][Next]_vars

\* The clock does not stop, and tasks that can run are run.
FairSpec == Spec /\ WF_vars(Tick) /\ WF_vars(Restore)
                 /\ \A m \in Messages : WF_vars(Carry(m))

-----------------------------------------------------------------------------
(* Properties.                                                             *)

\* One timeout per flood incident: two flood decisions that were carried out
\* began at least the first one's duration apart.  A timeout whose row or record
\* could not be written is not counted: its incident is aborted, and the next
\* flood decision times the member out again.
Standing == {m \in struck \cap Floods : m \in punished \/ at[m] \in {"schedule", "record"}}
OneTimeoutPerIncident ==
    \A m, n \in Standing :
        m # n /\ begun[m] <= begun[n] => begun[n] >= begun[m] + Duration[m]

\* Only a timeout that Discord accepted is held against the member.
RecordedWasApplied == punished \subseteq struck

\* A role taken off the member is known to whoever will give it back: a row
\* that is not restored, or a decision between taking it off and writing the
\* row.  The code gives up roles it should keep in four ways: _restore_roles
\* passes over what the cache still lists (RollsBack, LoopLists), an upsert
\* replaces the roles of an earlier timeout (Replaced), the loop marks a row
\* written again meanwhile (Upsert), and remove_roles or add_roles fails half
\* way (Fails).  There is no other way to lose one.
Remembered(r) ==
    \/ ~row.restored /\ r \in row.roles
    \/ \E m \in Messages : r \in removed[m]
RolesNotLost == \A r \in owed \ givenUp : Remembered(r)

\* What docs/TERMS_OF_SERVICE.md:155 says, that roles recorded are returned: the
\* four ways make it false.
NoRoleGivenUp == givenUp = {}

\* What is taken off the member comes back in the end, whether the timeout ends
\* or was refused, as long as the loop runs, unless it was given up as above.
RolesReturn ==
    \A r \in Manageable :
        r \in owed \ givenUp ~> r \notin owed \/ r \in givenUp \/ loop.stage = "ended"
=============================================================================

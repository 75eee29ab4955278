---------------------------- MODULE ModerationProofs ----------------------------
(***************************************************************************)
(* Proofs about AI moderation.  ModerationEnforcement, for every set of    *)
(* messages, roles and failures, every duration and number of workers:     *)
(* type correctness, that only an accepted timeout is recorded, one        *)
(* timeout per incident, and that a role taken off is not forgotten.       *)
(* ModerationPolicy, for every policy: what the enforcer lets through.     *)
(* ModerationIntake, for every set of messages, handlers and workers and   *)
(* every queue: a GIF is submitted once and nothing is missed.             *)
(***************************************************************************)
EXTENDS ModerationEnforcement, ModerationPolicy, ModerationIntake, TLAPS

LEMMA TypeInit == Init => TypeOK
  BY ModerationEnforcementAssumption
     DEF Init, TypeOK, NoRow, Row, Asleep, Loop, Stages

LEMMA GotoType ==
  ASSUME TypeOK, NEW m \in Messages, NEW s \in Stages, Goto(m, s)
  PROVE  at' \in [Messages -> Stages] /\ at'[m] = s
             /\ \A n \in Messages \ {m} : at'[n] = at[n]
  BY DEF TypeOK, Goto

LEMMA TypeNext == TypeOK /\ [Next]_vars => TypeOK'
  <1> SUFFICES ASSUME TypeOK, [Next]_vars PROVE TypeOK'
    OBVIOUS
  <1> USE ModerationEnforcementAssumption DEF TypeOK, decision, hist
  <1>1. CASE Tick \/ MemberUpdate
    BY <1>1 DEF Tick, MemberUpdate
  <1>2. ASSUME NEW r \in AdminRoles, Grant(r) PROVE TypeOK'
    BY <1>2 DEF Grant, Holds
  <1>3. ASSUME NEW m \in Messages, Decide(m) PROVE TypeOK'
    <2>1. Duration[m] \in Nat
      OBVIOUS
    <2>2. at' \in [Messages -> Stages]
      BY <1>3 DEF Decide, Goto, Stages
    <2>3. incident' \in Nat
      BY <1>3, <2>1 DEF Decide
    <2>4. begun' \in [Messages -> 0..Horizon]
      BY <1>3 DEF Decide
    <2> QED
      BY <1>3, <2>2, <2>3, <2>4 DEF Decide
  <1>4. ASSUME NEW m \in Messages, Carry(m) PROVE TypeOK'
    <2>1. Duration[m] \in Nat
      OBVIOUS
    <2>2. at' \in [Messages -> Stages]
      BY <1>4 DEF Carry, Coalesce, Delete, Strip, Stripped, Timeout, Schedule, ScheduleRaises,
         Rollback, RollsBack, Record, Report, Refused, Raises, Fails, Goto, Stages
    <2>3. CASE Delete(m) \/ Strip(m) \/ Stripped(m) \/ Coalesce(m)
      BY <2>2, <2>3 DEF Delete, Strip, Stripped, Coalesce, Manageable
    <2>4. CASE Timeout(m)
      BY <2>2, <2>4 DEF Timeout, RollsBack
    <2>a. Scheduled(m) \in Row /\ Replaced(m) \subseteq AdminRoles
      BY <2>1 DEF Scheduled, Replaced, Row, Later
    <2>5. CASE Schedule(m)
      BY <2>2, <2>5, <2>a DEF Schedule, Upsert
    <2>6. CASE ScheduleRaises(m)
      BY <2>2, <2>6, <2>a DEF ScheduleRaises, RollsBack, Upsert
    <2>7. CASE Rollback(m)
      BY <2>2, <2>7 DEF Rollback, Holds
    <2>8. CASE Record(m) \/ Report(m)
      BY <2>2, <2>8 DEF Record, Report
    <2>9. CASE Refused(m)
      BY <2>2, <2>9 DEF Refused, Aborted
    <2>10. CASE Raises(m)
      BY <2>2, <2>10 DEF Raises, Fails, RollsBack
    <2> QED
      BY <1>4, <2>3, <2>4, <2>5, <2>6, <2>7, <2>8, <2>9, <2>10 DEF Carry
  <1>5. CASE Restore
    <2>1. CASE LoopLists
      BY <2>1 DEF LoopLists, Row, Loop
    <2>2. CASE LoopRestores
      BY <2>2 DEF LoopRestores, Loop, Holds
    <2>3. CASE LoopMarks
      BY <2>3 DEF LoopMarks, Row, Loop, Asleep
    <2>4. CASE LoopRaises
      BY <2>4 DEF LoopRaises, Loop
    <2> QED
      BY <1>5, <2>1, <2>2, <2>3, <2>4 DEF Restore
  <1>6. CASE UNCHANGED vars
    BY <1>6 DEF vars
  <1> QED
    BY <1>1, <1>2, <1>3, <1>4, <1>5, <1>6 DEF Next

\* The variables of ModerationEnforcement keep their types, whatever fails.
THEOREM TypeCorrect == Spec => []TypeOK
  <1>1. Init => TypeOK
    BY TypeInit
  <1>2. TypeOK /\ [Next]_vars => TypeOK'
    BY TypeNext
  <1> QED
    BY <1>1, <1>2, PTL DEF Spec

-----------------------------------------------------------------------------
(* Only an accepted timeout is recorded.                                    *)

\* A decision that is past the timeout was accepted by Discord.
PastTimeout == {m \in Messages : at[m] \in {"schedule", "record", "report"}}
RecordInv == TypeOK /\ RecordedWasApplied /\ PastTimeout \subseteq struck

LEMMA RecordNext == RecordInv /\ [Next]_vars => RecordInv'
  <1> SUFFICES ASSUME RecordInv, [Next]_vars PROVE RecordInv'
    OBVIOUS
  <1>0. TypeOK /\ TypeOK'
    BY TypeNext DEF RecordInv
  <1> USE DEF RecordInv, RecordedWasApplied, PastTimeout, decision, hist
  <1>1. ASSUME NEW m \in Messages, Decide(m) PROVE RecordInv'
    <2>1. PICK s \in {"done", "delete", "coalesce"} : Goto(m, s)
      BY <1>1 DEF Decide
    <2> QED
      BY <1>0, <1>1, <2>1, GotoType DEF Decide, Stages
  <1>2. ASSUME NEW m \in Messages, Carry(m) PROVE RecordInv'
    <2>1. CASE Timeout(m)
      <3>1. CASE Goto(m, "rollback") \/ Goto(m, "refused")
        BY <1>0, <2>1, <3>1, GotoType DEF Timeout, Stages
      <3>2. CASE struck' = struck \cup {m}
        <4>1. PICK s \in {"record", "schedule", "rollback", "refused"} : Goto(m, s)
          BY <2>1 DEF Timeout, RollsBack
        <4> QED
          BY <1>0, <2>1, <3>2, <4>1, GotoType DEF Timeout, Stages
      <3> QED
        BY <2>1, <3>1, <3>2 DEF Timeout, RollsBack
    <2>2. CASE Record(m)
      BY <1>0, <2>2, GotoType DEF Record, Stages
    <2>3. CASE Schedule(m)
      BY <1>0, <2>3, GotoType DEF Schedule, Stages
    <2>4. CASE \/ Coalesce(m) \/ Delete(m) \/ Strip(m) \/ Stripped(m) \/ ScheduleRaises(m)
               \/ Rollback(m) \/ Report(m) \/ Refused(m) \/ Raises(m)
      <3>1. PICK s \in {"done", "strip", "timeout", "refused", "rollback"} : Goto(m, s)
        BY <2>4 DEF Coalesce, Delete, Strip, Stripped, ScheduleRaises, RollsBack, Rollback,
           Report, Refused, Raises, Fails
      <3>2. UNCHANGED <<punished, struck>>
        BY <2>4 DEF Coalesce, Delete, Strip, Stripped, ScheduleRaises, Rollback, Report,
           Refused, Raises
      <3> QED
        BY <1>0, <3>1, <3>2, GotoType DEF Stages
    <2> QED
      BY <1>2, <2>1, <2>2, <2>3, <2>4 DEF Carry
  <1>3. CASE UNCHANGED <<at, punished, struck>>
    BY <1>0, <1>3
  <1> QED
    BY <1>1, <1>2, <1>3
       DEF Next, vars, Tick, MemberUpdate, Grant, Restore, LoopLists, LoopRestores,
           LoopMarks, LoopRaises

\* No timeout that failed is ever recorded against the member, whatever call
\* raises and however decisions and the restoration loop interleave.
THEOREM RecordedCorrect == Spec => []RecordedWasApplied
  <1>1. Init => RecordInv
    BY TypeInit DEF Init, RecordInv, RecordedWasApplied, PastTimeout
  <1>2. RecordInv /\ [Next]_vars => RecordInv'
    BY RecordNext
  <1>3. RecordInv => RecordedWasApplied
    BY DEF RecordInv
  <1> QED
    BY <1>1, <1>2, <1>3, PTL DEF Spec

-----------------------------------------------------------------------------
(* One timeout per incident, at the pace Prompt states and as long as the  *)
(* report of a decision carried out does not fail.                          *)

\* The flood decision is not through: it may still time the member out, or
\* fail and abort its incident.
Trying(m) ==
    m \in Floods /\ at[m] \in {"delete", "strip", "timeout", "schedule", "record",
                               "rollback", "refused"}
Contender(m) == Trying(m) \/ (m \in Floods /\ m \in punished)

QueuedNotPunished == \A m \in Messages : at[m] = "queued" => m \notin punished
TryingIsNew == \A m \in Messages : Trying(m) => begun[m] = now /\ m \notin punished
BegunBefore == \A m \in Messages : begun[m] <= now
IncidentCovers ==
    \A m \in Messages : Contender(m) =>
        begun[m] + Duration[m] <= now \/ begun[m] + Duration[m] <= incident
Apart ==
    \A m, n \in Messages : Contender(m) /\ Contender(n) /\ m # n /\ begun[m] <= begun[n]
        => begun[n] >= begun[m] + Duration[m]
IncidentInv ==
    /\ TypeOK
    /\ QueuedNotPunished
    /\ TryingIsNew
    /\ BegunBefore
    /\ IncidentCovers
    /\ Apart

LEMMA Numbers ==
  ASSUME TypeOK
  PROVE  /\ now \in Nat /\ incident \in Nat
         /\ \A n \in Messages : Duration[n] \in Nat \ {0} /\ begun[n] \in Nat
  BY ModerationEnforcementAssumption DEF TypeOK

\* A step that begins no incident and ends none.
LEMMA IncidentFrame ==
  ASSUME IncidentInv, TypeOK', UNCHANGED <<now, incident, begun>>,
         \A m \in Messages : at'[m] = "queued" => at[m] = "queued" /\ (m \in punished' => m \in punished),
         \A m \in Messages : Trying(m)' => Trying(m) /\ (m \in punished' => m \in punished),
         \A m \in Messages : Contender(m)' => Contender(m)
  PROVE  IncidentInv'
  <1>1. QueuedNotPunished' /\ TryingIsNew' /\ BegunBefore'
    BY DEF IncidentInv, QueuedNotPunished, TryingIsNew, BegunBefore
  <1>2. IncidentCovers' /\ Apart'
    BY DEF IncidentInv, IncidentCovers, Apart
  <1> QED
    BY <1>1, <1>2 DEF IncidentInv

\* A step of one decision that goes on to another stage and strikes no one.
LEMMA GoingOn ==
  ASSUME IncidentInv, TypeOK', UNCHANGED <<now, incident, begun, punished>>,
         NEW m \in Messages, NEW s \in Stages, Goto(m, s),
         s # "queued", Trying(m)' => Trying(m)
  PROVE  IncidentInv'
  <1>1. at'[m] = s /\ \A n \in Messages \ {m} : at'[n] = at[n]
    BY GotoType DEF IncidentInv
  <1> QED
    BY <1>1, IncidentFrame DEF Trying, Contender

LEMMA BeginIncident ==
  ASSUME IncidentInv, TypeOK', NEW m \in Messages, m \in Floods,
         at[m] = "queued", ~Joins(m), Goto(m, "delete"),
         incident' = now + Duration[m], begun' = [begun EXCEPT ![m] = now],
         UNCHANGED <<now, punished>>
  PROVE  IncidentInv'
  <1>0. /\ now \in Nat /\ incident \in Nat
        /\ \A n \in Messages : Duration[n] \in Nat \ {0} /\ begun[n] \in Nat
    BY Numbers DEF IncidentInv
  <1>1. at'[m] = "delete" /\ \A n \in Messages \ {m} : at'[n] = at[n]
    BY GotoType DEF IncidentInv, Stages
  <1>2. begun'[m] = now /\ \A n \in Messages \ {m} : begun'[n] = begun[n]
    BY DEF IncidentInv, TypeOK
  <1>3. incident <= now
    BY <1>0 DEF Joins
  <1>4. \A n \in Messages \ {m} : (Trying(n)' => Trying(n)) /\ (Contender(n)' => Contender(n))
    BY <1>1 DEF Trying, Contender
  <1>5. QueuedNotPunished' /\ TryingIsNew' /\ BegunBefore'
    BY <1>0, <1>1, <1>2, <1>4
       DEF IncidentInv, QueuedNotPunished, TryingIsNew, BegunBefore
  <1>6. \A n \in Messages \ {m} : Contender(n)' => begun[n] + Duration[n] <= now
    BY <1>0, <1>3, <1>4 DEF IncidentInv, IncidentCovers
  <1>7. IncidentCovers'
    BY <1>0, <1>2, <1>6 DEF IncidentCovers
  <1>8. Apart'
    <2> SUFFICES ASSUME NEW p \in Messages, NEW q \in Messages, p # q,
                        Contender(p)', Contender(q)', begun'[p] <= begun'[q]
                 PROVE  begun'[q] >= begun'[p] + Duration[p]
      BY DEF Apart
    <2>1. CASE p = m
      BY <1>0, <1>2, <1>6, <2>1
    <2>2. CASE q = m
      BY <1>0, <1>2, <1>6, <2>2
    <2>3. CASE p # m /\ q # m
      BY <1>2, <1>4, <2>3 DEF IncidentInv, Apart
    <2> QED
      BY <2>1, <2>2, <2>3
  <1> QED
    BY <1>5, <1>7, <1>8 DEF IncidentInv

LEMMA AbortIncident ==
  ASSUME IncidentInv, TypeOK', NEW m \in Messages, Refused(m)
  PROVE  IncidentInv'
  <1>1. /\ at[m] = "refused" /\ UNCHANGED <<now, punished>> /\ Goto(m, "done")
        /\ begun' = [begun EXCEPT ![m] = 0]
    BY DEF Refused
  <1>2. /\ now \in Nat /\ incident \in Nat
        /\ \A n \in Messages : Duration[n] \in Nat \ {0} /\ begun[n] \in Nat
    BY Numbers DEF IncidentInv
  <1>3. at'[m] = "done" /\ \A n \in Messages \ {m} : at'[n] = at[n]
    BY <1>1, GotoType DEF IncidentInv, Stages
  <1>4. begun'[m] = 0 /\ \A n \in Messages \ {m} : begun'[n] = begun[n]
    BY <1>1 DEF IncidentInv, TypeOK
  <1>5. m \in Floods => Trying(m) /\ begun[m] = now /\ m \notin punished
    BY <1>1 DEF IncidentInv, TryingIsNew, Trying
  <1>6. ~Contender(m)'
    BY <1>1, <1>3, <1>5 DEF Contender, Trying
  <1>7. \A n \in Messages \ {m} : (Trying(n)' => Trying(n)) /\ (Contender(n)' => Contender(n))
    BY <1>1, <1>3 DEF Trying, Contender
  <1>8. QueuedNotPunished' /\ TryingIsNew' /\ BegunBefore'
    BY <1>1, <1>2, <1>3, <1>4, <1>6, <1>7
       DEF IncidentInv, QueuedNotPunished, TryingIsNew, BegunBefore, Contender
  <1>9. Apart'
    BY <1>4, <1>6, <1>7 DEF IncidentInv, Apart
  <1>10. CASE m \notin Floods
    <2>1. incident' = incident
      BY <1>10 DEF Refused, Aborted
    <2>2. IncidentCovers'
      BY <1>1, <1>4, <1>6, <1>7, <2>1 DEF IncidentInv, IncidentCovers
    <2> QED
      BY <1>8, <1>9, <2>2 DEF IncidentInv
  <1>11. CASE m \in Floods
    <2>1. \A n \in Messages \ {m} : Contender(n)' => begun[n] + Duration[n] <= now
      BY <1>2, <1>5, <1>7, <1>11 DEF IncidentInv, BegunBefore, Apart, Contender
    <2>2. IncidentCovers'
      BY <1>1, <1>4, <1>6, <2>1 DEF IncidentCovers
    <2> QED
      BY <1>8, <1>9, <2>2 DEF IncidentInv
  <1> QED
    BY <1>10, <1>11

LEMMA IncidentNext ==
  ASSUME Prompt, "report" \notin Faults, IncidentInv, [Next]_vars
  PROVE  IncidentInv'
  <1>0. TypeOK /\ TypeOK'
    BY TypeNext DEF IncidentInv
  <1> USE DEF decision, hist
  <1>1. CASE Tick
    <2>1. \A m \in Messages : ~Trying(m)
      BY <1>1 DEF Tick, UnderWay, Trying
    <2>2. now' = now + 1 /\ UNCHANGED <<at, punished, begun, incident>>
      BY <1>1 DEF Tick
    <2>3. \A m \in Messages : (Trying(m)' <=> Trying(m)) /\ (Contender(m)' <=> Contender(m))
      BY <2>2 DEF Trying, Contender
    <2>4. now \in Nat /\ \A m \in Messages : Duration[m] \in Nat /\ begun[m] \in Nat
      BY <1>0, Numbers
    <2>5. QueuedNotPunished' /\ TryingIsNew' /\ BegunBefore'
      BY <2>1, <2>2, <2>3, <2>4
         DEF IncidentInv, QueuedNotPunished, TryingIsNew, BegunBefore
    <2>6. IncidentCovers' /\ Apart'
      BY <2>2, <2>3, <2>4 DEF IncidentInv, IncidentCovers, Apart
    <2> QED
      BY <1>0, <2>5, <2>6 DEF IncidentInv
  <1>2. ASSUME NEW m \in Messages, Decide(m) PROVE IncidentInv'
    <2>1. CASE m \in Floods /\ ~Joins(m) /\ Goto(m, "delete")
      <3>1. incident' = now + Duration[m] /\ begun' = [begun EXCEPT ![m] = now]
        BY <1>0, <1>2, <2>1, GotoType DEF Decide, Stages
      <3> QED
        BY <1>0, <1>2, <2>1, <3>1, BeginIncident DEF Decide
    <2>2. CASE UNCHANGED <<incident, begun>>
      <3>1. PICK s \in {"done", "delete", "coalesce"} :
                Goto(m, s) /\ (s = "delete" => m \notin Floods \/ ~Joins(m))
        BY <1>2 DEF Decide
      <3>2. CASE s = "delete" /\ m \in Floods
        BY <2>1, <3>1, <3>2
      <3>3. CASE s # "delete" \/ m \notin Floods
        <4>1. ~Trying(m)'
          BY <1>0, <3>1, <3>3, GotoType DEF Trying, Stages
        <4> QED
          BY <1>0, <1>2, <2>2, <3>1, <4>1, GoingOn DEF Decide, Stages
      <3> QED
        BY <3>2, <3>3
    <2> QED
      BY <1>2, <2>1, <2>2 DEF Decide
  <1>3. ASSUME NEW m \in Messages, Carry(m) PROVE IncidentInv'
    <2>1. CASE Record(m)
      <3>1. at[m] = "record" /\ Goto(m, "report") /\ punished' = punished \cup {m}
            /\ UNCHANGED <<now, incident, begun>>
        BY <2>1 DEF Record
      <3>2. at'[m] = "report" /\ \A n \in Messages \ {m} : at'[n] = at[n]
        BY <1>0, <3>1, GotoType DEF Stages
      <3>3. ~Trying(m)' /\ (m \in Floods => Trying(m))
        BY <3>1, <3>2 DEF Trying
      <3> QED
        BY <1>0, <3>1, <3>2, <3>3, IncidentFrame DEF Trying, Contender
    <2>2. CASE Refused(m)
      BY <1>0, <2>2, AbortIncident
    <2>3. CASE Coalesce(m) \/ Report(m)
      <3>1. Goto(m, "done")
        BY <2>3 DEF Coalesce, Report
      <3>2. ~Trying(m)'
        BY <1>0, <3>1, GotoType DEF Trying, Stages
      <3> QED
        BY <1>0, <2>3, <3>1, <3>2, GoingOn DEF Coalesce, Report, Stages
    <2>4. CASE \/ Delete(m) \/ Strip(m) \/ Stripped(m) \/ Timeout(m) \/ Schedule(m)
               \/ ScheduleRaises(m) \/ Rollback(m) \/ Raises(m)
      <3>1. /\ UNCHANGED <<now, incident, begun, punished>>
            /\ at[m] \in {"delete", "strip", "timeout", "schedule", "record", "rollback"}
        BY <2>4 DEF Delete, Strip, Stripped, Timeout, Schedule, ScheduleRaises, Rollback, Raises
      <3>2. PICK s \in {"strip", "timeout", "schedule", "record", "rollback", "refused"} :
                Goto(m, s)
        BY <2>4 DEF Delete, Strip, Stripped, Timeout, Schedule, ScheduleRaises, Rollback,
           RollsBack, Raises, Fails
      <3> QED
        BY <1>0, <3>1, <3>2, GoingOn DEF Stages, Trying
    <2> QED
      BY <1>3, <2>1, <2>2, <2>3, <2>4 DEF Carry
  <1>4. CASE UNCHANGED <<now, at, punished, begun, incident>>
    BY <1>0, <1>4, IncidentFrame DEF Trying, Contender
  <1> QED
    BY <1>1, <1>2, <1>3, <1>4
       DEF Next, vars, MemberUpdate, Grant, Restore, LoopLists, LoopRestores, LoopMarks,
           LoopRaises

\* When decisions are carried out before time passes, two flood decisions whose
\* timeouts stand began at least one duration apart, however many workers carry
\* them out and whatever call but the report of a decision raises.
THEOREM IncidentCorrect ==
  ASSUME Prompt, "report" \notin Faults
  PROVE  Spec => []OneTimeoutPerIncident
  <1>1. Init => IncidentInv
    BY TypeInit
       DEF Init, IncidentInv, QueuedNotPunished, TryingIsNew, BegunBefore,
           IncidentCovers, Apart, Contender, Trying
  <1>2. IncidentInv /\ [Next]_vars => IncidentInv'
    BY IncidentNext
  <1>3. IncidentInv => OneTimeoutPerIncident
    BY ModerationEnforcementAssumption
       DEF IncidentInv, Apart, Contender, Trying, Standing, OneTimeoutPerIncident, TypeOK
  <1> QED
    BY <1>1, <1>2, <1>3, PTL DEF Spec

-----------------------------------------------------------------------------
(* A role taken off is remembered, unless it was given up at a line named    *)
(* in ModerationEnforcement: for every interleaving of decisions, the loop,  *)
(* the gateway and people, whatever raises.                                  *)

\* A round of the loop knows the roles of the row that are off: it gives them back, or passes
\* them over; or a decision has taken them off again.
Round == loop.stage \in {"restore", "mark"}
Accounted(r) == r \in loop.roles \/ r \in passed \/ \E m \in Messages : r \in removed[m]
\* A decision that has not looked at the roles has noted none.
RoleInv ==
    /\ TypeOK
    /\ RolesNotLost
    /\ Round => \A r \in owed \ givenUp : r \in row.roles => Accounted(r)
    /\ loop.stage = "mark" => loop.roles = {}
    /\ \A m \in Messages : at[m] \in {"queued", "delete"} => removed[m] = {}

\* A step after which every role off the member is as it was, better known, or given up.
LEMMA RolesKept ==
  ASSUME RoleInv, TypeOK',
         \A m \in Messages : at'[m] \in {"queued", "delete"} =>
             at[m] \in {"queued", "delete"} /\ removed'[m] = removed[m],
         loop'.stage = "mark" => loop'.roles = {},
         \A r \in owed' \ givenUp' : Remembered(r)',
         \A r \in owed' \ givenUp' : Round' /\ r \in row'.roles => Accounted(r)'
  PROVE  RoleInv'
<1>1. RolesNotLost'  BY DEF RolesNotLost
<1>2. \A m \in Messages : at'[m] \in {"queued", "delete"} => removed'[m] = {}  BY DEF RoleInv
<1> QED  BY <1>1, <1>2 DEF RoleInv

\* A step that takes nothing off and forgets nothing.
LEMMA RolesElsewhere ==
  ASSUME RoleInv, TypeOK',
         \A m \in Messages : at'[m] \in {"queued", "delete"} =>
             at[m] \in {"queued", "delete"} /\ removed'[m] = removed[m],
         UNCHANGED <<owed, givenUp, row>>,
         \/ UNCHANGED <<loop, passed>>
         \/ /\ loop'.stage = "mark" => loop'.roles = {}
            /\ Round' => \A r \in row.roles : r \in loop'.roles \/ r \in passed',
         \A m \in Messages : removed[m] \subseteq removed'[m]
  PROVE  RoleInv'
<1>1. \A r \in owed \ givenUp : Remembered(r) => Remembered(r)'  BY DEF Remembered
<1>2. \A r \in owed \ givenUp : Remembered(r)  BY DEF RoleInv, RolesNotLost
<1>3. \A r \in owed \ givenUp : Round' /\ r \in row.roles => Accounted(r)'
  BY DEF RoleInv, Round, Accounted
<1>4. loop'.stage = "mark" => loop'.roles = {}  BY DEF RoleInv
<1> QED  BY <1>1, <1>2, <1>3, <1>4, RolesKept

\* One decision goes on and rolls back what it has taken off: the row is left as it is, or replaced.
LEMMA RolledBack ==
  ASSUME RoleInv, TypeOK', NEW m \in Messages, at[m] \notin {"queued", "delete"},
         NEW gone, RollsBack(m, gone), UNCHANGED <<owed, loop>>,
         UNCHANGED <<row, passed>> \/ row'.roles = removed[m],
         \A r \in owed \ gone :
             ~row.restored /\ r \in row.roles => (~row'.restored /\ r \in row'.roles) \/ r \in removed[m]
  PROVE  RoleInv'
<1> DEFINE back == removed[m] \ seen
<1>1. PICK s \in {"refused", "rollback"} : Goto(m, s)  BY DEF RollsBack
<1>2. at'[m] = s /\ \A n \in Messages \ {m} : at'[n] = at[n]
  BY <1>1, GotoType DEF RoleInv, Stages
<1>3. removed'[m] = back /\ \A n \in Messages \ {m} : removed'[n] = removed[n]
  BY DEF RollsBack, RoleInv, TypeOK
<1>4. givenUp' = givenUp \cup gone \cup (removed[m] \cap seen \cap owed)  BY DEF RollsBack
<1>5. ASSUME NEW r \in owed' \ givenUp'  PROVE Remembered(r)'
  <2>1. r \in owed \ givenUp /\ r \notin gone /\ r \notin removed[m] \cap seen  BY <1>4, <1>5
  <2>2. Remembered(r)  BY <2>1 DEF RoleInv, RolesNotLost
  <2>3. CASE r \in removed[m]
    <3>1. r \in removed'[m]  BY <1>3, <2>1, <2>3
    <3> QED  BY <3>1 DEF Remembered
  <2>4. CASE r \notin removed[m]
    <3>1. (~row.restored /\ r \in row.roles) => ~row'.restored /\ r \in row'.roles  BY <2>1, <2>4
    <3>2. \A n \in Messages : r \in removed[n] => r \in removed'[n]  BY <1>3, <2>4
    <3> QED  BY <2>2, <3>1, <3>2 DEF Remembered
  <2> QED  BY <2>3, <2>4
<1>6. ASSUME NEW r \in owed' \ givenUp', Round', r \in row'.roles  PROVE Accounted(r)'
  <2>1. r \in owed \ givenUp /\ r \notin removed[m] \cap seen  BY <1>4, <1>6
  <2>2. CASE r \in removed[m]
    <3>1. r \in removed'[m]  BY <1>3, <2>1, <2>2
    <3> QED  BY <3>1 DEF Accounted
  <2>3. CASE r \notin removed[m]
    <3>1. UNCHANGED <<row, passed, loop>>  BY <1>6, <2>3
    <3>2. Accounted(r)  BY <1>6, <2>1, <3>1 DEF RoleInv, Round
    <3>3. \A n \in Messages : r \in removed[n] => r \in removed'[n]  BY <1>3, <2>3
    <3> QED  BY <3>1, <3>2, <3>3 DEF Accounted
  <2> QED  BY <2>2, <2>3
<1>7. loop'.stage = "mark" => loop'.roles = {}  BY DEF RoleInv
<1> QED  BY <1>2, <1>3, <1>5, <1>6, <1>7, RolesKept

\* A role is given to the member: by a person, a decision or the loop.
LEMMA RoleGiven ==
  ASSUME RoleInv, TypeOK', NEW r \in AdminRoles, Holds(r), UNCHANGED <<row, passed>>,
         Round' => Round, loop'.stage = "mark" => loop'.roles = {},
         loop.roles \ {r} \subseteq loop'.roles,
         \A m \in Messages : at'[m] \in {"queued", "delete"} =>
             at[m] \in {"queued", "delete"} /\ removed'[m] = removed[m],
         \A m \in Messages : removed[m] \ {r} \subseteq removed'[m]
  PROVE  RoleInv'
<1>1. ASSUME NEW q \in owed' \ givenUp'  PROVE Remembered(q)'
  <2>1. q \in owed \ givenUp /\ q # r  BY <1>1 DEF Holds
  <2>2. Remembered(q)  BY <2>1 DEF RoleInv, RolesNotLost
  <2> QED  BY <2>1, <2>2 DEF Remembered
<1>2. ASSUME NEW q \in owed' \ givenUp', Round', q \in row'.roles  PROVE Accounted(q)'
  <2>1. q \in owed \ givenUp /\ q # r  BY <1>2 DEF Holds
  <2>2. Accounted(q)  BY <1>2, <2>1 DEF RoleInv
  <2> QED  BY <2>1, <2>2 DEF Accounted
<1> QED  BY <1>1, <1>2, RolesKept

LEMMA RoleNext ==
  ASSUME RoleInv, [Next]_vars
  PROVE  RoleInv'
<1>0. TypeOK /\ TypeOK'  BY TypeNext DEF RoleInv
<1>1. CASE Tick \/ MemberUpdate \/ UNCHANGED vars
  <2>1. UNCHANGED <<at, removed, owed, givenUp, row, loop, passed>>
    BY <1>1 DEF Tick, MemberUpdate, vars, hist, decision
  <2> QED  BY <1>0, <2>1, RolesElsewhere
<1>2. ASSUME NEW r \in AdminRoles, Grant(r)  PROVE RoleInv'
  <2>1. UNCHANGED <<at, removed, row, loop, passed>> /\ Holds(r)  BY <1>2 DEF Grant, decision
  <2> QED  BY <1>0, <2>1, RoleGiven DEF RoleInv, Round
<1>3. ASSUME NEW m \in Messages, Decide(m)  PROVE RoleInv'
  <2>1. PICK s \in {"done", "delete", "coalesce"} : Goto(m, s)  BY <1>3 DEF Decide
  <2>2. UNCHANGED <<row, removed, owed, givenUp, loop, passed>> /\ at[m] = "queued"  BY <1>3 DEF Decide
  <2>3. at'[m] = s /\ \A n \in Messages \ {m} : at'[n] = at[n]
    BY <1>0, <2>1, GotoType DEF Stages
  <2> QED  BY <1>0, <2>2, <2>3, RolesElsewhere
<1>4. ASSUME NEW m \in Messages, Carry(m)  PROVE RoleInv'
  <2>1. PICK s \in Stages \ {"queued", "delete"} : Goto(m, s)
    BY <1>4 DEF Carry, Coalesce, Delete, Strip, Stripped, Timeout, Schedule, ScheduleRaises,
       Rollback, RollsBack, Record, Report, Refused, Raises, Fails, Stages
  <2>2. at'[m] = s /\ \A n \in Messages \ {m} : at'[n] = at[n]
    BY <1>0, <2>1, GotoType
  <2>3. removed \in [Messages -> SUBSET AdminRoles]  BY <1>0 DEF TypeOK
  <2>4. CASE Coalesce(m) \/ Stripped(m) \/ Record(m) \/ Report(m) \/ Refused(m)
    <3>1. UNCHANGED <<row, removed, owed, givenUp, loop, passed>>
      BY <2>4 DEF Coalesce, Stripped, Record, Report, Refused, hist
    <3> QED  BY <1>0, <2>2, <3>1, RolesElsewhere
  <2>5. CASE Delete(m)
    <3>1. UNCHANGED <<row, owed, givenUp, loop, passed>> /\ removed[m] = {}
      BY <2>5 DEF Delete, hist, RoleInv
    <3>2. \A n \in Messages \ {m} : removed'[n] = removed[n]  BY <2>3, <2>5 DEF Delete
    <3> QED  BY <1>0, <2>2, <3>1, <3>2, RolesElsewhere
  <2>6. CASE Strip(m)
    <3>1. PICK r \in removed[m] : owed' = owed \cup {r}  BY <2>6 DEF Strip
    <3>2. UNCHANGED <<row, removed, givenUp, loop, passed>>  BY <2>6 DEF Strip
    <3>3. ASSUME NEW q \in owed' \ givenUp'  PROVE Remembered(q)'
      <4>1. CASE q = r  BY <3>1, <3>2, <4>1 DEF Remembered
      <4>2. CASE q # r
        <5>1. Remembered(q)  BY <3>1, <3>2, <3>3, <4>2 DEF RoleInv, RolesNotLost
        <5> QED  BY <3>2, <5>1 DEF Remembered
      <4> QED  BY <4>1, <4>2
    <3>4. ASSUME NEW q \in owed' \ givenUp', Round', q \in row'.roles  PROVE Accounted(q)'
      <4>1. CASE q = r  BY <3>1, <3>2, <4>1 DEF Accounted
      <4>2. CASE q # r
        <5>1. Accounted(q)  BY <3>1, <3>2, <3>4, <4>2 DEF RoleInv, Round
        <5> QED  BY <3>2, <5>1 DEF Accounted
      <4> QED  BY <4>1, <4>2
    <3>5. loop'.stage = "mark" => loop'.roles = {}  BY <3>2 DEF RoleInv
    <3> QED  BY <1>0, <2>2, <3>2, <3>3, <3>4, <3>5, RolesKept
  <2>7. CASE Timeout(m)
    <3>1. at[m] = "timeout" /\ UNCHANGED <<row, owed, loop, passed>>  BY <2>7 DEF Timeout
    <3>2. CASE UNCHANGED <<removed, givenUp>>
      BY <1>0, <2>2, <3>1, <3>2, RolesElsewhere
    <3>3. CASE RollsBack(m, {})
      BY <1>0, <3>1, <3>3, RolledBack
    <3> QED  BY <2>7, <3>2, <3>3 DEF Timeout
  <2>8. CASE Schedule(m) \/ ScheduleRaises(m)
    <3>1. at[m] = "schedule" /\ UNCHANGED <<owed, loop>>  BY <2>8 DEF Schedule, ScheduleRaises
    <3>2. CASE UNCHANGED <<row, passed>> /\ RollsBack(m, {})
      BY <1>0, <3>1, <3>2, RolledBack
    <3>3. CASE Upsert(m)
      <4>1. ~row'.restored /\ row'.roles = removed[m]  BY <3>3 DEF Upsert, Scheduled
      <4>2. \A r \in owed \ Replaced(m) : ~row.restored /\ r \in row.roles => r \in removed[m]
        BY DEF Replaced
      <4>3. CASE RollsBack(m, Replaced(m))
        <5>1. \A r \in owed \ Replaced(m) : ~row.restored /\ r \in row.roles =>
                  (~row'.restored /\ r \in row'.roles) \/ r \in removed[m]
          BY <4>2
        <5>2. at[m] \notin {"queued", "delete"} /\ UNCHANGED <<owed, loop>>  BY <3>1
        <5>3. UNCHANGED <<row, passed>> \/ row'.roles = removed[m]  BY <4>1
        <5> QED  BY <1>0, <4>3, <5>1, <5>2, <5>3, RolledBack
      <4>4. CASE Schedule(m)
        <5>1. givenUp' = givenUp \cup Replaced(m) /\ removed' = [removed EXCEPT ![m] = {}]
          BY <4>4 DEF Schedule
        <5>2. \A n \in Messages \ {m} : removed'[n] = removed[n]  BY <2>3, <5>1
        <5>3. ASSUME NEW r \in owed' \ givenUp'  PROVE Remembered(r)'
          <6>1. r \in owed \ givenUp /\ r \notin Replaced(m)  BY <3>1, <5>1, <5>3
          <6>2. Remembered(r)  BY <6>1 DEF RoleInv, RolesNotLost
          <6>3. CASE r \in removed[m]  BY <4>1, <6>3 DEF Remembered
          <6>4. CASE r \notin removed[m]
            <7>1. PICK n \in Messages \ {m} : r \in removed[n]
              BY <4>2, <6>1, <6>2, <6>4 DEF Remembered
            <7> QED  BY <5>2, <7>1 DEF Remembered
          <6> QED  BY <6>3, <6>4
        <5>4. ASSUME NEW r \in owed' \ givenUp', Round', r \in row'.roles  PROVE Accounted(r)'
          <6>1. r \in passed'  BY <3>1, <3>3, <4>1, <5>4 DEF Upsert, Round
          <6> QED  BY <6>1 DEF Accounted
        <5>5. loop'.stage = "mark" => loop'.roles = {}  BY <3>1 DEF RoleInv
        <5> QED  BY <1>0, <2>2, <5>2, <5>3, <5>4, <5>5, RolesKept
      <4> QED  BY <2>8, <3>2, <4>3, <4>4 DEF ScheduleRaises
    <3> QED  BY <2>8, <3>2, <3>3 DEF Schedule, ScheduleRaises
  <2>9. CASE Rollback(m)
    <3>1. PICK r \in removed[m] : Holds(r) /\ removed' = [removed EXCEPT ![m] = @ \ {r}]
      BY <2>9 DEF Rollback
    <3>2. r \in AdminRoles /\ UNCHANGED <<row, loop, passed>>  BY <2>3, <2>9 DEF Rollback
    <3>3. \A n \in Messages : removed[n] \ {r} \subseteq removed'[n]  BY <2>3, <3>1
    <3>4. \A n \in Messages : at'[n] \in {"queued", "delete"} =>
              at[n] \in {"queued", "delete"} /\ removed'[n] = removed[n]
      BY <2>2, <2>3, <3>1
    <3> QED  BY <1>0, <3>1, <3>2, <3>3, <3>4, RoleGiven DEF RoleInv, Round
  <2>10. CASE Raises(m)
    <3>1. UNCHANGED <<row, owed, loop, passed>>  BY <2>10 DEF Raises
    <3>2. CASE at[m] = "timeout" /\ RollsBack(m, {})
      BY <1>0, <3>1, <3>2, RolledBack
    <3>3. CASE /\ givenUp' = givenUp \cup (removed[m] \cap owed)
               /\ removed' = [removed EXCEPT ![m] = {}]
      <4>1. \A n \in Messages \ {m} : removed'[n] = removed[n]  BY <2>3, <3>3
      <4>2. ASSUME NEW r \in owed' \ givenUp'  PROVE Remembered(r)'
        <5>1. r \in owed \ givenUp /\ r \notin removed[m]  BY <3>1, <3>3, <4>2
        <5>2. Remembered(r)  BY <5>1 DEF RoleInv, RolesNotLost
        <5> QED  BY <3>1, <4>1, <5>1, <5>2 DEF Remembered
      <4>3. ASSUME NEW r \in owed' \ givenUp', Round', r \in row'.roles  PROVE Accounted(r)'
        <5>1. r \in owed \ givenUp /\ r \notin removed[m]  BY <3>1, <3>3, <4>3
        <5>2. Accounted(r)  BY <3>1, <4>3, <5>1 DEF RoleInv, Round
        <5> QED  BY <3>1, <4>1, <5>1, <5>2 DEF Accounted
      <4>4. loop'.stage = "mark" => loop'.roles = {}  BY <3>1 DEF RoleInv
      <4> QED  BY <1>0, <2>2, <4>1, <4>2, <4>3, <4>4, RolesKept
    <3>4. CASE UNCHANGED <<removed, givenUp>>
      BY <1>0, <2>2, <3>1, <3>4, RolesElsewhere
    <3> QED  BY <2>10, <3>2, <3>3, <3>4 DEF Raises, Fails
  <2> QED  BY <1>4, <2>4, <2>5, <2>6, <2>7, <2>8, <2>9, <2>10 DEF Carry
<1>5. CASE LoopLists \/ LoopRaises
  <2>1. UNCHANGED <<at, removed, owed, givenUp, row>>  BY <1>5 DEF LoopLists, LoopRaises, decision
  <2>2. /\ loop'.stage = "mark" => loop'.roles = {}
        /\ Round' => \A r \in row.roles : r \in loop'.roles \/ r \in passed'
    BY <1>5 DEF LoopLists, LoopRaises, Round
  <2> QED  BY <1>0, <2>1, <2>2, RolesElsewhere
<1>6. CASE LoopRestores
  <2>1. PICK r \in loop.roles : /\ Holds(r)
                                /\ loop' = [stage |-> IF loop.roles = {r} THEN "mark" ELSE "restore",
                                            roles |-> loop.roles \ {r}]
    BY <1>6 DEF LoopRestores
  <2>2. r \in AdminRoles /\ UNCHANGED <<at, removed, row, passed>> /\ Round
    BY <1>0, <1>6 DEF LoopRestores, decision, TypeOK, Loop, Round
  <2>3. loop.roles \ {r} \subseteq loop'.roles /\ (loop'.stage = "mark" => loop'.roles = {})
    BY <2>1
  <2> QED  BY <1>0, <2>1, <2>2, <2>3, RoleGiven
<1>7. CASE LoopMarks
  <2>1. /\ UNCHANGED <<at, removed, owed>> /\ givenUp' = givenUp \cup (passed \cap owed)
        /\ loop.stage = "mark" /\ loop' = Asleep
    BY <1>7 DEF LoopMarks, decision
  <2>2. ASSUME NEW r \in owed' \ givenUp'  PROVE Remembered(r)'
    <3>1. r \in owed \ givenUp /\ r \notin passed  BY <2>1, <2>2
    <3>2. Remembered(r)  BY <3>1 DEF RoleInv, RolesNotLost
    <3>3. r \in row.roles => \E m \in Messages : r \in removed[m]
      BY <2>1, <3>1 DEF RoleInv, Round, Accounted
    <3> QED  BY <2>1, <3>2, <3>3 DEF Remembered
  <2>3. ~Round' /\ loop'.stage # "mark"  BY <2>1 DEF Asleep, Round
  <2> QED  BY <1>0, <2>1, <2>2, <2>3, RolesKept
<1> QED  BY <1>1, <1>2, <1>3, <1>4, <1>5, <1>6, <1>7 DEF Next, Restore

\* A role taken off the member is known to the row or to a decision between taking it off and
\* writing the row, unless one of the lines named at RolesNotLost gave it up: for any roles,
\* decisions, workers and timeouts, whatever raises, however late the gateway reports the roles,
\* and whatever the loop and people do meanwhile.
THEOREM RoleIsNotLost == Spec => []RolesNotLost
<1>1. Init => RoleInv
  BY TypeInit DEF Init, RoleInv, RolesNotLost, Round, Asleep
<1>2. RoleInv /\ [Next]_vars => RoleInv'
  BY RoleNext
<1>3. RoleInv => RolesNotLost
  BY DEF RoleInv
<1> QED  BY <1>1, <1>2, <1>3, PTL DEF Spec

-----------------------------------------------------------------------------
(* The policy: what ModerationPolicy guarantees, for every policy, message *)
(* and recommendation.                                                     *)

USE DEF IGNORE, LOG, REVIEW, WARN, DELETE, DELETE_WARN, TIMEOUT, KICK, BAN, Action, HighImpact

\* Some action of a set of them is the severest.
LEMMA SeverestExists ==
    ASSUME NEW S \in SUBSET Action, S # {}
    PROVE  Severest(S) \in S /\ \A b \in S : b <= Severest(S)
<1>1. \E a \in S : \A b \in S : b <= a
  <2>1. CASE 8 \in S  BY <2>1
  <2>2. CASE 8 \notin S /\ 7 \in S  BY <2>2
  <2>3. CASE 8 \notin S /\ 7 \notin S /\ 6 \in S  BY <2>3
  <2>4. CASE 8 \notin S /\ 7 \notin S /\ 6 \notin S /\ 5 \in S  BY <2>4
  <2>5. CASE 8 \notin S /\ 7 \notin S /\ 6 \notin S /\ 5 \notin S /\ 4 \in S  BY <2>5
  <2>6. CASE 4 \notin S /\ 5 \notin S /\ 6 \notin S /\ 7 \notin S /\ 8 \notin S
    <3>1. S \subseteq 0..3  BY <2>6
    <3>2. CASE 3 \in S  BY <3>1, <3>2
    <3>3. CASE 3 \notin S /\ 2 \in S  BY <3>1, <3>3
    <3>4. CASE 3 \notin S /\ 2 \notin S /\ 1 \in S  BY <3>1, <3>4
    <3>5. CASE 3 \notin S /\ 2 \notin S /\ 1 \notin S
      <4>1. \A b \in S : b = 0  BY <3>1, <3>5
      <4>2. PICK x \in S : TRUE  OBVIOUS
      <4> QED  BY <4>1, <4>2
    <3> QED  BY <3>2, <3>3, <3>4, <3>5
  <2> QED  BY <2>1, <2>2, <2>3, <2>4, <2>5, <2>6
<1> QED  BY <1>1 DEF Severest

\* A rule gives an action between its bounds, and LOG below its threshold.
LEMMA LabelActionBounds ==
    ASSUME NEW rule \in LabelPolicy, NEW d \in Decision
    PROVE  /\ LabelAction(rule, d) \in Action
           /\ LabelAction(rule, d) # LOG => LabelAction(rule, d) \in rule.min_action..rule.max_action
<1>1. /\ rule.risk_threshold \in Nat /\ rule.min_action \in Action /\ rule.max_action \in Action
      /\ rule.min_action <= rule.max_action
  BY DEF LabelPolicy
<1>2. d.action \in Action /\ d.risk \in Nat  BY DEF Decision
<1>3. CASE d.risk < rule.risk_threshold  BY <1>1, <1>2, <1>3 DEF LabelAction
<1>4. CASE d.risk >= rule.risk_threshold  BY <1>1, <1>2, <1>4 DEF LabelAction
<1> QED  BY <1>1, <1>2, <1>3, <1>4

LEMMA RuleOfPolicy ==
    ASSUME NEW p \in GuildPolicy, NEW l \in DOMAIN p.labels
    PROVE  p.labels[l] \in LabelPolicy
<1>1. p.labels \in UNION {[S -> LabelPolicy] : S \in SUBSET AllLabels}  BY DEF GuildPolicy
<1>2. PICK S \in SUBSET AllLabels : p.labels \in [S -> LabelPolicy]  BY <1>1
<1> QED  BY <1>2

LEMMA CandidatesAreActions ==
    ASSUME NEW p \in GuildPolicy, NEW r \in Request, NEW d \in Decision
    PROVE  Candidates(p, r, d) \in SUBSET Action
<1>1. Configured(p, d) \subseteq Action
  <2> SUFFICES ASSUME NEW l \in d.labels \cap DOMAIN p.labels  PROVE LabelAction(p.labels[l], d) \in Action
    BY DEF Configured
  <2> QED  BY RuleOfPolicy, LabelActionBounds
<1>2. p.blacklist_action \in Action /\ p.unapproved_domain_action \in Action /\ p.repeat_offender_action \in Action
  BY DEF GuildPolicy
<1> QED  BY <1>1, <1>2 DEF Candidates, BlacklistAction, DomainAction, HistoryAction

LEMMA ProposedIsAction ==
    ASSUME NEW p \in GuildPolicy, NEW r \in Request, NEW d \in Decision
    PROVE  Proposed(p, r, d) \in Action
<1>1. Candidates(p, r, d) \in SUBSET Action  BY CandidatesAreActions
<1>2. d.action \in Action  BY DEF Decision
<1> HIDE DEF Action
<1> QED  BY <1>1, <1>2, SeverestExists DEF Proposed

-----------------------------------------------------------------------------

\* No mode makes an action severer than what was proposed.
LEMMA LimitingNeverRaises ==
    ASSUME NEW p \in GuildPolicy, NEW d, NEW a \in Action
    PROVE  Limited(p, d, a) \in Action /\ Limited(p, d, a) <= a
BY DEF GuildPolicy, Limited, LimitedAction, ElevatedAction, Modes

LEMMA AppliedIsDecision ==
    ASSUME NEW p \in GuildPolicy, NEW r \in Request, NEW d \in Decision
    PROVE  Applied(p, r, d) \in Decision
<1> DEFINE q == Proposed(p, r, d)
           action == IF p.test_mode THEN q ELSE Limited(p, d, q)
           labels == IF Blacklisted(p, r) THEN d.labels \cup {"BLACKLIST"} ELSE d.labels
           blacklist == d.blacklist \/ Blacklisted(p, r)
           dry == d.dry_run \/ p.test_mode
<1>1. q \in Action  BY ProposedIsAction
<1>2. action \in Action  BY <1>1, LimitingNeverRaises
<1>3. labels \in SUBSET AllLabels
  <2>1. d.labels \in SUBSET AllLabels  BY DEF Decision
  <2>2. "BLACKLIST" \in AllLabels  BY DEF AllLabels
  <2> QED  BY <2>1, <2>2, Zenon
<1>4. blacklist \in BOOLEAN /\ dry \in BOOLEAN  OBVIOUS
<1>5. [d EXCEPT !.action = IGNORE, !.proposed_action = d.action, !.planned = TRUE] \in Decision
  <2>1. d.action \in Action /\ IGNORE \in Action  BY DEF Decision
  <2> HIDE DEF Action, IGNORE
  <2> QED  BY <2>1 DEF Decision
<1>6. [d EXCEPT !.action = action, !.proposed_action = q, !.blacklist = blacklist, !.labels = labels,
                !.planned = TRUE, !.dry_run = dry] \in Decision
  <2> HIDE DEF action, q, labels, blacklist, dry
  <2> QED  BY <1>1, <1>2, <1>3, <1>4 DEF Decision
<1>7. \/ Applied(p, r, d) = d
      \/ Applied(p, r, d) = [d EXCEPT !.action = IGNORE, !.proposed_action = d.action, !.planned = TRUE]
      \/ Applied(p, r, d) = [d EXCEPT !.action = action, !.proposed_action = q, !.blacklist = blacklist,
                                     !.labels = labels, !.planned = TRUE, !.dry_run = dry]
  BY Zenon DEF Applied
<1> QED  BY <1>5, <1>6, <1>7

\* What an enforcement mode lets be done: nothing in SHADOW; in LIMITED a warning and, on the evidence of
\* a hard rule, a deletion; in ELEVATED nothing before the acknowledgement, and of timeout, kick and ban
\* those that are switched on.
Permitted(p, a) ==
    /\ p.enforcement_mode # "SHADOW"
    /\ p.enforcement_mode = "LIMITED" => a \in {WARN, DELETE}
    /\ p.enforcement_mode = "ELEVATED" =>
          p.beta_enforcement_acknowledged /\ (a \in HighImpact => p.allow_automated[a])

LEMMA LimitedIsPermitted ==
    ASSUME NEW p \in GuildPolicy, NEW d, NEW a \in Action,
           NEW b \in Plan(Limited(p, d, a)) \ {IGNORE, LOG, REVIEW}
    PROVE  b \in Action /\ Permitted(p, b)
<1>1. p.enforcement_mode \in Modes  BY DEF GuildPolicy
<1>2. CASE a \in {IGNORE, LOG, REVIEW}  BY <1>2 DEF Limited, Plan
<1>3. CASE a > REVIEW /\ p.enforcement_mode = "SHADOW"  BY <1>3 DEF Limited, Plan
<1>4. CASE a > REVIEW /\ p.enforcement_mode = "LIMITED"  BY <1>4 DEF Limited, LimitedAction, Plan, Permitted
<1>5. CASE a > REVIEW /\ p.enforcement_mode = "ELEVATED"
  <2>1. Limited(p, d, a) = ElevatedAction(p, a)  BY <1>5 DEF Limited
  <2>2. p.beta_enforcement_acknowledged /\ ElevatedAction(p, a) = a
    BY <2>1 DEF ElevatedAction, Plan
  <2>3. a \in HighImpact => p.allow_automated[a]  BY <2>1, <2>2 DEF ElevatedAction, Plan
  <2> QED  BY <1>5, <2>1, <2>2, <2>3 DEF Plan, Permitted
<1> QED  BY <1>1, <1>2, <1>3, <1>4, <1>5 DEF Modes

\* Whatever Core recommends and Discord allows, what the bot does to a member or a message is what the
\* mode and the switches permit (docs/TERMS_OF_SERVICE.md, 12.1), and nothing of an excluded author.
THEOREM EnforcementIsPermitted ==
    ASSUME NEW p \in GuildPolicy, NEW r \in Request, NEW d \in Decision, NEW can \in BOOLEAN,
           NEW a \in Done(Executable(Applied(p, r, d), can))
    PROVE  Permitted(p, a) /\ ~Excluded(p, r) /\ ~p.test_mode
<1> DEFINE q == Proposed(p, r, d)
           e == Applied(p, r, d)
<1>1. q \in Action  BY ProposedIsAction
<1>2. ~e.dry_run
  BY DEF Done, Executable
<1>3. ~Excluded(p, r)
  <2> SUFFICES ASSUME Excluded(p, r)  PROVE FALSE  OBVIOUS
  <2>1. e.action = IGNORE  BY DEF Applied, Decision
  <2> QED  BY <2>1 DEF Executable, Done, Plan
<1>4. ~p.test_mode
  <2>1. p.test_mode \in BOOLEAN /\ d.dry_run \in BOOLEAN  BY DEF GuildPolicy, Decision
  <2> QED  BY <1>2, <1>3, <2>1 DEF Applied, Decision
<1>5. e.action = Limited(p, d, q)  BY <1>3, <1>4 DEF Applied, Decision
<1> HIDE DEF q, e
<1>6. CASE Executable(e, can) = e
  <2>1. a \in Plan(e.action) \ {IGNORE, LOG, REVIEW}  BY <1>6 DEF Done, e
  <2>2. a \in Plan(Limited(p, d, q)) \ {IGNORE, LOG, REVIEW}  BY <2>1, <1>5
  <2> QED  BY <1>1, <1>3, <1>4, <2>2, LimitedIsPermitted
<1>7. CASE Executable(e, can) # e
  <2>1. e.action \in HighImpact  BY <1>7 DEF Executable
  <2>2. e.action \in Plan(Limited(p, d, q)) \ {IGNORE, LOG, REVIEW}  BY <1>5, <2>1 DEF Plan
  <2>3. Permitted(p, e.action)  BY <1>1, <2>2, LimitedIsPermitted
  <2>4. p.enforcement_mode = "ELEVATED" /\ p.beta_enforcement_acknowledged
    <3>1. p.enforcement_mode \in Modes  BY DEF GuildPolicy
    <3>2. p.enforcement_mode # "SHADOW"  BY <2>3 DEF Permitted
    <3>3. p.enforcement_mode # "LIMITED"  BY <2>1, <2>3 DEF Permitted
    <3>4. p.enforcement_mode = "ELEVATED"  BY <3>1, <3>2, <3>3 DEF Modes
    <3> QED  BY <2>3, <3>4 DEF Permitted
  <2>5. a \in {DELETE, WARN}
    <3>1. Executable(e, can) = [e EXCEPT !.action = DELETE_WARN]  BY <1>7 DEF Executable
    <3>2. e \in Decision  BY AppliedIsDecision DEF e
    <3>3. Executable(e, can).action = DELETE_WARN  BY <3>1, <3>2 DEF Decision
    <3>4. a \in Plan(DELETE_WARN)  BY <3>3 DEF Done, e
    <3> QED  BY <3>4 DEF Plan
  <2> QED  BY <1>3, <1>4, <2>4, <2>5 DEF Permitted
<1> QED  BY <1>3, <1>4, <1>6, <1>7

-----------------------------------------------------------------------------

\* The limit of a label's action binds the recommendation and not the rest: a message without a word of
\* the blacklist, a strange host or a history is proposed nothing above the limits of its labels' rules.
THEOREM ActionLimits ==
    ASSUME NEW p \in GuildPolicy, NEW r \in Request, NEW d \in Decision, NEW limit \in Action, limit >= LOG,
           d.labels \cap DOMAIN p.labels # {},
           \A l \in d.labels \cap DOMAIN p.labels : p.labels[l].max_action <= limit,
           BlacklistAction(p, r) = {}, DomainAction(p, r) = {}, HistoryAction(p, r, d) = {}
    PROVE  Proposed(p, r, d) <= limit
<1>1. Candidates(p, r, d) = Configured(p, d) /\ Configured(p, d) # {}  BY DEF Candidates, Configured
<1>2. Candidates(p, r, d) \in SUBSET Action  BY CandidatesAreActions
<1>3. Proposed(p, r, d) \in Configured(p, d)
  <2> HIDE DEF Action
  <2> QED  BY <1>1, <1>2, SeverestExists DEF Proposed
<1>4. PICK l \in d.labels \cap DOMAIN p.labels : Proposed(p, r, d) = LabelAction(p.labels[l], d)
  BY <1>3 DEF Configured
<1>5. p.labels[l] \in LabelPolicy  BY RuleOfPolicy
<1>6. p.labels[l].max_action \in Action /\ p.labels[l].min_action \in Action  BY <1>5 DEF LabelPolicy
<1>7. \/ Proposed(p, r, d) = LOG
      \/ Proposed(p, r, d) \in p.labels[l].min_action..p.labels[l].max_action
  BY <1>4, <1>5, LabelActionBounds
<1> QED  BY <1>6, <1>7

\* Merging with the defaults makes a policy again, with a rule for every label of theirs, and merging
\* what was merged, loaded and saved again, changes nothing.
THEOREM MergingIsStable ==
    ASSUME NEW p \in GuildPolicy
    PROVE  Labels \subseteq DOMAIN Merged(p).labels /\ Merged(Merged(p)) = Merged(p)
<1> DEFINE merged == [l \in Labels \cup DOMAIN p.labels |->
               IF l \in DOMAIN p.labels /\ ~Legacy(l, p.labels[l]) THEN p.labels[l] ELSE DefaultLabels[l]]
           m == Merged(p)
<1>1. m.labels = merged  BY DEF Merged, GuildPolicy
<1>2. \A l \in Labels : ~Legacy(l, DefaultLabels[l])
  BY DEF Labels, Legacy, DefaultLabels, Rule
<1>3. \A l \in DOMAIN merged : ~Legacy(l, merged[l])
  <2> TAKE l \in DOMAIN merged
  <2>1. CASE l \in DOMAIN p.labels /\ ~Legacy(l, p.labels[l])  BY <2>1
  <2>2. CASE l \in Labels /\ (l \notin DOMAIN p.labels \/ Legacy(l, p.labels[l]))  BY <1>2, <2>2
  <2>3. Legacy(l, p.labels[l]) => l \in Labels  BY DEF Legacy, Labels
  <2> QED  BY <2>1, <2>2, <2>3
<1>4. Merged(m) = [m EXCEPT !.labels = [l \in Labels \cup DOMAIN merged |-> merged[l]]]
  <2>1. \A l \in Labels \cup DOMAIN merged : l \in DOMAIN merged /\ ~Legacy(l, merged[l])  BY <1>3
  <2> HIDE DEF merged, m
  <2> QED  BY <1>1, <2>1 DEF Merged
<1>5. [l \in Labels \cup DOMAIN merged |-> merged[l]] = merged  OBVIOUS
<1>6. [m EXCEPT !.labels = merged] = m  BY <1>1 DEF Merged, GuildPolicy
<1> QED  BY <1>1, <1>4, <1>5, <1>6

LEMMA MergedIsPolicy ==
    ASSUME NEW p \in GuildPolicy
    PROVE  Merged(p) \in GuildPolicy
<1> DEFINE merged == [l \in Labels \cup DOMAIN p.labels |->
               IF l \in DOMAIN p.labels /\ ~Legacy(l, p.labels[l]) THEN p.labels[l] ELSE DefaultLabels[l]]
<1>1. \A l \in Labels : DefaultLabels[l] \in LabelPolicy
  BY DEF Labels, DefaultLabels, Rule, LabelPolicy
<1>2. ASSUME NEW l \in Labels \cup DOMAIN p.labels  PROVE merged[l] \in LabelPolicy
  <2>1. CASE l \in DOMAIN p.labels /\ ~Legacy(l, p.labels[l])  BY <2>1, RuleOfPolicy
  <2>2. CASE l \notin DOMAIN p.labels \/ Legacy(l, p.labels[l])
    <3>1. l \in Labels  BY <2>2, <1>2 DEF Legacy, Labels
    <3> QED  BY <1>1, <2>2, <3>1
  <2> QED  BY <2>1, <2>2
<1>3. Labels \cup DOMAIN p.labels \in SUBSET AllLabels
  <2>1. PICK S \in SUBSET AllLabels : p.labels \in [S -> LabelPolicy]  BY DEF GuildPolicy
  <2> QED  BY <2>1 DEF AllLabels
<1>4. merged \in [Labels \cup DOMAIN p.labels -> LabelPolicy]  BY <1>2
<1>5. merged \in UNION {[S -> LabelPolicy] : S \in SUBSET AllLabels}  BY <1>3, <1>4
<1> HIDE DEF merged
<1>6. [p EXCEPT !.labels = merged] \in GuildPolicy
  <2> HIDE DEF Action, HighImpact
  <2> QED  BY <1>5 DEF GuildPolicy
<1> QED  BY <1>6 DEF Merged, merged

\* More of the blacklist's words, more hosts or a longer history never make what is proposed milder, of a
\* message with a label the policy has a rule for.  Without such a label the severity recommended is not
\* among the candidates, and a word or a host may lower it.
THEOREM EvidenceNeverWeakens ==
    ASSUME NEW p \in GuildPolicy, NEW d \in Decision, NEW r \in Request, NEW s \in Request,
           d.labels \cap DOMAIN p.labels # {},
           r.words \subseteq s.words, r.hosts \subseteq s.hosts,
           r.history => s.history, r.score <= s.score
    PROVE  Proposed(p, r, d) <= Proposed(p, s, d)
<1>1. BlacklistAction(p, r) \subseteq BlacklistAction(p, s)  BY DEF BlacklistAction, Blacklisted
<1>2. DomainAction(p, r) \subseteq DomainAction(p, s)  BY DEF DomainAction
<1>3. HistoryAction(p, r, d) \subseteq HistoryAction(p, s, d)
  <2>1. r.score \in Nat /\ s.score \in Nat /\ p.escalation_score_threshold \in Nat  BY DEF Request, GuildPolicy
  <2> QED  BY <2>1 DEF HistoryAction
<1>4. Candidates(p, r, d) \subseteq Candidates(p, s, d)  BY <1>1, <1>2, <1>3 DEF Candidates
<1>5. Candidates(p, r, d) # {}  BY DEF Candidates, Configured
<1>6. Candidates(p, r, d) \in SUBSET Action /\ Candidates(p, s, d) \in SUBSET Action  BY CandidatesAreActions
<1>7. Severest(Candidates(p, r, d)) \in Candidates(p, s, d)
  <2> HIDE DEF Action
  <2> QED  BY <1>4, <1>5, <1>6, SeverestExists
<1>8. Severest(Candidates(p, r, d)) <= Severest(Candidates(p, s, d))
  <2> HIDE DEF Action
  <2> QED  BY <1>6, <1>7, SeverestExists
<1> QED  BY <1>4, <1>5, <1>8 DEF Proposed

\* So it is of every message with a label of the defaults, under the policy the bot reads.
COROLLARY KnownLabelsNeverWeaken ==
    ASSUME NEW p \in GuildPolicy, NEW d \in Decision, NEW r \in Request, NEW s \in Request,
           d.labels \cap Labels # {},
           r.words \subseteq s.words, r.hosts \subseteq s.hosts,
           r.history => s.history, r.score <= s.score
    PROVE  Proposed(Merged(p), r, d) <= Proposed(Merged(p), s, d)
<1>1. Merged(p) \in GuildPolicy  BY MergedIsPolicy
<1>2. d.labels \cap DOMAIN Merged(p).labels # {}  BY MergingIsStable
<1> QED  BY <1>1, <1>2, EvidenceNeverWeakens

\* A recommendation to review stays exactly as it came in SHADOW, whatever severer action the rules
\* propose: the proposal Shadow Mode is to record is lost.
THEOREM ShadowForgetsProposals ==
    ASSUME NEW p \in GuildPolicy, NEW r \in Request, NEW d \in Decision,
           p.enforcement_mode = "SHADOW", ~p.test_mode, ~Excluded(p, r), ~Blacklisted(p, r),
           d.action = REVIEW, d.planned, Proposed(p, r, d) >= REVIEW
    PROVE  Applied(p, r, d) = d
<1>1. Proposed(p, r, d) \in Action  BY ProposedIsAction
<1>2. Limited(p, d, Proposed(p, r, d)) = REVIEW  BY <1>1 DEF Limited
<1>3. p.test_mode = FALSE /\ d.blacklist \in BOOLEAN /\ d.dry_run \in BOOLEAN  BY DEF GuildPolicy, Decision
<1>4. (d.blacklist \/ Blacklisted(p, r)) = d.blacklist /\ (d.dry_run \/ p.test_mode) = d.dry_run
  BY <1>3
<1> QED  BY <1>2, <1>3, <1>4 DEF Applied

-----------------------------------------------------------------------------
(* ModerationIntake.                                                       *)

\* A task that sleeps has an attempt left.
TriesLeft(m) == task[m].stage = "sleep" => task[m].tries < Attempts

IntakeTyped == IntakeTypeOK /\ \A m \in Posts : TriesLeft(m)

\* b is the version of a message that comes after a.
Follows(a, b) ==
    \/ b.text = a.text + 1 /\ b.media = a.media
    \/ b.text = a.text /\ ~a.media /\ b.media

\* What the gateway has still to deliver leads from what the bot has to what Discord has.
Ordered(m) ==
    /\ behind[m] = << >> => remote[m] = cache[m]
    /\ behind[m] # << >> => /\ Follows(cache[m], behind[m][1])
                            /\ remote[m] = behind[m][Len(behind[m])]
    /\ \A i \in 1..(Len(behind[m]) - 1) : Follows(behind[m][i], behind[m][i + 1])

\* Only GIFs get an embed.
MediaIsGif(m) ==
    m \notin Gifs => /\ ~remote[m].media /\ ~cache[m].media
                     /\ \A i \in 1..Len(behind[m]) : ~behind[m][i].media

PendingHasTask == pending = {m \in Posts : task[m] # NoTask}

\* The content a task is about to submit.
Carried(m) == IF task[m].got = Nothing THEN cache[m] ELSE task[m].got

\* A task about to submit has what the bot has or is about to be delivered, and
\* knows whether there is media.
TaskTrue(m) ==
    task[m].stage = "build" =>
        /\ task[m].got \in {Nothing, cache[m]} \cup
               {behind[m][i] : i \in 1..Len(behind[m])}
        /\ task[m].found = Carried(m).media

CallOK(c) ==
    /\ call[c].stage = "enabled" => call[c].event = "CREATE" /\ ~call[c].late
    /\ call[c].stage = "build" /\ call[c].event = "CREATE" /\ ~call[c].late
           => call[c].msg \notin Gifs

In(c, m) == call[c].stage \in {"enabled", "build"} /\ call[c].msg = m
Enabling(c, m) == call[c].stage = "enabled" /\ call[c].msg = m
Late(c, m) == call[c].stage = "build" /\ call[c].msg = m /\ call[c].late

\* Nothing has been done about the GIF m.
Unasked(m) == gifCreates[m] = 0 /\ task[m] = NoTask

\* At any time one of the listener, the task and the late update may create a
\* request of a GIF, and none after one has.
AskedOnce(m) ==
    /\ cache[m] = Nothing =>
           Unasked(m) /\ m \notin marked /\ \A c \in Calls : ~In(c, m)
    /\ \A c \in Calls : Enabling(c, m) =>
           Unasked(m) /\ m \notin marked /\ \A d \in Calls \ {c} : ~In(d, m)
    /\ \A c \in Calls : Late(c, m) =>
           Unasked(m) /\ cache[m].media /\ \A d \in Calls \ {c} : ~Late(d, m)
    /\ task[m] # NoTask => gifCreates[m] = 0
    /\ gifCreates[m] # 0 => cache[m].media \/ m \in marked
    /\ gifCreates[m] <= 1

\* The embed of a message marked as submitted has been submitted already when
\* its update comes.
MarkedIsSent(m) ==
    m \in marked /\ ~cache[m].media =>
        \E i \in 1..Len(behind[m]) : behind[m][i].media /\ behind[m][i] \in sent[m]

\* What the bot has of a message was submitted, is being looked at, or is not the last of it.
Seen(m) ==
    \/ m \in lost \/ cache[m] = Nothing \/ behind[m] # << >>
    \/ task[m] # NoTask
    \/ \E c \in Calls : In(c, m)
    \/ cache[m] \in sent[m]

MessageInv(m) ==
    /\ Ordered(m) /\ MediaIsGif(m) /\ TaskTrue(m)
    /\ AskedOnce(m)
    /\ MarkedIsSent(m) /\ Seen(m)

IntakeInv ==
    /\ IntakeTyped
    /\ PendingHasTask
    /\ \A c \in Calls : CallOK(c)
    /\ \A m \in Posts : MessageInv(m)

LEMMA CallStarts ==
  ASSUME IntakeTypeOK, NEW c \in Calls, NEW s \in {"enabled", "build"}, NEW m \in Posts,
         NEW e \in {"CREATE", "UPDATE"}, NEW l \in BOOLEAN, Start(c, s, m, e, l)
  PROVE  /\ call' \in [Calls -> Call]
         /\ call'[c].stage = s /\ call'[c].msg = m
         /\ call'[c].event = e /\ call'[c].late = l
         /\ \A d \in Calls \ {c} : call'[d] = call[d]
  BY DEF IntakeTypeOK, Start, Call

LEMMA CallIs ==
  ASSUME IntakeTypeOK, NEW c \in Calls, call[c].stage \in {"enabled", "build"}
  PROVE  /\ call[c].msg \in Posts /\ call[c].event \in {"CREATE", "UPDATE"}
         /\ call[c].late \in BOOLEAN
  BY DEF IntakeTypeOK, Call, NoCall

LEMMA CallGoesOn ==
  ASSUME IntakeTypeOK, NEW c \in Calls, call[c].stage = "enabled",
         call' = [call EXCEPT ![c].stage = "build"]
  PROVE  /\ call' \in [Calls -> Call]
         /\ call'[c].stage = "build" /\ call'[c].msg = call[c].msg
         /\ call'[c].event = call[c].event /\ call'[c].late = call[c].late
         /\ \A d \in Calls \ {c} : call'[d] = call[d]
  <1>1. call[c] \in [stage : {"enabled", "build"}, msg : Posts,
                     event : {"CREATE", "UPDATE"}, late : BOOLEAN]
    BY DEF IntakeTypeOK, Call, NoCall
  <1>2. PICK s \in {"enabled", "build"} : s = "build"
    OBVIOUS
  <1>3. /\ [call[c] EXCEPT !.stage = s] \in [stage : {"enabled", "build"}, msg : Posts,
                     event : {"CREATE", "UPDATE"}, late : BOOLEAN]
        /\ [call[c] EXCEPT !.stage = s].stage = s
        /\ [call[c] EXCEPT !.stage = s].msg = call[c].msg
        /\ [call[c] EXCEPT !.stage = s].event = call[c].event
        /\ [call[c] EXCEPT !.stage = s].late = call[c].late
    BY <1>1
  <1>4. call' = [call EXCEPT ![c] = [call[c] EXCEPT !.stage = s]]
    BY <1>2
  <1> QED
    BY <1>2, <1>3, <1>4 DEF IntakeTypeOK, Call

LEMMA CallEnds ==
  ASSUME IntakeTypeOK, NEW c \in Calls, call' = [call EXCEPT ![c] = NoCall]
  PROVE  /\ call' \in [Calls -> Call]
         /\ call'[c].stage = "idle"
         /\ \A d \in Calls \ {c} : call'[d] = call[d]
  BY DEF IntakeTypeOK, Call, NoCall

LEMMA TaskIs ==
  ASSUME IntakeTypeOK, NEW m \in Posts, task[m].stage \in {"sleep", "fetch", "build"}
  PROVE  /\ task[m].tries \in 1..Attempts /\ task[m].got \in Content
         /\ task[m].found \in BOOLEAN /\ task[m] # NoTask
  BY DEF IntakeTypeOK, Task, NoTask

LEMMA Submitted ==
  ASSUME ModerationIntakeAssumption, IntakeTypeOK, NEW m \in Posts,
         NEW e \in {"CREATE", "UPDATE"}, NEW content \in Content,
         Submit(m, e, content)
  PROVE  /\ queue' \in Seq(Submission) /\ Len(queue') <= MaxSize
         /\ sent' \in [Posts -> SUBSET Content]
         /\ gifCreates' \in [Posts -> Nat]
         /\ lost' \subseteq Posts
         /\ lost \subseteq lost'
         /\ \A n \in Posts : sent[n] \subseteq sent'[n]
         /\ \A n \in Posts \ {m} : gifCreates'[n] = gifCreates[n]
         /\ gifCreates'[m] = gifCreates[m]
               \/ (gifCreates'[m] = gifCreates[m] + 1 /\ e = "CREATE" /\ content.media /\ ~Full)
         /\ m \in lost' \/ content \in sent'[m]
  <1>1. CASE Full
    BY <1>1 DEF Submit, IntakeTypeOK
  <1>2. CASE ~Full
    <2> DEFINE r == [msg |-> m, event |-> e, content |-> content]
    <2>1. r \in Submission
      BY DEF Submission
    <2>2. queue' = Append(queue, r)
      BY <1>2 DEF Submit
    <2>3. Len(queue) \in Nat /\ Len(queue) < MaxSize
      BY <1>2 DEF Full, IntakeTypeOK, ModerationIntakeAssumption
    <2>4. queue' \in Seq(Submission) /\ Len(queue') = Len(queue) + 1
      <3> HIDE DEF r
      <3> QED
        BY <2>1, <2>2 DEF IntakeTypeOK
    <2>5. Len(queue') <= MaxSize
      BY <2>3, <2>4 DEF ModerationIntakeAssumption
    <2>6. /\ sent' = [sent EXCEPT ![m] = @ \cup {content}]
          /\ gifCreates' = IF e = "CREATE" /\ content.media
                           THEN [gifCreates EXCEPT ![m] = @ + 1] ELSE gifCreates
          /\ lost' = lost
      BY <1>2 DEF Submit
    <2>7. /\ sent' \in [Posts -> SUBSET Content] /\ content \in sent'[m]
          /\ \A n \in Posts : sent[n] \subseteq sent'[n]
      BY <2>6 DEF IntakeTypeOK
    <2>8. /\ gifCreates' \in [Posts -> Nat]
          /\ \A n \in Posts \ {m} : gifCreates'[n] = gifCreates[n]
          /\ gifCreates'[m] = gifCreates[m]
               \/ (gifCreates'[m] = gifCreates[m] + 1 /\ e = "CREATE" /\ content.media)
      BY <2>6 DEF IntakeTypeOK
    <2> QED
      BY <1>2, <2>4, <2>5, <2>6, <2>7, <2>8 DEF IntakeTypeOK
  <1> QED
    BY <1>1, <1>2

LEMMA BecomesTyped ==
  ASSUME IntakeTypeOK, NEW m \in Posts, NEW v \in Content, Becomes(m, v)
  PROVE  /\ remote' \in [Posts -> Content]
         /\ behind' \in [Posts -> Seq(Content)]
  BY DEF IntakeTypeOK, Becomes

LEMMA WriteBecomes ==
  ASSUME IntakeTypeOK, NEW m \in Posts, ModerationIntakeAssumption, Write(m)
  PROVE  \E v \in Content : /\ Becomes(m, v)
                                   /\ v.text = remote[m].text + 1 /\ v.media = remote[m].media
  <1>1. remote[m] \in Content /\ remote[m].text \in 0..MaxText /\ remote[m].media \in BOOLEAN
    BY DEF IntakeTypeOK, Content
  <1>2. [remote[m] EXCEPT !.text = @ + 1] = [text |-> remote[m].text + 1, media |-> remote[m].media]
    BY <1>1 DEF Content
  <1>3. remote[m].text + 1 \in 0..MaxText
    BY <1>1 DEF Write, ModerationIntakeAssumption
  <1>4. [text |-> remote[m].text + 1, media |-> remote[m].media] \in Content
    BY <1>1, <1>3 DEF Content
  <1> QED
    BY <1>2, <1>4 DEF Write

LEMMA EmbedBecomes ==
  ASSUME IntakeTypeOK, NEW m \in Posts, Embed(m)
  PROVE  \E v \in Content : /\ Becomes(m, v) /\ m \in Gifs
                                   /\ v.text = remote[m].text /\ ~remote[m].media /\ v.media
  <1>1. remote[m] \in Content /\ remote[m].text \in 0..MaxText /\ remote[m].media \in BOOLEAN
    BY DEF IntakeTypeOK, Content
  <1>2. PICK b \in BOOLEAN : b = TRUE
    OBVIOUS
  <1>3. /\ [remote[m] EXCEPT !.media = b] \in Content
        /\ [remote[m] EXCEPT !.media = b].text = remote[m].text
        /\ [remote[m] EXCEPT !.media = b].media = b
    BY <1>1 DEF Content
  <1> QED
    BY <1>1, <1>2, <1>3 DEF Embed

LEMMA DeliverTyped ==
  ASSUME IntakeTyped, NEW c \in Calls, NEW m \in Posts, Deliver(c, m)
  PROVE  /\ call' \in [Calls -> Call]
         /\ cache' \in [Posts -> Content] /\ behind' \in [Posts -> Seq(Content)]
         /\ UNCHANGED <<remote, pending, task, marked, queue, worker, sent, gifCreates, lost>>
  <1>1. /\ behind[m] \in Seq(Content) /\ behind[m] # << >>
        /\ cache' = [cache EXCEPT ![m] = Head(behind[m])]
        /\ behind' = [behind EXCEPT ![m] = Tail(@)]
    BY DEF IntakeTyped, IntakeTypeOK, Deliver
  <1>2. Head(behind[m]) \in Content /\ Tail(behind[m]) \in Seq(Content)
    BY <1>1
  <1>3. /\ cache' \in [Posts -> Content] /\ behind' \in [Posts -> Seq(Content)]
    BY <1>1, <1>2 DEF IntakeTyped, IntakeTypeOK
  <1>4. CASE Created(c, m)
    <2>1. Start(c, "enabled", m, "CREATE", FALSE)
      BY <1>4 DEF Created
    <2> QED
      BY <2>1, <1>3, <1>4, CallStarts DEF Created, Deliver, intakeHist, IntakeTyped
  <1>5. CASE Edited(c, m, cache[m], Head(behind[m]))
    <2>1. UNCHANGED <<pending, task, marked>>
      BY <1>5 DEF Edited, bot
    <2>2. \/ call' = call \/ Start(c, "build", m, "CREATE", TRUE)
          \/ Start(c, "build", m, "UPDATE", FALSE)
      BY <1>5 DEF Edited, bot
    <2>3. call' \in [Calls -> Call]
      BY <2>2, CallStarts DEF IntakeTyped, IntakeTypeOK
    <2> QED
      BY <2>1, <2>3, <1>3 DEF Deliver, intakeHist
  <1> QED
    BY <1>4, <1>5 DEF Deliver

LEMMA EnabledTyped ==
  ASSUME IntakeTyped, ModerationIntakeAssumption, NEW c \in Calls, Enabled(c)
  PROVE  /\ call' \in [Calls -> Call] /\ task' \in [Posts -> Task]
         /\ pending' \subseteq Posts /\ \A m \in Posts : TriesLeft(m)'
  <1> DEFINE m == call[c].msg
  <1>1. call[c].stage = "enabled" /\ m \in Posts
    BY CallIs DEF Enabled, IntakeTyped
  <1>2. CASE m \in Gifs
    <2>1. call' = [call EXCEPT ![c] = NoCall] /\ pending' = pending \cup {m}
      BY <1>2 DEF Enabled
    <2>6. /\ Nothing \in Content /\ 1 \in 1..Attempts
          /\ "fetch" \in {"sleep", "fetch", "build"}
      BY DEF ModerationIntakeAssumption, Nothing, Content
    <2>7. task' = [task EXCEPT ![m] =
                      [stage |-> "fetch", tries |-> 1, got |-> Nothing, found |-> FALSE]]
      BY <1>2 DEF Enabled
    <2>2. PICK s \in {"sleep", "fetch", "build"}, b \in BOOLEAN, v \in Content, t \in 1..Attempts :
             /\ s = "fetch" /\ v = Nothing
             /\ task' = [task EXCEPT ![m] = [stage |-> s, tries |-> t, got |-> v, found |-> b]]
      BY <2>6, <2>7
    <2>3. [stage |-> s, tries |-> t, got |-> v, found |-> b] \in Task
      BY DEF Task
    <2>4. task' \in [Posts -> Task]
      BY <2>2, <2>3 DEF IntakeTyped, IntakeTypeOK
    <2>5. \A n \in Posts : TriesLeft(n)'
      BY <2>2, <1>1 DEF IntakeTyped, IntakeTypeOK, TriesLeft
    <2> QED
      BY <2>1, <2>4, <2>5, <1>1, CallEnds DEF IntakeTyped, IntakeTypeOK
  <1>3. CASE m \notin Gifs
    <2>1. call' = [call EXCEPT ![c].stage = "build"] /\ pending' = pending /\ task' = task
      BY <1>3 DEF Enabled
    <2> QED
      BY <2>1, <1>1, CallGoesOn DEF IntakeTyped, IntakeTypeOK, TriesLeft
  <1> QED
    BY <1>2, <1>3

\* What a poll leaves in the task.
LEMMA Polled ==
  ASSUME IntakeTyped, ModerationIntakeAssumption,
         NEW m \in Posts, NEW got \in Content, Poll(m, got)
  PROVE  /\ task' \in [Posts -> Task] /\ \A n \in Posts : TriesLeft(n)'
         /\ task[m] # NoTask /\ task'[m] # NoTask
         /\ \A n \in Posts \ {m} : task'[n] = task[n]
         /\ task'[m].stage \in {"sleep", "build"}
         /\ task'[m].got = got
         /\ task'[m].found = (IF got = Nothing THEN cache[m] ELSE got).media
  <1> DEFINE found == (IF got = Nothing THEN cache[m] ELSE got).media
  <1>1. /\ task[m].stage = "fetch" /\ task[m].tries \in 1..Attempts
        /\ task[m] # NoTask
        /\ task[m] \in [stage : {"sleep", "fetch", "build"}, tries : 1..Attempts,
                        got : Content, found : BOOLEAN]
    BY TaskIs DEF Poll, IntakeTyped, IntakeTypeOK, Task, NoTask
  <1>2. found \in BOOLEAN
    BY DEF IntakeTyped, IntakeTypeOK, Content
  <1>3. PICK s \in {"sleep", "fetch", "build"} :
           s = IF found \/ task[m].tries = Attempts THEN "build" ELSE "sleep"
    OBVIOUS
  <1>4. PICK b \in BOOLEAN : b = found
    BY <1>2
  <1> DEFINE t == [task[m] EXCEPT !.got = got, !.found = b, !.stage = s]
  <1>5. task' = [task EXCEPT ![m] = t]
    BY <1>3, <1>4 DEF Poll
  <1>6. /\ t \in Task /\ t.stage = s /\ t.got = got /\ t.found = b
        /\ t.tries = task[m].tries
    BY <1>1 DEF Task
  <1>7. t # NoTask
    BY <1>6, <1>3 DEF NoTask
  <1> HIDE DEF t, found
  <1>8. task' \in [Posts -> Task] /\ task'[m] = t
           /\ \A n \in Posts \ {m} : task'[n] = task[n]
    <2>1. task \in [Posts -> Task]
      BY DEF IntakeTyped, IntakeTypeOK
    <2> QED
      BY <2>1, <1>5, <1>6
  <1>9. TriesLeft(m)'
    BY <1>1, <1>3, <1>6, <1>8 DEF TriesLeft, ModerationIntakeAssumption
  <1> QED
    BY <1>1, <1>3, <1>4, <1>6, <1>7, <1>8, <1>9 DEF TriesLeft, IntakeTyped, found

LEMMA Woken ==
  ASSUME IntakeTyped, ModerationIntakeAssumption, NEW m \in Posts, Wake(m)
  PROVE  /\ task' \in [Posts -> Task] /\ \A n \in Posts : TriesLeft(n)'
         /\ task[m] # NoTask /\ task'[m] # NoTask
         /\ \A n \in Posts \ {m} : task'[n] = task[n]
         /\ task'[m].stage = "fetch"
  <1>1. /\ task[m].stage = "sleep" /\ task[m].tries \in 1..Attempts
        /\ task[m].tries + 1 \in 1..Attempts
        /\ task[m] # NoTask
        /\ task[m] \in [stage : {"sleep", "fetch", "build"}, tries : 1..Attempts,
                        got : Content, found : BOOLEAN]
    BY TaskIs DEF Wake, IntakeTyped, IntakeTypeOK, Task, NoTask,
                  TriesLeft, ModerationIntakeAssumption
  <1>2. PICK s \in {"sleep", "fetch", "build"} : s = "fetch"
    OBVIOUS
  <1>3. PICK k \in 1..Attempts : k = task[m].tries + 1
    BY <1>1
  <1> DEFINE t == [task[m] EXCEPT !.stage = s, !.tries = k]
  <1>4. task' = [task EXCEPT ![m] = t]
    BY <1>2, <1>3 DEF Wake
  <1>5. t \in Task /\ t.stage = s
    BY <1>1 DEF Task
  <1>6. t # NoTask
    BY <1>5, <1>2 DEF NoTask
  <1> HIDE DEF t
  <1> QED
    BY <1>1, <1>2, <1>4, <1>5, <1>6 DEF TriesLeft, IntakeTyped, IntakeTypeOK

LEMMA TaskEnded ==
  ASSUME IntakeTyped, NEW m \in Posts, TaskEnds(m)
  PROVE  /\ task' \in [Posts -> Task] /\ \A n \in Posts : TriesLeft(n)'
         /\ pending' \subseteq Posts
         /\ task'[m] = NoTask /\ \A n \in Posts \ {m} : task'[n] = task[n]
  BY DEF IntakeTyped, IntakeTypeOK, TaskEnds, Task, NoTask, TriesLeft

LEMMA CarriedIs ==
  ASSUME IntakeTypeOK, NEW m \in Posts, task[m].stage = "build"
  PROVE  Carried(m) \in Content
  BY TaskIs DEF Carried, IntakeTypeOK

LEMMA IntakeTypedInit ==
  ASSUME ModerationIntakeAssumption, IntakeInit
  PROVE  IntakeTyped
  BY DEF ModerationIntakeAssumption, IntakeInit, IntakeTyped, IntakeTypeOK, TriesLeft,
         Content, Nothing, Call, NoCall, Task, NoTask

LEMMA IntakeTypedStep ==
  ASSUME ModerationIntakeAssumption, IntakeTyped, [IntakeNext]_intakeVars
  PROVE  IntakeTyped'
  <1>1. ASSUME NEW m \in Posts, Write(m) \/ Embed(m)  PROVE IntakeTyped'
    <2>1. PICK v \in Content : Becomes(m, v)
      BY <1>1, WriteBecomes, EmbedBecomes DEF IntakeTyped
    <2> QED
      BY <2>1, BecomesTyped DEF Becomes, IntakeTyped, IntakeTypeOK, TriesLeft,
                                bot, intakeHist
  <1>2. ASSUME NEW m \in Posts, Wake(m)  PROVE IntakeTyped'
    BY <1>2, Woken DEF Wake, IntakeTyped, IntakeTypeOK, intakeHist
  <1>3. ASSUME NEW m \in Posts, NEW got \in Content, Poll(m, got)  PROVE IntakeTyped'
    BY <1>3, Polled DEF Poll, IntakeTyped, IntakeTypeOK, intakeHist
  <1>4. ASSUME NEW m \in Posts, HydratedSubmits(m)  PROVE IntakeTyped'
    <2>1. /\ Carried(m) \in Content /\ Submit(m, "CREATE", Carried(m))
          /\ TaskEnds(m) /\ marked' \subseteq Posts
          /\ UNCHANGED <<remote, behind, cache, call, worker>>
      BY <1>4, CarriedIs DEF HydratedSubmits, Remember, Carried, IntakeTyped, IntakeTypeOK
    <2> QED
      BY <2>1, TaskEnded, Submitted DEF IntakeTyped, IntakeTypeOK
  <1>5. ASSUME NEW m \in Posts, HydrationRaises(m)  PROVE IntakeTyped'
    BY <1>5, TaskEnded DEF HydrationRaises, IntakeTyped, IntakeTypeOK
  <1>6. ASSUME NEW c \in Calls, Enabled(c)  PROVE IntakeTyped'
    BY <1>6, EnabledTyped DEF Enabled, IntakeTyped, IntakeTypeOK, intakeHist
  <1>7. ASSUME NEW c \in Calls, Built(c)  PROVE IntakeTyped'
    <2>1. /\ call[c].msg \in Posts /\ call[c].event \in {"CREATE", "UPDATE"}
          /\ cache[call[c].msg] \in Content
      BY <1>7, CallIs DEF Built, IntakeTyped, IntakeTypeOK
    <2>2. /\ Submit(call[c].msg, call[c].event, cache[call[c].msg])
          /\ marked' \subseteq Posts
          /\ call' = [call EXCEPT ![c] = NoCall]
          /\ UNCHANGED <<remote, behind, cache, pending, task, worker>>
      BY <1>7, <2>1 DEF Built, IntakeTyped, IntakeTypeOK
    <2>3. call' \in [Calls -> Call]
      BY <2>2, CallEnds DEF IntakeTyped
    <2>4. /\ queue' \in Seq(Submission) /\ Len(queue') <= MaxSize
          /\ sent' \in [Posts -> SUBSET Content]
          /\ gifCreates' \in [Posts -> Nat] /\ lost' \subseteq Posts
      BY <2>1, <2>2, Submitted DEF IntakeTyped
    <2> QED
      BY <2>2, <2>3, <2>4 DEF IntakeTyped, IntakeTypeOK, TriesLeft
  <1>8. ASSUME NEW c \in Calls, BuildRaises(c)  PROVE IntakeTyped'
    <2>1. call[c].msg \in Posts
      BY <1>8 DEF BuildRaises, IntakeTyped, IntakeTypeOK, Call, NoCall
    <2> QED
      BY <1>8, <2>1, CallEnds DEF BuildRaises, IntakeTyped, IntakeTypeOK, TriesLeft
  <1>9. ASSUME NEW c \in Calls, NEW m \in Posts, Deliver(c, m)  PROVE IntakeTyped'
    BY <1>9, DeliverTyped DEF IntakeTyped, IntakeTypeOK, TriesLeft
  <1>10. ASSUME NEW w \in Pool, Get(w)  PROVE IntakeTyped'
    <2>1. /\ queue \in Seq(Submission) /\ queue # << >> /\ Len(queue) <= MaxSize
          /\ queue' = Tail(queue) /\ worker' = [worker EXCEPT ![w] = Head(queue)]
      BY <1>10 DEF Get, IntakeTyped, IntakeTypeOK
    <2>2. Head(queue) \in Submission /\ Tail(queue) \in Seq(Submission)
            /\ Len(Tail(queue)) <= MaxSize
      <3>1. Len(Tail(queue)) = Len(queue) - 1 /\ Len(queue) \in Nat
        BY <2>1
      <3> QED
        BY <2>1, <3>1 DEF ModerationIntakeAssumption
    <2> QED
      BY <1>10, <2>1, <2>2 DEF Get, IntakeTyped, IntakeTypeOK, TriesLeft, bot, intakeHist
  <1>11. ASSUME NEW w \in Pool, Serve(w)  PROVE IntakeTyped'
    BY <1>11 DEF Serve, Served, Failed, IntakeTyped, IntakeTypeOK, TriesLeft,
                 bot, intakeHist
  <1>12. CASE UNCHANGED intakeVars
    BY <1>12 DEF intakeVars, bot, intakeHist, IntakeTyped, IntakeTypeOK, TriesLeft
  <1>13. Nothing \in Content /\ \A m \in Posts : remote[m] \in Content
    BY DEF Nothing, Content, ModerationIntakeAssumption, IntakeTyped, IntakeTypeOK
  <1> QED
    BY <1>1, <1>2, <1>3, <1>4, <1>5, <1>6, <1>7, <1>8, <1>9, <1>10, <1>11, <1>12, <1>13
       DEF IntakeNext, Hydration, Handler

\* The state of the intake has its types: the queue is bounded, a task has an
\* attempt left while it sleeps, and what is sent is a content a message had.
THEOREM IntakeTypeCorrect == IntakeSpec => []IntakeTypeOK
  <1>1. IntakeInit => IntakeTyped
    BY ModerationIntakeAssumption, IntakeTypedInit
  <1>2. IntakeTyped /\ [IntakeNext]_intakeVars => IntakeTyped'
    BY ModerationIntakeAssumption, IntakeTypedStep
  <1>3. IntakeTyped => IntakeTypeOK
    BY DEF IntakeTyped
  <1> QED
    BY <1>1, <1>2, <1>3, PTL DEF IntakeSpec

-----------------------------------------------------------------------------
(* A step is about one message; what it leaves alone keeps its invariant.  *)

Elsewhere(m) ==
    /\ cache'[m] = cache[m] /\ behind'[m] = behind[m] /\ remote'[m] = remote[m]
    /\ task'[m] = task[m] /\ gifCreates'[m] = gifCreates[m]
    /\ m \in marked' <=> m \in marked
    /\ sent[m] \subseteq sent'[m]
    /\ m \in lost => m \in lost'
    /\ \A c \in Calls : call'[c] = call[c] \/ (~In(c, m) /\ ~In(c, m)')

LEMMA ElsewhereKeeps ==
  ASSUME NEW m \in Posts, MessageInv(m), Elsewhere(m)
  PROVE  MessageInv(m)'
  <1>1. \A c \in Calls : In(c, m)' = In(c, m) /\ Enabling(c, m)' = Enabling(c, m)
                            /\ Late(c, m)' = Late(c, m)
    BY DEF Elsewhere, In, Enabling, Late
  <1>2. Ordered(m)' /\ MediaIsGif(m)' /\ TaskTrue(m)'
    BY DEF Elsewhere, MessageInv, Ordered, MediaIsGif, TaskTrue, Carried
  <1>3. AskedOnce(m)'
    BY <1>1 DEF Elsewhere, MessageInv, AskedOnce, Unasked
  <1>4. MarkedIsSent(m)'
    BY DEF Elsewhere, MessageInv, MarkedIsSent
  <1>5. Seen(m)'
    BY <1>1 DEF Elsewhere, MessageInv, Seen
  <1> QED
    BY <1>2, <1>3, <1>4, <1>5 DEF MessageInv

LEMMA VersionIs ==
  ASSUME IntakeTyped, NEW m \in Posts
  PROVE  /\ cache[m] \in Content /\ cache[m].text \in Nat /\ cache[m].media \in BOOLEAN
         /\ remote[m] \in Content /\ remote[m].text \in Nat /\ remote[m].media \in BOOLEAN
         /\ behind[m] \in Seq(Content) /\ Len(behind[m]) \in Nat
         /\ \A i \in 1..Len(behind[m]) :
               /\ behind[m][i] \in Content
               /\ behind[m][i].text \in Nat /\ behind[m][i].media \in BOOLEAN
  <1>1. \A v \in Content : v.text \in Nat /\ v.media \in BOOLEAN
    BY DEF Content
  <1>2. /\ cache[m] \in Content /\ remote[m] \in Content
        /\ behind[m] \in Seq(Content)
    BY DEF IntakeTyped, IntakeTypeOK
  <1> QED
    BY <1>1, <1>2

\* Discord goes on by one version.
LEMMA BecomesKeeps ==
  ASSUME IntakeTyped, NEW m \in Posts, MessageInv(m), NEW v \in Content,
         Becomes(m, v), Follows(remote[m], v), v.media => remote[m].media \/ m \in Gifs
  PROVE  MessageInv(m)'
  <1> DEFINE n == Len(behind[m])
  <1>1. /\ behind[m] \in Seq(Content) /\ n \in Nat
        /\ behind[m] = << >> <=> n = 0
    BY VersionIs
  <1>2. /\ remote'[m] = v /\ behind'[m] = Append(behind[m], v)
        /\ UNCHANGED <<cache, call, task, marked, sent, gifCreates, lost>>
    BY DEF Becomes, bot, intakeHist, IntakeTyped, IntakeTypeOK
  <1>3. /\ Len(behind'[m]) = n + 1 /\ behind'[m][n + 1] = v /\ behind'[m] # << >>
        /\ \A i \in 1..n : behind'[m][i] = behind[m][i]
    BY <1>1, <1>2
  <1>4. Ordered(m)'
    BY <1>1, <1>2, <1>3 DEF MessageInv, Ordered
  <1>5. MediaIsGif(m)'
    BY <1>1, <1>2, <1>3 DEF MessageInv, MediaIsGif
  <1>6. TaskTrue(m)'
    BY <1>1, <1>2, <1>3 DEF MessageInv, TaskTrue, Carried
  <1>7. AskedOnce(m)'
    BY <1>2 DEF MessageInv, AskedOnce, Unasked, In, Enabling, Late
  <1>8. MarkedIsSent(m)'
    BY <1>1, <1>2, <1>3 DEF MessageInv, MarkedIsSent
  <1>9. Seen(m)'
    BY <1>3 DEF Seen
  <1> QED
    BY <1>4, <1>5, <1>6, <1>7, <1>8, <1>9 DEF MessageInv

LEMMA TailIs ==
  ASSUME NEW S, NEW s \in Seq(S), s # << >>
  PROVE  /\ Len(s) \in Nat \ {0} /\ Len(Tail(s)) = Len(s) - 1
         /\ Head(s) = s[1]
         /\ \A i \in 1..Len(Tail(s)) : Tail(s)[i] = s[i + 1]
         /\ (Tail(s) = << >>) <=> (Len(s) = 1)
  <1>1. Len(s) \in Nat /\ Len(s) # 0
    OBVIOUS
  <1>2. Len(Tail(s)) = Len(s) - 1 /\ Tail(s) \in Seq(S)
    BY <1>1
  <1>3. \A i \in 1..Len(Tail(s)) : Tail(s)[i] = s[i + 1]
    BY <1>1
  <1>4. PICK t \in Seq(S) : t = Tail(s)
    BY <1>2
  <1>5. (t = << >>) <=> (Len(t) = 0)
    OBVIOUS
  <1> QED
    BY <1>1, <1>2, <1>3, <1>4, <1>5

\* What the bot has of m becomes the next version.
LEMMA NextVersion ==
  ASSUME IntakeTyped, NEW m \in Posts, MessageInv(m), behind[m] # << >>,
         cache'[m] = Head(behind[m]), behind'[m] = Tail(behind[m]), remote'[m] = remote[m]
  PROVE  /\ Ordered(m)' /\ MediaIsGif(m)'
         /\ Follows(cache[m], cache'[m])
         /\ cache'[m].text \in Nat /\ cache'[m].media \in BOOLEAN
         /\ Len(behind'[m]) = Len(behind[m]) - 1
         /\ cache'[m] = behind[m][1]
         /\ \A i \in 1..Len(behind'[m]) : behind'[m][i] = behind[m][i + 1]
  <1>a. behind[m] \in Seq(Content) /\ Len(behind[m]) \in Nat \ {0}
    BY VersionIs
  <1>1. PICK n \in Nat : n = Len(behind[m]) /\ n # 0 /\ behind[m] \in Seq(Content)
    BY <1>a
  <1>2. /\ Len(behind'[m]) = n - 1 /\ cache'[m] = behind[m][1]
        /\ \A i \in 1..(n - 1) : behind'[m][i] = behind[m][i + 1]
        /\ (behind'[m] = << >>) <=> (n = 1)
    BY <1>1, TailIs
  <1>3. Ordered(m)'
    <2>1. CASE n = 1
      BY <2>1, <1>1, <1>2 DEF MessageInv, Ordered
    <2>2. CASE n # 1
      <3>a. n > 1 /\ 1 \in 1..(n - 1) /\ n - 1 \in 1..(n - 1) /\ (n - 1) + 1 = n /\ n - 1 \in Nat
        <4>1. n # 0
          BY <1>1
        <4> QED
          BY <4>1, <2>2
      <3>1. /\ behind'[m] # << >>
            /\ behind'[m][n - 1] = behind[m][n] /\ behind'[m][1] = behind[m][2]
        BY <3>a, <2>2, <1>2
      <3>2. Follows(behind[m][1], behind[m][2]) /\ remote[m] = behind[m][n]
        BY <3>a, <1>1 DEF MessageInv, Ordered
      <3>3. \A i \in 1..(n - 2) : Follows(behind[m][i + 1], behind[m][i + 2])
        <4> TAKE i \in 1..(n - 2)
        <4>1. i + 1 \in 1..(n - 1) /\ (i + 1) + 1 = i + 2
          OBVIOUS
        <4> QED
          BY <4>1, <1>1 DEF MessageInv, Ordered
      <3>4. \A i \in 1..(n - 2) : Follows(behind'[m][i], behind'[m][i + 1])
        <4> TAKE i \in 1..(n - 2)
        <4>1. i \in 1..(n - 1) /\ i + 1 \in 1..(n - 1) /\ (i + 1) + 1 = i + 2
          BY <1>1
        <4>2. behind'[m][i] = behind[m][i + 1] /\ behind'[m][i + 1] = behind[m][i + 2]
          BY <4>1, <1>2
        <4> QED
          BY <4>2, <3>3
      <3>5. Len(behind'[m]) - 1 = n - 2
        BY <1>1, <1>2
      <3> QED
        BY <1>2, <3>1, <3>2, <3>4, <3>5 DEF Ordered
    <2> QED
      BY <2>1, <2>2
  <1>4. MediaIsGif(m)'
    BY <1>1, <1>2 DEF MessageInv, MediaIsGif
  <1> QED
    BY <1>1, <1>2, <1>3, <1>4, VersionIs DEF MessageInv, Ordered

\* What a delivered version starts.  One that starts nothing is left to the task,
\* or brings the embed of a message already submitted.
LEMMA DeliverCases ==
  ASSUME IntakeInv, NEW c \in Calls, NEW m \in Posts, Deliver(c, m)
  PROVE  /\ call[c].stage = "idle"
         /\ \A d \in Calls \ {c} : call'[d] = call[d]
         /\ \/ /\ cache[m] = Nothing
               /\ call'[c].stage = "enabled" /\ call'[c].msg = m
               /\ call'[c].event = "CREATE" /\ ~call'[c].late
            \/ /\ cache[m] # Nothing
               /\ task[m] # NoTask
               /\ call' = call
            \/ /\ cache[m] # Nothing
               /\ ~cache[m].media /\ m \in marked /\ cache'[m].media
               /\ call' = call
            \/ /\ cache[m] # Nothing
               /\ task[m] = NoTask /\ ~cache[m].media /\ m \notin marked /\ cache'[m].media
               /\ call'[c].stage = "build" /\ call'[c].msg = m
               /\ call'[c].event = "CREATE" /\ call'[c].late
            \/ /\ cache[m] # Nothing
               /\ call'[c].stage = "build" /\ call'[c].msg = m
               /\ call'[c].event = "UPDATE" /\ ~call'[c].late
  <1> DEFINE after == Head(behind[m])
  <1>1. /\ call[c] = NoCall /\ behind[m] # << >>
        /\ cache'[m] = after /\ behind'[m] = Tail(behind[m]) /\ remote'[m] = remote[m]
    BY DEF Deliver, IntakeInv, IntakeTyped, IntakeTypeOK
  <1>2. call[c].stage = "idle"
    BY <1>1 DEF NoCall
  <1>3. /\ Follows(cache[m], after) /\ after.text \in Nat /\ after.media \in BOOLEAN
        /\ cache[m].text \in Nat /\ cache[m].media \in BOOLEAN
    BY <1>1, NextVersion, VersionIs DEF IntakeInv
  <1>4. m \in pending <=> task[m] # NoTask
    BY DEF IntakeInv, PendingHasTask
  <1>5. IntakeTypeOK
    BY DEF IntakeInv, IntakeTyped
  <1>6. CASE cache[m] = Nothing
    <2>1. Start(c, "enabled", m, "CREATE", FALSE)
      BY <1>6 DEF Deliver, Created
    <2> QED
      BY <2>1, <1>2, <1>5, <1>6, CallStarts
  <1>7. CASE cache[m] # Nothing
    <2>1. Edited(c, m, cache[m], after)
      BY <1>7 DEF Deliver
    <2>2. Changed(cache[m], after) \/ LateEmbed(m, cache[m], after)
      BY <1>3 DEF Follows, Changed, LateEmbed
    <2>3. CASE /\ m \in pending \/ (LateEmbed(m, cache[m], after) /\ m \in marked)
               /\ call' = call
      BY <2>3, <1>1, <1>2, <1>4, <1>7 DEF LateEmbed
    <2>4. CASE /\ m \notin pending /\ LateEmbed(m, cache[m], after) /\ m \notin marked
               /\ Start(c, "build", m, "CREATE", TRUE)
      BY <2>4, <1>1, <1>2, <1>4, <1>5, <1>7, CallStarts DEF LateEmbed
    <2>5. CASE Start(c, "build", m, "UPDATE", FALSE)
      BY <2>5, <1>2, <1>5, <1>7, CallStarts
    <2> QED
      BY <2>1, <2>2, <2>3, <2>4, <2>5 DEF Edited, AlreadySubmitted, bot
  <1> QED
    BY <1>6, <1>7

LEMMA DeliverKeeps ==
  ASSUME IntakeInv, Calm, NEW c \in Calls, NEW m \in Posts, Deliver(c, m)
  PROVE  MessageInv(m)'
  <1>1. /\ behind[m] # << >> /\ task[m].stage # "build"
        /\ \A d \in Calls : ~Enabling(d, m)
        /\ cache'[m] = Head(behind[m]) /\ behind'[m] = Tail(behind[m]) /\ remote'[m] = remote[m]
        /\ UNCHANGED <<task, marked, sent, gifCreates, lost>>
    BY DeliverTyped DEF Deliver, IntakeInv, IntakeTyped, IntakeTypeOK,
                        InFlight, Enabling
  <1>2. MessageInv(m)
    BY DEF IntakeInv
  <1>3. /\ Ordered(m)' /\ MediaIsGif(m)'
        /\ Follows(cache[m], cache'[m]) /\ cache[m].media \in BOOLEAN
        /\ cache'[m].text \in Nat /\ cache'[m].media \in BOOLEAN
        /\ cache[m].text \in Nat
        /\ Len(behind'[m]) = Len(behind[m]) - 1 /\ Len(behind[m]) \in Nat
        /\ cache'[m] = behind[m][1]
        /\ \A i \in 1..Len(behind'[m]) : behind'[m][i] = behind[m][i + 1]
    BY <1>1, <1>2, NextVersion, VersionIs DEF IntakeInv
  <1>4. cache'[m] # Nothing /\ (cache[m].media => cache'[m].media)
    BY <1>2, <1>3 DEF Follows, Nothing, MessageInv, AskedOnce
  <1>5. TaskTrue(m)'
    BY <1>1 DEF TaskTrue
  <1>6. MarkedIsSent(m)'
    <2> SUFFICES ASSUME m \in marked, ~cache'[m].media  PROVE MarkedIsSent(m)'
      BY <1>1 DEF MarkedIsSent
    <2>1. PICK i \in 1..Len(behind[m]) : behind[m][i].media /\ behind[m][i] \in sent[m]
      BY <1>2, <1>4 DEF MessageInv, MarkedIsSent
    <2>2. i # 1
      BY <1>3, <2>1
    <2>3. i - 1 \in 1..Len(behind'[m]) /\ (i - 1) + 1 = i
      BY <1>3, <2>2
    <2>4. behind'[m][i - 1] = behind[m][i]
      BY <1>3, <2>3
    <2> QED
      BY <1>1, <2>1, <2>3, <2>4 DEF MarkedIsSent
  <1>7. AskedOnce(m)' /\ Seen(m)'
    <2>1. /\ call[c].stage = "idle"
          /\ \A d \in Calls \ {c} : call'[d] = call[d]
      BY DeliverCases
    <2>2. AskedOnce(m) /\ Seen(m)
      BY <1>2 DEF MessageInv
    <2>3. CASE /\ cache[m] = Nothing
               /\ call'[c].stage = "enabled" /\ call'[c].msg = m
               /\ call'[c].event = "CREATE" /\ ~call'[c].late
      BY <1>1, <1>4, <2>1, <2>2, <2>3 DEF AskedOnce, Seen, Unasked, In, Enabling, Late
    <2>4. CASE task[m] # NoTask /\ call' = call
      BY <1>1, <1>4, <2>1, <2>2, <2>4 DEF AskedOnce, Seen, Unasked, In, Enabling, Late
    <2>5. CASE /\ cache[m] # Nothing
               /\ ~cache[m].media /\ m \in marked /\ cache'[m].media /\ call' = call
      <3>1. AskedOnce(m)'
        BY <1>1, <1>4, <2>1, <2>2, <2>5 DEF AskedOnce, Unasked, In, Enabling, Late
      <3>2. CASE behind'[m] # << >>
        BY <3>1, <3>2 DEF Seen
      <3>3. CASE behind'[m] = << >>
        <4>1. Len(behind[m]) = 1
          BY <1>3, <3>3
        <4>2. PICK i \in 1..Len(behind[m]) : behind[m][i].media /\ behind[m][i] \in sent[m]
          BY <1>2, <2>5 DEF MessageInv, MarkedIsSent
        <4>3. i = 1
          BY <4>1, <4>2
        <4> QED
          BY <3>1, <1>1, <1>3, <4>2, <4>3 DEF Seen
      <3> QED
        BY <3>1, <3>2, <3>3
    <2>6. CASE /\ cache[m] # Nothing
               /\ task[m] = NoTask /\ ~cache[m].media /\ m \notin marked /\ cache'[m].media
               /\ call'[c].stage = "build" /\ call'[c].msg = m
               /\ call'[c].event = "CREATE" /\ call'[c].late
      BY <1>1, <1>4, <2>1, <2>2, <2>6 DEF AskedOnce, Seen, Unasked, In, Enabling, Late
    <2>7. CASE /\ cache[m] # Nothing
               /\ call'[c].stage = "build" /\ call'[c].msg = m
               /\ call'[c].event = "UPDATE" /\ ~call'[c].late
      BY <1>1, <1>4, <2>1, <2>2, <2>7 DEF AskedOnce, Seen, Unasked, In, Enabling, Late
    <2> QED
      BY DeliverCases, <2>3, <2>4, <2>5, <2>6, <2>7
  <1> QED
    BY <1>3, <1>5, <1>6, <1>7 DEF MessageInv

-----------------------------------------------------------------------------
(* The steps of the listeners and of the task of a GIF.                     *)

LEMMA EnabledKeeps ==
  ASSUME IntakeInv, NEW c \in Calls, NEW m \in Posts, call[c].msg = m, Enabled(c)
  PROVE  MessageInv(m)'
  <1>1. /\ call[c].stage = "enabled" /\ MessageInv(m) /\ IntakeTypeOK
        /\ call[c].late = FALSE
    BY CallIs DEF Enabled, IntakeInv, IntakeTyped, CallOK
  <1>2. UNCHANGED <<remote, behind, cache, marked, sent, gifCreates, lost>>
    BY DEF Enabled, intakeHist
  <1>3. /\ \A d \in Calls \ {c} : ~In(d, m)
        /\ Unasked(m) /\ m \notin marked /\ cache[m] # Nothing
    <2>1. Enabling(c, m) /\ In(c, m)
      BY <1>1 DEF Enabling, In
    <2> QED
      BY <2>1, <1>1 DEF MessageInv, AskedOnce
  <1>4. CASE m \in Gifs
    <2>1. /\ call'[c].stage = "idle"
          /\ \A d \in Calls \ {c} : call'[d] = call[d]
      BY <1>1, <1>4, CallEnds DEF Enabled
    <2>2. task'[m] # NoTask /\ task'[m].stage = "fetch"
      BY <1>1, <1>4 DEF Enabled, IntakeTypeOK, NoTask
    <2>5. \A d \in Calls : ~In(d, m)' /\ ~Enabling(d, m)' /\ ~Late(d, m)'
      BY <1>3, <2>1 DEF In, Enabling, Late
    <2>3. AskedOnce(m)'
      BY <1>2, <1>3, <2>2, <2>5 DEF AskedOnce, Unasked
    <2>4. Ordered(m)' /\ MediaIsGif(m)' /\ MarkedIsSent(m)'
      BY <1>1, <1>2 DEF MessageInv, Ordered, MediaIsGif, MarkedIsSent
    <2> QED
      BY <2>2, <2>3, <2>4 DEF MessageInv, TaskTrue, Seen
  <1>5. CASE m \notin Gifs
    <2>1. /\ call'[c].stage = "build" /\ call'[c].msg = m /\ call'[c].late = FALSE
          /\ \A d \in Calls \ {c} : call'[d] = call[d]
          /\ task' = task
      BY <1>1, <1>5, CallGoesOn DEF Enabled
    <2>5. \A d \in Calls : ~Enabling(d, m)' /\ ~Late(d, m)'
      BY <1>3, <2>1 DEF In, Enabling, Late
    <2>2. AskedOnce(m)'
      BY <1>2, <1>3, <2>1, <2>5 DEF AskedOnce, Unasked
    <2>3. Ordered(m)' /\ MediaIsGif(m)' /\ MarkedIsSent(m)' /\ TaskTrue(m)'
      BY <1>1, <1>2, <2>1 DEF MessageInv, Ordered, MediaIsGif, MarkedIsSent, TaskTrue, Carried
    <2>4. Seen(m)'
      BY <2>1 DEF Seen, In
    <2> QED
      BY <2>2, <2>3, <2>4 DEF MessageInv
  <1> QED
    BY <1>4, <1>5

LEMMA BuiltKeeps ==
  ASSUME IntakeInv, ModerationIntakeAssumption,
         NEW c \in Calls, NEW m \in Posts, call[c].msg = m, Built(c)
  PROVE  MessageInv(m)'
  <1>1. /\ call[c].stage = "build" /\ IntakeTypeOK
        /\ call[c].event \in {"CREATE", "UPDATE"} /\ call[c].late \in BOOLEAN
    BY CallIs DEF Built, IntakeInv, IntakeTyped
  <1>3. PICK v \in Content : v = cache[m]
    BY <1>1 DEF IntakeTypeOK
  <1>4. MessageInv(m) /\ CallOK(c) /\ gifCreates[m] \in Nat
    BY <1>1 DEF IntakeInv, IntakeTypeOK
  <1>5. /\ call'[c].stage = "idle"
        /\ \A d \in Calls \ {c} : call'[d] = call[d]
    BY <1>1, CallEnds DEF Built
  <1>6. /\ Submit(m, call[c].event, v)
        /\ marked' = IF call[c].late /\ ~Full THEN marked \cup {m} ELSE marked
        /\ UNCHANGED <<remote, behind, cache, task>>
    BY <1>3 DEF Built
  <1>7. /\ lost \subseteq lost' /\ sent[m] \subseteq sent'[m]
        /\ gifCreates'[m] = gifCreates[m]
              \/ (gifCreates'[m] = gifCreates[m] + 1 /\ call[c].event = "CREATE" /\ v.media)
        /\ m \in lost' \/ v \in sent'[m]
    BY <1>1, <1>6, Submitted
  <1>8. m \in marked' => m \in marked \/ cache[m].media
    BY <1>1, <1>4, <1>6 DEF MessageInv, AskedOnce, Late
  <1>9. m \in marked => m \in marked'
    BY <1>6
  <1>10. \/ gifCreates'[m] = gifCreates[m]
         \/ gifCreates'[m] = 1 /\ Late(c, m) /\ cache[m].media
    <2> SUFFICES ASSUME gifCreates'[m] = gifCreates[m] + 1, call[c].event = "CREATE", v.media
                 PROVE  gifCreates'[m] = 1 /\ Late(c, m) /\ cache[m].media
      BY <1>7
    <2>1. m \in Gifs
      BY <1>3, <1>4 DEF MessageInv, MediaIsGif
    <2>2. Late(c, m)
      BY <2>1, <1>1, <1>4 DEF CallOK, Late
    <2>3. gifCreates[m] = 0
      BY <2>2, <1>4 DEF MessageInv, AskedOnce, Unasked
    <2> QED
      BY <2>2, <2>3, <1>3
  <1>11. \A d \in Calls : /\ Late(d, m)' => Late(d, m) /\ d # c
                          /\ Enabling(d, m)' => Enabling(d, m) /\ d # c
                          /\ In(d, m)' => In(d, m) /\ d # c
    BY <1>5 DEF Late, Enabling, In
  <1>12. In(c, m)
    BY <1>1 DEF In
  <1>13. AskedOnce(m)'
    <2>1. AskedOnce(m)
      BY <1>4 DEF MessageInv
    <2>2. CASE gifCreates'[m] = gifCreates[m]
      BY <2>1, <2>2, <1>6, <1>8, <1>9, <1>11, <1>12 DEF AskedOnce, Unasked
    <2>3. CASE gifCreates'[m] = 1 /\ Late(c, m) /\ cache[m].media
      BY <2>1, <2>3, <1>6, <1>8, <1>9, <1>11, <1>12 DEF AskedOnce, Unasked
    <2> QED
      BY <1>10, <2>2, <2>3
  <1>14. MarkedIsSent(m)'
    BY <1>4, <1>6, <1>7, <1>8 DEF MessageInv, MarkedIsSent
  <1>15. Ordered(m)' /\ MediaIsGif(m)' /\ TaskTrue(m)'
    BY <1>4, <1>6 DEF MessageInv, Ordered, MediaIsGif, TaskTrue, Carried
  <1>16. Seen(m)'
    BY <1>3, <1>6, <1>7 DEF Seen
  <1> QED
    BY <1>13, <1>14, <1>15, <1>16 DEF MessageInv

LEMMA RaisedKeeps ==
  ASSUME IntakeInv, NEW c \in Calls, NEW m \in Posts, call[c].msg = m, BuildRaises(c)
  PROVE  MessageInv(m)'
  <1>1. MessageInv(m) /\ IntakeTypeOK
    BY DEF IntakeInv, IntakeTyped
  <1>2. /\ call'[c].stage = "idle"
        /\ \A d \in Calls \ {c} : call'[d] = call[d]
    BY <1>1, CallEnds DEF BuildRaises
  <1>3. /\ UNCHANGED <<remote, behind, cache, task, marked, sent, gifCreates>>
        /\ m \in lost'
    BY DEF BuildRaises
  <1>4. \A d \in Calls : /\ Late(d, m)' => Late(d, m) /\ d # c
                         /\ Enabling(d, m)' => Enabling(d, m) /\ d # c
                         /\ In(d, m)' => In(d, m) /\ d # c
    BY <1>2 DEF Late, Enabling, In
  <1>5. AskedOnce(m)'
    BY <1>1, <1>3, <1>4 DEF MessageInv, AskedOnce, Unasked
  <1>6. Ordered(m)' /\ MediaIsGif(m)' /\ TaskTrue(m)' /\ MarkedIsSent(m)'
    BY <1>1, <1>3 DEF MessageInv, Ordered, MediaIsGif, TaskTrue, Carried, MarkedIsSent
  <1> QED
    BY <1>3, <1>5, <1>6 DEF MessageInv, Seen

\* The task goes on to look, or has looked.
LEMMA LookingKeeps ==
  ASSUME IntakeInv, NEW m \in Posts, task[m] # NoTask, task'[m] # NoTask, TaskTrue(m)',
         UNCHANGED <<remote, behind, cache, call, marked, sent, gifCreates, lost>>
  PROVE  MessageInv(m)'
  <1>1. MessageInv(m)
    BY DEF IntakeInv
  <1>2. \A d \in Calls : Late(d, m)' = Late(d, m) /\ Enabling(d, m)' = Enabling(d, m)
                            /\ In(d, m)' = In(d, m)
    BY DEF Late, Enabling, In
  <1>3. AskedOnce(m)'
    BY <1>1, <1>2 DEF MessageInv, AskedOnce, Unasked
  <1>4. Ordered(m)' /\ MediaIsGif(m)' /\ MarkedIsSent(m)'
    BY <1>1 DEF MessageInv, Ordered, MediaIsGif, MarkedIsSent
  <1> QED
    BY <1>3, <1>4 DEF MessageInv, Seen

LEMMA WakeKeeps ==
  ASSUME IntakeInv, ModerationIntakeAssumption, NEW m \in Posts, Wake(m)
  PROVE  MessageInv(m)'
  <1>1. task[m] # NoTask /\ task'[m] # NoTask /\ task'[m].stage = "fetch"
    BY Woken DEF IntakeInv
  <1> QED
    BY <1>1, LookingKeeps DEF Wake, intakeHist, TaskTrue

LEMMA PollKeeps ==
  ASSUME IntakeInv, ModerationIntakeAssumption, NEW m \in Posts,
         NEW got \in {remote[m], Nothing}, Poll(m, got)
  PROVE  MessageInv(m)'
  <1>1. got \in Content
    <2>1. Nothing \in Content
      BY DEF Nothing, Content, ModerationIntakeAssumption
    <2> QED
      BY <2>1, VersionIs DEF IntakeInv
  <1>2. UNCHANGED <<remote, behind, cache, call, marked, sent, gifCreates, lost>>
    BY DEF Poll, intakeHist
  <1>3. /\ task[m] # NoTask /\ task'[m] # NoTask
        /\ task'[m].got = got
        /\ task'[m].found = (IF got = Nothing THEN cache[m] ELSE got).media
    BY <1>1, Polled DEF IntakeInv
  <1>4. got \in {Nothing, cache[m]} \cup {behind[m][i] : i \in 1..Len(behind[m])}
    <2>1. Ordered(m) /\ behind[m] \in Seq(Content)
      BY VersionIs DEF IntakeInv, MessageInv
    <2>2. CASE behind[m] = << >>
      BY <2>1, <2>2 DEF Ordered
    <2>3. CASE behind[m] # << >>
      <3>1. Len(behind[m]) \in 1..Len(behind[m])
        BY <2>1, <2>3
      <3> QED
        BY <2>1, <2>3, <3>1 DEF Ordered
    <2> QED
      BY <2>2, <2>3
  <1>5. TaskTrue(m)'
    BY <1>2, <1>3, <1>4 DEF TaskTrue, Carried
  <1> QED
    BY <1>2, <1>3, <1>5, LookingKeeps

LEMMA SubmitKeeps ==
  ASSUME IntakeInv, ModerationIntakeAssumption, NEW m \in Posts, HydratedSubmits(m)
  PROVE  MessageInv(m)'
  <1>1. /\ task[m].stage = "build" /\ MessageInv(m) /\ IntakeTypeOK /\ task[m] # NoTask
        /\ gifCreates[m] \in Nat
    BY TaskIs DEF HydratedSubmits, IntakeInv, IntakeTyped, IntakeTypeOK
  <1>2. PICK v \in Content : v = Carried(m)
    BY <1>1, CarriedIs
  <1>3. /\ Submit(m, "CREATE", v) /\ Remember(m) /\ task'[m] = NoTask
        /\ UNCHANGED <<remote, behind, cache, call>>
    BY <1>2, TaskEnded DEF HydratedSubmits, Carried, IntakeInv
  <1>4. /\ lost \subseteq lost' /\ sent[m] \subseteq sent'[m]
        /\ gifCreates'[m] = gifCreates[m]
              \/ (gifCreates'[m] = gifCreates[m] + 1 /\ v.media /\ ~Full)
        /\ m \in lost' \/ v \in sent'[m]
    BY <1>1, <1>3, Submitted
  <1>5. gifCreates[m] = 0 /\ task[m].found = v.media
    BY <1>1, <1>2 DEF MessageInv, AskedOnce, TaskTrue
  <1>6. gifCreates'[m] \in {0, 1} /\ (gifCreates'[m] # 0 => m \in marked')
    BY <1>3, <1>4, <1>5 DEF Remember
  <1>7. \A d \in Calls : ~Late(d, m) /\ ~Enabling(d, m)
    BY <1>1 DEF MessageInv, AskedOnce, Unasked
  <1>8. \A d \in Calls : ~Late(d, m)' /\ ~Enabling(d, m)'
    BY <1>3, <1>7 DEF Late, Enabling
  <1>9. cache[m] # Nothing
    BY <1>1 DEF MessageInv, AskedOnce, Unasked
  <1>10. AskedOnce(m)'
    BY <1>3, <1>6, <1>8, <1>9, task'[m] = NoTask DEF AskedOnce, Unasked
  <1>11. v \in {cache[m]} \cup {behind[m][i] : i \in 1..Len(behind[m])}
    BY <1>1, <1>2 DEF MessageInv, TaskTrue, Carried
  <1>12. MarkedIsSent(m)'
    <2> SUFFICES ASSUME m \in marked', ~cache[m].media  PROVE MarkedIsSent(m)'
      BY <1>3 DEF MarkedIsSent
    <2>1. CASE m \in marked
      BY <2>1, <1>1, <1>3, <1>4 DEF MessageInv, MarkedIsSent
    <2>2. CASE m \notin marked
      <3>1. v.media /\ ~Full
        BY <2>2, <1>3, <1>5 DEF Remember
      <3>2. v \in sent'[m]
        BY <1>1, <1>3, <3>1 DEF Submit, IntakeTypeOK
      <3>3. PICK i \in 1..Len(behind[m]) : v = behind[m][i]
        BY <1>11, <3>1
      <3> QED
        BY <1>3, <3>1, <3>2, <3>3 DEF MarkedIsSent
    <2> QED
      BY <2>1, <2>2
  <1>13. Seen(m)'
    <2>1. CASE behind[m] = << >>
      <3>1. Len(behind[m]) = 0
        BY <2>1
      <3>2. v = cache[m]
        BY <1>11, <3>1
      <3> QED
        BY <3>2, <1>3, <1>4 DEF Seen
    <2> QED
      BY <2>1, <1>3 DEF Seen
  <1>14. Ordered(m)' /\ MediaIsGif(m)' /\ TaskTrue(m)'
    <2>1. task'[m].stage # "build"
      BY <1>3 DEF NoTask
    <2> QED
      BY <1>1, <1>3, <2>1 DEF MessageInv, Ordered, MediaIsGif, TaskTrue
  <1> QED
    BY <1>10, <1>12, <1>13, <1>14 DEF MessageInv

LEMMA HydrationRaisedKeeps ==
  ASSUME IntakeInv, NEW m \in Posts, HydrationRaises(m)
  PROVE  MessageInv(m)'
  <1>1. /\ task[m].stage = "build" /\ MessageInv(m) /\ task[m] # NoTask
    BY TaskIs DEF HydrationRaises, IntakeInv, IntakeTyped
  <1>2. /\ task'[m] = NoTask /\ m \in lost'
        /\ UNCHANGED <<remote, behind, cache, call, marked, sent, gifCreates>>
    BY TaskEnded DEF HydrationRaises, IntakeInv
  <1>3. \A d \in Calls : ~Late(d, m)' /\ ~Enabling(d, m)'
    BY <1>1, <1>2 DEF MessageInv, AskedOnce, Unasked, Late, Enabling
  <1>4. AskedOnce(m)'
    BY <1>1, <1>2, <1>3 DEF MessageInv, AskedOnce, Unasked
  <1>5. Ordered(m)' /\ MediaIsGif(m)' /\ TaskTrue(m)' /\ MarkedIsSent(m)'
    BY <1>1, <1>2 DEF MessageInv, Ordered, MediaIsGif, TaskTrue, NoTask, MarkedIsSent
  <1> QED
    BY <1>2, <1>4, <1>5 DEF MessageInv, Seen

-----------------------------------------------------------------------------

LEMMA CallsOK ==
  ASSUME IntakeInv, [IntakeNext]_intakeVars
  PROVE  \A c \in Calls : CallOK(c)'
  <1> SUFFICES ASSUME NEW c \in Calls, call'[c] # call[c]  PROVE CallOK(c)'
    BY DEF IntakeInv, CallOK
  <1>1. IntakeTypeOK /\ CallOK(c)
    BY DEF IntakeInv, IntakeTyped
  <1>2. CASE \E d \in Calls, m \in Posts : Deliver(d, m)
    <2>1. PICK d \in Calls, m \in Posts : Deliver(d, m)
      BY <1>2
    <2>2. d = c
      BY <2>1, DeliverCases
    <2> QED
      BY <2>1, <2>2, DeliverCases DEF CallOK
  <1>3. CASE \E d \in Calls : Enabled(d)
    <2>1. PICK d \in Calls : Enabled(d)
      BY <1>3
    <2>2. d = c /\ call[c].stage = "enabled"
      BY <2>1, <1>1, CallGoesOn, CallEnds DEF Enabled
    <2>3. CASE call[c].msg \in Gifs
      BY <2>1, <2>2, <2>3, <1>1, CallEnds DEF Enabled, CallOK
    <2>4. CASE call[c].msg \notin Gifs
      BY <2>1, <2>2, <2>4, <1>1, CallGoesOn DEF Enabled, CallOK
    <2> QED
      BY <2>3, <2>4
  <1>4. CASE \E d \in Calls : Built(d) \/ BuildRaises(d)
    <2>1. PICK d \in Calls : call' = [call EXCEPT ![d] = NoCall]
      BY <1>4 DEF Built, BuildRaises
    <2> QED
      BY <2>1, <1>1, CallEnds DEF CallOK
  <1>5. CASE call' = call
    BY <1>5
  <1> QED
    BY <1>2, <1>3, <1>4, <1>5
       DEF IntakeNext, intakeVars, bot, Hydration, Handler, Write,
           Embed, Becomes, Wake, Poll, HydratedSubmits,
           HydrationRaises, Get, Serve

LEMMA PendingKept ==
  ASSUME IntakeInv, ModerationIntakeAssumption, [IntakeNext]_intakeVars
  PROVE  PendingHasTask'
  <1>1. PendingHasTask /\ IntakeTyped /\ IntakeTypeOK
    BY DEF IntakeInv, IntakeTyped
  <1>2. ASSUME NEW m \in Posts, TaskEnds(m)  PROVE PendingHasTask'
    BY <1>1, <1>2, TaskEnded DEF PendingHasTask, TaskEnds
  <1>3. ASSUME NEW m \in Posts, task[m] # NoTask, task'[m] # NoTask, pending' = pending,
               \A n \in Posts \ {m} : task'[n] = task[n]
        PROVE  PendingHasTask'
    BY <1>1, <1>3 DEF PendingHasTask
  <1>4. CASE \E c \in Calls : Enabled(c)
    <2>1. PICK c \in Calls : Enabled(c)
      BY <1>4
    <2>2. call[c].msg \in Posts
      BY <2>1, <1>1, CallIs DEF Enabled
    <2>3. PICK m \in Posts : m = call[c].msg
      BY <2>2
    <2>4. CASE m \in Gifs
      <3>1. /\ pending' = pending \cup {m}
            /\ \A n \in Posts \ {m} : task'[n] = task[n]
            /\ task'[m].stage = "fetch"
        BY <2>1, <2>3, <2>4, <1>1 DEF Enabled, IntakeTypeOK
      <3>2. task'[m] # NoTask
        BY <3>1 DEF NoTask
      <3> QED
        BY <1>1, <3>1, <3>2 DEF PendingHasTask
    <2>5. CASE m \notin Gifs
      BY <2>1, <2>3, <2>5, <1>1 DEF Enabled, PendingHasTask
    <2> QED
      BY <2>4, <2>5
  <1>5. CASE \E m \in Posts : Wake(m)
    BY <1>1, <1>3, <1>5, Woken DEF Wake
  <1>6. CASE \E m \in Posts : Poll(m, remote[m]) \/ Poll(m, Nothing)
    <2>1. PICK m \in Posts : Poll(m, remote[m]) \/ Poll(m, Nothing)
      BY <1>6
    <2>2. Nothing \in Content
      BY DEF Nothing, Content, ModerationIntakeAssumption
    <2>3. /\ task[m] # NoTask /\ task'[m] # NoTask
          /\ \A n \in Posts \ {m} : task'[n] = task[n]
      BY <1>1, <2>1, <2>2, Polled, VersionIs
    <2>4. pending' = pending
      BY <2>1 DEF Poll
    <2> QED
      BY <1>3, <2>3, <2>4
  <1>7. CASE \E m \in Posts : HydratedSubmits(m) \/ HydrationRaises(m)
    BY <1>2, <1>7 DEF HydratedSubmits, HydrationRaises
  <1>8. CASE \E c \in Calls, m \in Posts : Deliver(c, m)
    BY <1>1, <1>8, DeliverTyped DEF PendingHasTask
  <1>9. CASE UNCHANGED <<pending, task>>
    BY <1>1, <1>9 DEF PendingHasTask
  <1> QED
    BY <1>4, <1>5, <1>6, <1>7, <1>8, <1>9
       DEF IntakeNext, intakeVars, bot, Hydration, Handler, Write,
           Embed, Becomes, Built, BuildRaises, Get, Serve

LEMMA MessagesKept ==
  ASSUME IntakeInv, ModerationIntakeAssumption, Calm, [IntakeNext]_intakeVars
  PROVE  \A m \in Posts : MessageInv(m)'
  <1> SUFFICES ASSUME NEW n \in Posts  PROVE MessageInv(n)'
    OBVIOUS
  <1>1. MessageInv(n) /\ IntakeTyped /\ IntakeTypeOK
    BY DEF IntakeInv, IntakeTyped
  <1>2. ASSUME Elsewhere(n)  PROVE MessageInv(n)'
    BY <1>1, <1>2, ElsewhereKeeps
  <1>3. ASSUME NEW m \in Posts, Write(m) \/ Embed(m)  PROVE MessageInv(n)'
    <2>1. PICK v \in Content :
             /\ Becomes(m, v) /\ Follows(remote[m], v)
             /\ v.media => remote[m].media \/ m \in Gifs
      BY <1>1, <1>3, WriteBecomes, EmbedBecomes DEF Follows
    <2>2. CASE m = n
      BY <2>1, <2>2, <1>1, BecomesKeeps
    <2>3. CASE m # n
      BY <2>1, <2>3, <1>1, <1>2 DEF Becomes, bot, intakeHist, IntakeTypeOK, Elsewhere
    <2> QED
      BY <2>2, <2>3
  <1>4. ASSUME NEW m \in Posts, Wake(m)  PROVE MessageInv(n)'
    <2>1. CASE m = n
      BY <1>4, <2>1, WakeKeeps
    <2>2. CASE m # n
      BY <1>1, <1>2, <1>4, <2>2, Woken DEF Wake, intakeHist, Elsewhere
    <2> QED
      BY <2>1, <2>2
  <1>5. ASSUME NEW m \in Posts, NEW got \in {remote[m], Nothing}, Poll(m, got)
        PROVE  MessageInv(n)'
    <2>1. CASE m = n
      BY <1>5, <2>1, PollKeeps
    <2>2. CASE m # n
      <3>1. got \in Content
        <4>1. Nothing \in Content
          BY DEF Nothing, Content, ModerationIntakeAssumption
        <4> QED
          BY <1>1, <4>1, VersionIs
      <3> QED
        BY <1>1, <1>2, <1>5, <2>2, <3>1, Polled DEF Poll, intakeHist, Elsewhere
    <2> QED
      BY <2>1, <2>2
  <1>6. ASSUME NEW m \in Posts, HydratedSubmits(m)  PROVE MessageInv(n)'
    <2>1. CASE m = n
      BY <1>6, <2>1, SubmitKeeps
    <2>2. CASE m # n
      <3>1. /\ Carried(m) \in Content /\ Submit(m, "CREATE", Carried(m))
            /\ TaskEnds(m)
            /\ n \in marked' <=> n \in marked
            /\ UNCHANGED <<remote, behind, cache, call>>
        BY <1>1, <1>6, <2>2, CarriedIs DEF HydratedSubmits, Remember, Carried
      <3> QED
        BY <1>1, <1>2, <2>2, <3>1, TaskEnded, Submitted DEF Elsewhere
    <2> QED
      BY <2>1, <2>2
  <1>7. ASSUME NEW m \in Posts, HydrationRaises(m)  PROVE MessageInv(n)'
    <2>1. CASE m = n
      BY <1>7, <2>1, HydrationRaisedKeeps
    <2>2. CASE m # n
      BY <1>1, <1>2, <1>7, <2>2, TaskEnded DEF HydrationRaises, Elsewhere
    <2> QED
      BY <2>1, <2>2
  <1>8. ASSUME NEW c \in Calls, Enabled(c)  PROVE MessageInv(n)'
    <2>1. CASE call[c].msg = n
      BY <1>8, <2>1, EnabledKeeps
    <2>2. CASE call[c].msg # n
      <3>1. /\ ~In(c, n)
            /\ UNCHANGED <<remote, behind, cache, marked, sent, gifCreates, lost>>
            /\ task'[n] = task[n]
        BY <1>1, <1>8, <2>2 DEF Enabled, intakeHist, IntakeTypeOK, In
      <3>2. /\ ~In(c, n)' /\ \A d \in Calls \ {c} : call'[d] = call[d]
        BY <1>1, <1>8, <2>2, CallGoesOn, CallEnds DEF Enabled, In
      <3> QED
        BY <1>2, <3>1, <3>2 DEF Elsewhere
    <2> QED
      BY <2>1, <2>2
  <1>9. ASSUME NEW c \in Calls, Built(c)  PROVE MessageInv(n)'
    <2>1. CASE call[c].msg = n
      BY <1>9, <2>1, BuiltKeeps
    <2>2. CASE call[c].msg # n
      <3>1. /\ call[c].msg \in Posts /\ call[c].event \in {"CREATE", "UPDATE"}
            /\ cache[call[c].msg] \in Content
        BY <1>1, <1>9, CallIs DEF Built, IntakeTypeOK
      <3>2. /\ Submit(call[c].msg, call[c].event, cache[call[c].msg])
            /\ n \in marked' <=> n \in marked
            /\ call' = [call EXCEPT ![c] = NoCall]
            /\ UNCHANGED <<remote, behind, cache, task>>
        BY <1>9, <2>2 DEF Built
      <3>3. gifCreates'[n] = gifCreates[n] /\ sent[n] \subseteq sent'[n] /\ lost \subseteq lost'
        BY <1>1, <2>2, <3>1, <3>2, Submitted
      <3>4. /\ ~In(c, n) /\ ~In(c, n)' /\ \A d \in Calls \ {c} : call'[d] = call[d]
        BY <1>1, <2>2, <3>2, CallEnds DEF In
      <3> QED
        BY <1>2, <3>2, <3>3, <3>4 DEF Elsewhere
    <2> QED
      BY <2>1, <2>2
  <1>10. ASSUME NEW c \in Calls, BuildRaises(c)  PROVE MessageInv(n)'
    <2>1. CASE call[c].msg = n
      BY <1>10, <2>1, RaisedKeeps
    <2>2. CASE call[c].msg # n
      <3>1. /\ ~In(c, n) /\ ~In(c, n)' /\ \A d \in Calls \ {c} : call'[d] = call[d]
        BY <1>1, <1>10, <2>2, CallEnds DEF BuildRaises, In
      <3> QED
        BY <1>2, <1>10, <3>1 DEF BuildRaises, Elsewhere
    <2> QED
      BY <2>1, <2>2
  <1>11. ASSUME NEW c \in Calls, NEW m \in Posts, Deliver(c, m)  PROVE MessageInv(n)'
    <2>1. CASE m = n
      BY <1>11, <2>1, DeliverKeeps
    <2>2. CASE m # n
      <3>1. /\ UNCHANGED <<remote, task, marked, sent, gifCreates, lost>>
            /\ cache'[n] = cache[n] /\ behind'[n] = behind[n]
        BY <1>1, <1>11, <2>2, DeliverTyped DEF Deliver, IntakeTypeOK
      <3>2. /\ \A d \in Calls \ {c} : call'[d] = call[d]
            /\ call'[c] = call[c] \/ (~In(c, n) /\ ~In(c, n)')
        BY <1>11, <2>2, DeliverCases DEF In
      <3> QED
        BY <1>2, <3>1, <3>2 DEF Elsewhere
    <2> QED
      BY <2>1, <2>2
  <1>12. CASE UNCHANGED <<remote, behind, cache, call, task, marked, sent, gifCreates, lost>>
    BY <1>2, <1>12 DEF Elsewhere
  <1> QED
    BY <1>3, <1>4, <1>5, <1>6, <1>7, <1>8, <1>9, <1>10, <1>11, <1>12
       DEF IntakeNext, intakeVars, bot, intakeHist, Hydration, Handler,
           Get, Serve

LEMMA IntakeInvInit ==
  ASSUME ModerationIntakeAssumption, IntakeInit
  PROVE  IntakeInv
  <1>1. IntakeTyped /\ PendingHasTask
    BY IntakeTypedInit DEF IntakeInit, PendingHasTask
  <1>2. \A c \in Calls : CallOK(c) /\ \A m \in Posts : ~In(c, m) /\ ~Enabling(c, m) /\ ~Late(c, m)
    BY DEF IntakeInit, NoCall, CallOK, In, Enabling, Late
  <1>3. ASSUME NEW m \in Posts  PROVE MessageInv(m)
    <2>1. /\ cache[m] = Nothing /\ remote[m] = Nothing /\ behind[m] = << >>
          /\ task[m] = NoTask /\ gifCreates[m] = 0 /\ m \notin marked
          /\ Len(behind[m]) = 0 /\ ~Nothing.media /\ NoTask.stage # "build"
      BY DEF IntakeInit, Nothing, NoTask
    <2>2. Ordered(m) /\ MediaIsGif(m) /\ TaskTrue(m) /\ MarkedIsSent(m) /\ Seen(m)
      BY <2>1 DEF Ordered, MediaIsGif, TaskTrue, MarkedIsSent, Seen
    <2>3. AskedOnce(m)
      BY <1>2, <2>1 DEF AskedOnce, Unasked
    <2> QED
      BY <2>2, <2>3 DEF MessageInv
  <1> QED
    BY <1>1, <1>2, <1>3 DEF IntakeInv

LEMMA IntakeInvHolds ==
  ASSUME Calm
  PROVE  IntakeSpec => []IntakeInv
  <1>1. IntakeInit => IntakeInv
    BY ModerationIntakeAssumption, IntakeInvInit
  <1>2. IntakeInv /\ [IntakeNext]_intakeVars => IntakeInv'
    BY ModerationIntakeAssumption, IntakeTypedStep, PendingKept, CallsOK, MessagesKept DEF IntakeInv
  <1> QED
    BY <1>1, <1>2, PTL DEF IntakeSpec

\* A GIF is submitted once, whatever Discord, the queue and failing requests do:
\* the update that brings its embed is left to the task, or found marked by it.
THEOREM GifAskedOnce ==
  ASSUME Calm
  PROVE  IntakeSpec => []OneGifRequest
  <1>1. IntakeInv => OneGifRequest
    BY DEF IntakeInv, MessageInv, AskedOnce, OneGifRequest
  <1> QED
    BY <1>1, IntakeInvHolds, PTL

\* What Discord shows of a message was submitted, once everything is delivered
\* and nothing is under way, unless a request of the message was refused or failed.
THEOREM EverythingSeen ==
  ASSUME Calm
  PROVE  IntakeSpec => []NothingMissed
  <1>1. IntakeInv => NothingMissed
    <2> SUFFICES ASSUME IntakeInv, NEW m \in Posts \ lost, remote[m] # Nothing,
                        Settled(m)
                 PROVE  remote[m] \in sent[m]
      BY DEF NothingMissed
    <2>1. MessageInv(m)
      BY DEF IntakeInv
    <2>2. behind[m] = << >> /\ task[m] = NoTask /\ \A c \in Calls : ~In(c, m)
      BY DEF Settled, InFlight, In
    <2>3. remote[m] = cache[m]
      BY <2>1, <2>2 DEF MessageInv, Ordered
    <2> QED
      BY <2>1, <2>2, <2>3 DEF MessageInv, Seen
  <1> QED
    BY <1>1, IntakeInvHolds, PTL
=============================================================================
